------------------------------ MODULE MCReview ------------------------------
(***************************************************************************)
(* Constant values for the runs of Review.                                 *)
(***************************************************************************)
EXTENDS Review

CONSTANTS a1, a2, t1, t2

Primary(a) == [who |-> a, primary |-> TRUE, by |-> 0]

Candidate(status, due, people, missing) ==
  [status |-> status, title |-> t1, due |-> due, people |-> people,
   missing |-> missing]

(* A confident one with an assignee and no due date. *)
MCReady == [c \in Candidates |->
              Candidate("new", FALSE, {Primary(a1)}, {})]
=============================================================================
