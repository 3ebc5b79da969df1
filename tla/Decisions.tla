----------------------------- MODULE Decisions -----------------------------
(***************************************************************************)
(* What review promises to those who read its tables: every candidate has  *)
(* one status, an approval makes its work item in the same step, at most   *)
(* one per candidate, and no work item is ever taken back.  A decision     *)
(* that was loaded before an approval may still be written after it.       *)
(*                                                                         *)
(* Review implements this specification; the screens of Panel read it.     *)
(***************************************************************************)
EXTENDS Integers, Sequences, FiniteSets

CONSTANT Candidates  \* candidate ids

VARIABLES
  status,  \* status of each candidate extracted so far
  tasks    \* source_candidate_id of each work item; the index is its id

CandidateStatus == {"new", "needs_review", "edited", "approved", "rejected",
                    "duplicate", "error"}

Known == DOMAIN status
Promoted == {tasks[i] : i \in DOMAIN tasks}

DecisionsInit ==
  /\ \E known \in SUBSET Candidates :
       status \in [known -> {"new", "needs_review"}]
  /\ tasks = <<>>

(* The worker stores a candidate. *)
Extract(c, s) ==
  /\ c \notin Known
  /\ status' = [d \in Known \cup {c} |-> IF d = c THEN s ELSE status[d]]
  /\ UNCHANGED tasks

(* An edit, a rejection or a mark as duplicate is committed. *)
Decide(c, s) ==
  /\ c \in Known
  /\ status' = [status EXCEPT ![c] = s]
  /\ UNCHANGED tasks

(* An approval is committed. *)
Promote(c) ==
  /\ c \in Known
  /\ c \notin Promoted
  /\ status' = [status EXCEPT ![c] = "approved"]
  /\ tasks' = Append(tasks, c)

DecisionsNext ==
  \E c \in Candidates :
    \/ \E s \in {"new", "needs_review"} : Extract(c, s)
    \/ \E s \in {"edited", "rejected", "duplicate"} : Decide(c, s)
    \/ Promote(c)

DecisionsSpec == DecisionsInit /\ [][DecisionsNext]_<<status, tasks>>
=============================================================================
