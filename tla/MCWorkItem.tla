----------------------------- MODULE MCWorkItem -----------------------------
(***************************************************************************)
(* Constant values for the run of WorkItem: two admins and an assignee.    *)
(***************************************************************************)
EXTENDS WorkItem

CONSTANTS a1, a2, d1, d2, d3

MCRole == [d \in Drawers |-> IF d = d3 THEN a1 ELSE "admin"]
MCOriginal == [c \in Columns |-> "old"]

(* The original due date has a time of day, the new one is its midnight. *)
MCResent == [c \in Columns |-> [v \in Values |->
               IF c = "due_date" /\ v = "old" THEN "new" ELSE v]]
MCPromotions == {{}, {[who |-> a1, primary |-> TRUE, by |-> 0]}}
=============================================================================
