----------------------------- MODULE MCPipeline -----------------------------
(***************************************************************************)
(* Constant values for the runs of Pipeline.                               *)
(***************************************************************************)
EXTENDS Pipeline

(* Message 3 comes a topic gap after message 2 and replies to message 1.   *)
MCSentAt == [p \in Chats \X Ids |-> IF p[2] <= 2 THEN 0 ELSE 2]
MCReplyTo == [p \in Chats \X Ids |-> IF p[2] = 3 THEN 1 ELSE 0]

(* No gap, no replies. *)
MCSameTime == [p \in Chats \X Ids |-> 0]
MCNoReply == [p \in Chats \X Ids |-> 0]

(* Every message comes a topic gap after the one before it.                *)
MCApart == [p \in Chats \X Ids |-> 2 * p[2]]

(* Every message has usable text; or the second of one chat has none.      *)
MCUsable == [p \in Chats \X Ids |-> "normalized"]
MCBlank == LET c == CHOOSE c \in Chats : TRUE IN
  [p \in Chats \X Ids |-> IF p = <<c, 2>> THEN "skipped" ELSE "normalized"]

(* pipeline_crash: the redelivery a bot crash causes is explored without   *)
(* errors and up to the first candidate; all else without it.              *)
MCOne == botCrashes = 0 \/ (faults = 0 /\ candidates = <<>>)
=============================================================================
