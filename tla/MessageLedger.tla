--------------------------- MODULE MessageLedger ---------------------------
(***************************************************************************)
(* What the worker promises about the messages table, without the queue,   *)
(* the buffer, the retries and the crashes: per chat, messages are stored  *)
(* in batches that lie above everything stored before, once each; they are *)
(* then classified, and the usable ones are marked analyzed.  Nothing is   *)
(* ever deleted or taken back.                                             *)
(***************************************************************************)
EXTENDS Integers

CONSTANTS Chats, MaxId, Outcome

Ids == 1..MaxId

VARIABLES status, watermark

LedgerInit ==
  /\ status = [c \in Chats |-> [m \in Ids |-> "absent"]]
  /\ watermark = [c \in Chats |-> 0]

(* A sync stores a batch of messages and moves the watermark to its last. *)
Store(c, batch) ==
  /\ \A m \in batch : m > watermark[c] /\ status[c][m] = "absent"
  /\ status' = [status EXCEPT ![c] =
       [m \in Ids |-> IF m \in batch THEN "new" ELSE @[m]]]
  /\ \E last \in batch : /\ \A m \in batch : m <= last
                        /\ watermark' = [watermark EXCEPT ![c] = last]

(* Some new messages, of any chats, get the status their content earns. *)
Classify(batch) ==
  /\ \A p \in batch : status[p[1]][p[2]] = "new"
  /\ status' = [c \in Chats |-> [m \in Ids |->
       IF <<c, m>> \in batch THEN Outcome[<<c, m>>] ELSE status[c][m]]]
  /\ UNCHANGED watermark

(* Every usable message of a chat leaves the extraction window for good. *)
Analyze(c) ==
  /\ status' = [status EXCEPT ![c] =
       [m \in Ids |-> IF @[m] = "normalized" THEN "analyzed" ELSE @[m]]]
  /\ UNCHANGED watermark

LedgerNext ==
  \/ \E c \in Chats : \E batch \in SUBSET Ids : Store(c, batch)
  \/ \E batch \in SUBSET (Chats \X Ids) : Classify(batch)
  \/ \E c \in Chats : Analyze(c)

LedgerSpec == LedgerInit /\ [][LedgerNext]_<<status, watermark>>
=============================================================================
