------------------------------ MODULE Pipeline ------------------------------
(***************************************************************************)
(* The bot and the worker together, over the Redis lists and the tables    *)
(* they share, and what is expected of them.                               *)
(***************************************************************************)
EXTENDS Capture, SyncWorker

Next == CaptureNext \/ WorkerNext

Fairness == CaptureFairness /\ WorkerFairness

Spec == PipelineInit /\ [][Next]_vars
FairSpec == Spec /\ Fairness
-----------------------------------------------------------------------------
(* Types of all variables. *)
TypeOK ==
  /\ handler \in [Chats -> [Ids -> HandlerPc]]
  /\ confirmed \in [Chats -> 0..MaxId]
  /\ botCrashes \in 0..MaxBotCrashes
  /\ inHand \in Nat
  /\ cards \in Seq(Nat)
  /\ shown \in Seq(Nat)
  /\ configured \in [Chats -> BOOLEAN]
  /\ paused \in [Chats -> BOOLEAN]
  /\ buffer \in [Chats -> [Ids -> Nat]]
  /\ lock \in [Chats -> BOOLEAN]
  /\ jobs \in Seq(Job)
  /\ notify \in Seq(Nat)
  /\ status \in [Chats -> [Ids -> MsgStatus]]
  /\ watermark \in [Chats -> 0..MaxId]
  /\ runsRunning \in Nat
  /\ candidates \in Seq(Candidate)
  /\ worker \in Work
  /\ crashes \in 0..MaxCrashes
  /\ extracted \in [Chats -> [Ids -> Nat]]
  /\ manual \in 0..MaxManual
  /\ changes \in 0..MaxChanges
  /\ faults \in 0..MaxFaults

(* sync_states.last_external_message_id is the largest id stored for the   *)
(* chat, whatever failed, crashed or was delivered twice: the filter of    *)
(* the next drain is never below a stored message (a duplicate insert) nor *)
(* above all of them (a hole the sync made up).                            *)
WatermarkIsLastRow ==
  \A c \in Chats :
    /\ \A m \in Rows(c) : m <= watermark[c]
    /\ watermark[c] # 0 => watermark[c] \in Rows(c)

(* What is in the worker's hands between drain and save lies above the     *)
(* watermark, so run_sync's lookup of stored ids never finds any: the      *)
(* watermark alone prevents duplicates.                                    *)
BatchAboveRows ==
  worker.pc = "save" =>
    \A m \in Ids : worker.batch[m] > 0 =>
      \A n \in Rows(worker.chat) : n < m

(* sync_runs rows left "running" are those of the sync in progress and of  *)
(* syncs a crash or an unrecorded failure cut short, never of a sync that  *)
(* merely failed; and the sync in progress always has its row.             *)
Pending == IF worker.pc \in {"read", "delete", "save", "fail"} THEN 1 ELSE 0

RunsAccounted ==
  /\ Pending <= runsRunning
  /\ runsRunning <= Pending + crashes + faults

(* A message is covered by a second usable extraction only if a crash or a *)
(* database error came between the commit of its candidates and            *)
(* _mark_analyzed: at most one repetition for each.                        *)
ExtractionsBounded ==
  \A c \in Chats : \A m \in Ids : extracted[c][m] <= 1 + crashes + faults

(* The notify queue announces every candidate with an assignee once: an id *)
(* is at most once among the queued notifications, the one in hand and the *)
(* cards the consumer posted, it is the id of a committed candidate with   *)
(* an assignee, and those that are neither there nor still to be queued    *)
(* were lost by a crash of the worker or an error, which cost what one     *)
(* answer may hold, or by a crash of the bot, which costs the one in hand. *)
(* (The panel's review screen posts the same cards again: shown.)          *)
Announcements ==
  notify \o (IF inHand = 0 THEN <<>> ELSE <<inHand>>) \o cards

Lost ==
  {k \in DOMAIN candidates :
     /\ candidates[k].linked
     /\ \A i \in DOMAIN Announcements : Announcements[i] # k
     /\ ~(worker.pc = "notify" /\ worker.next <= k)}

AnnouncedOnce ==
  /\ \A i, j \in DOMAIN Announcements :
       Announcements[i] = Announcements[j] => i = j
  /\ \A i \in DOMAIN Announcements :
       /\ Announcements[i] \in DOMAIN candidates
       /\ candidates[Announcements[i]].linked
  /\ Cardinality(Lost) <= MaxPerPass * (crashes + faults) + botCrashes

(* Without crashes and transient failures the pipeline leaves nothing      *)
(* half-way: when the worker is idle, every stored message of every chat   *)
(* has been classified, and the usable ones analyzed.                      *)
NothingHalfWay ==
  (worker.pc = "idle" /\ crashes = 0 /\ faults = 0) =>
    \A c \in Chats : \A m \in Ids : status[c][m] \notin {"new", "normalized"}
-----------------------------------------------------------------------------
(* The messages table goes through the steps of MessageLedger only: the    *)
(* mapping keeps the table and forgets the queue, the buffer and the       *)
(* processes.                                                              *)
Ledger == INSTANCE MessageLedger
  WITH Chats <- Chats, MaxId <- MaxId, Outcome <- Outcome,
       status <- status, watermark <- watermark
LedgerSpec == Ledger!LedgerSpec

(* Every job is worked off and every retry ends: once no message arrives,  *)
(* the queue runs empty and the worker idles for good, even if every sync  *)
(* fails.                                                                  *)
Quiesces == <>[](jobs = <<>> /\ worker.pc = "idle")

(* What keeps a buffered record from the messages table: the DELETE is     *)
(* about to take more copies of it than fetch_messages returns, because it *)
(* came after the LRANGE, below the watermark or beyond the batch; a sync  *)
(* fails that had taken it off the buffer; the last attempt of a job of    *)
(* its chat has failed.                                                    *)
Dropped(c, m) ==
  /\ worker.pc = "delete" /\ worker.chat = c
  /\ buffer[c][m] > Fetched(worker.batch, watermark[c])[m]

LostInFailure(c, m) ==
  /\ worker.pc = "fail" /\ worker.chat = c
  /\ buffer[c][m] = 0 /\ worker.batch[m] > 0

GivenUp(c) ==
  /\ worker.pc = "requeue" /\ worker.chat = c
  /\ ~worker.ok /\ worker.attempts + 1 = MaxAttempts

(* The record whose task won the debounce lock is stored as a message, but *)
(* for these three.                                                        *)
LockWinnerStored ==
  \A c \in Chats : \A m \in Ids :
    (handler[c][m] = "enqueue" /\ buffer[c][m] > 0)
      ~> (\/ status[c][m] # "absent"
          \/ Dropped(c, m)
          \/ LostInFailure(c, m)
          \/ GivenUp(c))

(* Without crashes and faults, a candidate with an assignee reaches the    *)
(* review chat through the notify queue.                                   *)
LinkedIsPosted ==
  \A k \in 1..(MaxId * MaxPerPass) :
    (k \in DOMAIN candidates /\ candidates[k].linked)
      ~> (\E i \in DOMAIN cards : cards[i] = k)
-----------------------------------------------------------------------------
(* What comments, docs and tests say of the pipeline and the code does not *)
(* do; each is refuted by a run of its own.                                *)

(* ingest.py: "everything else in the window only buffers. The one job     *)
(* drains the whole buffer."                                               *)
BufferedIsDrained ==
  \A c \in Chats : \A m \in Ids : buffer[c][m] > 0 ~> buffer[c][m] = 0

(* extract.py: "a later sync never re-emits a task for a message that      *)
(* already became a candidate".                                            *)
NoReEmission ==
  [][\A k \in (Len(candidates) + 1)..Len(candidates') :
       \A i \in DOMAIN candidates :
         <<candidates[i].chat, candidates[i].src>>
           # <<candidates'[k].chat, candidates'[k].src>>]_vars

(* test-plan.md: "A failed message can be reprocessed": a sync that fails  *)
(* leaves what it had read in the buffer.                                  *)
FailedSyncKeepsRecords ==
  [][(worker.pc \in {"delete", "save"} /\ worker'.pc = "fail") =>
       \A m \in Ids : worker.batch[m] > 0 => buffer'[worker.chat][m] > 0]_vars
=============================================================================
