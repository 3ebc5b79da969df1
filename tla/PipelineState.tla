--------------------------- MODULE PipelineState ---------------------------
(***************************************************************************)
(* The state shared by the bot (module Capture) and the worker (module     *)
(* SyncWorker): Redis, the tables the worker writes, and the two           *)
(* processes' local state.                                                 *)
(*                                                                         *)
(* A Telegram message is a pair (chat, id); ids grow per chat in posting   *)
(* order.  Message text, senders and dates are abstracted to the three     *)
(* constant functions SentAt, ReplyTo and Outcome.                         *)
(***************************************************************************)
EXTENDS Integers, Sequences, FiniteSets, FiniteSetsExt

CONSTANTS
  Chats,          \* the group chats the bot is a member of
  MaxId,          \* bound: messages posted per chat
  BatchLimit,     \* run_sync's batch_limit (200)
  NormalizeLimit, \* normalize_pending's limit (500)
  MaxAttempts,    \* consumer.MAX_ATTEMPTS (3)
  Window,         \* context.DEFAULT_WINDOW (20)
  TopicGap,       \* context.DEFAULT_TOPIC_GAP_MINUTES (60)
  SentAt,         \* [Chats \X Ids -> Nat], when a message was sent
  ReplyTo,        \* [Chats \X Ids -> Nat], the id it replies to, 0 for none
  Outcome,        \* [Chats \X Ids -> ...], the status normalisation gives it
  MaxPerPass,     \* bound: candidates in one LLM answer
  MaxManual,      \* bound: syncs requested by an admin
  MaxChanges,     \* bound: configure / remove / pause / resume operations
  MaxShown,       \* bound: cards the admin panel's review screen posts
  MaxBotCrashes,  \* bound: crashes of the bot process
  MaxCrashes,     \* bound: crashes of the worker process
  MaxFaults,      \* bound: Redis, database or Telegram errors that end a task
  SyncMayFail     \* whether run_sync's own Redis and database calls may fail

Ids == 1..MaxId

ASSUME PipelineAssumption ==
  /\ Chats # {}
  /\ MaxId \in Nat
  /\ BatchLimit \in Nat \ {0}
  /\ NormalizeLimit \in Nat \ {0}
  /\ MaxAttempts \in Nat \ {0}
  /\ Window \in Nat \ {0}
  /\ TopicGap \in Nat
  /\ SentAt \in [Chats \X Ids -> Nat]
  /\ ReplyTo \in [Chats \X Ids -> Nat]
  /\ Outcome \in [Chats \X Ids -> {"normalized", "skipped", "failed"}]
  /\ MaxPerPass \in Nat
  /\ MaxManual \in Nat
  /\ MaxChanges \in Nat
  /\ MaxShown \in Nat
  /\ MaxBotCrashes \in Nat
  /\ MaxCrashes \in Nat
  /\ MaxFaults \in Nat
  /\ SyncMayFail \in BOOLEAN
-----------------------------------------------------------------------------
VARIABLES
  (* the bot process *)
  handler,     \* [Chats -> [Ids -> HandlerPc]], the task handling each update
  confirmed,   \* [Chats -> 0..MaxId], updates Telegram will not deliver again
  botCrashes,
  inHand,      \* the candidate whose card the notify consumer is sending, or 0
  cards,       \* Seq(Nat), the cards the consumer posted to the review chat
  shown,       \* Seq(Nat), those the panel's review screen posted there
  (* Redis *)
  configured,  \* [Chats -> BOOLEAN], aiwip:botcfg:{chat}
  paused,      \* [Chats -> BOOLEAN], aiwip:botpause:{chat}
  buffer,      \* [Chats -> [Ids -> Nat]], aiwip:botbuf:{chat}
  lock,        \* [Chats -> BOOLEAN], aiwip:botlock:{chat}
  jobs,        \* Seq(Job), aiwip:jobs
  notify,      \* Seq(Nat), aiwip:bot:notify
  (* Postgres *)
  status,      \* [Chats -> [Ids -> MsgStatus]], messages.processing_status
  watermark,   \* [Chats -> 0..MaxId], sync_states.last_external_message_id
  runsRunning, \* Nat, sync_runs rows whose status is still "running"
  candidates,  \* Seq(Candidate), the candidates table; the index is the id
  (* the worker process *)
  worker,      \* the job in progress
  crashes,
  (* bookkeeping *)
  extracted,   \* [Chats -> [Ids -> Nat]], usable LLM answers that covered it
  manual,      \* manual syncs so far
  changes,     \* configuration changes so far
  faults       \* errors that ended a task so far

botVars == <<handler, confirmed, botCrashes>>
reviewVars == <<inHand, cards, shown>>
configVars == <<configured, paused, changes>>
redisIn == <<buffer, lock, jobs>>
dbVars == <<status, watermark, runsRunning, candidates, extracted>>
workerVars == <<worker, crashes>>

vars == <<handler, confirmed, botCrashes, inHand, cards, shown, configured,
          paused, buffer, lock, jobs, notify, status, watermark, runsRunning,
          candidates, worker, crashes, extracted, manual, changes, faults>>
-----------------------------------------------------------------------------
(* The steps of _capture and ingest_message, in program order. "unseen" is *)
(* an update not delivered yet, "done" a task that has returned or died.   *)
HandlerPc == {"unseen", "gate", "pause", "gate2", "push", "lock", "enqueue",
              "done"}
InFlight == HandlerPc \ {"unseen", "done"}

MsgStatus == {"absent", "new", "normalized", "skipped", "failed", "analyzed"}

Job == [chat : Chats, attempts : 0..(MaxAttempts - 1)]

Candidate == [chat : Chats, src : Ids, linked : BOOLEAN]

(* The steps of process_job, in program order. *)
WorkerPc == {"idle", "start", "read", "delete", "save", "fail", "normalize",
             "extract", "notify", "mark", "requeue"}

NoRecords == [m \in Ids |-> 0]

(* A job in progress: the records taken from the buffer, whether the run   *)
(* succeeded and saved something, and the next candidate to surface.       *)
Work == [pc : WorkerPc, chat : Chats, attempts : 0..(MaxAttempts - 1),
         batch : [Ids -> Nat], ok : BOOLEAN, saved : BOOLEAN, next : Nat]

Idle(c) == [pc |-> "idle", chat |-> c, attempts |-> 0, batch |-> NoRecords,
            ok |-> FALSE, saved |-> FALSE, next |-> 0]

NoWork == Idle(CHOOSE c \in Chats : TRUE)

Rows(c) == {m \in Ids : status[c][m] # "absent"}
Delivered(c) == {m \in Ids : handler[c][m] # "unseen"}

PipelineInit ==
  /\ handler = [c \in Chats |-> [m \in Ids |-> "unseen"]]
  /\ confirmed = [c \in Chats |-> 0]
  /\ botCrashes = 0
  /\ inHand = 0
  /\ cards = <<>>
  /\ shown = <<>>
  /\ configured \in [Chats -> BOOLEAN]
  /\ paused = [c \in Chats |-> FALSE]
  /\ buffer = [c \in Chats |-> NoRecords]
  /\ lock = [c \in Chats |-> FALSE]
  /\ jobs = <<>>
  /\ notify = <<>>
  /\ status = [c \in Chats |-> [m \in Ids |-> "absent"]]
  /\ watermark = [c \in Chats |-> 0]
  /\ runsRunning = 0
  /\ candidates = <<>>
  /\ worker = NoWork
  /\ crashes = 0
  /\ extracted = [c \in Chats |-> [m \in Ids |-> 0]]
  /\ manual = 0
  /\ changes = 0
  /\ faults = 0
=============================================================================
