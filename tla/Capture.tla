------------------------------ MODULE Capture ------------------------------
(***************************************************************************)
(* The bot's capture path (telegram_app._capture, ingest.ingest_message),  *)
(* the configuration handlers that open and close it, and the two paths    *)
(* that post candidate cards to the review chat: the consumer of the       *)
(* notify queue and the admin panel's review screen.                       *)
(*                                                                         *)
(* aiogram starts a task per update, and each Redis call of a task runs in *)
(* a thread of its own: between any two calls of one task, any step of     *)
(* another task or of the worker may happen.  One action is one call.      *)
(***************************************************************************)
EXTENDS PipelineState

(* Task (c, m) passes from one step to the next. *)
Goto(c, m, from, to) ==
  /\ handler[c][m] = from
  /\ handler' = [handler EXCEPT ![c][m] = to]

captureRest == <<confirmed, botCrashes, reviewVars, notify, dbVars,
                 workerVars, manual, faults>>
-----------------------------------------------------------------------------
(* Telegram hands the next update of chat c to the bot, which starts a     *)
(* task for it.                                                            *)
Deliver(c) ==
  \E m \in Ids :
    /\ Delivered(c) = 1..(m - 1)
    /\ Goto(c, m, "unseen", "gate")
    /\ UNCHANGED <<captureRest, configVars, redisIn>>

(* _capture: an unconfigured chat is offered onboarding, nothing is kept. *)
CheckConfigured(c, m) ==
  /\ Goto(c, m, "gate", IF configured[c] THEN "pause" ELSE "done")
  /\ UNCHANGED <<captureRest, configVars, redisIn>>

(* _capture: a paused chat's message is silently discarded. *)
CheckPaused(c, m) ==
  /\ Goto(c, m, "pause", IF paused[c] THEN "done" ELSE "gate2")
  /\ UNCHANGED <<captureRest, configVars, redisIn>>

(* ingest_message reads the configuration a second time. *)
CheckConfiguredAgain(c, m) ==
  /\ Goto(c, m, "gate2", IF configured[c] THEN "push" ELSE "done")
  /\ UNCHANGED <<captureRest, configVars, redisIn>>

(* push_botbuf.  The list is kept as a bag: the drain reads all of it and  *)
(* sorts it by id, so the order of arrival is never observed.              *)
Push(c, m) ==
  /\ Goto(c, m, "push", "lock")
  /\ buffer' = [buffer EXCEPT ![c][m] = @ + 1]
  /\ UNCHANGED <<captureRest, configVars, lock, jobs>>

(* SET botlock NX EX: only the task that sets the key enqueues a job. *)
TryLock(c, m) ==
  /\ Goto(c, m, "lock", IF lock[c] THEN "done" ELSE "enqueue")
  /\ lock' = [lock EXCEPT ![c] = TRUE]
  /\ UNCHANGED <<captureRest, configVars, buffer, jobs>>

(* Mutant: no job while the worker is busy with this chat. *)
EnqueueUnlessBusy(c, m) ==
  /\ Goto(c, m, "enqueue", "done")
  /\ jobs' = IF worker.pc # "idle" /\ worker.chat = c THEN jobs
             ELSE Append(jobs, [chat |-> c, attempts |-> 0])
  /\ UNCHANGED <<captureRest, configVars, buffer, lock>>

(* enqueue_sync with attempts = 0. *)
Enqueue(c, m) ==
  /\ Goto(c, m, "enqueue", "done")
  /\ jobs' = Append(jobs, [chat |-> c, attempts |-> 0])
  /\ UNCHANGED <<captureRest, configVars, buffer, lock>>

(* A Redis call raises: the task dies where it is, what it did stays. *)
HandlerFails(c, m) ==
  /\ faults < MaxFaults
  /\ handler[c][m] \in InFlight
  /\ Goto(c, m, handler[c][m], "done")
  /\ faults' = faults + 1
  /\ UNCHANGED <<confirmed, botCrashes, reviewVars, notify, dbVars,
                 workerVars, manual, configVars, redisIn>>

(* The debounce key's time to live runs out. *)
LockExpires(c) ==
  /\ lock[c]
  /\ lock' = [lock EXCEPT ![c] = FALSE]
  /\ UNCHANGED <<handler, captureRest, configVars, buffer, jobs>>

(* The bot process dies and restarts.  Tasks in flight are gone; Telegram  *)
(* delivers again every update the bot had not confirmed, whether or not   *)
(* its task had finished.  Updates are confirmed in order, up to cut.      *)
BotCrash ==
  /\ botCrashes < MaxBotCrashes
  /\ botCrashes' = botCrashes + 1
  /\ \E cut \in [Chats -> 0..MaxId] :
       /\ \A c \in Chats : /\ confirmed[c] <= cut[c]
                           /\ 1..cut[c] \subseteq Delivered(c)
       /\ confirmed' = cut
       /\ handler' = [c \in Chats |-> [m \in Ids |->
            CASE handler[c][m] = "unseen" -> "unseen"
              [] handler[c][m] # "unseen" /\ m <= cut[c] -> "done"
              [] handler[c][m] # "unseen" /\ m > cut[c] -> "gate"]]
  /\ inHand' = 0
  /\ UNCHANGED <<cards, shown, configVars, redisIn, notify, dbVars,
                 workerVars, manual, faults>>
-----------------------------------------------------------------------------
configRest == <<botVars, reviewVars, redisIn, notify, dbVars, workerVars,
                manual, faults>>

(* handle_destination_choice: an admin configures the chat. *)
Configure(c) ==
  /\ changes < MaxChanges
  /\ changes' = changes + 1
  /\ configured' = [configured EXCEPT ![c] = TRUE]
  /\ UNCHANGED <<configRest, paused>>

(* on_bot_removed_from_group: only the configuration is cleared; the pause *)
(* key, the buffer and the lock stay.                                      *)
Remove(c) ==
  /\ changes < MaxChanges
  /\ changes' = changes + 1
  /\ configured' = [configured EXCEPT ![c] = FALSE]
  /\ UNCHANGED <<configRest, paused>>

(* _admin_pause_resume: pause_chat or resume_chat. *)
PauseOrResume(c) ==
  /\ changes < MaxChanges
  /\ changes' = changes + 1
  /\ paused' = [paused EXCEPT ![c] = ~@]
  /\ UNCHANGED <<configRest, configured>>

(* POST /api/sync/run and the admin panel's sync button enqueue a job      *)
(* whatever the lock says.                                                 *)
ManualSync(c) ==
  /\ manual < MaxManual
  /\ manual' = manual + 1
  /\ jobs' = Append(jobs, [chat |-> c, attempts |-> 0])
  /\ UNCHANGED <<botVars, reviewVars, configVars, buffer, lock, notify,
                 dbVars, workerVars, faults>>
-----------------------------------------------------------------------------
reviewRest == <<botVars, configVars, redisIn, dbVars, workerVars, manual>>

(* _notify_consumer takes the oldest notification off its queue. *)
TakeNotify ==
  /\ inHand = 0
  /\ notify # <<>>
  /\ inHand' = Head(notify)
  /\ notify' = Tail(notify)
  /\ UNCHANGED <<reviewRest, cards, shown, faults>>

(* It fetches the candidate and posts its card. *)
PostCard ==
  /\ inHand # 0
  /\ cards' = Append(cards, inHand)
  /\ inHand' = 0
  /\ UNCHANGED <<reviewRest, shown, notify, faults>>

(* The fetch or the send fails: the notification is dropped. *)
CardFails ==
  /\ faults < MaxFaults
  /\ faults' = faults + 1
  /\ inHand # 0
  /\ inHand' = 0
  /\ UNCHANGED <<reviewRest, notify, cards, shown>>

(* _admin_review and _admin_cb: each tap on the panel's review screen      *)
(* posts up to ten candidates' cards to the same chat, whatever the        *)
(* consumer has posted or a tap before.  One action is one card.  Which    *)
(* candidates are still pending is module Review's.                        *)
ShowCard ==
  /\ Len(shown) < MaxShown
  /\ \E k \in DOMAIN candidates : shown' = Append(shown, k)
  /\ UNCHANGED <<reviewRest, inHand, cards, notify, faults>>
-----------------------------------------------------------------------------
HandlerStep(c, m) ==
  \/ CheckConfigured(c, m)
  \/ CheckPaused(c, m)
  \/ CheckConfiguredAgain(c, m)
  \/ Push(c, m)
  \/ TryLock(c, m)
  \/ Enqueue(c, m)

CaptureNext ==
  \/ \E c \in Chats :
       \/ Deliver(c)
       \/ LockExpires(c)
       \/ Configure(c)
       \/ Remove(c)
       \/ PauseOrResume(c)
       \/ ManualSync(c)
       \/ \E m \in Ids : HandlerStep(c, m) \/ HandlerFails(c, m)
  \/ BotCrash
  \/ TakeNotify
  \/ PostCard
  \/ CardFails
  \/ ShowCard

(* asyncio runs every started task, Redis expires every key with a time to *)
(* live, and the notify consumer loops for ever.                           *)
CaptureFairness ==
  /\ \A c \in Chats : /\ WF_vars(LockExpires(c))
                      /\ \A m \in Ids : WF_vars(HandlerStep(c, m))
  /\ WF_vars(TakeNotify)
  /\ WF_vars(PostCard)
=============================================================================
