----------------------------- MODULE SyncWorker -----------------------------
(***************************************************************************)
(* The worker (consumer.process_job and what it calls): one process that   *)
(* takes a job, drains the chat's buffer into the messages table,          *)
(* normalises, asks the LLM for candidates, announces them, and requeues   *)
(* the job when the sync failed.                                           *)
(*                                                                         *)
(* One action is one Redis call or one database commit: between two of     *)
(* them the bot may do anything, and the worker may die.                   *)
(***************************************************************************)
EXTENDS PipelineState

chat == worker.chat

(* The worker passes to step pc, other fields of the job unchanged. *)
At(pc) == worker.pc = pc
GoOn(pc) == worker' = [worker EXCEPT !.pc = pc]
GoIdle == worker' = NoWork

workerRest == <<botVars, reviewVars, configVars, lock, manual>>
-----------------------------------------------------------------------------
(* The drained records above the watermark: a pair (id, copy) for each.    *)
Records(list, after) ==
  UNION {{m} \X (1..list[m]) : m \in {i \in Ids : i > after}}

(* The sort by id, stable on the copies of one id. *)
Before(p, q) == p[1] < q[1] \/ (p[1] = q[1] /\ p[2] < q[2])

(* The first BatchLimit of them. *)
Taken(records) ==
  {p \in records : Cardinality({q \in records : Before(q, p)}) < BatchLimit}

(* Mutant: the watermark filter is dropped. *)
FetchedUnfiltered(list, after) ==
  [m \in Ids |-> Cardinality({p \in Taken(Records(list, 0)) : p[1] = m})]

(* What fetch_messages returns for the drained records, as a bag of ids. *)
Fetched(list, after) ==
  [m \in Ids |-> Cardinality({p \in Taken(Records(list, after)) : p[1] = m})]

(* run_sync inserts the fetched records whose id is not stored yet.  The   *)
(* lookup of stored ids precedes the inserts, so a second copy of a new id *)
(* is inserted too and breaks the unique constraint.                       *)
Unstored(c, batch) == {m \in Ids : batch[m] > 0 /\ status[c][m] = "absent"}
BreaksUnique(c, batch) == \E m \in Unstored(c, batch) : batch[m] > 1

NewMessages == {p \in Chats \X Ids : status[p[1]][p[2]] = "new"}

(* Mutant: new_only is dropped. *)
FreshOrAnalyzed(c) == {m \in Ids : status[c][m] \in {"normalized", "analyzed"}}

(* build_context with new_only: the last Window normalized messages, cut   *)
(* at the last gap longer than TopicGap, plus the messages they reply to.  *)
Fresh(c) == {m \in Ids : status[c][m] = "normalized"}

Recent(c) ==
  {m \in Fresh(c) : Cardinality({n \in Fresh(c) : n > m}) < Window}

Segment(c) ==
  {m \in Recent(c) : \A x, y \in Recent(c) :
     (m <= x /\ x < y /\ \A z \in Recent(c) : z <= x \/ y <= z)
        => SentAt[<<c, y>>] - SentAt[<<c, x>>] <= TopicGap}

Context(c) ==
  Segment(c) \cup
    {m \in Rows(c) : \E n \in Segment(c) : ReplyTo[<<c, n>>] = m}

(* The candidates a usable LLM answer leads to: any, each anchored at a    *)
(* message the LLM was shown, with or without a resolved assignee.         *)
Answers(c) ==
  UNION {[1..n -> [chat : {c}, src : Context(c), linked : BOOLEAN]] :
           n \in 0..MaxPerPass}
-----------------------------------------------------------------------------
(* BRPOP: the job leaves the queue, nothing else remembers it. *)
Dequeue ==
  /\ At("idle")
  /\ jobs # <<>>
  /\ worker' = [Idle(Head(jobs).chat) EXCEPT
                  !.pc = "start", !.attempts = Head(jobs).attempts]
  /\ jobs' = Tail(jobs)
  /\ UNCHANGED <<workerRest, buffer, notify, dbVars, crashes, faults>>

(* run_sync commits a sync_runs row "running" before any fallible work. *)
StartRun ==
  /\ At("start")
  /\ GoOn("read")
  /\ runsRunning' = runsRunning + 1
  /\ UNCHANGED <<workerRest, buffer, jobs, notify, status, watermark,
                 candidates, extracted, crashes, faults>>

(* fetch_messages: LRANGE 0 -1. *)
ReadBuffer ==
  /\ At("read")
  /\ worker' = [worker EXCEPT !.pc = "delete", !.batch = buffer[chat]]
  /\ UNCHANGED <<workerRest, redisIn, notify, dbVars, crashes, faults>>

(* Mutant: the watermark moves before the messages are stored. *)
DeleteBufferAdvances ==
  /\ At("delete")
  /\ LET batch == Fetched(worker.batch, watermark[chat]) IN
       /\ worker' = [worker EXCEPT !.pc = "save", !.batch = batch]
       /\ watermark' = [watermark EXCEPT ![chat] =
            Max({m \in Ids : batch[m] > 0} \cup {@})]
  /\ buffer' = [buffer EXCEPT ![chat] = NoRecords]
  /\ UNCHANGED <<workerRest, jobs, notify, status, runsRunning, candidates,
                 extracted, crashes, faults>>

(* fetch_messages: DELETE, then filter what LRANGE returned. *)
DeleteBuffer ==
  /\ At("delete")
  /\ worker' = [worker EXCEPT !.pc = "save",
                              !.batch = Fetched(@, watermark[chat])]
  /\ buffer' = [buffer EXCEPT ![chat] = NoRecords]
  /\ UNCHANGED <<workerRest, jobs, notify, dbVars, crashes, faults>>

(* The commit that stores the messages, the watermark and the run. *)
SaveBatch ==
  /\ At("save")
  /\ ~BreaksUnique(chat, worker.batch)
  /\ LET new == Unstored(chat, worker.batch) IN
       /\ status' = [status EXCEPT ![chat] =
            [m \in Ids |-> IF m \in new THEN "new" ELSE @[m]]]
       /\ \E last \in new \cup {watermark[chat]} :
            /\ \A m \in new \cup {watermark[chat]} : m <= last
            /\ watermark' = [watermark EXCEPT ![chat] = last]
       /\ worker' = [worker EXCEPT !.pc = "normalize", !.batch = NoRecords,
                                   !.ok = TRUE, !.saved = (new # {})]
  /\ runsRunning' = runsRunning - 1
  /\ UNCHANGED <<workerRest, redisIn, notify, candidates, extracted, crashes,
                 faults>>

(* The same commit fails on the unique constraint; all of it is undone. *)
SaveRejected ==
  /\ At("save")
  /\ BreaksUnique(chat, worker.batch)
  /\ GoOn("fail")
  /\ UNCHANGED <<workerRest, redisIn, notify, dbVars, crashes, faults>>

(* Mutant: the run's status is not written back after the rollback. *)
RecordFailureLeavesRun ==
  /\ At("fail")
  /\ worker' = [worker EXCEPT !.pc = "normalize", !.batch = NoRecords]
  /\ UNCHANGED <<workerRest, redisIn, notify, dbVars, crashes, faults>>

(* run_sync's except branch commits the run as failed. *)
RecordFailure ==
  /\ At("fail")
  /\ worker' = [worker EXCEPT !.pc = "normalize", !.batch = NoRecords]
  /\ runsRunning' = runsRunning - 1
  /\ UNCHANGED <<workerRest, redisIn, notify, status, watermark, candidates,
                 extracted, crashes, faults>>

(* normalize_pending: up to NormalizeLimit new messages of any chat, after *)
(* a failed sync too.                                                      *)
Normalize ==
  /\ At("normalize")
  /\ \E batch \in SUBSET NewMessages :
       /\ Cardinality(batch) =
            Min({NormalizeLimit, Cardinality(NewMessages)})
       /\ status' = [c \in Chats |-> [m \in Ids |->
            IF <<c, m>> \in batch THEN Outcome[<<c, m>>] ELSE status[c][m]]]
  /\ GoOn(IF worker.saved THEN "extract" ELSE "requeue")
  /\ UNCHANGED <<workerRest, redisIn, notify, watermark, runsRunning,
                 candidates, extracted, crashes, faults>>
-----------------------------------------------------------------------------
(* extract_candidates commits the candidates of a usable answer. *)
ExtractCandidates ==
  /\ At("extract")
  /\ Context(chat) # {}
  /\ \E answer \in Answers(chat) : candidates' = candidates \o answer
  /\ extracted' = [extracted EXCEPT ![chat] =
       [m \in Ids |-> IF m \in Segment(chat) THEN @[m] + 1 ELSE @[m]]]
  /\ worker' = [worker EXCEPT !.pc = "notify", !.next = Len(candidates) + 1]
  /\ UNCHANGED <<workerRest, redisIn, notify, status, watermark, runsRunning,
                 crashes, faults>>

(* No context; or the LLM fails, or its answer is unusable: the exception  *)
(* is swallowed and the job goes on as if the messages had been extracted. *)
ExtractNothing ==
  /\ At("extract")
  /\ GoOn("mark")
  /\ UNCHANGED <<workerRest, redisIn, notify, dbVars, crashes, faults>>

(* Mutant: candidates without an assignee are announced too. *)
NotifyEvery ==
  /\ At("notify")
  /\ worker.next <= Len(candidates)
  /\ notify' = Append(notify, worker.next)
  /\ worker' = [worker EXCEPT !.next = @ + 1]
  /\ UNCHANGED <<workerRest, redisIn, dbVars, crashes, faults>>

(* run_pipeline announces each new candidate that has an assignee. *)
NotifyNext ==
  /\ At("notify")
  /\ worker.next <= Len(candidates)
  /\ notify' = IF candidates[worker.next].linked
               THEN Append(notify, worker.next) ELSE notify
  /\ worker' = [worker EXCEPT !.next = @ + 1]
  /\ UNCHANGED <<workerRest, redisIn, dbVars, crashes, faults>>

(* Mutant: the loop may end one candidate early. *)
NotifyDoneEarly ==
  /\ At("notify")
  /\ worker.next >= Len(candidates)
  /\ GoOn("mark")
  /\ UNCHANGED <<workerRest, redisIn, notify, dbVars, crashes, faults>>

(* The loop is over. *)
NotifyDone ==
  /\ At("notify")
  /\ worker.next > Len(candidates)
  /\ GoOn("mark")
  /\ UNCHANGED <<workerRest, redisIn, notify, dbVars, crashes, faults>>

(* Mutant: only the messages the LLM was shown as new are marked. *)
MarkSegment ==
  /\ At("mark")
  /\ status' = [status EXCEPT ![chat] =
       [m \in Ids |-> IF m \in Segment(chat) THEN "analyzed" ELSE @[m]]]
  /\ GoOn("requeue")
  /\ UNCHANGED <<workerRest, redisIn, notify, watermark, runsRunning,
                 candidates, extracted, crashes, faults>>

(* _mark_analyzed: every normalized message of the chat. *)
MarkAnalyzed ==
  /\ At("mark")
  /\ status' = [status EXCEPT ![chat] =
       [m \in Ids |-> IF m \in Fresh(chat) THEN "analyzed" ELSE @[m]]]
  /\ GoOn("requeue")
  /\ UNCHANGED <<workerRest, redisIn, notify, watermark, runsRunning,
                 candidates, extracted, crashes, faults>>

(* Mutant: one attempt too many. *)
RequeueOffByOne ==
  /\ At("requeue")
  /\ jobs' = IF ~worker.ok /\ worker.attempts < MaxAttempts
             THEN Append(jobs, [chat |-> chat,
                                attempts |-> worker.attempts + 1])
             ELSE jobs
  /\ GoIdle
  /\ UNCHANGED <<workerRest, buffer, notify, dbVars, crashes, faults>>

(* Mutant: the attempts are not counted. *)
RequeueForever ==
  /\ At("requeue")
  /\ jobs' = IF ~worker.ok /\ worker.attempts + 1 < MaxAttempts
             THEN Append(jobs, [chat |-> chat, attempts |-> worker.attempts])
             ELSE jobs
  /\ GoIdle
  /\ UNCHANGED <<workerRest, buffer, notify, dbVars, crashes, faults>>

(* process_job puts a failed job back with one attempt more, or gives up. *)
Requeue ==
  /\ At("requeue")
  /\ jobs' = IF ~worker.ok /\ worker.attempts + 1 < MaxAttempts
             THEN Append(jobs, [chat |-> chat,
                                attempts |-> worker.attempts + 1])
             ELSE jobs
  /\ GoIdle
  /\ UNCHANGED <<workerRest, buffer, notify, dbVars, crashes, faults>>
-----------------------------------------------------------------------------
Fault == faults < MaxFaults /\ faults' = faults + 1

(* A Redis or database error inside run_sync's try block, where it is      *)
(* handled.  A DELETE whose reply is lost may have been carried out.       *)
SyncFails ==
  /\ SyncMayFail
  /\ worker.pc \in {"read", "delete", "save"}
  /\ GoOn("fail")
  /\ \/ UNCHANGED buffer
     \/ At("delete") /\ buffer' = [buffer EXCEPT ![chat] = NoRecords]
  /\ UNCHANGED <<workerRest, jobs, notify, dbVars, crashes, faults>>

(* Redis fails under enqueue_notify: the remaining candidates are skipped. *)
NotifyFails ==
  /\ Fault
  /\ At("notify")
  /\ worker.next <= Len(candidates)
  /\ candidates[worker.next].linked
  /\ GoOn("mark")
  /\ UNCHANGED <<workerRest, redisIn, notify, dbVars, crashes>>

(* An error no handler of process_job catches (a database error anywhere   *)
(* else, or Redis under the requeue): the main loop logs it and the job is *)
(* gone.  A database error during extraction is caught, but leaves the     *)
(* session unusable, so that _mark_analyzed raises.                        *)
JobAborted ==
  /\ Fault
  /\ worker.pc \in {"start", "fail", "normalize", "extract", "notify",
                    "mark", "requeue"}
  /\ GoIdle
  /\ UNCHANGED <<workerRest, redisIn, notify, dbVars, crashes>>

(* The worker process dies and restarts. *)
WorkerCrash ==
  /\ crashes < MaxCrashes
  /\ crashes' = crashes + 1
  /\ ~At("idle")
  /\ GoIdle
  /\ UNCHANGED <<workerRest, redisIn, notify, dbVars, faults>>
-----------------------------------------------------------------------------
WorkerStep ==
  \/ Dequeue
  \/ StartRun
  \/ ReadBuffer
  \/ DeleteBuffer
  \/ SaveBatch
  \/ SaveRejected
  \/ RecordFailure
  \/ Normalize
  \/ ExtractCandidates
  \/ ExtractNothing
  \/ NotifyNext
  \/ NotifyDone
  \/ MarkAnalyzed
  \/ Requeue

WorkerNext ==
  \/ WorkerStep
  \/ SyncFails
  \/ NotifyFails
  \/ JobAborted
  \/ WorkerCrash

(* The main loop polls the queue for ever. *)
WorkerFairness == WF_vars(WorkerStep)
=============================================================================
