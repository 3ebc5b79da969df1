--------------------------- MODULE Pipeline_proofs ---------------------------
(***************************************************************************)
(* Theorems about Pipeline for every set of chats, every number of         *)
(* messages and every bound on crashes and faults.                         *)
(***************************************************************************)
EXTENDS Pipeline, TLAPS, FiniteSetTheorems

(* A tuple of variables is always expanded. *)
USE DEF vars, botVars, reviewVars, configVars,
    redisIn, dbVars, workerVars
-----------------------------------------------------------------------------
(* Any set of ids has a last one. *)
LEMMA LastId ==
  ASSUME NEW S \in SUBSET Ids, S # {}
  PROVE  \E x \in S : \A y \in S : y <= x
<1> DEFINE R == {ss \in Nat \X Nat : ss[1] < ss[2]}
           D == {n \in 0..MaxId : MaxId - n \in S}
<1>0. MaxId \in Nat
  BY PipelineAssumption
<1>1. IsWellFoundedOn(R, Nat)
  BY NatLessThanWellFounded DEF OpToRel
<1>2. \A y \in S : y \in 1..MaxId /\ MaxId - y \in D /\ MaxId - (MaxId - y) = y
  BY <1>0 DEF Ids
<1>3. D \subseteq Nat /\ D # {}
  BY <1>0, <1>2
<1>4. PICK n \in D : \A k \in D : <<k, n>> \notin R
  <2> HIDE DEF R, D
  <2>1. QED
    BY <1>1, <1>3, WFMin
<1>5. \A k \in D : ~(k < n)
  BY <1>3, <1>4
<1>6. \A y \in S : y <= MaxId - n
  <2>1. n \in Nat /\ \A k \in D : k \in Nat
    BY <1>3
  <2> HIDE DEF R, D
  <2>2. QED
    BY <1>0, <1>2, <1>5, <2>1
<1>7. MaxId - n \in S
  BY <1>4
<1>8. QED
  BY <1>6, <1>7

(* The drained records are finitely many, above the watermark, and with a  *)
(* copy of an id come the earlier copies of it.                            *)
LEMMA RecordsFinite ==
  ASSUME NEW list \in [Ids -> Nat], NEW after \in Nat
  PROVE  /\ IsFiniteSet(Records(list, after))
         /\ \A p \in Records(list, after) :
              /\ p \in Ids \X (Nat \ {0})
              /\ p[1] > after
              /\ <<p[1], 1>> \in Records(list, after)
<1> DEFINE S == {i \in Ids : i > after}
           T == {{m} \X (1..list[m]) : m \in S}
           f == [m \in S |-> {m} \X (1..list[m])]
<1>0. MaxId \in Nat
  BY PipelineAssumption
<1>1. Records(list, after) = UNION T
  BY DEF Records
<1>2. IsFiniteSet(S)
  BY <1>0, FS_Interval, FS_Subset DEF Ids
<1>3. f \in Surjection(S, T)
  BY DEF Surjection
<1>4. ASSUME NEW m \in S PROVE IsFiniteSet({m} \X (1..list[m]))
  <2>1. IsFiniteSet({m})
    BY FS_Singleton
  <2>2. list[m] \in Int
    OBVIOUS
  <2>3. IsFiniteSet(1..list[m])
    BY <2>2, FS_Interval
  <2>4. QED
    BY <2>1, <2>3, FS_Product
<1>5. \A t \in T : IsFiniteSet(t)
  BY <1>4
<1>6. IsFiniteSet(T)
  <2> HIDE DEF S, T, f
  <2>1. QED
    BY <1>2, <1>3, FS_Surjection
<1>7. IsFiniteSet(UNION T)
  <2> HIDE DEF T
  <2>1. QED
    BY <1>5, <1>6, FS_UNION
<1>8. ASSUME NEW p \in UNION T
      PROVE  /\ p \in Ids \X (Nat \ {0})
             /\ p[1] > after
             /\ <<p[1], 1>> \in UNION T
  <2>1. PICK m \in S : p \in {m} \X (1..list[m])
    OBVIOUS
  <2>2. p[1] = m /\ p[2] \in 1..list[m] /\ p = <<p[1], p[2]>> /\ list[m] \in Nat
    BY <2>1
  <2>3. <<m, 1>> \in {m} \X (1..list[m])
    BY <2>2
  <2>4. QED
    BY <2>1, <2>2, <2>3
<1>9. QED
  BY <1>1, <1>7, <1>8

(* The part of a finite set of records that lies before one of them. *)
LEMMA EarlierFinite ==
  ASSUME NEW records, IsFiniteSet(records), NEW p
  PROVE  /\ IsFiniteSet({q \in records : Before(q, p)})
         /\ Cardinality({q \in records : Before(q, p)}) \in Nat
<1>1. {q \in records : Before(q, p)} \in SUBSET records
  OBVIOUS
<1>2. QED
  BY <1>1, FS_Subset, FS_CardinalityType

(* A drained batch counts records: it is a bag of ids.  The count of each  *)
(* id is the cardinality of a set of copies.                               *)
LEMMA FetchedType ==
  ASSUME NEW list \in [Ids -> Nat], NEW after \in Nat
  PROVE  /\ Fetched(list, after) \in [Ids -> Nat]
         /\ \A m \in Ids : Fetched(list, after)[m] > 0 =>
              /\ m > after
              /\ \E p \in Taken(Records(list, after)) : p[1] = m
<1> DEFINE Copies(m) == {p \in Taken(Records(list, after)) : p[1] = m}
<1>1. Taken(Records(list, after)) \subseteq Records(list, after)
  BY DEF Taken
<1>2. ASSUME NEW m \in Ids
      PROVE  /\ Cardinality(Copies(m)) \in Nat
             /\ Cardinality(Copies(m)) > 0 => Copies(m) # {}
  <2>1. Copies(m) \in SUBSET Records(list, after)
    BY <1>1
  <2> HIDE DEF Copies
  <2>2. IsFiniteSet(Copies(m))
    BY <2>1, RecordsFinite, FS_Subset
  <2>3. QED
    BY <2>2, FS_CardinalityType, FS_EmptySet
<1>3. Fetched(list, after) = [m \in Ids |-> Cardinality(Copies(m))]
  BY DEF Fetched
<1>4. ASSUME NEW m \in Ids, Copies(m) # {}
      PROVE  /\ m > after
             /\ \E p \in Taken(Records(list, after)) : p[1] = m
  BY <1>1, <1>4, RecordsFinite
<1> HIDE DEF Copies
<1>5. QED
  BY <1>2, <1>3, <1>4

(* No more than BatchLimit different messages are taken at a time: a copy  *)
(* of each of the others lies before the copies of the last.               *)
LEMMA FetchedBounded ==
  ASSUME NEW list \in [Ids -> Nat], NEW after \in Nat
  PROVE  LET ids == {m \in Ids : Fetched(list, after)[m] > 0}
         IN  IsFiniteSet(ids) /\ Cardinality(ids) <= BatchLimit
<1> DEFINE ids == {m \in Ids : Fetched(list, after)[m] > 0}
           records == Records(list, after)
<1>0. BatchLimit \in Nat /\ BatchLimit >= 1 /\ MaxId \in Nat
  BY PipelineAssumption
<1>1. ids \in SUBSET Ids
  OBVIOUS
<1>2. IsFiniteSet(ids)
  BY <1>0, <1>1, FS_Interval, FS_Subset DEF Ids
<1>3. \A m \in ids : \E p \in Taken(records) : p[1] = m
  BY FetchedType
<1> HIDE DEF ids
<1>4. CASE ids = {}
  BY <1>0, <1>2, <1>4, FS_EmptySet DEF ids
<1>5. CASE ids # {}
  <2>1. PICK x \in ids : \A y \in ids : y <= x
    BY <1>1, <1>5, LastId
  <2>2. PICK p \in Taken(records) : p[1] = x
    BY <1>3
  <2> DEFINE earlier == {q \in records : Before(q, p)}
             others == ids \ {x}
             f == [m \in others |-> <<m, 1>>]
  <2>3. Cardinality(earlier) < BatchLimit
    BY <2>2 DEF Taken
  <2>4. IsFiniteSet(earlier) /\ Cardinality(earlier) \in Nat
    BY RecordsFinite, EarlierFinite
  <2>5. ASSUME NEW m \in others PROVE <<m, 1>> \in earlier
    <3>1. PICK q \in Taken(records) : q[1] = m
      BY <1>3, <2>5
    <3>2. <<m, 1>> \in records
      BY <3>1, RecordsFinite DEF Taken
    <3>3. m \in 1..MaxId /\ x \in 1..MaxId /\ m <= x /\ m # x
      BY <1>1, <2>1, <2>5 DEF Ids
    <3>4. Before(<<m, 1>>, p)
      BY <1>0, <2>2, <3>3 DEF Before
    <3>5. QED
      BY <3>2, <3>4
  <2>6. f \in Injection(others, earlier)
    <3> HIDE DEF earlier, others
    <3>1. QED
      BY <2>5 DEF Injection, IsInjective
  <2> HIDE DEF earlier, others, f
  <2>7. Cardinality(others) <= Cardinality(earlier)
    BY <2>4, <2>6, FS_Injection
  <2>8. Cardinality(others) = Cardinality(ids) - 1 /\ Cardinality(ids) \in Nat
    BY <1>2, <2>1, FS_RemoveElement, FS_CardinalityType DEF others
  <2>9. Cardinality(ids) <= BatchLimit
    BY <1>0, <2>3, <2>4, <2>7, <2>8
  <2>10. QED
    BY <1>2, <2>9 DEF ids
<1>6. QED
  BY <1>4, <1>5

-----------------------------------------------------------------------------
(* The idle worker is a worker state. *)
LEMMA IdleType == ASSUME NEW c \in Chats PROVE Idle(c) \in Work
<1>1. 0 \in 0..(MaxAttempts - 1)
  BY PipelineAssumption
<1>2. NoRecords \in [Ids -> Nat]
  BY DEF NoRecords
<1>3. QED
  BY <1>1, <1>2 DEF Idle, Work, WorkerPc

LEMMA NoWorkType == NoWork \in Work /\ NoWork.pc = "idle"
<1>1. (CHOOSE c \in Chats : TRUE) \in Chats
  BY PipelineAssumption
<1>2. NoWork \in Work
  BY <1>1, IdleType DEF NoWork
<1>3. QED
  BY <1>2 DEF NoWork, Idle

LEMMA BoundsAreNat ==
  /\ MaxId \in Nat
  /\ MaxBotCrashes \in Nat
  /\ MaxCrashes \in Nat
  /\ MaxManual \in Nat
  /\ MaxChanges \in Nat
  /\ MaxFaults \in Nat
BY PipelineAssumption

LEMMA TypeInit == PipelineInit => TypeOK
<1> SUFFICES ASSUME PipelineInit PROVE TypeOK
  OBVIOUS
<1>1. worker \in Work
  BY NoWorkType DEF PipelineInit
<1>2. QED
  BY <1>1, BoundsAreNat DEF PipelineInit, TypeOK, HandlerPc, MsgStatus, NoRecords

(* A new job goes to the end of the queue. *)
LEMMA NewJobType ==
  ASSUME jobs \in Seq(Job), NEW c \in Chats
  PROVE  Append(jobs, [chat |-> c, attempts |-> 0]) \in Seq(Job)
<1>1. 0 \in 0..(MaxAttempts - 1)
  BY PipelineAssumption
<1>2. [chat |-> c, attempts |-> 0] \in Job
  BY <1>1 DEF Job
<1>3. QED
  BY <1>2

(* A task's step keeps the type of handler. *)
LEMMA GotoType ==
  ASSUME handler \in [Chats -> [Ids -> HandlerPc]],
         NEW c \in Chats, NEW m \in Ids, NEW from, NEW to \in HandlerPc,
         Goto(c, m, from, to)
  PROVE  handler' \in [Chats -> [Ids -> HandlerPc]]
<1>1. [handler[c] EXCEPT ![m] = to] \in [Ids -> HandlerPc]
  OBVIOUS
<1>2. handler' = [handler EXCEPT ![c] = [handler[c] EXCEPT ![m] = to]]
  BY DEF Goto
<1>3. QED
  BY <1>1, <1>2

(* The bot's steps keep the types. *)
LEMMA TypeCapture == TypeOK /\ CaptureNext => TypeOK'
<1> SUFFICES ASSUME TypeOK, CaptureNext PROVE TypeOK'
  OBVIOUS
<1> USE DEF captureRest, configRest, reviewRest
<1>0. /\ handler \in [Chats -> [Ids -> HandlerPc]]
      /\ jobs \in Seq(Job)
      /\ botCrashes \in 0..MaxBotCrashes
      /\ manual \in 0..MaxManual
      /\ changes \in 0..MaxChanges
      /\ faults \in 0..MaxFaults
  BY DEF TypeOK
<1>1. ASSUME NEW c \in Chats, Deliver(c) PROVE TypeOK'
  <2>1. PICK m \in Ids : Goto(c, m, "unseen", "gate")
    BY <1>1 DEF Deliver
  <2>2. handler' \in [Chats -> [Ids -> HandlerPc]]
    BY <1>0, <2>1, GotoType DEF HandlerPc
  <2>3. QED
    BY <1>1, <2>2 DEF Deliver, TypeOK
<1>2. ASSUME NEW c \in Chats, LockExpires(c) PROVE TypeOK'
  BY <1>2 DEF LockExpires, TypeOK
<1>3. ASSUME NEW c \in Chats, Configure(c) \/ Remove(c) \/ PauseOrResume(c)
      PROVE TypeOK'
  <2>1. changes' \in 0..MaxChanges
    BY <1>0, <1>3, BoundsAreNat DEF Configure, Remove, PauseOrResume
  <2>2. /\ configured' \in [Chats -> BOOLEAN]
        /\ paused' \in [Chats -> BOOLEAN]
    BY <1>3 DEF Configure, Remove, PauseOrResume, TypeOK
  <2>3. QED
    BY <1>3, <2>1, <2>2 DEF Configure, Remove, PauseOrResume, TypeOK
<1>4. ASSUME NEW c \in Chats, ManualSync(c) PROVE TypeOK'
  <2>1. jobs' \in Seq(Job)
    BY <1>0, <1>4, NewJobType DEF ManualSync
  <2>2. manual' \in 0..MaxManual
    BY <1>0, <1>4, BoundsAreNat DEF ManualSync
  <2>3. QED
    BY <1>4, <2>1, <2>2 DEF ManualSync, TypeOK
<1>5. ASSUME NEW c \in Chats, NEW m \in Ids, HandlerStep(c, m) PROVE TypeOK'
  <2>1. CASE CheckConfigured(c, m) \/ CheckPaused(c, m)
               \/ CheckConfiguredAgain(c, m)
    <3>1. handler' \in [Chats -> [Ids -> HandlerPc]]
      BY <1>0, <2>1, GotoType
         DEF CheckConfigured, CheckPaused, CheckConfiguredAgain, HandlerPc
    <3>2. QED
      BY <2>1, <3>1
         DEF CheckConfigured, CheckPaused, CheckConfiguredAgain, TypeOK
  <2>2. CASE Push(c, m)
    <3>1. handler' \in [Chats -> [Ids -> HandlerPc]]
      BY <1>0, <2>2, GotoType DEF Push, HandlerPc
    <3>2. buffer' \in [Chats -> [Ids -> Nat]]
      BY <2>2 DEF Push, TypeOK
    <3>3. QED
      BY <2>2, <3>1, <3>2 DEF Push, TypeOK
  <2>3. CASE TryLock(c, m)
    <3>1. handler' \in [Chats -> [Ids -> HandlerPc]]
      BY <1>0, <2>3, GotoType DEF TryLock, HandlerPc
    <3>2. lock' \in [Chats -> BOOLEAN]
      BY <2>3 DEF TryLock, TypeOK
    <3>3. QED
      BY <2>3, <3>1, <3>2 DEF TryLock, TypeOK
  <2>4. CASE Enqueue(c, m)
    <3>1. handler' \in [Chats -> [Ids -> HandlerPc]]
      BY <1>0, <2>4, GotoType DEF Enqueue, HandlerPc
    <3>2. jobs' \in Seq(Job)
      BY <1>0, <2>4, NewJobType DEF Enqueue
    <3>3. QED
      BY <2>4, <3>1, <3>2 DEF Enqueue, TypeOK
  <2>5. QED
    BY <1>5, <2>1, <2>2, <2>3, <2>4 DEF HandlerStep
<1>6. ASSUME NEW c \in Chats, NEW m \in Ids, HandlerFails(c, m) PROVE TypeOK'
  <2>1. handler' \in [Chats -> [Ids -> HandlerPc]]
    BY <1>0, <1>6, GotoType DEF HandlerFails, HandlerPc
  <2>2. faults' \in 0..MaxFaults
    BY <1>0, <1>6, BoundsAreNat DEF HandlerFails
  <2>3. QED
    BY <1>6, <2>1, <2>2 DEF HandlerFails, TypeOK
<1>7. CASE BotCrash
  <2>1. PICK cut \in [Chats -> 0..MaxId] :
          /\ confirmed' = cut
          /\ handler' = [c \in Chats |-> [m \in Ids |->
               CASE handler[c][m] = "unseen" -> "unseen"
                 [] handler[c][m] # "unseen" /\ m <= cut[c] -> "done"
                 [] handler[c][m] # "unseen" /\ m > cut[c] -> "gate"]]
    BY <1>7 DEF BotCrash
  <2>2. \A c \in Chats : \A m \in Ids : m <= cut[c] \/ m > cut[c]
    BY <2>1, PipelineAssumption DEF Ids
  <2>3. handler' \in [Chats -> [Ids -> HandlerPc]]
    BY <2>1, <2>2 DEF HandlerPc
  <2>4. botCrashes' \in 0..MaxBotCrashes
    BY <1>0, <1>7, BoundsAreNat DEF BotCrash
  <2>5. QED
    BY <1>7, <2>1, <2>3, <2>4 DEF BotCrash, TypeOK
<1>8. CASE TakeNotify
  <2>1. inHand' \in Nat /\ notify' \in Seq(Nat)
    BY <1>8 DEF TakeNotify, TypeOK
  <2>2. QED
    BY <1>8, <2>1 DEF TakeNotify, TypeOK
<1>9. CASE PostCard
  <2>1. inHand' \in Nat /\ cards' \in Seq(Nat)
    BY <1>9 DEF PostCard, TypeOK
  <2>2. QED
    BY <1>9, <2>1 DEF PostCard, TypeOK
<1>10. CASE CardFails
  <2>1. faults' \in 0..MaxFaults
    BY <1>0, <1>10, BoundsAreNat DEF CardFails
  <2>2. QED
    BY <1>10, <2>1 DEF CardFails, TypeOK
<1>11. CASE ShowCard
  <2>1. PICK k \in DOMAIN candidates : shown' = Append(shown, k)
    BY <1>11 DEF ShowCard
  <2>2. k \in Nat
    BY <2>1 DEF TypeOK
  <2>3. shown' \in Seq(Nat)
    BY <2>1, <2>2 DEF TypeOK
  <2>4. QED
    BY <1>11, <2>3 DEF ShowCard, TypeOK
<1>12. QED
  BY <1>1, <1>2, <1>3, <1>4, <1>5, <1>6, <1>7, <1>8, <1>9, <1>10, <1>11
     DEF CaptureNext

-----------------------------------------------------------------------------
(* What a sync, a normalisation and an extraction write. *)
LEMMA WorkType ==
  ASSUME worker \in Work
  PROVE  /\ worker.chat \in Chats
         /\ worker.pc \in WorkerPc
         /\ worker.attempts \in 0..(MaxAttempts - 1)
         /\ worker.batch \in [Ids -> Nat]
         /\ worker.ok \in BOOLEAN
         /\ worker.saved \in BOOLEAN
         /\ worker.next \in Nat
BY DEF Work

LEMMA GoOnType ==
  ASSUME worker \in Work, NEW pc \in WorkerPc, GoOn(pc)
  PROVE  /\ worker' \in Work
         /\ worker'.pc = pc
         /\ worker'.chat = worker.chat
BY DEF GoOn, Work

LEMMA AnswerType ==
  ASSUME candidates \in Seq(Candidate), NEW c \in Chats,
         NEW answer \in Answers(c)
  PROVE  /\ candidates \o answer \in Seq(Candidate)
         /\ Len(candidates \o answer) >= Len(candidates)
         /\ Len(candidates \o answer) <= Len(candidates) + MaxPerPass
         /\ \A i \in DOMAIN candidates :
              (candidates \o answer)[i] = candidates[i]
<1>1. PICK n \in 0..MaxPerPass :
        answer \in [1..n -> [chat : {c}, src : Context(c), linked : BOOLEAN]]
  BY DEF Answers
<1>2. n \in Nat
  OBVIOUS
<1>3. Context(c) \subseteq Ids
  BY DEF Context, Segment, Recent, Fresh, Rows
<1>4. [chat : {c}, src : Context(c), linked : BOOLEAN] \subseteq Candidate
  BY <1>3 DEF Candidate
<1>5. answer \in [1..n -> Candidate]
  BY <1>1, <1>4
<1>6. answer \in Seq(Candidate) /\ Len(answer) = n
  BY <1>2, <1>5
<1>7. n <= MaxPerPass /\ MaxPerPass \in Nat
  BY PipelineAssumption
<1>8. QED
  BY <1>2, <1>6, <1>7

(* The worker's steps keep the types. *)
LEMMA TypeWorker == TypeOK /\ RunsAccounted /\ WorkerNext => TypeOK'
<1> SUFFICES ASSUME TypeOK, RunsAccounted, WorkerNext PROVE TypeOK'
  OBVIOUS
<1> USE DEF workerRest, At, chat
<1>0. /\ worker \in Work
      /\ buffer \in [Chats -> [Ids -> Nat]]
      /\ jobs \in Seq(Job)
      /\ candidates \in Seq(Candidate)
      /\ status \in [Chats -> [Ids -> MsgStatus]]
      /\ watermark \in [Chats -> 0..MaxId]
      /\ extracted \in [Chats -> [Ids -> Nat]]
      /\ runsRunning \in Nat
      /\ notify \in Seq(Nat)
      /\ crashes \in 0..MaxCrashes
      /\ faults \in 0..MaxFaults
  BY DEF TypeOK
<1>a. /\ worker.chat \in Chats
      /\ worker.batch \in [Ids -> Nat]
      /\ worker.attempts \in 0..(MaxAttempts - 1)
      /\ worker.next \in Nat
  BY <1>0, WorkType
<1>c. /\ At("save") => runsRunning # 0
      /\ At("fail") => runsRunning # 0
  BY <1>0 DEF RunsAccounted, Pending
<1>b. GoIdle => worker' \in Work
  BY NoWorkType DEF GoIdle
<1>1. CASE Dequeue
  <2>0. Head(jobs) \in Job /\ jobs' \in Seq(Job)
    BY <1>0, <1>1 DEF Dequeue
  <2>1. /\ Head(jobs).chat \in Chats
        /\ Head(jobs).attempts \in 0..(MaxAttempts - 1)
    BY <2>0 DEF Job
  <2>2. Idle(Head(jobs).chat) \in Work
    BY <2>1, IdleType
  <2>3. worker' \in Work
    BY <1>1, <2>1, <2>2 DEF Dequeue, Work, WorkerPc
  <2>4. QED
    BY <1>1, <2>0, <2>3 DEF Dequeue, TypeOK
<1>2. CASE StartRun
  <2>1. worker' \in Work /\ runsRunning' \in Nat
    BY <1>0, <1>2, GoOnType DEF StartRun, WorkerPc
  <2>2. QED
    BY <1>2, <2>1 DEF StartRun, TypeOK
<1>3. CASE ReadBuffer
  <2>1. worker' \in Work
    BY <1>0, <1>a, <1>3 DEF ReadBuffer, Work, WorkerPc
  <2>2. QED
    BY <1>3, <2>1 DEF ReadBuffer, TypeOK
<1>4. CASE DeleteBuffer
  <2>1. watermark[worker.chat] \in Nat
    BY <1>0, <1>a, BoundsAreNat
  <2>2. Fetched(worker.batch, watermark[worker.chat]) \in [Ids -> Nat]
    BY <1>a, <2>1, FetchedType
  <2>3. worker' \in Work
    BY <1>0, <1>4, <2>2 DEF DeleteBuffer, Work, WorkerPc
  <2>4. buffer' \in [Chats -> [Ids -> Nat]]
    BY <1>0, <1>4 DEF DeleteBuffer, NoRecords
  <2>5. QED
    BY <1>4, <2>3, <2>4 DEF DeleteBuffer, TypeOK
<1>5. CASE SaveBatch
  <2>1. NoRecords \in [Ids -> Nat]
    BY DEF NoRecords
  <2>2. worker' \in Work
    BY <1>0, <1>5, <2>1 DEF SaveBatch, Work, WorkerPc
  <2>3. status' \in [Chats -> [Ids -> MsgStatus]]
    BY <1>0, <1>a, <1>5 DEF SaveBatch, MsgStatus
  <2>4. watermark' \in [Chats -> 0..MaxId]
    <3>1. PICK last \in Unstored(chat, worker.batch) \cup {watermark[chat]} :
            watermark' = [watermark EXCEPT ![chat] = last]
      BY <1>5 DEF SaveBatch
    <3>2. last \in 0..MaxId
      BY <1>0, <1>a, <3>1, BoundsAreNat DEF Unstored, Ids
    <3>3. QED
      BY <1>0, <1>a, <3>1, <3>2
  <2>5. runsRunning' \in Nat
    BY <1>0, <1>c, <1>5 DEF SaveBatch
  <2>6. QED
    BY <1>5, <2>2, <2>3, <2>4, <2>5 DEF SaveBatch, TypeOK
<1>6. CASE SaveRejected
  <2>1. worker' \in Work
    BY <1>0, <1>6, GoOnType DEF SaveRejected, WorkerPc
  <2>2. QED
    BY <1>6, <2>1 DEF SaveRejected, TypeOK
<1>7. CASE RecordFailure
  <2>1. NoRecords \in [Ids -> Nat]
    BY DEF NoRecords
  <2>2. worker' \in Work
    BY <1>0, <1>7, <2>1 DEF RecordFailure, Work, WorkerPc
  <2>3. runsRunning' \in Nat
    BY <1>0, <1>c, <1>7 DEF RecordFailure
  <2>4. QED
    BY <1>7, <2>2, <2>3 DEF RecordFailure, TypeOK
<1>8. CASE Normalize
  <2>1. worker' \in Work
    BY <1>0, <1>8, GoOnType DEF Normalize, WorkerPc
  <2>2. \A p \in Chats \X Ids : Outcome[p] \in MsgStatus
    BY PipelineAssumption DEF MsgStatus
  <2>3. status' \in [Chats -> [Ids -> MsgStatus]]
    BY <1>0, <1>8, <2>2 DEF Normalize
  <2>4. QED
    BY <1>8, <2>1, <2>3 DEF Normalize, TypeOK
<1>9. CASE ExtractCandidates
  <2>1. candidates' \in Seq(Candidate)
    BY <1>0, <1>a, <1>9, AnswerType DEF ExtractCandidates
  <2>2. worker' \in Work
    <3>1. Len(candidates) + 1 \in Nat
      BY <1>0
    <3> DEFINE n == Len(candidates) + 1
    <3>2. worker' = [worker EXCEPT !.pc = "notify", !.next = n]
      BY <1>9 DEF ExtractCandidates
    <3> HIDE DEF n
    <3>3. QED
      BY <1>0, <3>1, <3>2 DEF Work, WorkerPc, n
  <2>3. extracted' \in [Chats -> [Ids -> Nat]]
    <3> DEFINE counts == [m \in Ids |->
           IF m \in Segment(chat) THEN extracted[chat][m] + 1
                                  ELSE extracted[chat][m]]
    <3>1. counts \in [Ids -> Nat]
      BY <1>0, <1>a
    <3>2. extracted' = [extracted EXCEPT ![chat] = counts]
      BY <1>9 DEF ExtractCandidates
    <3> HIDE DEF counts
    <3>3. QED
      BY <1>0, <3>1, <3>2
  <2>4. QED
    BY <1>9, <2>1, <2>2, <2>3 DEF ExtractCandidates, TypeOK
<1>10. CASE ExtractNothing
  <2>1. worker' \in Work
    BY <1>0, <1>10, GoOnType DEF ExtractNothing, WorkerPc
  <2>2. QED
    BY <1>10, <2>1 DEF ExtractNothing, TypeOK
<1>11. CASE NotifyNext
  <2>1. notify' \in Seq(Nat)
    BY <1>0, <1>a, <1>11 DEF NotifyNext
  <2>2. worker' \in Work
    <3>1. worker.next + 1 \in Nat
      BY <1>a
    <3>2. worker' = [worker EXCEPT !.next = worker.next + 1]
      BY <1>11 DEF NotifyNext
    <3>3. QED
      BY <1>0, <3>1, <3>2 DEF Work
  <2>3. QED
    BY <1>11, <2>1, <2>2 DEF NotifyNext, TypeOK
<1>12. CASE NotifyDone
  <2>1. worker' \in Work
    BY <1>0, <1>12, GoOnType DEF NotifyDone, WorkerPc
  <2>2. QED
    BY <1>12, <2>1 DEF NotifyDone, TypeOK
<1>13. CASE MarkAnalyzed
  <2>1. worker' \in Work
    BY <1>0, <1>13, GoOnType DEF MarkAnalyzed, WorkerPc
  <2>2. status' \in [Chats -> [Ids -> MsgStatus]]
    BY <1>0, <1>a, <1>13 DEF MarkAnalyzed, MsgStatus
  <2>3. QED
    BY <1>13, <2>1, <2>2 DEF MarkAnalyzed, TypeOK
<1>14. CASE Requeue
  <2>1. MaxAttempts \in Nat \ {0}
    BY PipelineAssumption
  <2>2. worker.attempts + 1 < MaxAttempts
          => worker.attempts + 1 \in 0..(MaxAttempts - 1)
    BY <1>a, <2>1
  <2>3. worker.attempts + 1 < MaxAttempts
          => [chat |-> chat, attempts |-> worker.attempts + 1] \in Job
    BY <1>a, <2>2 DEF Job
  <2>4. jobs' \in Seq(Job)
    BY <1>0, <1>14, <2>3 DEF Requeue
  <2>5. QED
    BY <1>b, <1>14, <2>4 DEF Requeue, TypeOK
<1>15. CASE SyncFails
  <2>1. worker' \in Work
    BY <1>0, <1>15, GoOnType DEF SyncFails, WorkerPc
  <2>2. buffer' \in [Chats -> [Ids -> Nat]]
    <3>1. CASE buffer' = buffer
      BY <1>0, <3>1
    <3>2. CASE buffer' = [buffer EXCEPT ![chat] = NoRecords]
      BY <1>0, <3>2 DEF NoRecords
    <3>3. QED
      BY <1>15, <3>1, <3>2 DEF SyncFails
  <2>3. QED
    BY <1>15, <2>1, <2>2 DEF SyncFails, TypeOK
<1>16. CASE NotifyFails
  <2>1. worker' \in Work
    BY <1>0, <1>16, GoOnType DEF NotifyFails, WorkerPc
  <2>2. faults' \in 0..MaxFaults
    BY <1>0, <1>16, BoundsAreNat DEF NotifyFails, Fault
  <2>3. QED
    BY <1>16, <2>1, <2>2 DEF NotifyFails, TypeOK
<1>17. CASE JobAborted
  <2>1. faults' \in 0..MaxFaults
    BY <1>0, <1>17, BoundsAreNat DEF JobAborted, Fault
  <2>2. QED
    BY <1>b, <1>17, <2>1 DEF JobAborted, TypeOK
<1>18. CASE WorkerCrash
  <2>1. crashes' \in 0..MaxCrashes
    BY <1>0, <1>18, BoundsAreNat DEF WorkerCrash
  <2>2. QED
    BY <1>b, <1>18, <2>1 DEF WorkerCrash, TypeOK
<1>19. QED
  BY <1>1, <1>2, <1>3, <1>4, <1>5, <1>6, <1>7, <1>8, <1>9, <1>10, <1>11,
     <1>12, <1>13, <1>14, <1>15, <1>16, <1>17, <1>18
     DEF WorkerNext, WorkerStep

(* The bot changes nothing the worker alone writes. *)
LEMMA CaptureLeavesWorker ==
  ASSUME CaptureNext
  PROVE  /\ status' = status
         /\ watermark' = watermark
         /\ runsRunning' = runsRunning
         /\ candidates' = candidates
         /\ extracted' = extracted
         /\ worker' = worker
         /\ crashes' = crashes
         /\ faults \in Nat => faults' \in {faults, faults + 1}
<1> USE DEF captureRest, configRest, reviewRest
<1>1. ASSUME NEW c \in Chats,
             \/ Deliver(c) \/ LockExpires(c) \/ Configure(c) \/ Remove(c)
             \/ PauseOrResume(c) \/ ManualSync(c)
      PROVE  UNCHANGED <<dbVars, workerVars, faults>>
  BY <1>1
     DEF Deliver, LockExpires, Configure, Remove, PauseOrResume, ManualSync
<1>2. ASSUME NEW c \in Chats, NEW m \in Ids, HandlerStep(c, m)
      PROVE  UNCHANGED <<dbVars, workerVars, faults>>
  BY <1>2 DEF HandlerStep, CheckConfigured, CheckPaused,
              CheckConfiguredAgain, Push, TryLock, Enqueue
<1>3. ASSUME NEW c \in Chats, NEW m \in Ids, HandlerFails(c, m)
      PROVE  UNCHANGED <<dbVars, workerVars>> /\ faults' = faults + 1
  BY <1>3 DEF HandlerFails
<1>4. CASE BotCrash \/ TakeNotify \/ PostCard \/ ShowCard
  BY <1>4 DEF BotCrash, TakeNotify, PostCard, ShowCard
<1>5. CASE CardFails
  BY <1>5 DEF CardFails
<1>6. QED
  BY <1>1, <1>2, <1>3, <1>4, <1>5 DEF CaptureNext

(* The count of running runs goes up when one starts, and down only when   *)
(* one that was started is settled.                                        *)
LEMMA RunsStep ==
  TypeOK /\ TypeOK' /\ RunsAccounted /\ [Next]_vars => RunsAccounted'
<1> SUFFICES ASSUME TypeOK, TypeOK', RunsAccounted, [Next]_vars
             PROVE  RunsAccounted'
  OBVIOUS
<1> USE DEF RunsAccounted, Pending
<1>0. /\ runsRunning \in Nat /\ runsRunning' \in Nat
      /\ crashes \in Nat /\ crashes' \in Nat
      /\ faults \in Nat /\ faults' \in Nat
      /\ worker \in Work
  BY BoundsAreNat DEF TypeOK
<1>1. ASSUME runsRunning' = runsRunning, crashes' = crashes,
             worker' = worker, faults' >= faults
      PROVE  RunsAccounted'
  <2>1. Pending' = Pending
    BY <1>1
  <2>2. Pending \in Nat
    OBVIOUS
  <2>3. Pending <= runsRunning /\ runsRunning <= Pending + crashes + faults
    OBVIOUS
  <2> HIDE DEF Pending
  <2>4. \A p, r, c, f, g \in Nat :
          r <= p + c + f /\ g >= f => r <= p + c + g
    OBVIOUS
  <2>5. runsRunning <= Pending + crashes + faults'
    BY <1>0, <1>1, <2>2, <2>3, <2>4
  <2>6. QED
    BY <1>1, <2>1, <2>3, <2>5
<1>2. CASE CaptureNext
  <2>1. /\ runsRunning' = runsRunning
        /\ crashes' = crashes
        /\ worker' = worker
        /\ faults' \in {faults, faults + 1}
    BY <1>0, <1>2, CaptureLeavesWorker
  <2>2. faults' >= faults
    BY <1>0, <2>1
  <2>3. QED
    BY <1>1, <2>1, <2>2
<1>3. CASE WorkerNext
  <2> USE DEF At
  <2>1. CASE Dequeue
    <3>1. worker'.pc = "start"
      BY <2>1 DEF Dequeue, Idle
    <3>2. QED
      BY <1>0, <2>1, <3>1 DEF Dequeue
  <2>2. ASSUME NEW pc \in WorkerPc, GoOn(pc) PROVE worker'.pc = pc
    BY <1>0, <2>2, GoOnType
  <2>3. CASE StartRun
    <3>1. worker'.pc = "read"
      BY <2>2, <2>3 DEF StartRun, WorkerPc
    <3>2. QED
      BY <1>0, <2>3, <3>1 DEF StartRun
  <2>4. CASE ReadBuffer
    <3>1. worker'.pc = "delete"
      BY <1>0, <2>4 DEF ReadBuffer, Work
    <3>2. QED
      BY <1>0, <2>4, <3>1 DEF ReadBuffer
  <2>5. CASE DeleteBuffer
    <3>1. worker'.pc = "save"
      BY <1>0, <2>5 DEF DeleteBuffer, Work
    <3>2. QED
      BY <1>0, <2>5, <3>1 DEF DeleteBuffer
  <2>6. CASE SaveBatch
    <3>1. worker'.pc = "normalize"
      BY <1>0, <2>6 DEF SaveBatch, Work
    <3>2. QED
      BY <1>0, <2>6, <3>1 DEF SaveBatch
  <2>7. CASE SaveRejected \/ SyncFails
    <3>1. worker'.pc = "fail"
      BY <2>2, <2>7 DEF SaveRejected, SyncFails, WorkerPc
    <3>2. QED
      BY <1>0, <2>7, <3>1 DEF SaveRejected, SyncFails
  <2>8. CASE RecordFailure
    <3>1. worker'.pc = "normalize"
      BY <1>0, <2>8 DEF RecordFailure, Work
    <3>2. QED
      BY <1>0, <2>8, <3>1 DEF RecordFailure
  <2>9. CASE Normalize \/ ExtractNothing \/ NotifyDone \/ MarkAnalyzed
    <3>1. worker'.pc \in {"extract", "requeue", "mark"}
      BY <2>2, <2>9
         DEF Normalize, ExtractNothing, NotifyDone, MarkAnalyzed, WorkerPc
    <3>2. QED
      BY <1>0, <2>9, <3>1
         DEF Normalize, ExtractNothing, NotifyDone, MarkAnalyzed
  <2>10. CASE ExtractCandidates \/ NotifyNext
    <3>1. worker'.pc = "notify"
      BY <1>0, <2>10 DEF ExtractCandidates, NotifyNext, Work
    <3>2. QED
      BY <1>0, <2>10, <3>1 DEF ExtractCandidates, NotifyNext
  <2>11. CASE NotifyFails
    <3>1. worker'.pc = "mark"
      BY <2>2, <2>11 DEF NotifyFails, WorkerPc
    <3>2. QED
      BY <1>0, <2>11, <3>1 DEF NotifyFails, Fault
  <2>12. CASE Requeue
    <3>1. worker'.pc = "idle"
      BY <2>12, NoWorkType DEF Requeue, GoIdle
    <3>2. QED
      BY <1>0, <2>12, <3>1 DEF Requeue
  <2>13. CASE JobAborted
    <3>1. worker'.pc = "idle"
      BY <2>13, NoWorkType DEF JobAborted, GoIdle
    <3>2. QED
      BY <1>0, <2>13, <3>1 DEF JobAborted, Fault
  <2>14. CASE WorkerCrash
    <3>1. worker'.pc = "idle"
      BY <2>14, NoWorkType DEF WorkerCrash, GoIdle
    <3>2. QED
      BY <1>0, <2>14, <3>1 DEF WorkerCrash
  <2>15. QED
    BY <1>3, <2>1, <2>3, <2>4, <2>5, <2>6, <2>7, <2>8, <2>9, <2>10, <2>11,
       <2>12, <2>13, <2>14 DEF WorkerNext, WorkerStep
<1>4. CASE UNCHANGED vars
  BY <1>0, <1>1, <1>4
<1>5. QED
  BY <1>2, <1>3, <1>4 DEF Next

LEMMA TypedRuns == Spec => [](TypeOK /\ RunsAccounted)
<1>1. PipelineInit => TypeOK /\ RunsAccounted
  BY TypeInit, NoWorkType DEF PipelineInit, RunsAccounted, Pending
<1>2. TypeOK /\ UNCHANGED vars => TypeOK'
  BY DEF TypeOK
<1>3. TypeOK /\ RunsAccounted /\ [Next]_vars => TypeOK'
  BY <1>2, TypeCapture, TypeWorker DEF Next
<1>4. TypeOK /\ RunsAccounted /\ [Next]_vars => (TypeOK /\ RunsAccounted)'
  BY <1>3, RunsStep
<1>5. QED
  BY <1>1, <1>4, PTL DEF Spec

(* Every variable keeps its type, for all values of the constants. *)
THEOREM TypeCorrect == Spec => []TypeOK
BY TypedRuns, PTL

(* sync_runs rows stay "running" only through a sync in progress, a crash  *)
(* or an unrecorded failure: at most one for each.                         *)
THEOREM RunsCorrect == Spec => []RunsAccounted
BY TypedRuns, PTL

-----------------------------------------------------------------------------
(* The messages table.  What is taken from the buffer lies above the       *)
(* watermark until it is stored, since only the worker moves either.       *)
BatchAboveWatermark ==
  worker.pc = "save" =>
    \A m \in Ids : worker.batch[m] > 0 => m > watermark[worker.chat]

LedgerInv == WatermarkIsLastRow /\ BatchAboveWatermark

(* Steps of the worker that leave the messages table alone. *)
LEMMA TableUntouched ==
  ASSUME WorkerNext
  PROVE  \/ UNCHANGED <<status, watermark>>
         \/ SaveBatch
         \/ Normalize
         \/ MarkAnalyzed
<1>1. CASE Dequeue \/ StartRun \/ ReadBuffer \/ DeleteBuffer
  BY <1>1 DEF Dequeue, StartRun, ReadBuffer, DeleteBuffer
<1>2. CASE SaveRejected \/ RecordFailure \/ ExtractCandidates
             \/ ExtractNothing
  BY <1>2
     DEF SaveRejected, RecordFailure, ExtractCandidates, ExtractNothing
<1>3. CASE NotifyNext \/ NotifyDone \/ Requeue \/ SyncFails
  BY <1>3 DEF NotifyNext, NotifyDone, Requeue, SyncFails
<1>4. CASE NotifyFails \/ JobAborted \/ WorkerCrash
  BY <1>4 DEF NotifyFails, JobAborted, WorkerCrash
<1>5. QED
  BY <1>1, <1>2, <1>3, <1>4 DEF WorkerNext, WorkerStep

(* The save step begins with the drain and ends with the step out of it. *)
LEMMA SaveEntered ==
  ASSUME TypeOK, WorkerNext, worker'.pc = "save"
  PROVE  DeleteBuffer
<1> USE DEF At
<1>0. worker \in Work
  BY DEF TypeOK
<1>1. ASSUME NEW pc \in WorkerPc, GoOn(pc) PROVE pc = "save"
  BY <1>0, <1>1, GoOnType
<1>2. CASE Dequeue
  <2>1. worker'.pc = "start"
    BY <1>2 DEF Dequeue, Idle
  <2>2. QED
    BY <2>1
<1>3. CASE StartRun \/ SaveRejected \/ Normalize \/ ExtractNothing
             \/ NotifyDone \/ MarkAnalyzed \/ SyncFails \/ NotifyFails
  BY <1>1, <1>3 DEF StartRun, SaveRejected, Normalize, ExtractNothing,
     NotifyDone, MarkAnalyzed, SyncFails, NotifyFails, WorkerPc
<1>4. CASE ReadBuffer
  BY <1>0, <1>4 DEF ReadBuffer, Work
<1>5. CASE SaveBatch
  BY <1>0, <1>5 DEF SaveBatch, Work
<1>6. CASE RecordFailure
  BY <1>0, <1>6 DEF RecordFailure, Work
<1>7. CASE ExtractCandidates
  BY <1>0, <1>7 DEF ExtractCandidates, Work
<1>8. CASE NotifyNext
  BY <1>0, <1>8 DEF NotifyNext, Work
<1>9. CASE Requeue \/ JobAborted \/ WorkerCrash
  BY <1>9, NoWorkType DEF Requeue, JobAborted, WorkerCrash, GoIdle
<1>10. QED
  BY <1>2, <1>3, <1>4, <1>5, <1>6, <1>7, <1>8, <1>9
     DEF WorkerNext, WorkerStep

(* Storing a batch that lies above the watermark moves it to the last row. *)
LEMMA SaveMovesWatermark ==
  ASSUME TypeOK, LedgerInv, SaveBatch
  PROVE  WatermarkIsLastRow'
<1>a. PICK c \in Chats : c = worker.chat
  BY WorkType DEF TypeOK
<1>b. PICK new \in SUBSET Ids : new = Unstored(c, worker.batch)
  BY DEF Unstored
<1>0. /\ status \in [Chats -> [Ids -> MsgStatus]]
      /\ watermark \in [Chats -> 0..MaxId]
  BY WorkType DEF TypeOK
<1>1. /\ status' = [status EXCEPT ![c] =
            [m \in Ids |-> IF m \in new THEN "new" ELSE status[c][m]]]
      /\ \A m \in new : m > watermark[c]
  BY <1>a, <1>b DEF SaveBatch, chat, At, LedgerInv, BatchAboveWatermark, Unstored
<1>2. PICK last \in new \cup {watermark[c]} :
        /\ \A m \in new \cup {watermark[c]} : m <= last
        /\ watermark' = [watermark EXCEPT ![c] = last]
  BY <1>a, <1>b DEF SaveBatch, chat
<1>4. /\ MaxId \in Nat /\ last \in 0..MaxId
      /\ \A d \in Chats : watermark[d] \in 0..MaxId
  BY <1>0, <1>2, BoundsAreNat DEF Ids
<1>5. Rows(c)' = Rows(c) \cup new
  BY <1>0, <1>1 DEF Rows
<1>6. ASSUME NEW d \in Chats, d # c
      PROVE  Rows(d)' = Rows(d) /\ watermark'[d] = watermark[d]
  BY <1>0, <1>1, <1>2, <1>6 DEF Rows
<1>7. watermark'[c] = last
  BY <1>0, <1>2
<1>8. Rows(c) \subseteq Ids
  BY DEF Rows
<1>9. \A m \in Rows(c)' : m <= watermark'[c]
  <2>1. \A m \in Rows(c) : m <= watermark[c]
    BY DEF LedgerInv, WatermarkIsLastRow
  <2>2. watermark[c] <= last /\ \A m \in new : m <= last
    BY <1>2
  <2>3. \A m \in Rows(c) : m \in Int
    BY <1>8 DEF Ids
  <2>4. \A m \in Rows(c) : m <= last
    BY <1>4, <2>1, <2>2, <2>3
  <2>5. QED
    BY <1>5, <1>7, <2>2, <2>4
<1>10. watermark'[c] # 0 => watermark'[c] \in Rows(c)'
  BY <1>0, <1>2, <1>5, <1>7 DEF LedgerInv, WatermarkIsLastRow
<1>11. ASSUME NEW d \in Chats
       PROVE  /\ \A m \in Rows(d)' : m <= watermark'[d]
              /\ watermark'[d] # 0 => watermark'[d] \in Rows(d)'
  <2>1. CASE d = c
    BY <1>9, <1>10, <2>1
  <2>2. CASE d # c
    BY <1>6, <2>2 DEF LedgerInv, WatermarkIsLastRow
  <2>3. QED
    BY <2>1, <2>2
<1>12. QED
  BY <1>11 DEF WatermarkIsLastRow

(* Classifying and marking stored messages keeps them stored. *)
LEMMA RowsKept ==
  ASSUME TypeOK, Normalize \/ MarkAnalyzed
  PROVE  watermark' = watermark /\ \A c \in Chats : Rows(c)' = Rows(c)
<1>0. /\ status \in [Chats -> [Ids -> MsgStatus]]
      /\ worker.chat \in Chats
  BY WorkType DEF TypeOK
<1>1. CASE Normalize
  <2>1. PICK batch \in SUBSET NewMessages :
          status' = [c \in Chats |-> [m \in Ids |->
            IF <<c, m>> \in batch THEN Outcome[<<c, m>>] ELSE status[c][m]]]
    BY <1>1 DEF Normalize
  <2>2. \A p \in Chats \X Ids : Outcome[p] # "absent"
    BY PipelineAssumption
  <2>3. ASSUME NEW c \in Chats, NEW m \in Ids
        PROVE  status'[c][m] # "absent" <=> status[c][m] # "absent"
    BY <2>1, <2>2 DEF NewMessages
  <2>4. QED
    BY <1>1, <2>3 DEF Rows, Normalize
<1>2. CASE MarkAnalyzed
  <2>1. ASSUME NEW c \in Chats, NEW m \in Ids
        PROVE  status'[c][m] # "absent" <=> status[c][m] # "absent"
    BY <1>0, <1>2 DEF MarkAnalyzed, Fresh, chat
  <2>2. QED
    BY <1>2, <2>1 DEF Rows, MarkAnalyzed
<1>3. QED
  BY <1>1, <1>2

LEMMA LedgerInvStep == TypeOK /\ LedgerInv /\ [Next]_vars => LedgerInv'
<1> SUFFICES ASSUME TypeOK, LedgerInv, [Next]_vars PROVE LedgerInv'
  OBVIOUS
<1>1. CASE UNCHANGED vars
  BY <1>1 DEF LedgerInv, WatermarkIsLastRow, BatchAboveWatermark, Rows
<1>2. CASE CaptureNext
  BY <1>2, CaptureLeavesWorker
     DEF LedgerInv, WatermarkIsLastRow, BatchAboveWatermark, Rows
<1>3. CASE WorkerNext
  <2>1. WatermarkIsLastRow'
    <3>1. CASE UNCHANGED <<status, watermark>>
      BY <3>1 DEF LedgerInv, WatermarkIsLastRow, Rows
    <3>2. CASE Normalize \/ MarkAnalyzed
      BY <3>2, RowsKept DEF LedgerInv, WatermarkIsLastRow
    <3>3. QED
      BY <1>3, <3>1, <3>2, TableUntouched, SaveMovesWatermark
  <2>2. BatchAboveWatermark'
    <3> SUFFICES ASSUME worker'.pc = "save"
                 PROVE  \A m \in Ids : worker'.batch[m] > 0
                                         => m > watermark'[worker'.chat]
      BY DEF BatchAboveWatermark
    <3>1. DeleteBuffer
      BY <1>3, SaveEntered
    <3>2. /\ worker \in Work /\ worker.batch \in [Ids -> Nat]
          /\ watermark[worker.chat] \in Nat
      BY WorkType, BoundsAreNat DEF TypeOK
    <3>3. /\ worker'.chat = worker.chat
          /\ worker'.batch = Fetched(worker.batch, watermark[worker.chat])
          /\ watermark' = watermark
      BY <3>1, <3>2 DEF DeleteBuffer, Work, chat
    <3>4. QED
      BY <3>2, <3>3, FetchedType
  <2>3. QED
    BY <2>1, <2>2 DEF LedgerInv
<1>4. QED
  BY <1>1, <1>2, <1>3 DEF Next

LEMMA LedgerInvInit == PipelineInit => LedgerInv
<1> SUFFICES ASSUME PipelineInit PROVE LedgerInv
  OBVIOUS
<1>1. worker.pc = "idle"
  BY NoWorkType DEF PipelineInit
<1>2. \A c \in Chats : Rows(c) = {} /\ watermark[c] = 0
  BY DEF PipelineInit, Rows
<1>3. QED
  BY <1>1, <1>2 DEF LedgerInv, WatermarkIsLastRow, BatchAboveWatermark

LEMMA TypedLedger == Spec => [](TypeOK /\ LedgerInv)
<1>1. Spec => []TypeOK
  BY TypeCorrect
<1>2. QED
  BY <1>1, LedgerInvInit, LedgerInvStep, PTL DEF Spec

(* The watermark is the last stored message of its chat. *)
THEOREM WatermarkCorrect == Spec => []WatermarkIsLastRow
<1>1. LedgerInv => WatermarkIsLastRow
  BY DEF LedgerInv
<1>2. QED
  BY <1>1, TypedLedger, PTL

(* What is about to be stored lies above every stored message. *)
THEOREM BatchCorrect == Spec => []BatchAboveRows
<1>1. TypeOK /\ LedgerInv => BatchAboveRows
  <2> SUFFICES ASSUME TypeOK, LedgerInv, worker.pc = "save",
                      NEW m \in Ids, worker.batch[m] > 0,
                      NEW n \in Rows(worker.chat)
               PROVE  n < m
    BY DEF BatchAboveRows
  <2>1. worker.chat \in Chats /\ watermark[worker.chat] \in Nat
    BY WorkType, BoundsAreNat DEF TypeOK
  <2>2. m > watermark[worker.chat] /\ n <= watermark[worker.chat]
    BY <2>1 DEF LedgerInv, WatermarkIsLastRow, BatchAboveWatermark
  <2>3. m \in Int /\ n \in Int
    BY DEF Ids, Rows
  <2>4. QED
    BY <2>1, <2>2, <2>3
<1>2. QED
  BY <1>1, TypedLedger, PTL

-----------------------------------------------------------------------------
(* The refinement: a save stores a batch, or stutters when it is empty;    *)
(* normalisation classifies; _mark_analyzed analyzes.                      *)
LEMMA SaveStores ==
  ASSUME TypeOK, LedgerInv, SaveBatch
  PROVE  Ledger!LedgerNext \/ UNCHANGED <<status, watermark>>
<1>a. PICK c \in Chats : c = worker.chat
  BY WorkType DEF TypeOK
<1>b. PICK new \in SUBSET Ids : new = Unstored(c, worker.batch)
  BY DEF Unstored
<1>0. /\ status \in [Chats -> [Ids -> MsgStatus]]
      /\ watermark \in [Chats -> 0..MaxId]
  BY DEF TypeOK
<1>1. /\ status' = [status EXCEPT ![c] =
            [m \in Ids |-> IF m \in new THEN "new" ELSE status[c][m]]]
      /\ \A m \in new : m > watermark[c] /\ status[c][m] = "absent"
  BY <1>a, <1>b DEF SaveBatch, chat, At, LedgerInv, BatchAboveWatermark,
                    Unstored
<1>2. PICK last \in new \cup {watermark[c]} :
        /\ \A m \in new \cup {watermark[c]} : m <= last
        /\ watermark' = [watermark EXCEPT ![c] = last]
  BY <1>a, <1>b DEF SaveBatch, chat
<1>3. CASE new = {}
  <2>1. [m \in Ids |-> IF m \in new THEN "new" ELSE status[c][m]] = status[c]
    BY <1>0, <1>3
  <2>2. last = watermark[c]
    BY <1>2, <1>3
  <2>3. QED
    BY <1>0, <1>1, <1>2, <2>1, <2>2
<1>4. CASE new # {}
  <2>1. PICK m \in new : TRUE
    BY <1>4
  <2>2. watermark[c] \in Nat /\ m \in Nat
    BY <1>0, BoundsAreNat DEF Ids
  <2>3. m > watermark[c] /\ m <= last
    BY <1>1, <1>2, <2>1
  <2>4. last # watermark[c]
    BY <2>2, <2>3
  <2>5. last \in new
    BY <1>2, <2>4
  <2>6. Ledger!Store(c, new)
    BY <1>1, <1>2, <2>5 DEF Ledger!Store, Ledger!Ids, Ids
  <2>7. new \in SUBSET Ledger!Ids
    BY DEF Ledger!Ids, Ids
  <2>8. QED
    BY <2>6, <2>7 DEF Ledger!LedgerNext
<1>5. QED
  BY <1>3, <1>4

LEMMA LedgerStep ==
  TypeOK /\ LedgerInv /\ [Next]_vars
    => Ledger!LedgerNext \/ UNCHANGED <<status, watermark>>
<1> SUFFICES ASSUME TypeOK, LedgerInv, [Next]_vars
             PROVE  Ledger!LedgerNext \/ UNCHANGED <<status, watermark>>
  OBVIOUS
<1>1. CASE UNCHANGED vars
  BY <1>1
<1>2. CASE CaptureNext
  BY <1>2, CaptureLeavesWorker
<1>3. CASE Normalize
  <2>1. PICK batch \in SUBSET NewMessages :
          status' = [c \in Chats |-> [m \in Ids |->
            IF <<c, m>> \in batch THEN Outcome[<<c, m>>] ELSE status[c][m]]]
    BY <1>3 DEF Normalize
  <2>2. batch \in SUBSET (Chats \X Ledger!Ids)
    BY DEF NewMessages, Ledger!Ids, Ids
  <2>3. watermark' = watermark
    BY <1>3 DEF Normalize
  <2>4. \A p \in batch : status[p[1]][p[2]] = "new"
    BY DEF NewMessages
  <2>5. Ledger!Classify(batch)
    BY <2>1, <2>3, <2>4 DEF Ledger!Classify, Ledger!Ids, Ids
  <2>6. QED
    BY <2>2, <2>5 DEF Ledger!LedgerNext
<1>4. CASE MarkAnalyzed
  <2>1. worker.chat \in Chats
    BY WorkType DEF TypeOK
  <2>2. Ledger!Analyze(worker.chat)
    BY <1>4, <2>1
       DEF MarkAnalyzed, Fresh, chat, Ledger!Analyze, Ledger!Ids, Ids, TypeOK
  <2>3. QED
    BY <2>1, <2>2 DEF Ledger!LedgerNext
<1>5. QED
  BY <1>1, <1>2, <1>3, <1>4, TableUntouched, SaveStores DEF Next

(* The pipeline implements the message ledger: whatever crashes, fails, is *)
(* delivered again or retried, messages are stored in order, once, then    *)
(* classified, then analyzed, and never taken back.                        *)
THEOREM ImplementsLedger == Spec => LedgerSpec
<1>1. PipelineInit => Ledger!LedgerInit
  BY DEF PipelineInit, Ledger!LedgerInit, Ledger!Ids, Ids
<1>2. TypeOK /\ LedgerInv /\ [Next]_vars
        => [Ledger!LedgerNext]_<<status, watermark>>
  BY LedgerStep
<1>3. QED
  BY <1>1, <1>2, TypedLedger, PTL DEF Spec, LedgerSpec, Ledger!LedgerSpec

-----------------------------------------------------------------------------
(* Extraction.  A message still in the extraction window was covered only  *)
(* by the job in progress, once its candidates are committed, and by jobs  *)
(* that a crash or a failure ended before _mark_analyzed.                  *)
Covering(c) ==
  IF worker.pc \in {"notify", "mark"} /\ worker.chat = c THEN 1 ELSE 0

ExtractInv ==
  \A c \in Chats : \A m \in Ids :
    /\ status[c][m] \in {"absent", "new"} => extracted[c][m] = 0
    /\ status[c][m] = "normalized"
         => extracted[c][m] <= Covering(c) + crashes + faults
    /\ extracted[c][m] <= 1 + crashes + faults

(* The bound grows with every crash and failure. *)
LEMMA ExtractKept ==
  ASSUME TypeOK, TypeOK', ExtractInv, status' = status,
         extracted' = extracted,
         crashes + faults <= crashes' + faults',
         \A c \in Chats :
           Covering(c) + crashes + faults
             <= Covering(c)' + crashes' + faults'
  PROVE  ExtractInv'
<1>0. /\ crashes \in Nat /\ faults \in Nat /\ crashes' \in Nat /\ faults' \in Nat
      /\ extracted \in [Chats -> [Ids -> Nat]]
  BY BoundsAreNat DEF TypeOK
<1> SUFFICES ASSUME NEW c \in Chats, NEW m \in Ids
             PROVE  /\ status'[c][m] \in {"absent", "new"}
                         => extracted'[c][m] = 0
                    /\ status'[c][m] = "normalized"
                         => extracted'[c][m] <= Covering(c)' + crashes' + faults'
                    /\ extracted'[c][m] <= 1 + crashes' + faults'
  BY DEF ExtractInv
<1>1. /\ status[c][m] \in {"absent", "new"} => extracted[c][m] = 0
      /\ status[c][m] = "normalized"
           => extracted[c][m] <= Covering(c) + crashes + faults
      /\ extracted[c][m] <= 1 + crashes + faults
  BY DEF ExtractInv
<1>2. Covering(c) \in Nat /\ Covering(c)' \in Nat /\ extracted[c][m] \in Nat
  BY <1>0 DEF Covering
<1>3. Covering(c) + crashes + faults <= Covering(c)' + crashes' + faults'
  OBVIOUS
<1>4. \A x, v, w, b, d, e, f \in Nat :
        /\ x <= v + b + d /\ v + b + d <= w + e + f => x <= w + e + f
        /\ x <= 1 + b + d /\ b + d <= e + f => x <= 1 + e + f
  OBVIOUS
<1>5. status[c][m] = "normalized"
        => extracted[c][m] <= Covering(c)' + crashes' + faults'
  BY <1>0, <1>1, <1>2, <1>3, <1>4
<1>6. extracted[c][m] <= 1 + crashes' + faults'
  BY <1>0, <1>1, <1>2, <1>4
<1>7. QED
  BY <1>1, <1>5, <1>6

(* A usable answer covers messages no step of this job covered before. *)
LEMMA ExtractCounts ==
  ASSUME TypeOK, ExtractInv, ExtractCandidates
  PROVE  ExtractInv'
<1>a. PICK c \in Chats : c = worker.chat
  BY WorkType DEF TypeOK
<1>0. /\ crashes \in Nat /\ faults \in Nat
      /\ crashes' = crashes /\ faults' = faults /\ status' = status
      /\ extracted \in [Chats -> [Ids -> Nat]]
      /\ worker \in Work
  BY BoundsAreNat DEF TypeOK, ExtractCandidates
<1>1. /\ worker.pc = "extract"
      /\ worker'.pc = "notify" /\ worker'.chat = c
  BY <1>a, <1>0 DEF ExtractCandidates, At, Work
<1>2. extracted' = [extracted EXCEPT ![c] = [m \in Ids |->
        IF m \in Segment(c) THEN extracted[c][m] + 1 ELSE extracted[c][m]]]
  BY <1>a DEF ExtractCandidates, chat
<1>3. Segment(c) \subseteq {m \in Ids : status[c][m] = "normalized"}
  BY DEF Segment, Recent, Fresh
<1>4. \A d \in Chats : Covering(d) = 0
  BY <1>1 DEF Covering
<1>5. \A d \in Chats : Covering(d)' = IF d = c THEN 1 ELSE 0
  BY <1>1 DEF Covering
<1>6. ASSUME NEW d \in Chats, NEW m \in Ids
      PROVE  /\ status'[d][m] \in {"absent", "new"} => extracted'[d][m] = 0
             /\ status'[d][m] = "normalized"
                  => extracted'[d][m] <= Covering(d)' + crashes' + faults'
             /\ extracted'[d][m] <= 1 + crashes' + faults'
  <2>1. /\ status[d][m] \in {"absent", "new"} => extracted[d][m] = 0
        /\ status[d][m] = "normalized"
             => extracted[d][m] <= 0 + crashes + faults
        /\ extracted[d][m] <= 1 + crashes + faults
        /\ extracted[d][m] \in Nat
    BY <1>0, <1>4 DEF ExtractInv
  <2>2. CASE d = c /\ m \in Segment(c)
    <3>1. extracted'[d][m] = extracted[d][m] + 1
      BY <1>0, <1>2, <2>2
    <3>2. status[d][m] = "normalized"
      BY <1>3, <2>2
    <3>3. Covering(d)' = 1
      BY <1>5, <2>2
    <3>4. extracted[d][m] + 1 <= 1 + crashes + faults
      BY <1>0, <2>1, <3>2
    <3>5. QED
      BY <1>0, <3>1, <3>2, <3>3, <3>4
  <2>3. CASE ~(d = c /\ m \in Segment(c))
    <3>1. extracted'[d][m] = extracted[d][m]
      BY <1>0, <1>2, <2>3
    <3>2. Covering(d)' \in {0, 1}
      BY <1>5
    <3>3. status[d][m] = "normalized"
            => extracted[d][m] <= Covering(d)' + crashes + faults
      BY <1>0, <2>1, <3>2
    <3>4. QED
      BY <1>0, <2>1, <3>1, <3>3
  <2>4. QED
    BY <2>2, <2>3
<1>7. QED
  BY <1>6 DEF ExtractInv

(* Storing, classifying and marking change statuses, not the counts. *)
LEMMA ExtractStatuses ==
  ASSUME TypeOK, ExtractInv, SaveBatch \/ Normalize \/ MarkAnalyzed
  PROVE  ExtractInv'
<1>a. PICK c \in Chats : c = worker.chat
  BY WorkType DEF TypeOK
<1>c. crashes' = crashes /\ faults' = faults /\ extracted' = extracted
  BY DEF SaveBatch, Normalize, MarkAnalyzed
<1>d. /\ crashes \in Nat /\ faults \in Nat
      /\ extracted \in [Chats -> [Ids -> Nat]]
      /\ status \in [Chats -> [Ids -> MsgStatus]]
      /\ worker \in Work
  BY BoundsAreNat DEF TypeOK
<1>0. /\ crashes \in Nat /\ faults \in Nat
      /\ crashes' = crashes /\ faults' = faults /\ extracted' = extracted
      /\ extracted \in [Chats -> [Ids -> Nat]]
      /\ status \in [Chats -> [Ids -> MsgStatus]]
      /\ worker \in Work
  BY <1>c, <1>d
<1>1. ASSUME NEW d \in Chats, NEW m \in Ids
      PROVE  /\ status'[d][m] \in {"absent", "new"}
                  => status[d][m] \in {"absent", "new"}
             /\ status'[d][m] = "normalized"
                  => \/ status[d][m] = "new"
                     \/ status[d][m] = "normalized" /\ Covering(d) = 0
  <2>1. CASE SaveBatch
    <3>1. status' = [status EXCEPT ![c] = [n \in Ids |->
            IF n \in Unstored(c, worker.batch) THEN "new" ELSE status[c][n]]]
      BY <1>a, <2>1 DEF SaveBatch, chat
    <3>2. Covering(d) = 0
      BY <2>1 DEF SaveBatch, At, Covering
    <3>3. QED
      BY <1>0, <3>1, <3>2 DEF Unstored
  <2>2. CASE Normalize
    <3>1. PICK batch \in SUBSET NewMessages :
            status' = [e \in Chats |-> [n \in Ids |->
              IF <<e, n>> \in batch THEN Outcome[<<e, n>>] ELSE status[e][n]]]
      BY <2>2 DEF Normalize
    <3>2. Covering(d) = 0
      BY <2>2 DEF Normalize, At, Covering
    <3>3. <<d, m>> \in batch => status[d][m] = "new"
      BY DEF NewMessages
    <3>4. QED
      BY <3>1, <3>2, <3>3, PipelineAssumption
  <2>3. CASE MarkAnalyzed
    <3>1. status' = [status EXCEPT ![c] = [n \in Ids |->
            IF status[c][n] = "normalized" THEN "analyzed" ELSE status[c][n]]]
      BY <1>a, <2>3 DEF MarkAnalyzed, Fresh, chat
    <3>2. d # c => Covering(d) = 0
      BY <1>a DEF Covering
    <3>3. QED
      BY <1>0, <3>1, <3>2
  <2>4. QED
    BY <2>1, <2>2, <2>3
<1>2. ASSUME NEW d \in Chats, NEW m \in Ids
      PROVE  /\ status'[d][m] \in {"absent", "new"} => extracted'[d][m] = 0
             /\ status'[d][m] = "normalized"
                  => extracted'[d][m] <= Covering(d)' + crashes' + faults'
             /\ extracted'[d][m] <= 1 + crashes' + faults'
  <2>1. /\ status[d][m] \in {"absent", "new"} => extracted[d][m] = 0
        /\ status[d][m] = "normalized"
             => extracted[d][m] <= Covering(d) + crashes + faults
        /\ extracted[d][m] <= 1 + crashes + faults
    BY DEF ExtractInv
  <2>2. Covering(d)' \in Nat /\ extracted[d][m] \in Nat
    BY <1>0 DEF Covering
  <2>3. status'[d][m] = "normalized"
          => extracted[d][m] <= 0 + crashes + faults
    BY <1>0, <1>1, <2>1
  <2>4. \A x, v, b, e \in Nat : x <= 0 + b + e => x <= v + b + e
    OBVIOUS
  <2>5. status'[d][m] = "normalized"
          => extracted[d][m] <= Covering(d)' + crashes + faults
    BY <1>0, <2>2, <2>3, <2>4
  <2>6. QED
    BY <1>0, <1>1, <2>1, <2>5
<1>3. QED
  BY <1>2, Zenon DEF ExtractInv

LEMMA ExtractStep ==
  TypeOK /\ TypeOK' /\ ExtractInv /\ [Next]_vars => ExtractInv'
<1> SUFFICES ASSUME TypeOK, TypeOK', ExtractInv, [Next]_vars
             PROVE  ExtractInv'
  OBVIOUS
<1> USE DEF At
<1>0. /\ crashes \in Nat /\ faults \in Nat
      /\ crashes' \in Nat /\ faults' \in Nat
      /\ worker \in Work
      /\ \A c \in Chats : Covering(c) \in {0, 1} /\ Covering(c)' \in {0, 1}
  BY BoundsAreNat DEF TypeOK, Covering
<1>1. ASSUME status' = status, extracted' = extracted,
             \A c \in Chats : Covering(c) <= Covering(c)',
             crashes' = crashes, faults' \in {faults, faults + 1}
      PROVE  ExtractInv'
  <2>0. \A x, y, z \in Nat : z \in {y, y + 1} => x + y <= x + z
    OBVIOUS
  <2>1. crashes + faults <= crashes' + faults'
    BY <1>0, <1>1, <2>0
  <2>2. ASSUME NEW c \in Chats
        PROVE  Covering(c) + crashes + faults
                 <= Covering(c)' + crashes' + faults'
    <3>1. Covering(c) <= Covering(c)'
      BY <1>1
    <3>2. \A v, w, b, d, e, f \in Nat :
            v <= w /\ b + d <= e + f => v + b + d <= w + e + f
      OBVIOUS
    <3>3. Covering(c) \in Nat /\ Covering(c)' \in Nat
      BY <1>0
    <3>4. crashes \in Nat /\ faults \in Nat /\ crashes' \in Nat /\ faults' \in Nat
      BY <1>0
    <3> HIDE DEF Covering
    <3>5. QED
      BY <2>1, <3>1, <3>2, <3>3, <3>4
  <2>3. QED
    BY <1>1, <2>1, <2>2, ExtractKept
<1>2. ASSUME status' = status, extracted' = extracted,
             crashes' + faults' = crashes + faults + 1
      PROVE  ExtractInv'
  <2>0. \A x, y, z, w \in Nat : z + w = x + y + 1 => x + y <= z + w
    OBVIOUS
  <2>1. crashes + faults <= crashes' + faults'
    BY <1>0, <1>2, <2>0
  <2>2. ASSUME NEW c \in Chats
        PROVE  Covering(c) + crashes + faults
                 <= Covering(c)' + crashes' + faults'
    <3>1. \A v, w \in {0, 1} : \A b, d, e, f \in Nat :
            e + f = b + d + 1 => v + b + d <= w + e + f
      OBVIOUS
    <3>2. QED
      BY <1>0, <1>2, <3>1
  <2>3. QED
    BY <1>2, <2>1, <2>2, ExtractKept
<1>3. CASE UNCHANGED vars
  <2>1. \A c \in Chats : Covering(c)' = Covering(c)
    BY <1>3 DEF Covering
  <2>2. QED
    BY <1>0, <1>1, <1>3, <2>1
<1>4. CASE CaptureNext
  <2>1. \A c \in Chats : Covering(c)' = Covering(c)
    BY <1>4, CaptureLeavesWorker DEF Covering
  <2>2. QED
    BY <1>0, <1>1, <1>4, <2>1, CaptureLeavesWorker
<1>5. CASE SaveBatch \/ Normalize \/ MarkAnalyzed
  BY <1>5, ExtractStatuses
<1>6. CASE ExtractCandidates
  BY <1>6, ExtractCounts
<1>7. CASE \/ Dequeue \/ StartRun \/ ReadBuffer \/ DeleteBuffer
           \/ SaveRejected \/ RecordFailure \/ SyncFails
           \/ ExtractNothing \/ Requeue
  <2>1. \A c \in Chats : Covering(c) = 0
    BY <1>7 DEF Dequeue, StartRun, ReadBuffer, DeleteBuffer, SaveRejected,
       RecordFailure, SyncFails, ExtractNothing, Requeue, Covering
  <2>2. \A c \in Chats : Covering(c) <= Covering(c)'
    BY <1>0, <2>1
  <2>3. UNCHANGED <<status, extracted, crashes, faults>>
    BY <1>7 DEF Dequeue, StartRun, ReadBuffer, DeleteBuffer, SaveRejected,
       RecordFailure, SyncFails, ExtractNothing, Requeue
  <2>4. QED
    BY <1>0, <1>1, <2>2, <2>3
<1>8. CASE NotifyNext \/ NotifyDone \/ NotifyFails
  <2>1. /\ worker'.pc \in {"notify", "mark"}
        /\ worker'.chat = worker.chat
    <3>1. CASE NotifyNext
      BY <1>0, <3>1 DEF NotifyNext, Work
    <3>2. CASE NotifyDone \/ NotifyFails
      BY <1>0, <3>2, GoOnType DEF NotifyDone, NotifyFails, WorkerPc
    <3>3. QED
      BY <1>8, <3>1, <3>2
  <2>2. \A c \in Chats : Covering(c) <= Covering(c)'
    BY <1>0, <2>1 DEF Covering
  <2>3. /\ UNCHANGED <<status, extracted, crashes>>
        /\ faults' \in {faults, faults + 1}
    BY <1>8 DEF NotifyNext, NotifyDone, NotifyFails, Fault
  <2>4. QED
    BY <1>1, <2>2, <2>3
<1>9. CASE JobAborted \/ WorkerCrash
  <2>1. /\ UNCHANGED <<status, extracted>>
        /\ \/ crashes' = crashes /\ faults' = faults + 1
           \/ crashes' = crashes + 1 /\ faults' = faults
    BY <1>9 DEF JobAborted, WorkerCrash, Fault
  <2>0. \A x, y \in Nat : (x + 1) + y = x + y + 1 /\ x + (y + 1) = x + y + 1
    OBVIOUS
  <2>2. crashes' + faults' = crashes + faults + 1
    BY <1>0, <2>0, <2>1
  <2>3. QED
    BY <1>2, <2>1, <2>2
<1>10. QED
  BY <1>3, <1>4, <1>5, <1>6, <1>7, <1>8, <1>9
     DEF Next, WorkerNext, WorkerStep

(* A message is covered by a second extraction only after a crash or a     *)
(* failure, at most once for each.                                         *)
THEOREM ExtractionsCorrect == Spec => []ExtractionsBounded
<1>1. PipelineInit => ExtractInv
  <2> SUFFICES ASSUME PipelineInit, NEW c \in Chats, NEW m \in Ids
               PROVE  /\ status[c][m] = "absent"
                      /\ extracted[c][m] = 0
                      /\ 0 <= 1 + crashes + faults
    BY DEF ExtractInv
  <2>1. QED
    BY DEF PipelineInit
<1>2. ExtractInv => ExtractionsBounded
  BY DEF ExtractInv, ExtractionsBounded
<1>3. Spec => []TypeOK
  BY TypeCorrect
<1>4. QED
  BY <1>1, <1>2, <1>3, ExtractStep, PTL DEF Spec

-----------------------------------------------------------------------------
(* The announcements stay within the answer they are of. *)
NotBehind ==
  worker.pc = "notify" =>
    /\ worker.next <= Len(candidates) + 1
    /\ Len(candidates) + 1 - worker.next <= MaxPerPass

LEMMA NotBehindStep ==
  ASSUME TypeOK, NotBehind, [Next]_vars
  PROVE  NotBehind'
<1>0. /\ worker \in Work /\ candidates \in Seq(Candidate)
      /\ worker.next \in Nat /\ Len(candidates) \in Nat /\ MaxPerPass \in Nat
  BY WorkType, PipelineAssumption DEF TypeOK
<1>1. CASE UNCHANGED vars
  BY <1>1 DEF NotBehind
<1>2. CASE CaptureNext
  BY <1>2, CaptureLeavesWorker DEF NotBehind
<1>3. CASE ExtractCandidates
  <2>1. PICK answer \in Answers(chat) : candidates' = candidates \o answer
    BY <1>3 DEF ExtractCandidates
  <2>2. chat \in Chats
    BY <1>0, WorkType DEF chat
  <2>3. candidates \in Seq(Candidate)
    BY <1>0
  <2>4. /\ candidates' \in Seq(Candidate)
        /\ Len(candidates') >= Len(candidates)
        /\ Len(candidates') <= Len(candidates) + MaxPerPass
    BY <2>1, <2>2, <2>3, AnswerType
  <2>5. worker'.next = Len(candidates) + 1
    BY <1>0, <1>3 DEF ExtractCandidates, Work
  <2>6. QED
    <3>1. Len(candidates') \in Nat
      BY <2>4
    <3>2. QED
      BY <1>0, <2>4, <2>5, <3>1 DEF NotBehind
<1>4. CASE NotifyNext
  <2>1. /\ worker.pc = "notify" /\ worker.next <= Len(candidates)
        /\ candidates' = candidates
        /\ worker'.next = worker.next + 1
    BY <1>0, <1>4 DEF NotifyNext, At, Work
  <2>2. QED
    BY <1>0, <2>1 DEF NotBehind
<1>5. CASE WorkerNext /\ ~ExtractCandidates /\ ~NotifyNext
  <2>1. worker'.pc # "notify"
    BY <1>0, <1>5, NoWorkType
       DEF WorkerNext, WorkerStep, Dequeue, StartRun, ReadBuffer,
           DeleteBuffer, SaveBatch, SaveRejected, RecordFailure, Normalize,
           ExtractNothing, NotifyDone, MarkAnalyzed, Requeue, SyncFails,
           NotifyFails, JobAborted, WorkerCrash, GoOn, GoIdle, NoWork, Idle,
           Work
  <2>2. QED
    BY <2>1 DEF NotBehind
<1>6. QED
  BY <1>1, <1>2, <1>3, <1>4, <1>5 DEF Next

LEMMA NotBehindAlways == Spec => [](TypeOK /\ NotBehind)
<1>1. PipelineInit => NotBehind
  BY DEF PipelineInit, NotBehind, NoWork, Idle
<1>2. TypeOK /\ NotBehind /\ [Next]_vars => NotBehind'
  BY NotBehindStep
<1>3. QED
  BY <1>1, <1>2, TypeCorrect, PTL DEF Spec

-----------------------------------------------------------------------------
(* Where a candidate's id may be: in the queue of notifications, in the    *)
(* consumer's hand, among the posted cards; each place holds it at most    *)
(* once and no two of them hold the same one.  While the worker announces  *)
(* its candidates, those from worker.next on are in none of the three.     *)
OnlyOnce(s) == \A i, j \in DOMAIN s : s[i] = s[j] => i = j
Elements(s) == {s[i] : i \in DOMAIN s}
Announced == Elements(notify) \cup Elements(cards) \cup ({inHand} \ {0})

Linked(k) == k \in DOMAIN candidates /\ candidates[k].linked

SurfaceInv ==
  /\ OnlyOnce(notify)
  /\ OnlyOnce(cards)
  /\ Elements(notify) \cap Elements(cards) = {}
  /\ inHand \notin Elements(notify) \cup Elements(cards)
  /\ \A k \in Announced :
       /\ Linked(k)
       /\ worker.pc = "notify" => k < worker.next
  /\ worker.pc = "notify" => worker.next >= 1

(* An id that is new to a list stays the only one of its kind in it. *)
LEMMA OnceAppended ==
  ASSUME NEW s \in Seq(Nat), NEW k \in Nat, OnlyOnce(s), k \notin Elements(s)
  PROVE  /\ OnlyOnce(Append(s, k))
         /\ Elements(Append(s, k)) = Elements(s) \cup {k}
<1> DEFINE t == Append(s, k)
<1>1. /\ Len(t) = Len(s) + 1
      /\ DOMAIN t = 1..(Len(s) + 1)
      /\ DOMAIN s = 1..Len(s)
      /\ Len(s) \in Nat
      /\ \A i \in 1..Len(s) : t[i] = s[i]
      /\ t[Len(s) + 1] = k
  OBVIOUS
<1> HIDE DEF t
<1>2. \A i \in DOMAIN t : i \in DOMAIN s \/ i = Len(s) + 1
  BY <1>1
<1>3. OnlyOnce(t)
  BY <1>1, <1>2 DEF OnlyOnce, Elements
<1>4. Elements(t) = Elements(s) \cup {k}
  BY <1>1, <1>2 DEF Elements
<1>5. QED
  BY <1>3, <1>4 DEF t

(* The head of a list without repetitions is not in its tail. *)
LEMMA OnceTaken ==
  ASSUME NEW s \in Seq(Nat), s # <<>>, OnlyOnce(s)
  PROVE  /\ OnlyOnce(Tail(s))
         /\ Elements(Tail(s)) = Elements(s) \ {Head(s)}
         /\ Head(s) \in Elements(s)
<1> DEFINE t == Tail(s)
           h == Head(s)
<1>1. /\ DOMAIN s = 1..Len(s)
      /\ Len(s) \in Nat
      /\ Len(s) >= 1
      /\ DOMAIN t = 1..(Len(s) - 1)
      /\ \A i \in 1..(Len(s) - 1) : t[i] = s[i + 1]
      /\ h = s[1]
  OBVIOUS
<1> HIDE DEF t, h
<1>2. \A i \in DOMAIN t : i + 1 \in DOMAIN s /\ i + 1 # 1
  BY <1>1
<1>3. OnlyOnce(t)
  <2> SUFFICES ASSUME NEW i \in DOMAIN t, NEW j \in DOMAIN t, t[i] = t[j]
               PROVE  i = j
    BY DEF OnlyOnce
  <2>1. s[i + 1] = s[j + 1]
    BY <1>1
  <2>2. i + 1 = j + 1
    BY <1>2, <2>1 DEF OnlyOnce
  <2>3. QED
    BY <1>1, <2>2
<1>4. h \in Elements(s)
  BY <1>1 DEF Elements
<1>5. \A x \in Elements(t) : x \in Elements(s) /\ x # h
  BY <1>1, <1>2 DEF Elements, OnlyOnce
<1>6. ASSUME NEW x \in Elements(s), x # h
      PROVE  x \in Elements(t)
  <2>1. PICK i \in DOMAIN s : x = s[i]
    BY DEF Elements
  <2>2. i # 1
    BY <1>1, <1>6, <2>1
  <2>3. i - 1 \in DOMAIN t /\ t[i - 1] = s[i]
    BY <1>1, <2>2
  <2>4. QED
    BY <2>1, <2>3 DEF Elements
<1>7. QED
  BY <1>3, <1>4, <1>5, <1>6 DEF t, h

(* The bot's steps move an id from one place to the next, or drop it. *)
LEMMA SurfaceCapture ==
  TypeOK /\ SurfaceInv /\ CaptureNext => SurfaceInv'
<1> SUFFICES ASSUME TypeOK, SurfaceInv, CaptureNext PROVE SurfaceInv'
  OBVIOUS
<1>0. /\ notify \in Seq(Nat)
      /\ cards \in Seq(Nat)
      /\ inHand \in Nat
      /\ candidates \in Seq(Candidate)
  BY DEF TypeOK
<1>1. UNCHANGED <<worker, candidates>>
  BY CaptureLeavesWorker
<1>2. /\ 0 \notin Elements(notify) \cup Elements(cards)
      /\ 0 \notin DOMAIN candidates
  <2>1. 0 \notin DOMAIN candidates
    BY <1>0
  <2>2. QED
    BY <2>1 DEF SurfaceInv, Announced, Linked
<1>3. CASE UNCHANGED <<notify, cards, inHand>>
  BY <1>1, <1>3 DEF SurfaceInv, Announced, Linked
<1>4. CASE UNCHANGED <<notify, cards>> /\ inHand' = 0
  BY <1>1, <1>2, <1>4 DEF SurfaceInv, Announced, Linked
<1>5. CASE TakeNotify
  <2>1. /\ inHand = 0
        /\ cards' = cards
        /\ OnlyOnce(notify')
        /\ Elements(notify') = Elements(notify) \ {inHand'}
        /\ inHand' \in Elements(notify)
    BY <1>0, <1>5, OnceTaken DEF TakeNotify, reviewRest, SurfaceInv
  <2>2. Announced' \subseteq Announced
    BY <2>1 DEF Announced
  <2>3. QED
    BY <1>1, <2>1, <2>2 DEF SurfaceInv, Linked
<1>6. CASE PostCard
  <2>1. /\ inHand # 0
        /\ inHand' = 0
        /\ notify' = notify
        /\ cards' = Append(cards, inHand)
    BY <1>6 DEF PostCard
  <2>2. /\ OnlyOnce(cards')
        /\ Elements(cards') = Elements(cards) \cup {inHand}
    BY <1>0, <2>1, OnceAppended DEF SurfaceInv
  <2>3. Announced' \subseteq Announced
    BY <2>1, <2>2 DEF Announced
  <2>4. QED
    BY <1>1, <1>2, <2>1, <2>2, <2>3 DEF SurfaceInv, Linked
<1>7. CASE CardFails \/ BotCrash
  BY <1>4, <1>7 DEF CardFails, BotCrash
<1>8. ASSUME NEW c \in Chats,
             \/ Deliver(c) \/ LockExpires(c) \/ Configure(c) \/ Remove(c)
             \/ PauseOrResume(c) \/ ManualSync(c)
             \/ \E m \in Ids : HandlerStep(c, m) \/ HandlerFails(c, m)
      PROVE  UNCHANGED <<notify, cards, inHand>>
  <2>1. CASE \/ Deliver(c) \/ LockExpires(c) \/ Configure(c) \/ Remove(c)
             \/ PauseOrResume(c) \/ ManualSync(c)
    BY <2>1 DEF Deliver, LockExpires, Configure, Remove, PauseOrResume,
       ManualSync, captureRest, configRest
  <2>2. ASSUME NEW m \in Ids, HandlerStep(c, m) \/ HandlerFails(c, m)
        PROVE  UNCHANGED <<notify, cards, inHand>>
    BY <2>2 DEF HandlerStep, CheckConfigured, CheckPaused,
       CheckConfiguredAgain, Push, TryLock, Enqueue, HandlerFails, captureRest
  <2>3. QED
    BY <1>8, <2>1, <2>2
<1>9. CASE ShowCard
  BY <1>3, <1>9 DEF ShowCard
<1>10. QED
  BY <1>3, <1>5, <1>6, <1>7, <1>8, <1>9 DEF CaptureNext

(* The worker announces the id of a linked candidate that no step has      *)
(* announced before: candidates only grow, and worker.next only moves on.  *)
LEMMA SurfaceWorker ==
  TypeOK /\ SurfaceInv /\ WorkerNext => SurfaceInv'
<1> SUFFICES ASSUME TypeOK, SurfaceInv, WorkerNext PROVE SurfaceInv'
  OBVIOUS
<1> USE DEF workerRest, At, chat
<1>0. /\ notify \in Seq(Nat)
      /\ worker \in Work
      /\ worker.chat \in Chats
      /\ worker.next \in Nat
      /\ candidates \in Seq(Candidate)
      /\ Len(candidates) \in Nat
      /\ DOMAIN candidates = 1..Len(candidates)
  BY WorkType DEF TypeOK
<1>1. ASSUME UNCHANGED <<notify, cards, inHand, candidates>>,
             worker'.pc # "notify"
      PROVE  SurfaceInv'
  BY <1>1 DEF SurfaceInv, Announced, Linked
<1>2. CASE NotifyNext
  <2>1. /\ worker.pc = "notify"
        /\ worker.next \in 1..Len(candidates)
        /\ UNCHANGED <<cards, inHand, candidates>>
        /\ worker'.pc = "notify"
        /\ worker'.next = worker.next + 1
    BY <1>0, <1>2 DEF NotifyNext, SurfaceInv, Work
  <2>2. \A k \in Announced : Linked(k) /\ k \in Nat /\ k < worker.next
    BY <1>0, <2>1 DEF SurfaceInv, Linked
  <2>3. worker.next \notin Announced
    BY <1>0, <2>2
  <2>4. CASE candidates[worker.next].linked
    <3>1. notify' = Append(notify, worker.next)
      BY <1>2, <2>4 DEF NotifyNext
    <3>2. /\ OnlyOnce(notify')
          /\ Elements(notify') = Elements(notify) \cup {worker.next}
      BY <1>0, <2>3, <3>1, OnceAppended DEF SurfaceInv, Announced
    <3>3. Announced' = Announced \cup {worker.next}
      BY <2>1, <3>2 DEF Announced
    <3>4. worker.next # inHand
      BY <2>1, <2>3 DEF Announced
    <3>5. /\ worker.next \notin Elements(cards)
          /\ Elements(notify') \cap Elements(cards') = {}
          /\ inHand' \notin Elements(notify') \cup Elements(cards')
      BY <2>1, <2>3, <3>2, <3>4 DEF Announced, SurfaceInv
    <3>6. Linked(worker.next)
      BY <1>0, <2>1, <2>4 DEF Linked
    <3>7. \A k \in Announced' : Linked(k)' /\ k < worker'.next
      BY <1>0, <2>1, <2>2, <3>3, <3>6 DEF Linked
    <3>8. QED
      BY <1>0, <2>1, <3>2, <3>5, <3>7 DEF SurfaceInv
  <2>5. CASE ~candidates[worker.next].linked
    <3>1. notify' = notify
      BY <1>2, <2>5 DEF NotifyNext
    <3>2. Announced' = Announced
      BY <2>1, <3>1 DEF Announced
    <3>3. \A k \in Announced' : Linked(k)' /\ k < worker'.next
      BY <1>0, <2>1, <2>2, <3>2 DEF Linked
    <3>4. QED
      BY <1>0, <2>1, <3>1, <3>3 DEF SurfaceInv
  <2>6. QED
    BY <2>4, <2>5
<1>3. CASE ExtractCandidates
  <2>1. /\ UNCHANGED <<notify, cards, inHand>>
        /\ worker'.pc = "notify"
        /\ worker'.next = Len(candidates) + 1
    BY <1>0, <1>3 DEF ExtractCandidates, Work
  <2>2. PICK answer \in Answers(worker.chat) : candidates' = candidates \o answer
    BY <1>3 DEF ExtractCandidates
  <2>3. /\ candidates' \in Seq(Candidate)
        /\ Len(candidates') >= Len(candidates)
        /\ \A i \in DOMAIN candidates : candidates'[i] = candidates[i]
    BY <1>0, <2>2, AnswerType
  <2>4. \A k \in DOMAIN candidates : k \in DOMAIN candidates' /\ k < worker'.next
    BY <1>0, <2>1, <2>3
  <2>5. Announced' = Announced
    BY <2>1 DEF Announced
  <2>6. \A k \in Announced' : Linked(k)' /\ k < worker'.next
    BY <2>3, <2>4, <2>5 DEF SurfaceInv, Linked
  <2>7. QED
    BY <1>0, <2>1, <2>6 DEF SurfaceInv
<1>4. CASE Dequeue \/ ReadBuffer \/ DeleteBuffer \/ SaveBatch \/ RecordFailure
  <2>1. UNCHANGED <<notify, cards, inHand, candidates>>
    BY <1>4 DEF Dequeue, ReadBuffer, DeleteBuffer, SaveBatch, RecordFailure
  <2>2. CASE Dequeue
    BY <2>1, <2>2, <1>1 DEF Dequeue, Idle
  <2>3. CASE ReadBuffer
    BY <1>0, <2>1, <2>3, <1>1 DEF ReadBuffer, Work
  <2>4. CASE DeleteBuffer
    BY <1>0, <2>1, <2>4, <1>1 DEF DeleteBuffer, Work
  <2>5. CASE SaveBatch
    BY <1>0, <2>1, <2>5, <1>1 DEF SaveBatch, Work
  <2>6. CASE RecordFailure
    BY <1>0, <2>1, <2>6, <1>1 DEF RecordFailure, Work
  <2>7. QED
    BY <1>4, <2>2, <2>3, <2>4, <2>5, <2>6
<1>5. CASE \/ StartRun \/ SaveRejected \/ Normalize \/ ExtractNothing
           \/ NotifyDone \/ MarkAnalyzed \/ SyncFails \/ NotifyFails
  BY <1>0, <1>1, <1>5
     DEF StartRun, SaveRejected, Normalize, ExtractNothing, NotifyDone,
         MarkAnalyzed, SyncFails, NotifyFails, GoOn, Work
<1>6. CASE Requeue \/ JobAborted \/ WorkerCrash
  BY <1>1, <1>6, NoWorkType DEF Requeue, JobAborted, WorkerCrash, GoIdle
<1>7. QED
  BY <1>2, <1>3, <1>4, <1>5, <1>6 DEF WorkerNext, WorkerStep

(* The three places one after the other hold each id at most once, and     *)
(* they hold what is announced.                                            *)
LEMMA InOneList ==
  ASSUME TypeOK, SurfaceInv
  PROVE  /\ \A i, j \in DOMAIN Announcements :
              Announcements[i] = Announcements[j] => i = j
         /\ Elements(Announcements) = Announced
<1> DEFINE hand == IF inHand = 0 THEN <<>> ELSE <<inHand>>
           a == Len(notify)
           b == Len(hand)
<1>0. /\ notify \in Seq(Nat)
      /\ cards \in Seq(Nat)
      /\ hand \in Seq(Nat)
      /\ a \in Nat
      /\ b \in {0, 1}
      /\ b = 1 => inHand # 0 /\ hand[1] = inHand
  BY DEF TypeOK
<1>1. Announcements = notify \o hand \o cards
  BY DEF Announcements
<1> HIDE DEF hand
<1>2. /\ DOMAIN Announcements = 1..(a + b + Len(cards))
      /\ \A i \in 1..a : Announcements[i] = notify[i]
      /\ b = 1 => Announcements[a + 1] = hand[1]
      /\ \A i \in (a + b + 1)..(a + b + Len(cards)) :
           Announcements[i] = cards[i - a - b]
  BY <1>0, <1>1
<1>3. ASSUME NEW i \in DOMAIN Announcements
      PROVE  \/ i \in DOMAIN notify /\ Announcements[i] = notify[i]
             \/ b = 1 /\ i = a + 1 /\ Announcements[i] = inHand /\ inHand # 0
             \/ i - a - b \in DOMAIN cards /\ Announcements[i] = cards[i - a - b]
  <2> HIDE DEF a, b
  <2>1. DOMAIN notify = 1..a /\ DOMAIN cards = 1..Len(cards) /\ Len(cards) \in Nat
    BY <1>0 DEF a
  <2>2. \/ i \in 1..a
        \/ b = 1 /\ i = a + 1
        \/ i \in (a + b + 1)..(a + b + Len(cards))
    <3>1. i \in 1..(a + b + Len(cards))
      BY <1>2
    <3>2. \A x, n \in Nat : \A y \in {0, 1} : \A k \in 1..(x + y + n) :
            k \in 1..x \/ (y = 1 /\ k = x + 1) \/ k \in (x + y + 1)..(x + y + n)
      OBVIOUS
    <3>3. QED
      BY <1>0, <2>1, <3>1, <3>2
  <2>3. i \in (a + b + 1)..(a + b + Len(cards)) => i - a - b \in 1..Len(cards)
    BY <1>0, <2>1
  <2>4. QED
    BY <1>0, <1>2, <2>1, <2>2, <2>3
<1>4. ASSUME NEW i \in DOMAIN Announcements
      PROVE  Announcements[i] \in Announced
  BY <1>3 DEF Announced, Elements
<1>5. ASSUME NEW i \in DOMAIN Announcements, NEW j \in DOMAIN Announcements,
             Announcements[i] = Announcements[j]
      PROVE  i = j
  <2>1. i \in Int /\ j \in Int
    BY <1>0, <1>2
  <2> HIDE DEF a, b
  <2>2. CASE i \in DOMAIN notify /\ Announcements[i] = notify[i]
    <3>1. notify[i] \in Elements(notify)
      BY <2>2 DEF Elements
    <3>2. j \in DOMAIN notify /\ Announcements[j] = notify[j]
      BY <1>3, <1>5, <2>2, <3>1 DEF SurfaceInv, Elements
    <3>3. QED
      BY <1>5, <2>2, <3>2 DEF SurfaceInv, OnlyOnce
  <2>3. CASE b = 1 /\ i = a + 1 /\ Announcements[i] = inHand /\ inHand # 0
    BY <1>3, <1>5, <2>3 DEF SurfaceInv, Elements
  <2>4. CASE i - a - b \in DOMAIN cards /\ Announcements[i] = cards[i - a - b]
    <3>0. cards[i - a - b] \in Elements(cards)
      BY <2>4 DEF Elements
    <3>1. j - a - b \in DOMAIN cards /\ Announcements[j] = cards[j - a - b]
      BY <1>3, <1>5, <2>4, <3>0 DEF SurfaceInv, Elements
    <3>2. i - a - b = j - a - b
      BY <1>5, <2>4, <3>1 DEF SurfaceInv, OnlyOnce
    <3>3. QED
      BY <1>0, <2>1, <3>2 DEF a, b
  <2>5. QED
    BY <1>3, <2>2, <2>3, <2>4
<1>6. ASSUME NEW k \in Announced PROVE k \in Elements(Announcements)
  <2>1. DOMAIN notify = 1..a /\ DOMAIN cards = 1..Len(cards) /\ Len(cards) \in Nat
    BY <1>0
  <2>2. CASE k \in Elements(notify)
    <3>1. PICK i \in 1..a : notify[i] = k
      BY <2>1, <2>2 DEF Elements
    <3>2. i \in DOMAIN Announcements /\ Announcements[i] = k
      BY <1>0, <1>2, <2>1, <3>1
    <3>3. QED
      BY <3>2 DEF Elements
  <2>3. CASE k = inHand /\ inHand # 0
    <3>1. b = 1
      BY <1>0, <2>3 DEF hand
    <3>2. a + 1 \in DOMAIN Announcements /\ Announcements[a + 1] = k
      BY <1>0, <1>2, <2>1, <2>3, <3>1
    <3>3. QED
      BY <3>2 DEF Elements
  <2>4. CASE k \in Elements(cards)
    <3>1. PICK i \in 1..Len(cards) : cards[i] = k
      BY <2>1, <2>4 DEF Elements
    <3> DEFINE n == a + b + i
    <3>2. n \in (a + b + 1)..(a + b + Len(cards)) /\ n - a - b = i
      BY <1>0, <2>1, <3>1
    <3>3. n \in DOMAIN Announcements
      BY <1>0, <1>2, <2>1, <3>2
    <3>4. Announcements[n] = k
      BY <1>2, <3>1, <3>2
    <3>5. QED
      BY <3>3, <3>4 DEF Elements
  <2>5. QED
    BY <1>6, <2>2, <2>3, <2>4 DEF Announced
<1>7. QED
  BY <1>4, <1>5, <1>6 DEF Elements

-----------------------------------------------------------------------------
(* What is missing from the three places: the candidates with an assignee  *)
(* that are in none of them and that the worker is past announcing.  What  *)
(* a step may add to them is paid for by a crash or an error: one answer   *)
(* by the worker's, one candidate by the consumer's.                       *)
Missing ==
  {k \in DOMAIN candidates :
     /\ candidates[k].linked
     /\ k \notin Announced
     /\ ~(worker.pc = "notify" /\ worker.next <= k)}

Spent == crashes + faults

MissingInv ==
  /\ IsFiniteSet(Missing)
  /\ Cardinality(Missing) <= MaxPerPass * Spent + botCrashes
  /\ candidates # <<>> => MaxPerPass >= 1

(* The numbers of this section are natural. *)
LEMMA SpentNat ==
  ASSUME TypeOK
  PROVE  /\ crashes \in Nat
         /\ faults \in Nat
         /\ botCrashes \in Nat
         /\ Spent \in Nat
         /\ MaxPerPass \in Nat
         /\ MaxPerPass * Spent \in Nat
<1>1. crashes \in Nat /\ faults \in Nat /\ botCrashes \in Nat
  BY BoundsAreNat DEF TypeOK
<1>2. Spent \in Nat
  BY <1>1 DEF Spent
<1>3. MaxPerPass \in Nat
  BY PipelineAssumption
<1>4. \A x, y \in Nat : x * y \in Nat
  OBVIOUS
<1>5. QED
  BY <1>1, <1>2, <1>3, <1>4

(* So are those of the next state. *)
LEMMA NextSpentNat ==
  ASSUME TypeOK'
  PROVE  Spent' \in Nat /\ botCrashes' \in Nat
<1>1. crashes' \in Nat /\ faults' \in Nat /\ botCrashes' \in Nat
  BY BoundsAreNat DEF TypeOK
<1>2. \A x, y \in Nat : x + y \in Nat
  OBVIOUS
<1>3. crashes' + faults' \in Nat
  BY <1>1, <1>2
<1>4. QED
  BY <1>1, <1>3 DEF Spent

(* A set that grows by at most G has at most that many elements more. *)
LEMMA GrowsBy ==
  ASSUME NEW A, NEW G, NEW B, IsFiniteSet(A), IsFiniteSet(G),
         B \subseteq A \cup G
  PROVE  /\ IsFiniteSet(B)
         /\ Cardinality(B) \in Nat
         /\ Cardinality(B) <= Cardinality(A) + Cardinality(G)
<1>1. /\ IsFiniteSet(A \cup G)
      /\ Cardinality(A \cup G)
           = Cardinality(A) + Cardinality(G) - Cardinality(A \cap G)
  BY FS_Union
<1>2. IsFiniteSet(A \cap G)
  BY FS_Intersection
<1>3. /\ Cardinality(A) \in Nat
      /\ Cardinality(G) \in Nat
      /\ Cardinality(A \cap G) \in Nat
  BY <1>2, FS_CardinalityType
<1>4. /\ IsFiniteSet(B)
      /\ Cardinality(B) <= Cardinality(A \cup G)
  BY <1>1, FS_Subset
<1>5. Cardinality(B) \in Nat
  BY <1>4, FS_CardinalityType
<1>6. QED
  BY <1>1, <1>3, <1>4, <1>5

(* What a step adds to the missing ones, set against what it spends. *)
LEMMA MissingPaid ==
  ASSUME TypeOK, TypeOK', MissingInv, NEW G, IsFiniteSet(G),
         Missing' \subseteq Missing \cup G,
         \/ G = {} /\ Spent' >= Spent /\ botCrashes' >= botCrashes
         \/ /\ Cardinality(G) <= MaxPerPass
            /\ Spent' = Spent + 1
            /\ botCrashes' >= botCrashes
         \/ /\ Cardinality(G) <= 1
            /\ Spent' = Spent
            /\ botCrashes' = botCrashes + 1
  PROVE  /\ IsFiniteSet(Missing')
         /\ Cardinality(Missing') <= MaxPerPass * Spent' + botCrashes'
<1>0. /\ Spent \in Nat /\ Spent' \in Nat
      /\ botCrashes \in Nat /\ botCrashes' \in Nat
      /\ MaxPerPass \in Nat
      /\ MaxPerPass * Spent \in Nat
      /\ MaxPerPass * Spent' \in Nat
  <2>1. Spent' \in Nat /\ botCrashes' \in Nat
    BY NextSpentNat
  <2>2. \A x, y \in Nat : x * y \in Nat
    OBVIOUS
  <2>3. QED
    BY <2>1, <2>2, SpentNat
<1>1. /\ IsFiniteSet(Missing')
      /\ Cardinality(Missing') \in Nat
      /\ Cardinality(Missing') <= Cardinality(Missing) + Cardinality(G)
  BY GrowsBy DEF MissingInv
<1>2. /\ Cardinality(Missing) \in Nat
      /\ Cardinality(Missing) <= MaxPerPass * Spent + botCrashes
  BY FS_CardinalityType DEF MissingInv
<1>3. Cardinality(G) \in Nat
  BY FS_CardinalityType
<1>4. CASE G = {} /\ Spent' >= Spent /\ botCrashes' >= botCrashes
  <2>1. Cardinality(G) = 0
    BY <1>4, FS_EmptySet
  <2>2. \A p, x, y \in Nat : y >= x => p * x <= p * y
    BY SMT
  <2>3. MaxPerPass * Spent <= MaxPerPass * Spent'
    BY <1>0, <1>4, <2>2
  <2>4. QED
    BY <1>0, <1>1, <1>2, <1>4, <2>1, <2>3
<1>5. CASE /\ Cardinality(G) <= MaxPerPass
           /\ Spent' = Spent + 1
           /\ botCrashes' >= botCrashes
  <2>1. \A p, x \in Nat : p * (x + 1) = p * x + p
    BY SMT
  <2>2. MaxPerPass * Spent' = MaxPerPass * Spent + MaxPerPass
    BY <1>0, <1>5, <2>1
  <2>3. QED
    BY <1>0, <1>1, <1>2, <1>3, <1>5, <2>2
<1>6. CASE /\ Cardinality(G) <= 1
           /\ Spent' = Spent
           /\ botCrashes' = botCrashes + 1
  BY <1>0, <1>1, <1>2, <1>3, <1>6
<1>7. QED
  BY <1>1, <1>4, <1>5, <1>6

(* The bot moves an id from place to place; what it drops is the candidate *)
(* in the consumer's hand, for an error or a crash.                        *)
LEMMA MissingCapture ==
  ASSUME TypeOK, TypeOK', SurfaceInv, MissingInv, CaptureNext
  PROVE  MissingInv'
<1>0. /\ UNCHANGED <<worker, candidates, crashes>>
      /\ faults' \in {faults, faults + 1}
  BY CaptureLeavesWorker, SpentNat
<1>1. /\ crashes \in Nat /\ faults \in Nat /\ botCrashes \in Nat
      /\ inHand \in Nat /\ MaxPerPass \in Nat
      /\ notify \in Seq(Nat) /\ cards \in Seq(Nat)
      /\ candidates \in Seq(Candidate)
  BY SpentNat DEF TypeOK
<1>2. 0 \notin Elements(notify)
  <2>1. 0 \notin DOMAIN candidates
    BY <1>1
  <2>2. QED
    BY <2>1 DEF SurfaceInv, Announced, Linked
<1>3. Spent' >= Spent
  <2>1. faults' = faults \/ faults' = faults + 1
    BY <1>0
  <2>2. \A x, y, z \in Nat : z = y \/ z = y + 1 => x + z >= x + y
    OBVIOUS
  <2>3. faults' \in Nat
    BY <1>1, <2>1
  <2>4. crashes + faults' >= crashes + faults
    BY <1>1, <2>1, <2>2, <2>3
  <2>5. QED
    BY <1>0, <2>4 DEF Spent
<1>4. SUFFICES /\ IsFiniteSet(Missing')
               /\ Cardinality(Missing') <= MaxPerPass * Spent' + botCrashes'
  BY <1>0 DEF MissingInv
<1>5. ASSUME Announced' = Announced, botCrashes' = botCrashes
      PROVE  /\ IsFiniteSet(Missing')
             /\ Cardinality(Missing') <= MaxPerPass * Spent' + botCrashes'
  <2>1. Missing' \subseteq Missing \cup {}
    BY <1>0, <1>5 DEF Missing
  <2>2. IsFiniteSet({})
    BY FS_EmptySet
  <2>3. QED
    BY <1>1, <1>3, <1>5, <2>1, <2>2, MissingPaid
<1>6. CASE TakeNotify
  <2>1. /\ UNCHANGED <<cards, botCrashes>>
        /\ inHand = 0
        /\ Elements(notify') = Elements(notify) \ {inHand'}
        /\ inHand' \in Elements(notify)
    BY <1>1, <1>6, OnceTaken DEF TakeNotify, reviewRest, botVars, SurfaceInv
  <2>2. Announced' = Announced
    BY <1>2, <2>1 DEF Announced
  <2>3. QED
    BY <1>5, <2>1, <2>2
<1>7. CASE PostCard
  <2>1. /\ UNCHANGED <<notify, botCrashes>>
        /\ inHand # 0 /\ inHand' = 0
        /\ cards' = Append(cards, inHand)
    BY <1>7 DEF PostCard, reviewRest, botVars
  <2>2. Elements(cards') = Elements(cards) \cup {inHand}
    BY <1>1, <2>1, OnceAppended DEF SurfaceInv
  <2>3. Announced' = Announced
    BY <2>1, <2>2 DEF Announced
  <2>4. QED
    BY <1>5, <2>1, <2>3
<1>8. CASE CardFails \/ BotCrash
  <2>1. UNCHANGED <<notify, cards>> /\ inHand' = 0
    BY <1>8 DEF CardFails, BotCrash
  <2>2. Missing' \subseteq Missing \cup {inHand}
    BY <1>0, <2>1 DEF Missing, Announced
  <2>3. IsFiniteSet({inHand}) /\ Cardinality({inHand}) = 1
    BY FS_Singleton
  <2>4. CASE CardFails
    <3>1. /\ inHand # 0
          /\ botCrashes' = botCrashes
          /\ faults' = faults + 1
      BY <2>4 DEF CardFails, reviewRest, botVars
    <3>2. inHand \in DOMAIN candidates
      BY <3>1 DEF SurfaceInv, Announced, Linked
    <3>3. MaxPerPass >= 1
      BY <1>1, <3>2 DEF MissingInv
    <3>4. Spent' = Spent + 1
      BY <1>0, <1>1, <3>1 DEF Spent
    <3>5. QED
      BY <1>1, <2>2, <2>3, <3>1, <3>3, <3>4, MissingPaid
  <2>5. CASE BotCrash
    <3>1. botCrashes' = botCrashes + 1 /\ faults' = faults
      BY <2>5 DEF BotCrash
    <3>2. Spent' = Spent
      BY <1>0, <3>1 DEF Spent
    <3>3. QED
      BY <2>2, <2>3, <3>1, <3>2, MissingPaid
  <2>6. QED
    BY <1>8, <2>4, <2>5
<1>9. ASSUME UNCHANGED <<notify, cards, inHand, botCrashes>>
      PROVE  Announced' = Announced /\ botCrashes' = botCrashes
  BY <1>9 DEF Announced
<1>10. ASSUME NEW c \in Chats,
              \/ Deliver(c) \/ LockExpires(c) \/ Configure(c) \/ Remove(c)
              \/ PauseOrResume(c) \/ ManualSync(c)
       PROVE  UNCHANGED <<notify, cards, inHand, botCrashes>>
  BY <1>10 DEF Deliver, LockExpires, Configure, Remove, PauseOrResume,
     ManualSync, captureRest, configRest
<1>11. ASSUME NEW c \in Chats, NEW m \in Ids,
              HandlerStep(c, m) \/ HandlerFails(c, m)
       PROVE  UNCHANGED <<notify, cards, inHand, botCrashes>>
  BY <1>11 DEF HandlerStep, CheckConfigured, CheckPaused,
     CheckConfiguredAgain, Push, TryLock, Enqueue, HandlerFails, captureRest
<1>12. CASE ShowCard
  BY <1>5, <1>9, <1>12 DEF ShowCard, reviewRest, botVars
<1>13. QED
  BY <1>5, <1>6, <1>7, <1>8, <1>9, <1>10, <1>11, <1>12 DEF CaptureNext

(* The worker drops at most what is left of the answer it announces, for   *)
(* an error or a crash.                                                    *)
LEMMA MissingWorker ==
  ASSUME TypeOK, TypeOK', SurfaceInv, NotBehind, MissingInv, WorkerNext
  PROVE  MissingInv'
<1> USE DEF workerRest, At
<1>0. /\ notify \in Seq(Nat)
      /\ worker \in Work
      /\ worker.next \in Nat
      /\ candidates \in Seq(Candidate)
      /\ Len(candidates) \in Nat
      /\ DOMAIN candidates = 1..Len(candidates)
      /\ crashes \in Nat /\ faults \in Nat /\ botCrashes \in Nat
      /\ MaxPerPass \in Nat
  <2>1. /\ notify \in Seq(Nat)
        /\ worker \in Work
        /\ candidates \in Seq(Candidate)
    BY DEF TypeOK
  <2>2. /\ worker.next \in Nat
        /\ Len(candidates) \in Nat
        /\ DOMAIN candidates = 1..Len(candidates)
    BY <2>1, WorkType
  <2>3. QED
    BY <2>1, <2>2, SpentNat
<1>1. IsFiniteSet({}) /\ botCrashes >= botCrashes /\ Spent >= Spent
  BY <1>0, FS_EmptySet DEF Spent
<1>2. UNCHANGED <<cards, inHand, botCrashes>>
  BY DEF WorkerNext, WorkerStep, Dequeue, StartRun, ReadBuffer, DeleteBuffer,
     SaveBatch, SaveRejected, RecordFailure, Normalize, ExtractCandidates,
     ExtractNothing, NotifyNext, NotifyDone, MarkAnalyzed, Requeue, SyncFails,
     NotifyFails, JobAborted, WorkerCrash
<1>3. ASSUME UNCHANGED <<notify, candidates>>, worker.pc # "notify",
             Spent' >= Spent
      PROVE  MissingInv'
  <2>1. Missing' \subseteq Missing \cup {}
    BY <1>2, <1>3 DEF Missing, Announced
  <2>2. QED
    BY <1>1, <1>2, <1>3, <2>1, MissingPaid DEF MissingInv
<1>4. ASSUME UNCHANGED <<notify, candidates>>, worker.pc = "notify",
             Spent' = Spent + 1
      PROVE  MissingInv'
  <2> DEFINE left == worker.next..Len(candidates)
  <2>1. /\ worker.next <= Len(candidates) + 1
        /\ Len(candidates) + 1 - worker.next <= MaxPerPass
    BY <1>4 DEF NotBehind
  <2>2. /\ IsFiniteSet(left)
        /\ Cardinality(left) = IF worker.next > Len(candidates) THEN 0
                               ELSE Len(candidates) - worker.next + 1
    <3>1. worker.next \in Int /\ Len(candidates) \in Int
      BY <1>0
    <3>2. QED
      BY <3>1, FS_Interval
  <2>3. Cardinality(left) <= MaxPerPass
    BY <1>0, <2>1, <2>2
  <2>4. \A k \in DOMAIN candidates : worker.next <= k => k \in left
    BY <1>0
  <2> HIDE DEF left
  <2>5. Missing' \subseteq Missing \cup left
    BY <1>2, <1>4, <2>4 DEF Missing, Announced
  <2>6. QED
    BY <1>1, <1>2, <1>4, <2>2, <2>3, <2>5, MissingPaid DEF MissingInv
<1>5. CASE NotifyNext
  <2>1. /\ worker.pc = "notify" /\ worker.next \in 1..Len(candidates)
        /\ worker'.pc = "notify" /\ worker'.next = worker.next + 1
        /\ UNCHANGED <<candidates, crashes, faults>>
        /\ notify' = IF candidates[worker.next].linked
                     THEN Append(notify, worker.next) ELSE notify
    BY <1>0, <1>5 DEF NotifyNext, SurfaceInv, Work
  <2>2. /\ Elements(notify) \subseteq Elements(notify')
        /\ candidates[worker.next].linked
             => worker.next \in Elements(notify')
    <3>1. CASE candidates[worker.next].linked
      <4>1. worker.next \notin Elements(notify)
        BY <1>0, <2>1 DEF SurfaceInv, Announced
      <4>2. Elements(notify') = Elements(notify) \cup {worker.next}
        BY <1>0, <2>1, <3>1, <4>1, OnceAppended DEF SurfaceInv
      <4>3. QED
        BY <4>2
    <3>2. CASE ~candidates[worker.next].linked
      BY <2>1, <3>2
    <3>3. QED
      BY <3>1, <3>2
  <2>3. \A k \in DOMAIN candidates :
          worker.next <= k => k = worker.next \/ worker.next + 1 <= k
    BY <1>0
  <2>4. Missing' \subseteq Missing \cup {}
    BY <1>2, <2>1, <2>2, <2>3 DEF Missing, Announced
  <2>5. Spent' = Spent
    BY <2>1 DEF Spent
  <2>6. QED
    BY <1>1, <1>2, <2>1, <2>4, <2>5, MissingPaid DEF MissingInv
<1>6. CASE NotifyDone
  <2>1. /\ worker.pc = "notify" /\ worker.next > Len(candidates)
        /\ UNCHANGED <<notify, candidates, crashes, faults>>
    BY <1>6 DEF NotifyDone
  <2>2. \A k \in DOMAIN candidates : ~(worker.next <= k)
    BY <1>0, <2>1
  <2>3. Missing' \subseteq Missing \cup {}
    BY <1>2, <2>1, <2>2 DEF Missing, Announced
  <2>4. Spent' = Spent
    BY <2>1 DEF Spent
  <2>5. QED
    BY <1>1, <1>2, <2>1, <2>3, <2>4, MissingPaid DEF MissingInv
<1>7. CASE ExtractCandidates
  <2>1. /\ worker.pc = "extract"
        /\ UNCHANGED <<notify, crashes, faults>>
        /\ worker'.pc = "notify"
        /\ worker'.next = Len(candidates) + 1
    BY <1>0, <1>7 DEF ExtractCandidates, Work
  <2>2. PICK answer \in Answers(worker.chat) : candidates' = candidates \o answer
    BY <1>7 DEF ExtractCandidates, chat
  <2>3. /\ candidates' \in Seq(Candidate)
        /\ Len(candidates') <= Len(candidates) + MaxPerPass
        /\ \A i \in DOMAIN candidates : candidates'[i] = candidates[i]
    BY <1>0, <2>2, AnswerType, WorkType
  <2>4. Len(candidates') \in Nat /\ DOMAIN candidates' = 1..Len(candidates')
    BY <2>3
  <2>5. candidates' # <<>> => MaxPerPass >= 1
    <3>1. CASE candidates = <<>>
      <4>1. Len(candidates) = 0
        BY <3>1
      <4>2. MaxPerPass = 0 => Len(candidates') = 0
        BY <1>0, <2>3, <2>4, <4>1
      <4>3. Len(candidates') = 0 => candidates' = <<>>
        BY <2>3
      <4>4. QED
        BY <1>0, <4>2, <4>3
    <3>2. CASE candidates # <<>>
      BY <3>2 DEF MissingInv
    <3>3. QED
      BY <3>1, <3>2
  <2>6. \A k \in DOMAIN candidates' :
          k \in DOMAIN candidates \/ worker'.next <= k
    BY <1>0, <2>1, <2>4
  <2>7. Missing' \subseteq Missing \cup {}
    BY <1>2, <2>1, <2>3, <2>6 DEF Missing, Announced
  <2>8. Spent' = Spent
    BY <2>1 DEF Spent
  <2>9. QED
    BY <1>1, <1>2, <2>5, <2>7, <2>8, MissingPaid DEF MissingInv
<1>8. CASE \/ Dequeue \/ StartRun \/ ReadBuffer \/ DeleteBuffer \/ SaveBatch
           \/ SaveRejected \/ RecordFailure \/ Normalize \/ ExtractNothing
           \/ MarkAnalyzed \/ Requeue \/ SyncFails
  <2>1. /\ UNCHANGED <<notify, candidates, crashes, faults>>
        /\ worker.pc # "notify"
    BY <1>8 DEF Dequeue, StartRun, ReadBuffer, DeleteBuffer, SaveBatch,
       SaveRejected, RecordFailure, Normalize, ExtractNothing, MarkAnalyzed,
       Requeue, SyncFails, dbVars
  <2>2. Spent' = Spent
    BY <2>1 DEF Spent
  <2>3. QED
    BY <1>1, <1>3, <2>1, <2>2
<1>9. CASE NotifyFails \/ JobAborted \/ WorkerCrash
  <2>1. /\ UNCHANGED <<notify, candidates>>
        /\ \/ crashes' = crashes /\ faults' = faults + 1
           \/ crashes' = crashes + 1 /\ faults' = faults
    BY <1>9 DEF NotifyFails, JobAborted, WorkerCrash, Fault, dbVars
  <2>2. Spent' = Spent + 1
    BY <1>0, <2>1 DEF Spent
  <2>3. Spent' >= Spent
    BY <1>0, <2>2 DEF Spent
  <2>4. QED
    BY <1>3, <1>4, <2>1, <2>2, <2>3
<1>10. QED
  BY <1>5, <1>6, <1>7, <1>8, <1>9 DEF WorkerNext, WorkerStep

(* The places say what AnnouncedOnce says of the lists.                    *)
LEMMA AnnouncedHolds ==
  ASSUME TypeOK, SurfaceInv, MissingInv
  PROVE  AnnouncedOnce
<1>1. Lost \subseteq Missing
  BY InOneList DEF Lost, Missing, Elements
<1>2. IsFiniteSet(Lost) /\ Cardinality(Lost) <= Cardinality(Missing)
  BY <1>1, FS_Subset DEF MissingInv
<1>3. Cardinality(Lost) \in Nat /\ Cardinality(Missing) \in Nat
  BY <1>2, FS_CardinalityType DEF MissingInv
<1>4. /\ Spent = crashes + faults
      /\ MaxPerPass * Spent \in Nat
      /\ botCrashes \in Nat
  BY SpentNat DEF Spent
<1>5. Cardinality(Lost) <= MaxPerPass * (crashes + faults) + botCrashes
  BY <1>2, <1>3, <1>4 DEF MissingInv
<1>6. ASSUME NEW i \in DOMAIN Announcements
      PROVE  /\ Announcements[i] \in DOMAIN candidates
             /\ candidates[Announcements[i]].linked
  BY InOneList DEF Elements, SurfaceInv, Linked
<1>7. QED
  BY <1>5, <1>6, InOneList DEF AnnouncedOnce

(* The notify queue announces each candidate with an assignee, and no      *)
(* other, at most once, and all of them but what crashes and errors cost.  *)
THEOREM AnnouncedCorrect == Spec => []AnnouncedOnce
<1>1. PipelineInit => SurfaceInv
  BY NoWorkType
     DEF PipelineInit, SurfaceInv, OnlyOnce, Elements, Announced
<1>2. PipelineInit => MissingInv
  <2> SUFFICES ASSUME PipelineInit PROVE MissingInv
    OBVIOUS
  <2>1. candidates = <<>> /\ crashes = 0 /\ faults = 0 /\ botCrashes = 0
    BY DEF PipelineInit
  <2>2. Missing = {}
    BY <2>1 DEF Missing
  <2>3. IsFiniteSet(Missing) /\ Cardinality(Missing) = 0
    BY <2>2, FS_EmptySet
  <2>4. TypeOK
    BY TypeInit
  <2>5. MaxPerPass * Spent \in Nat
    BY <2>4, SpentNat
  <2>6. QED
    BY <2>1, <2>3, <2>5 DEF MissingInv
<1>3. TypeOK /\ SurfaceInv /\ [Next]_vars => SurfaceInv'
  <2>1. SurfaceInv /\ UNCHANGED vars => SurfaceInv'
    BY DEF SurfaceInv, Announced, Linked
  <2>2. QED
    BY <2>1, SurfaceCapture, SurfaceWorker DEF Next
<1>4. TypeOK /\ TypeOK' /\ SurfaceInv /\ NotBehind /\ MissingInv /\ [Next]_vars
        => MissingInv'
  <2>1. MissingInv /\ UNCHANGED vars => MissingInv'
    BY DEF MissingInv, Missing, Announced, Spent
  <2>2. QED
    BY <2>1, MissingCapture, MissingWorker DEF Next
<1>5. TypeOK /\ SurfaceInv /\ MissingInv => AnnouncedOnce
  BY AnnouncedHolds
<1>6. Spec => [](TypeOK /\ NotBehind)
  BY NotBehindAlways
<1>7. QED
  BY <1>1, <1>2, <1>3, <1>4, <1>5, <1>6, PTL DEF Spec
-----------------------------------------------------------------------------
(* Nothing is left half-way.  As long as nothing has crashed or failed, a  *)
(* message is "new" only while the job that stored it is about to          *)
(* normalise, and "normalized" only while the same job extracts: each job  *)
(* finds the table clean and leaves it clean.  That a normalisation        *)
(* reaches all the new messages takes a bound on what a job stores.        *)
Undisturbed == crashes = 0 /\ faults = 0

Clean ==
  \A c \in Chats : \A m \in Ids :
    /\ status[c][m] = "new" =>
         worker.pc = "normalize" /\ worker.saved /\ c = worker.chat
    /\ status[c][m] = "normalized" =>
         worker.pc \in {"extract", "notify", "mark"} /\ c = worker.chat

Bounded(S) == IsFiniteSet(S) /\ Cardinality(S) <= BatchLimit

BatchBounded ==
  worker.pc = "save" => Bounded({m \in Ids : worker.batch[m] > 0})

HalfwayInv ==
  /\ BatchBounded
  /\ Undisturbed => Clean /\ Bounded(NewMessages)

(* A smaller set is bounded by the same limit. *)
LEMMA BoundedSubset ==
  ASSUME NEW S, Bounded(S), NEW T \in SUBSET S
  PROVE  Bounded(T)
<1>1. /\ IsFiniteSet(T)
      /\ Cardinality(T) <= Cardinality(S)
      /\ Cardinality(S) \in Nat
      /\ Cardinality(T) \in Nat
  BY FS_Subset, FS_CardinalityType DEF Bounded
<1>2. QED
  BY <1>1, PipelineAssumption DEF Bounded

LEMMA BoundedEmpty == Bounded({})
BY FS_EmptySet, PipelineAssumption DEF Bounded

(* The messages of one chat are as many as their ids. *)
LEMMA BoundedPairs ==
  ASSUME NEW S, Bounded(S), NEW c
  PROVE  Bounded({c} \X S)
<1>1. IsFiniteSet({c}) /\ Cardinality({c}) = 1
  BY FS_Singleton
<1>2. /\ IsFiniteSet({c} \X S)
      /\ Cardinality({c} \X S) = Cardinality({c}) * Cardinality(S)
  BY <1>1, FS_Product DEF Bounded
<1>3. Cardinality(S) \in Nat
  BY FS_CardinalityType DEF Bounded
<1>4. QED
  BY <1>1, <1>2, <1>3 DEF Bounded

(* normalize_pending reaches every new message if they are no more than    *)
(* its limit.                                                              *)
LEMMA NormalizesAll ==
  ASSUME BatchLimit <= NormalizeLimit, Bounded(NewMessages),
         NEW batch \in SUBSET NewMessages,
         Cardinality(batch) = Min({NormalizeLimit, Cardinality(NewMessages)})
  PROVE  batch = NewMessages
<1> DEFINE n == Cardinality(NewMessages)
<1>1. n \in Nat /\ NormalizeLimit \in Nat /\ n <= NormalizeLimit
  BY FS_CardinalityType, PipelineAssumption DEF Bounded
<1> HIDE DEF n
<1>2. Min({NormalizeLimit, n}) = n
  BY <1>1 DEF Min
<1>3. Cardinality(batch) = n
  BY <1>2 DEF n
<1>4. QED
  BY <1>3, FS_Subset DEF n, Bounded

(* Each step of the worker counts at most one crash and one failure. *)
LEMMA WorkerCounts ==
  ASSUME WorkerNext
  PROVE  /\ crashes' \in {crashes, crashes + 1}
         /\ faults' \in {faults, faults + 1}
<1>1. CASE WorkerStep
  BY <1>1 DEF WorkerStep, Dequeue, StartRun, ReadBuffer, DeleteBuffer,
     SaveBatch, SaveRejected, RecordFailure, Normalize, ExtractCandidates,
     ExtractNothing, NotifyNext, NotifyDone, MarkAnalyzed, Requeue
<1>2. CASE SyncFails \/ NotifyFails \/ JobAborted \/ WorkerCrash
  BY <1>2 DEF SyncFails, NotifyFails, JobAborted, WorkerCrash, Fault
<1>3. QED
  BY <1>1, <1>2 DEF WorkerNext

(* The fetch bounds the batch, and nothing else enters "save". *)
LEMMA BatchBoundedStep ==
  TypeOK /\ BatchBounded /\ [Next]_vars => BatchBounded'
<1> SUFFICES ASSUME TypeOK, BatchBounded, [Next]_vars PROVE BatchBounded'
  OBVIOUS
<1>0. /\ worker \in Work
      /\ worker.chat \in Chats
      /\ worker.batch \in [Ids -> Nat]
      /\ watermark[worker.chat] \in Nat
  BY WorkType, BoundsAreNat DEF TypeOK
<1>1. CASE worker' = worker
  BY <1>1 DEF BatchBounded
<1>2. CASE DeleteBuffer
  <2>1. worker'.batch = Fetched(worker.batch, watermark[worker.chat])
    BY <1>0, <1>2 DEF DeleteBuffer, chat, Work
  <2>2. QED
    BY <1>0, <2>1, FetchedBounded DEF BatchBounded, Bounded
<1>3. CASE WorkerNext /\ ~DeleteBuffer
  <2>1. worker'.pc # "save"
    BY <1>0, <1>3, SaveEntered
  <2>2. QED
    BY <2>1 DEF BatchBounded
<1>4. CASE CaptureNext
  BY <1>1, <1>4, CaptureLeavesWorker
<1>5. QED
  BY <1>1, <1>2, <1>3, <1>4 DEF Next

(* Outside the four steps in between, a clean table has nothing half-way;  *)
(* it then stays clean whatever the worker does next.                      *)
LEMMA CleanTable ==
  ASSUME Clean, worker.pc \notin {"normalize", "extract", "notify", "mark"}
  PROVE  \A c \in Chats : \A m \in Ids :
           status[c][m] \notin {"new", "normalized"}
BY DEF Clean

(* A commit of messages to a clean table: all that is "new" is the batch.  *)
LEMMA CleanSave ==
  ASSUME TypeOK, Clean, BatchBounded, SaveBatch
  PROVE  Clean' /\ Bounded(NewMessages)'
<1>a. PICK c \in Chats : c = worker.chat
  BY WorkType DEF TypeOK
<1>b. PICK new \in SUBSET Ids : new = Unstored(c, worker.batch)
  BY DEF Unstored
<1>0. status \in [Chats -> [Ids -> MsgStatus]]
  BY DEF TypeOK
<1>1. /\ worker.pc = "save"
      /\ status' = [status EXCEPT ![c] =
            [m \in Ids |-> IF m \in new THEN "new" ELSE status[c][m]]]
  BY <1>a, <1>b DEF SaveBatch, chat, At
<1>2. /\ worker'.pc = "normalize"
      /\ worker'.saved = (new # {})
      /\ worker'.chat = c
  BY <1>a, <1>b DEF SaveBatch, chat, TypeOK, Work
<1>3. ASSUME NEW d \in Chats, NEW m \in Ids
      PROVE  /\ status'[d][m] = "new" <=> d = c /\ m \in new
             /\ status'[d][m] # "normalized"
  <2>1. status[d][m] \notin {"new", "normalized"}
    BY <1>1, CleanTable
  <2>2. status'[d][m] = IF d = c /\ m \in new THEN "new" ELSE status[d][m]
    BY <1>0, <1>1
  <2>3. QED
    BY <2>1, <2>2
<1>4. Clean'
  BY <1>2, <1>3 DEF Clean
<1>5. new \in SUBSET {m \in Ids : worker.batch[m] > 0}
  BY <1>b DEF Unstored
<1>6. Bounded({c} \X new)
  <2>1. Bounded({m \in Ids : worker.batch[m] > 0})
    BY <1>1 DEF BatchBounded
  <2>2. Bounded(new)
    BY <1>5, <2>1, BoundedSubset
  <2>3. QED
    BY <2>2, BoundedPairs
<1>7. NewMessages' = {c} \X new
  <2>1. NewMessages' = {p \in Chats \X Ids : status'[p[1]][p[2]] = "new"}
    BY DEF NewMessages
  <2>2. \A p \in Chats \X Ids : p[1] \in Chats /\ p[2] \in Ids /\ p = <<p[1], p[2]>>
    OBVIOUS
  <2>3. QED
    BY <1>3, <2>1, <2>2
<1>8. QED
  BY <1>4, <1>6, <1>7 DEF Bounded

(* The normalisation classifies everything that is new. *)
LEMMA CleanNormalize ==
  ASSUME BatchLimit <= NormalizeLimit,
         TypeOK, Clean, Bounded(NewMessages), Normalize
  PROVE  Clean' /\ Bounded(NewMessages)'
<1>0. /\ status \in [Chats -> [Ids -> MsgStatus]]
      /\ worker \in Work
      /\ worker.pc = "normalize"
      /\ \A p \in Chats \X Ids : Outcome[p] \in {"normalized", "skipped", "failed"}
  BY PipelineAssumption DEF TypeOK, Normalize, At
<1>1. status' = [c \in Chats |-> [m \in Ids |->
        IF <<c, m>> \in NewMessages THEN Outcome[<<c, m>>] ELSE status[c][m]]]
  <2>1. PICK batch \in SUBSET NewMessages :
          /\ Cardinality(batch) = Min({NormalizeLimit, Cardinality(NewMessages)})
          /\ status' = [c \in Chats |-> [m \in Ids |->
               IF <<c, m>> \in batch THEN Outcome[<<c, m>>] ELSE status[c][m]]]
    BY DEF Normalize
  <2>2. batch = NewMessages
    BY <2>1, NormalizesAll
  <2>3. QED
    BY <2>1, <2>2
<1>2. ASSUME NEW c \in Chats, NEW m \in Ids
      PROVE  /\ status'[c][m] # "new"
             /\ status'[c][m] = "normalized" =>
                  worker.saved /\ c = worker.chat
  <2>1. <<c, m>> \in NewMessages <=> status[c][m] = "new"
    BY DEF NewMessages
  <2>2. CASE status[c][m] = "new"
    BY <1>0, <1>1, <2>1, <2>2 DEF Clean
  <2>3. CASE status[c][m] # "new"
    <3>1. status'[c][m] = status[c][m]
      BY <1>1, <2>1, <2>3
    <3>2. status[c][m] # "normalized"
      BY <1>0 DEF Clean
    <3>3. QED
      BY <2>3, <3>1, <3>2
  <2>4. QED
    BY <2>2, <2>3
<1>3. /\ worker'.pc = (IF worker.saved THEN "extract" ELSE "requeue")
      /\ worker'.chat = worker.chat
  BY <1>0 DEF Normalize, GoOn, Work
<1>4. Clean'
  BY <1>2, <1>3 DEF Clean
<1>5. NewMessages' = {}
  BY <1>2 DEF NewMessages
<1>6. QED
  BY <1>4, <1>5, BoundedEmpty DEF Bounded

(* The marking leaves nothing of the chat "normalized". *)
LEMMA CleanMark ==
  ASSUME TypeOK, Clean, MarkAnalyzed
  PROVE  Clean' /\ Bounded(NewMessages)'
<1>a. PICK c \in Chats : c = worker.chat
  BY WorkType DEF TypeOK
<1>0. /\ status \in [Chats -> [Ids -> MsgStatus]]
      /\ worker.pc = "mark"
  BY DEF TypeOK, MarkAnalyzed, At
<1>1. status' = [status EXCEPT ![c] =
        [m \in Ids |-> IF m \in Fresh(c) THEN "analyzed" ELSE status[c][m]]]
  BY <1>a DEF MarkAnalyzed, chat
<1>2. ASSUME NEW d \in Chats, NEW m \in Ids
      PROVE  status'[d][m] \notin {"new", "normalized"}
  <2>1. /\ status[d][m] # "new"
        /\ status[d][m] = "normalized" => d = c
    BY <1>0, <1>a DEF Clean
  <2>2. status'[d][m] =
          IF d = c /\ m \in Fresh(c) THEN "analyzed" ELSE status[d][m]
    BY <1>0, <1>1
  <2>3. m \in Fresh(c) <=> status[c][m] = "normalized"
    BY DEF Fresh
  <2>4. QED
    BY <2>1, <2>2, <2>3
<1>3. NewMessages' = {}
  BY <1>2 DEF NewMessages
<1>4. QED
  BY <1>2, <1>3, BoundedEmpty DEF Clean, Bounded

(* The steps that leave the messages table alone. *)
LEMMA CleanKept ==
  ASSUME TypeOK, Clean, Bounded(NewMessages), WorkerNext, Undisturbed',
         Undisturbed, UNCHANGED status,
         ~Normalize, ~MarkAnalyzed
  PROVE  Clean' /\ Bounded(NewMessages)'
<1> USE DEF At
<1>0. /\ worker \in Work
      /\ NewMessages' = NewMessages
  BY DEF TypeOK, NewMessages
<1>1. Bounded(NewMessages)'
  BY <1>0 DEF Bounded
<1>2. CASE worker.pc \notin {"normalize", "extract", "notify", "mark"}
  BY <1>1, <1>2, CleanTable DEF Clean
<1>3. CASE ExtractCandidates \/ ExtractNothing \/ NotifyNext \/ NotifyDone
  <2>1. /\ worker.pc \in {"extract", "notify"}
        /\ worker'.pc \in {"extract", "notify", "mark"}
        /\ worker'.chat = worker.chat
    BY <1>0, <1>3 DEF ExtractCandidates, ExtractNothing, NotifyNext,
       NotifyDone, GoOn, Work
  <2>2. QED
    BY <1>1, <2>1 DEF Clean
<1>4. ~(NotifyFails \/ JobAborted \/ WorkerCrash)
  BY DEF NotifyFails, JobAborted, WorkerCrash, Fault, Undisturbed
<1>5. QED
  BY <1>1, <1>2, <1>3, <1>4
     DEF WorkerNext, WorkerStep, Dequeue, StartRun, ReadBuffer, DeleteBuffer,
         SaveBatch, SaveRejected, RecordFailure, Requeue, SyncFails

(* Every step of an undisturbed system keeps the table clean. *)
LEMMA HalfwayStep ==
  ASSUME BatchLimit <= NormalizeLimit
  PROVE  TypeOK /\ TypeOK' /\ HalfwayInv /\ [Next]_vars => HalfwayInv'
<1> SUFFICES ASSUME TypeOK, TypeOK', HalfwayInv, [Next]_vars
             PROVE  HalfwayInv'
  OBVIOUS
<1>1. BatchBounded'
  BY BatchBoundedStep DEF HalfwayInv
<1>2. SUFFICES ASSUME Undisturbed' PROVE Clean' /\ Bounded(NewMessages)'
  BY <1>1 DEF HalfwayInv
<1>3. ASSUME crashes' \in {crashes, crashes + 1},
             faults' \in {faults, faults + 1}
      PROVE  Undisturbed /\ Clean /\ Bounded(NewMessages)
  <2>1. crashes \in Nat /\ faults \in Nat
    BY BoundsAreNat DEF TypeOK
  <2>2. Undisturbed
    BY <1>2, <1>3, <2>1 DEF Undisturbed
  <2>3. QED
    BY <2>2 DEF HalfwayInv
<1>4. CASE UNCHANGED vars \/ CaptureNext
  <2>1. /\ UNCHANGED <<status, worker, crashes>>
        /\ faults' \in {faults, faults + 1}
    <3>1. faults \in Nat
      BY BoundsAreNat DEF TypeOK
    <3>2. QED
      BY <1>4, <3>1, CaptureLeavesWorker
  <2>2. Clean /\ Bounded(NewMessages)
    BY <1>3, <2>1
  <2>3. NewMessages' = NewMessages
    BY <2>1 DEF NewMessages
  <2>4. QED
    BY <2>1, <2>2, <2>3 DEF Clean, Bounded
<1>5. CASE WorkerNext
  <2>1. /\ crashes' \in {crashes, crashes + 1}
        /\ faults' \in {faults, faults + 1}
    BY <1>5, WorkerCounts
  <2>2. Undisturbed /\ Clean /\ Bounded(NewMessages) /\ BatchBounded
    BY <1>3, <2>1 DEF HalfwayInv
  <2>3. CASE SaveBatch
    BY <2>2, <2>3, CleanSave
  <2>4. CASE Normalize
    BY <2>2, <2>4, CleanNormalize
  <2>5. CASE MarkAnalyzed
    BY <2>2, <2>5, CleanMark
  <2>6. CASE ~SaveBatch /\ ~Normalize /\ ~MarkAnalyzed
    BY <1>2, <1>5, <2>2, <2>6, TableUntouched, CleanKept
  <2>7. QED
    BY <2>3, <2>4, <2>5, <2>6
<1>6. QED
  BY <1>4, <1>5 DEF Next

(* Without crashes and failures no message is left half-way once the       *)
(* worker is idle, provided a normalisation takes as many messages as a    *)
(* sync stores (500 and 200 in the code).                                  *)
THEOREM NothingLeft ==
  ASSUME BatchLimit <= NormalizeLimit
  PROVE  Spec => []NothingHalfWay
<1>1. PipelineInit => HalfwayInv
  <2> SUFFICES ASSUME PipelineInit PROVE HalfwayInv
    OBVIOUS
  <2>1. /\ worker.pc = "idle"
        /\ \A c \in Chats : \A m \in Ids : status[c][m] = "absent"
    BY NoWorkType DEF PipelineInit
  <2>2. NewMessages = {}
    BY <2>1 DEF NewMessages
  <2>3. QED
    BY <2>1, <2>2, BoundedEmpty DEF HalfwayInv, BatchBounded, Clean
<1>2. HalfwayInv => NothingHalfWay
  BY CleanTable DEF HalfwayInv, Undisturbed, NothingHalfWay
<1>3. Spec => []TypeOK
  BY TypeCorrect
<1>4. TypeOK /\ TypeOK' /\ HalfwayInv /\ [Next]_vars => HalfwayInv'
  BY HalfwayStep
<1>5. QED
  BY <1>1, <1>2, <1>3, <1>4, PTL DEF Spec
-----------------------------------------------------------------------------
(* What follows from the ledger: no message goes back, and no watermark.   *)
Onwards(s) ==
  CASE s = "absent"     -> {"absent", "new"}
    [] s = "new"        -> {"new", "normalized", "skipped", "failed"}
    [] s = "normalized" -> {"normalized", "analyzed"}
    [] OTHER            -> {s}

Advancing ==
  \A c \in Chats :
    /\ watermark[c] <= watermark'[c]
    /\ \A m \in Ids : status'[c][m] \in Onwards(status[c][m])

LEMMA LedgerAdvances ==
  ASSUME TypeOK, Ledger!LedgerNext
  PROVE  Advancing
<1>0. /\ status \in [Chats -> [Ids -> MsgStatus]]
      /\ watermark \in [Chats -> 0..MaxId]
      /\ \A c \in Chats : watermark[c] \in Int
      /\ Ledger!Ids = Ids
  BY BoundsAreNat DEF TypeOK, Ledger!Ids, Ids
<1>1. ASSUME NEW c \in Chats, NEW batch \in SUBSET Ids, Ledger!Store(c, batch)
      PROVE  Advancing
  <2>1. /\ status' = [status EXCEPT ![c] =
             [m \in Ids |-> IF m \in batch THEN "new" ELSE status[c][m]]]
        /\ \A m \in batch : m > watermark[c] /\ status[c][m] = "absent"
    BY <1>0, <1>1 DEF Ledger!Store
  <2>2. PICK last \in batch : watermark' = [watermark EXCEPT ![c] = last]
    BY <1>1 DEF Ledger!Store
  <2>3. last > watermark[c] /\ last \in Int
    BY <2>1 DEF Ids
  <2>4. ASSUME NEW d \in Chats
        PROVE  watermark[d] <= watermark'[d]
    BY <1>0, <2>2, <2>3
  <2>5. ASSUME NEW d \in Chats, NEW m \in Ids
        PROVE  status'[d][m] \in Onwards(status[d][m])
    BY <1>0, <2>1 DEF Onwards
  <2>6. QED
    BY <2>4, <2>5 DEF Advancing
<1>2. ASSUME NEW batch \in SUBSET (Chats \X Ids), Ledger!Classify(batch)
      PROVE  Advancing
  <2>1. \A d \in Chats : watermark[d] <= watermark'[d]
    BY <1>0, <1>2 DEF Ledger!Classify
  <2>2. ASSUME NEW d \in Chats, NEW m \in Ids
        PROVE  status'[d][m] \in Onwards(status[d][m])
    <3>1. status'[d][m] = IF <<d, m>> \in batch THEN Outcome[<<d, m>>]
                                                ELSE status[d][m]
      BY <1>0, <1>2 DEF Ledger!Classify
    <3>2. <<d, m>> \in batch => status[d][m] = "new"
      BY <1>2 DEF Ledger!Classify
    <3>3. Outcome[<<d, m>>] \in {"normalized", "skipped", "failed"}
      BY PipelineAssumption
    <3>4. QED
      BY <3>1, <3>2, <3>3 DEF Onwards
  <2>3. QED
    BY <2>1, <2>2 DEF Advancing
<1>3. ASSUME NEW c \in Chats, Ledger!Analyze(c)
      PROVE  Advancing
  <2>1. \A d \in Chats : watermark[d] <= watermark'[d]
    BY <1>0, <1>3 DEF Ledger!Analyze
  <2>2. ASSUME NEW d \in Chats, NEW m \in Ids
        PROVE  status'[d][m] \in Onwards(status[d][m])
    <3>1. \/ status'[d][m] = status[d][m]
          \/ status'[d][m] = "analyzed" /\ status[d][m] = "normalized"
      BY <1>0, <1>3 DEF Ledger!Analyze
    <3>2. QED
      BY <3>1 DEF Onwards
  <2>3. QED
    BY <2>1, <2>2 DEF Advancing
<1>4. QED
  BY <1>0, <1>1, <1>2, <1>3 DEF Ledger!LedgerNext

(* Whatever crashes, fails, is delivered again or retried, a message that  *)
(* was analysed is never analysed again, one that was skipped stays so, no *)
(* row disappears, and no chat's watermark goes back (run_sync,            *)
(* normalize_pending, _mark_analyzed).                                     *)
THEOREM NothingTakenBack == Spec => [][Advancing]_<<status, watermark>>
<1>1. TypeOK /\ LedgerInv /\ [Next]_vars => [Advancing]_<<status, watermark>>
  BY LedgerStep, LedgerAdvances
<1>2. QED
  BY <1>1, TypedLedger, PTL DEF Spec
-----------------------------------------------------------------------------
(* What the limit of a batch cuts off: it was deleted from the buffer, but *)
(* lies above all that is stored, so that the watermark does not pass it   *)
(* and a message delivered again is taken (fetch_messages).                *)
THEOREM CutLiesAbove ==
  ASSUME NEW list \in [Ids -> Nat], NEW after \in Nat,
         NEW cut \in Ids, list[cut] > 0, cut > after,
         Fetched(list, after)[cut] = 0,
         NEW m \in Ids, Fetched(list, after)[m] > 0
  PROVE  m < cut
<1> DEFINE records == Records(list, after)
           earlier(p) == {q \in records : Before(q, p)}
<1>1. IsFiniteSet(records)
  BY RecordsFinite
<1>2. \A p \in records : /\ p = <<p[1], p[2]>>
                         /\ p[1] \in Int /\ p[2] \in Int
  <2>1. \A p \in records : p \in Ids \X (Nat \ {0})
    BY RecordsFinite
  <2>2. \A p \in Ids \X (Nat \ {0}) : /\ p = <<p[1], p[2]>>
                                       /\ p[1] \in Int /\ p[2] \in Int
    BY DEF Ids
  <2> HIDE DEF records
  <2>3. QED
    BY <2>1, <2>2
<1>3. <<cut, 1>> \in records
  <2>1. list[cut] \in Nat /\ 1 \in 1..list[cut]
    OBVIOUS
  <2>2. QED
    BY <2>1 DEF Records
<1>4. PICK p \in Taken(records) : p[1] = m
  BY FetchedType
<1>5. p \in records /\ Cardinality(earlier(p)) < BatchLimit
  BY <1>4 DEF Taken
<1>6. <<cut, 1>> \notin Taken(records)
  <2> DEFINE copies == {q \in Taken(records) : q[1] = cut}
  <2>1. copies \in SUBSET records
    BY DEF Taken
  <2>2. IsFiniteSet(copies)
    BY <1>1, <2>1, FS_Subset
  <2>3. Cardinality(copies) = 0
    BY DEF Fetched
  <2> HIDE DEF copies
  <2>4. copies = {}
    BY <2>2, <2>3, FS_EmptySet
  <2>5. QED
    BY <2>4 DEF copies
<1>7. ~(Cardinality(earlier(<<cut, 1>>)) < BatchLimit)
  BY <1>3, <1>6 DEF Taken
<1>8. m # cut
  OBVIOUS
<1>9. CASE m > cut
  <2>1. earlier(<<cut, 1>>) \subseteq earlier(p)
    BY <1>2, <1>4, <1>5, <1>9 DEF Before, Ids
  <2>2. /\ IsFiniteSet(earlier(p)) /\ Cardinality(earlier(p)) \in Nat
        /\ Cardinality(earlier(<<cut, 1>>)) \in Nat
    BY <1>1, EarlierFinite
  <2> HIDE DEF earlier
  <2>3. Cardinality(earlier(<<cut, 1>>)) <= Cardinality(earlier(p))
    BY <2>1, <2>2, FS_Subset
  <2>4. BatchLimit \in Nat
    BY PipelineAssumption
  <2>5. QED
    BY <1>5, <1>7, <2>2, <2>3, <2>4
<1>10. QED
  BY <1>8, <1>9 DEF Ids
-----------------------------------------------------------------------------
(* What the LLM is shown of a chat: the newest of its messages that are    *)
(* not analysed yet, without holes and without a gap, and never nothing    *)
(* (_recent_topic_segment).                                                *)
THEOREM SegmentIsNewest ==
  ASSUME NEW c \in Chats
  PROVE  /\ Segment(c) \subseteq Fresh(c)
         /\ \A m \in Segment(c) : \A n \in Fresh(c) : n > m => n \in Segment(c)
         /\ Fresh(c) # {} => Segment(c) # {}
<1> DEFINE newer(m) == {n \in Fresh(c) : n > m}
<1>0. Window \in Nat /\ Window >= 1 /\ MaxId \in Nat
  BY PipelineAssumption
<1>1. Fresh(c) \in SUBSET Ids
  BY DEF Fresh
<1>2. IsFiniteSet(Fresh(c))
  <2>1. IsFiniteSet(Ids)
    BY <1>0, FS_Interval DEF Ids
  <2>2. QED
    BY <1>1, <2>1, FS_Subset
<1>3. Segment(c) \subseteq Recent(c) /\ Recent(c) \subseteq Fresh(c)
  BY DEF Segment, Recent
<1>4. ASSUME NEW m \in Recent(c), NEW n \in Fresh(c), n > m
      PROVE  n \in Recent(c)
  <2>1. newer(n) \subseteq newer(m)
    BY <1>1, <1>3, <1>4 DEF Ids
  <2>2. newer(m) \in SUBSET Fresh(c)
    OBVIOUS
  <2> DEFINE a == newer(m)
             b == newer(n)
  <2>3. Cardinality(a) < Window
    BY DEF Recent
  <2> HIDE DEF a, b
  <2>4. b \in SUBSET a /\ a \in SUBSET Fresh(c)
    BY <2>1, <2>2 DEF a, b
  <2>5. IsFiniteSet(a)
    BY <1>2, <2>4, FS_Subset
  <2>6. IsFiniteSet(b) /\ Cardinality(b) <= Cardinality(a)
    BY <2>4, <2>5, FS_Subset
  <2>7. Cardinality(a) \in Nat /\ Cardinality(b) \in Nat
    BY <2>5, <2>6, FS_CardinalityType
  <2>8. Cardinality(b) < Window
    BY <1>0, <2>3, <2>6, <2>7
  <2>9. QED
    BY <2>8 DEF b, Recent
<1>5. ASSUME NEW m \in Segment(c), NEW n \in Fresh(c), n > m
      PROVE  n \in Segment(c)
  <2>1. n \in Recent(c)
    BY <1>3, <1>4, <1>5
  <2>2. \A x \in Recent(c) : n <= x => m <= x
    BY <1>1, <1>3, <1>5 DEF Ids
  <2>3. QED
    BY <2>1, <2>2 DEF Segment
<1>6. ASSUME Fresh(c) # {}
      PROVE  Segment(c) # {}
  <2>1. PICK last \in Fresh(c) : \A n \in Fresh(c) : n <= last
    BY <1>1, <1>6, LastId
  <2>2. {n \in Fresh(c) : n > last} = {}
    BY <1>1, <2>1 DEF Ids
  <2>3. Cardinality({n \in Fresh(c) : n > last}) = 0
    BY <2>2, FS_EmptySet
  <2>4. last \in Recent(c)
    BY <1>0, <2>3 DEF Recent
  <2>5. \A x, y \in Recent(c) : ~(last <= x /\ x < y)
    BY <1>1, <1>3, <2>1 DEF Ids
  <2>6. last \in Segment(c)
    BY <2>4, <2>5 DEF Segment
  <2>7. QED
    BY <2>6
<1>7. QED
  BY <1>3, <1>5, <1>6
-----------------------------------------------------------------------------
(* How much work is left.  A job in the queue may take one pass for each   *)
(* attempt it has left, and a pass a bounded number of steps.              *)
Passes(q) ==
  {p \in (DOMAIN q) \X (1..MaxAttempts) : p[2] > q[p[1]].attempts}

PassesLeft ==
  Cardinality(Passes(jobs)) +
    (IF worker.pc = "idle" THEN 0 ELSE MaxAttempts - worker.attempts)

(* The places of process_job, from its end. *)
Place == [idle |-> 11, start |-> 10, read |-> 9, delete |-> 8, save |-> 7,
          fail |-> 6, normalize |-> 5, extract |-> 4, notify |-> 3,
          mark |-> 2, requeue |-> 1]

ToAnnounce ==
  CASE worker.pc = "notify" -> Len(candidates) + 1 - worker.next
    [] worker.pc \in {"mark", "requeue"} -> 0
    [] OTHER -> MaxPerPass

StepsLeft == Place[worker.pc] + ToAnnounce

Wanes ==
  \/ PassesLeft' < PassesLeft
  \/ PassesLeft' = PassesLeft /\ StepsLeft' < StepsLeft

LEMMA PassesFinite ==
  ASSUME NEW q \in Seq(Job)
  PROVE  IsFiniteSet(Passes(q)) /\ Cardinality(Passes(q)) \in Nat
<1>0. Len(q) \in Nat /\ DOMAIN q = 1..Len(q) /\ MaxAttempts \in Nat
  BY PipelineAssumption
<1>1. IsFiniteSet(1..Len(q))
  BY <1>0, FS_Interval
<1>2. IsFiniteSet(1..MaxAttempts)
  BY <1>0, FS_Interval
<1>3. IsFiniteSet((DOMAIN q) \X (1..MaxAttempts))
  BY <1>0, <1>1, <1>2, FS_Product
<1>4. Passes(q) \in SUBSET ((DOMAIN q) \X (1..MaxAttempts))
  BY DEF Passes
<1>5. IsFiniteSet(Passes(q))
  BY <1>3, <1>4, FS_Subset
<1>6. QED
  BY <1>5, FS_CardinalityType

(* The passes of the job in one place of the queue. *)
LEMMA PassesOfOne ==
  ASSUME NEW i, NEW a \in 0..(MaxAttempts - 1)
  PROVE  /\ IsFiniteSet({i} \X ((a + 1)..MaxAttempts))
         /\ Cardinality({i} \X ((a + 1)..MaxAttempts)) = MaxAttempts - a
<1>0. MaxAttempts \in Int /\ a + 1 \in Int /\ ~(a + 1 > MaxAttempts)
      /\ MaxAttempts - (a + 1) + 1 = MaxAttempts - a
  BY PipelineAssumption
<1> DEFINE S == (a + 1)..MaxAttempts
<1>1. /\ IsFiniteSet(S)
      /\ Cardinality(S) = IF a + 1 > MaxAttempts THEN 0
                                                 ELSE MaxAttempts - (a + 1) + 1
  BY <1>0, FS_Interval
<1>2. IsFiniteSet({i}) /\ Cardinality({i}) = 1
  BY FS_Singleton
<1>3. \A n \in Int : 1 * n = n
  OBVIOUS
<1>4. Cardinality(S) = MaxAttempts - a /\ MaxAttempts - a \in Int
  BY <1>0, <1>1
<1> HIDE DEF S
<1>5. /\ IsFiniteSet({i} \X S)
      /\ Cardinality({i} \X S) = Cardinality({i}) * Cardinality(S)
  BY <1>1, <1>2, FS_Product
<1>6. Cardinality({i} \X S) = MaxAttempts - a
  BY <1>2, <1>3, <1>4, <1>5
<1>7. QED
  BY <1>5, <1>6 DEF S

LEMMA PassesDisjoint ==
  ASSUME NEW A, NEW B, IsFiniteSet(A), IsFiniteSet(B), A \cap B = {}
  PROVE  Cardinality(A \cup B) = Cardinality(A) + Cardinality(B)
<1>1. Cardinality(A \cup B)
        = Cardinality(A) + Cardinality(B) - Cardinality(A \cap B)
  BY FS_Union
<1>2. Cardinality(A \cap B) = 0
  BY FS_EmptySet
<1>3. Cardinality(A) \in Nat /\ Cardinality(B) \in Nat
  BY FS_CardinalityType
<1>4. QED
  BY <1>1, <1>2, <1>3

LEMMA PassesAppended ==
  ASSUME NEW q \in Seq(Job), NEW j \in Job
  PROVE  Cardinality(Passes(Append(q, j)))
           = Cardinality(Passes(q)) + (MaxAttempts - j.attempts)
<1> DEFINE a == j.attempts
           n == Len(q)
           more == {n + 1} \X ((a + 1)..MaxAttempts)
<1>0. /\ n \in Nat /\ DOMAIN q = 1..n
      /\ DOMAIN Append(q, j) = 1..(n + 1)
      /\ Append(q, j)[n + 1] = j
      /\ \A i \in 1..n : Append(q, j)[i] = q[i]
      /\ a \in 0..(MaxAttempts - 1)
      /\ MaxAttempts \in Nat
  BY PipelineAssumption DEF Job
<1>1. Passes(Append(q, j)) = Passes(q) \cup more
  <2>1. ASSUME NEW p \in Passes(Append(q, j)) PROVE p \in Passes(q) \cup more
    <3>1. /\ p = <<p[1], p[2]>> /\ p[1] \in 1..(n + 1)
          /\ p[2] \in 1..MaxAttempts
          /\ p[2] > Append(q, j)[p[1]].attempts
      BY <1>0 DEF Passes
    <3>2. CASE p[1] = n + 1
      <4>1. p[2] > a
        BY <1>0, <3>1, <3>2
      <4>2. p[2] \in (a + 1)..MaxAttempts
        BY <1>0, <3>1, <4>1
      <4>3. QED
        BY <3>1, <3>2, <4>2
    <3>3. CASE p[1] # n + 1
      <4>1. p[1] \in 1..n
        BY <1>0, <3>1, <3>3
      <4>2. QED
        BY <1>0, <3>1, <4>1 DEF Passes
    <3>4. QED
      BY <3>2, <3>3
  <2>2. Passes(q) \subseteq Passes(Append(q, j))
    BY <1>0 DEF Passes
  <2>3. ASSUME NEW p \in more PROVE p \in Passes(Append(q, j))
    <3>1. /\ p = <<p[1], p[2]>> /\ p[1] = n + 1
          /\ p[2] \in 1..MaxAttempts /\ p[2] > a
      BY <1>0
    <3>2. p[1] \in 1..(n + 1)
      BY <1>0, <3>1
    <3>3. QED
      BY <1>0, <3>1, <3>2 DEF Passes
  <2>4. QED
    BY <2>1, <2>2, <2>3
<1>2. Passes(q) \cap more = {}
  <2>1. \A p \in Passes(q) : p[1] # n + 1
    BY <1>0 DEF Passes
  <2>2. QED
    BY <2>1
<1>3. IsFiniteSet(more) /\ Cardinality(more) = MaxAttempts - a
  BY <1>0, PassesOfOne
<1> HIDE DEF more
<1>4. QED
  BY <1>1, <1>2, <1>3, PassesFinite, PassesDisjoint

LEMMA PassesTaken ==
  ASSUME NEW q \in Seq(Job), q # <<>>
  PROVE  Cardinality(Passes(q))
           = Cardinality(Passes(Tail(q))) + (MaxAttempts - Head(q).attempts)
<1> DEFINE a == Head(q).attempts
           n == Len(q)
           first == {1} \X ((a + 1)..MaxAttempts)
           rest == {p \in Passes(q) : p[1] > 1}
           f == [p \in rest |-> <<p[1] - 1, p[2]>>]
<1>0. /\ n \in Nat /\ n >= 1 /\ DOMAIN q = 1..n
      /\ Tail(q) \in Seq(Job)
      /\ DOMAIN Tail(q) = 1..(n - 1)
      /\ q[1] = Head(q)
      /\ \A i \in 1..(n - 1) : Tail(q)[i] = q[i + 1]
      /\ Head(q) \in Job
      /\ MaxAttempts \in Nat
  BY PipelineAssumption
<1>1. a \in 0..(MaxAttempts - 1)
  BY <1>0 DEF Job
<1>2. \A p : p \in Passes(q) <=> /\ p = <<p[1], p[2]>>
                                 /\ p[1] \in 1..n /\ p[2] \in 1..MaxAttempts
                                 /\ p[2] > q[p[1]].attempts
  BY <1>0 DEF Passes
<1>3. \A p : p \in Passes(Tail(q)) <=>
               /\ p = <<p[1], p[2]>>
               /\ p[1] \in 1..(n - 1) /\ p[2] \in 1..MaxAttempts
               /\ p[2] > Tail(q)[p[1]].attempts
  BY <1>0 DEF Passes
<1>4. Passes(q) = first \cup rest
  <2>1. ASSUME NEW p \in Passes(q) PROVE p \in first \cup rest
    <3>1. CASE p[1] = 1
      <4>1. p[2] \in (a + 1)..MaxAttempts
        BY <1>0, <1>1, <1>2, <3>1
      <4>2. QED
        BY <1>2, <3>1, <4>1
    <3>2. CASE p[1] # 1
      BY <1>0, <1>2, <3>2
    <3>3. QED
      BY <3>1, <3>2
  <2>2. ASSUME NEW p \in first PROVE p \in Passes(q)
    <3>1. /\ p = <<p[1], p[2]>> /\ p[1] = 1
          /\ p[2] \in 1..MaxAttempts /\ p[2] > a
      BY <1>0, <1>1
    <3>2. QED
      BY <1>0, <1>2, <3>1
  <2>3. QED
    BY <2>1, <2>2
<1>5. first \cap rest = {}
  OBVIOUS
<1>6. ASSUME NEW p \in rest
      PROVE  f[p] \in Passes(Tail(q)) /\ f[p] = <<p[1] - 1, p[2]>>
  <2>1. p[1] - 1 \in 1..(n - 1) /\ (p[1] - 1) + 1 = p[1]
    BY <1>0, <1>2
  <2>2. Tail(q)[p[1] - 1] = q[p[1]]
    BY <1>0, <2>1
  <2>3. f[p] = <<p[1] - 1, p[2]>>
    OBVIOUS
  <2>4. f[p][1] = p[1] - 1 /\ f[p][2] = p[2]
    BY <2>3
  <2>5. QED
    BY <1>2, <1>3, <2>1, <2>2, <2>3, <2>4
<1>7. ASSUME NEW r \in Passes(Tail(q))
      PROVE  \E p \in rest : f[p] = r
  <2> DEFINE p == <<r[1] + 1, r[2]>>
  <2>1. /\ r[1] + 1 \in 1..n /\ r[1] + 1 > 1 /\ (r[1] + 1) - 1 = r[1]
        /\ Tail(q)[r[1]] = q[r[1] + 1]
    BY <1>0, <1>3
  <2>2. p \in rest
    BY <1>2, <1>3, <2>1
  <2>3. f[p] = <<(r[1] + 1) - 1, r[2]>>
    BY <2>2
  <2>4. QED
    BY <1>3, <2>1, <2>2, <2>3
<1>8. ASSUME NEW p \in rest, NEW r \in rest, f[p] = f[r]
      PROVE  p = r
  <2>1. p[1] - 1 = r[1] - 1 /\ p[2] = r[2]
    BY <1>6, <1>8
  <2>2. p[1] = r[1]
    BY <1>2, <2>1
  <2>3. QED
    BY <1>2, <2>1, <2>2
<1>9. IsFiniteSet(rest)
  <2>1. rest \in SUBSET Passes(q)
    OBVIOUS
  <2>2. QED
    BY <2>1, PassesFinite, FS_Subset
<1>10. IsFiniteSet(first) /\ Cardinality(first) = MaxAttempts - a
  BY <1>1, PassesOfOne
<1>11. f \in [rest -> Passes(Tail(q))]
  BY <1>6
<1> HIDE DEF f, first, rest
<1>12. f \in Bijection(rest, Passes(Tail(q)))
  BY <1>7, <1>8, <1>11 DEF Bijection, Injection, Surjection, IsInjective
<1>13. Cardinality(rest) = Cardinality(Passes(Tail(q)))
  BY <1>9, <1>12, FS_Bijection DEF ExistsBijection
<1>14. Cardinality(Passes(q)) = Cardinality(first) + Cardinality(rest)
  BY <1>4, <1>5, <1>9, <1>10, PassesDisjoint
<1>15. Cardinality(rest) \in Nat
  BY <1>9, FS_CardinalityType
<1>16. MaxAttempts - a \in Int
  BY <1>0, <1>1
<1>17. QED
  BY <1>10, <1>13, <1>14, <1>15, <1>16
(* Every place is numbered, and after `mark` comes at most `requeue`. *)
LEMMA PlaceType ==
  ASSUME NEW pc \in WorkerPc
  PROVE  Place[pc] \in 1..11
BY DEF Place, WorkerPc

LEMMA AfterMark ==
  ASSUME NEW pc \in {"mark", "requeue"}, NEW next \in WorkerPc,
         Place[next] < Place[pc]
  PROVE  next \in {"mark", "requeue"}
BY DEF Place, WorkerPc

(* Both counts are natural numbers. *)
LEMMA LeftNat ==
  ASSUME TypeOK, NotBehind
  PROVE  PassesLeft \in Nat /\ StepsLeft \in 0..(11 + MaxPerPass)
<1>1. /\ worker.pc \in WorkerPc
      /\ worker.attempts \in 0..(MaxAttempts - 1)
      /\ worker.next \in Nat
      /\ Len(candidates) \in Nat
      /\ MaxPerPass \in Nat /\ MaxAttempts \in Nat
      /\ Cardinality(Passes(jobs)) \in Nat
  BY WorkType, PassesFinite, PipelineAssumption DEF TypeOK
<1>2. PassesLeft \in Nat
  BY <1>1 DEF PassesLeft
<1>3. Place[worker.pc] \in 1..11
  BY <1>1, PlaceType
<1>4. ToAnnounce \in 0..MaxPerPass
  BY <1>1 DEF ToAnnounce, NotBehind
<1>5. \A x \in 1..11, y \in 0..MaxPerPass : x + y \in 0..(11 + MaxPerPass)
  BY <1>1
<1>6. StepsLeft \in 0..(11 + MaxPerPass)
  BY <1>3, <1>4, <1>5 DEF StepsLeft
<1>7. QED
  BY <1>2, <1>6

(* A job that goes on keeps its passes and comes nearer to its end. *)
LEMMA JobGoesOn ==
  ASSUME TypeOK, NotBehind, NotBehind', TypeOK',
         jobs' = jobs,
         worker.pc # "idle", worker'.pc # "idle",
         worker'.attempts = worker.attempts,
         Place[worker'.pc] < Place[worker.pc],
         worker.pc = "notify" => worker'.pc = "mark"
  PROVE  Wanes
<1>0. /\ worker.pc \in WorkerPc /\ worker'.pc \in WorkerPc
      /\ worker.next \in Nat /\ worker'.next \in Nat
      /\ Len(candidates) \in Nat /\ Len(candidates') \in Nat
      /\ MaxPerPass \in Nat
  <2>1. worker' \in Work /\ candidates' \in Seq(Candidate)
    BY DEF TypeOK
  <2>2. /\ worker'.pc \in WorkerPc /\ worker'.next \in Nat
        /\ Len(candidates') \in Nat
    BY <2>1 DEF Work
  <2>3. worker \in Work /\ candidates \in Seq(Candidate)
    BY DEF TypeOK
  <2>4. /\ worker.pc \in WorkerPc /\ worker.next \in Nat
        /\ Len(candidates) \in Nat
    BY <2>3, WorkType
  <2>5. QED
    BY <2>2, <2>4, PipelineAssumption
<1>1. PassesLeft' = PassesLeft
  BY DEF PassesLeft
<1>2. Place[worker'.pc] \in Int /\ Place[worker.pc] \in Int
  <2>1. Place[worker'.pc] \in 1..11 /\ Place[worker.pc] \in 1..11
    BY <1>0, PlaceType
  <2>2. QED
    BY <2>1
<1>3. ToAnnounce' <= ToAnnounce /\ ToAnnounce' \in Int /\ ToAnnounce \in Int
  <2>1. CASE worker.pc \in {"mark", "requeue"}
    <3>1. worker'.pc \in {"mark", "requeue"}
      BY <1>0, <2>1, AfterMark
    <3>2. QED
      BY <2>1, <3>1 DEF ToAnnounce
  <2>2. CASE worker.pc = "notify"
    BY <1>0, <2>2 DEF ToAnnounce, NotBehind
  <2>3. CASE worker.pc \notin {"notify", "mark", "requeue"}
    <3>1. ToAnnounce = MaxPerPass
      BY <2>3 DEF ToAnnounce
    <3>2. ToAnnounce' \in Int /\ ToAnnounce' <= MaxPerPass
      BY <1>0 DEF ToAnnounce, NotBehind
    <3>3. QED
      BY <1>0, <3>1, <3>2
  <2>4. QED
    BY <2>1, <2>2, <2>3
<1>4. StepsLeft' < StepsLeft
  BY <1>2, <1>3 DEF StepsLeft
<1>5. QED
  BY <1>1, <1>4 DEF Wanes

(* A job that ends, or is put back with one attempt more, has used a pass. *)
LEMMA JobEnds ==
  ASSUME TypeOK, worker.pc # "idle", worker'.pc = "idle",
         \/ jobs' = jobs
         \/ /\ worker.attempts + 1 < MaxAttempts
            /\ jobs' = Append(jobs, [chat |-> worker.chat,
                                     attempts |-> worker.attempts + 1])
  PROVE  Wanes
<1>0. /\ worker.chat \in Chats /\ worker.attempts \in 0..(MaxAttempts - 1)
      /\ MaxAttempts \in Nat
      /\ jobs \in Seq(Job) /\ Cardinality(Passes(jobs)) \in Nat
  BY WorkType, PassesFinite, PipelineAssumption DEF TypeOK
<1>1. /\ PassesLeft = Cardinality(Passes(jobs)) + (MaxAttempts - worker.attempts)
      /\ PassesLeft' = Cardinality(Passes(jobs'))
  <2>1. Cardinality(Passes(jobs)) \in Int
        => Passes(jobs)' = Passes(jobs')
    BY DEF Passes
  <2>2. jobs' \in Seq(Job)
    <3>1. worker.attempts + 1 < MaxAttempts =>
            [chat |-> worker.chat, attempts |-> worker.attempts + 1] \in Job
      BY <1>0 DEF Job
    <3>2. QED
      BY <1>0, <3>1
  <2>3. Cardinality(Passes(jobs')) \in Nat
    BY <2>2, PassesFinite
  <2>4. QED
    BY <1>0, <2>1, <2>3 DEF PassesLeft
<1>2. CASE jobs' = jobs
  BY <1>0, <1>1, <1>2 DEF Wanes
<1>3. CASE /\ worker.attempts + 1 < MaxAttempts
           /\ jobs' = Append(jobs, [chat |-> worker.chat,
                                    attempts |-> worker.attempts + 1])
  <2> DEFINE j == [chat |-> worker.chat, attempts |-> worker.attempts + 1]
  <2>1. j \in Job /\ j.attempts = worker.attempts + 1
    BY <1>0, <1>3 DEF Job
  <2> HIDE DEF j
  <2>2. Cardinality(Passes(Append(jobs, j)))
          = Cardinality(Passes(jobs)) + (MaxAttempts - j.attempts)
    BY <1>0, <2>1, PassesAppended
  <2>3. jobs' = Append(jobs, j)
    BY <1>3 DEF j
  <2>4. PassesLeft' < PassesLeft
    BY <1>0, <1>1, <2>1, <2>2, <2>3
  <2>5. QED
    BY <2>4 DEF Wanes
<1>4. QED
  BY <1>2, <1>3

LEMMA StepWanes ==
  ASSUME TypeOK, NotBehind, TypeOK', NotBehind', WorkerNext
  PROVE  Wanes
<1> USE DEF workerRest, At, chat, Place
<1>0. /\ worker \in Work /\ jobs \in Seq(Job)
      /\ worker.pc \in WorkerPc
      /\ worker.attempts \in 0..(MaxAttempts - 1)
      /\ worker.next \in Nat
      /\ Len(candidates) \in Nat
      /\ MaxPerPass \in Nat /\ MaxAttempts \in Nat
  BY WorkType, PipelineAssumption DEF TypeOK
<1>1. CASE Dequeue
  <2>1. /\ worker.pc = "idle" /\ jobs # <<>> /\ jobs' = Tail(jobs)
        /\ worker'.pc = "start"
        /\ worker'.attempts = Head(jobs).attempts
    BY <1>1 DEF Dequeue, Idle
  <2>2. /\ Tail(jobs) \in Seq(Job) /\ Head(jobs) \in Job
    BY <1>0, <2>1
  <2>3. /\ Head(jobs).attempts \in 0..(MaxAttempts - 1)
        /\ Cardinality(Passes(jobs)) \in Nat
        /\ Cardinality(Passes(Tail(jobs))) \in Nat
    BY <1>0, <2>2, PassesFinite DEF Job
  <2>4. Passes(jobs)' = Passes(Tail(jobs))
    BY <2>1 DEF Passes
  <2>5. Cardinality(Passes(jobs))
          = Cardinality(Passes(Tail(jobs))) + (MaxAttempts - Head(jobs).attempts)
    BY <1>0, <2>1, PassesTaken
  <2>6. PassesLeft' = PassesLeft
    BY <1>0, <2>1, <2>3, <2>4, <2>5 DEF PassesLeft
  <2>7. StepsLeft' < StepsLeft
    BY <1>0, <2>1 DEF StepsLeft, ToAnnounce
  <2>8. QED
    BY <2>6, <2>7 DEF Wanes
<1> DEFINE Nearer(from, to) ==
             /\ jobs' = jobs
             /\ worker.pc \in from /\ worker'.pc \in to
             /\ worker'.attempts = worker.attempts
<1>2. CASE \/ StartRun \/ ReadBuffer \/ DeleteBuffer \/ SaveBatch
           \/ SaveRejected \/ RecordFailure \/ Normalize \/ SyncFails
  <2>1. StartRun => Nearer({"start"}, {"read"})
    BY <1>0 DEF StartRun, GoOn, Work
  <2>2. ReadBuffer => Nearer({"read"}, {"delete"})
    BY <1>0 DEF ReadBuffer, Work
  <2>3. DeleteBuffer => Nearer({"delete"}, {"save"})
    BY <1>0 DEF DeleteBuffer, Work
  <2>4. SaveBatch => Nearer({"save"}, {"normalize"})
    BY <1>0 DEF SaveBatch, Work
  <2>5. SaveRejected => Nearer({"save"}, {"fail"})
    BY <1>0 DEF SaveRejected, GoOn, Work
  <2>6. RecordFailure => Nearer({"fail"}, {"normalize"})
    BY <1>0 DEF RecordFailure, Work
  <2>7. Normalize => Nearer({"normalize"}, {"extract", "requeue"})
    BY <1>0 DEF Normalize, GoOn, Work
  <2>8. SyncFails => Nearer({"read", "delete", "save"}, {"fail"})
    BY <1>0 DEF SyncFails, GoOn, Work
  <2>9. /\ jobs' = jobs /\ worker'.attempts = worker.attempts
        /\ worker.pc \in WorkerPc \ {"idle", "notify"}
        /\ worker'.pc # "idle"
        /\ Place[worker'.pc] < Place[worker.pc]
    BY <1>2, <2>1, <2>2, <2>3, <2>4, <2>5, <2>6, <2>7, <2>8 DEF WorkerPc
  <2>10. QED
    BY <2>9, JobGoesOn
<1>3. CASE ExtractCandidates \/ ExtractNothing \/ MarkAnalyzed
  <2>1. ExtractCandidates => Nearer({"extract"}, {"notify"})
    BY <1>0 DEF ExtractCandidates, Work
  <2>2. ExtractNothing => Nearer({"extract"}, {"mark"})
    BY <1>0 DEF ExtractNothing, GoOn, Work
  <2>3. MarkAnalyzed => Nearer({"mark"}, {"requeue"})
    BY <1>0 DEF MarkAnalyzed, GoOn, Work
  <2>4. /\ jobs' = jobs /\ worker'.attempts = worker.attempts
        /\ worker.pc \in {"extract", "mark"}
        /\ worker'.pc # "idle"
        /\ Place[worker'.pc] < Place[worker.pc]
    BY <1>3, <2>1, <2>2, <2>3
  <2>5. QED
    BY <2>4, JobGoesOn
<1>4. CASE NotifyDone \/ NotifyFails
  <2>1. /\ jobs' = jobs /\ worker.pc = "notify" /\ worker'.pc = "mark"
        /\ worker'.attempts = worker.attempts
    BY <1>0, <1>4 DEF NotifyDone, NotifyFails, GoOn, Work
  <2>2. Place[worker'.pc] < Place[worker.pc]
    BY <2>1
  <2>3. QED
    BY <2>1, <2>2, JobGoesOn
<1>5. CASE NotifyNext
  <2>1. /\ jobs' = jobs /\ worker.pc = "notify" /\ worker'.pc = "notify"
        /\ worker'.attempts = worker.attempts
        /\ worker'.next = worker.next + 1
        /\ candidates' = candidates
    BY <1>0, <1>5 DEF NotifyNext, Work
  <2>2. PassesLeft' = PassesLeft
    BY <2>1 DEF PassesLeft
  <2>3. StepsLeft' < StepsLeft
    BY <1>0, <2>1 DEF StepsLeft, ToAnnounce
  <2>4. QED
    BY <2>2, <2>3 DEF Wanes
<1>6. CASE Requeue \/ JobAborted \/ WorkerCrash
  <2>1. /\ worker.pc # "idle" /\ worker'.pc = "idle"
    BY <1>6 DEF Requeue, JobAborted, WorkerCrash, GoIdle, NoWork, Idle
  <2>2. \/ jobs' = jobs
        \/ /\ worker.attempts + 1 < MaxAttempts
           /\ jobs' = Append(jobs, [chat |-> worker.chat,
                                    attempts |-> worker.attempts + 1])
    BY <1>6 DEF Requeue, JobAborted, WorkerCrash
  <2>3. QED
    BY <2>1, <2>2, JobEnds
<1>7. QED
  BY <1>1, <1>2, <1>3, <1>4, <1>5, <1>6 DEF WorkerNext, WorkerStep

(* Each step of the worker uses up some of the work that is left: the      *)
(* passes of the jobs in the queue and of the one in progress, or, within  *)
(* a pass, its steps.  So the retries of a failing sync end, a crash or an *)
(* error never makes work, and while nothing is enqueued the worker takes  *)
(* finitely many steps (process_job: MAX_ATTEMPTS, run_pipeline).          *)
THEOREM WorkerWanes == Spec => [][WorkerNext => Wanes]_vars
<1>1. TypeOK /\ NotBehind /\ (TypeOK /\ NotBehind)' /\ [Next]_vars
        => [WorkerNext => Wanes]_vars
  BY StepWanes
<1>2. QED
  BY <1>1, NotBehindAlways, PTL DEF Spec

(* The measure is one: pairs of natural numbers, the second bounded by the *)
(* length of a pass.                                                       *)
THEOREM WorkIsFinite ==
  Spec => [](PassesLeft \in Nat /\ StepsLeft \in 0..(11 + MaxPerPass))
BY LeftNat, NotBehindAlways, PTL
=============================================================================
