---------------------------- MODULE Panel_proofs ----------------------------
(***************************************************************************)
(* Theorems about the admin panel and the dashboards: the configuration of *)
(* chats, and what the screens show of tables that change between their    *)
(* reads.                                                                  *)
(***************************************************************************)
EXTENDS Panel, FiniteSetTheorems, TLAPS

(* A tuple of variables is always expanded. *)
USE DEF vars, configVars, tableVars, refreshRest

(* What the panel's list of chats is about to store a title for, it has    *)
(* found without one.                                                      *)
FillsBare ==
  /\ refresh.titles \subseteq refresh.bare
  /\ refresh.pc = "fill" => refresh.todo \subseteq refresh.titles

ConfigInv == ConfigTypeOK /\ FillsBare
-----------------------------------------------------------------------------
LEMMA ConfigInitially == Init => ConfigInv
BY ChatConfigAssumption
   DEF Init, ConfigInit, ConfigInv, ConfigTypeOK, FillsBare, NoRefresh,
       Refresh, Stored

(* No step but those of ChatConfig touches a configuration. *)
LEMMA OnlyConfigNext ==
  ASSUME Next
  PROVE  \/ ConfigNext
         \/ UNCHANGED configVars /\ (Move \/ moves' = moves)
<1>1. CASE ScreenNext
  <2>1. \A kind, chat, closed :
          OpenScreen(kind, chat, closed) => UNCHANGED <<configVars, moves>>
    BY DEF OpenScreen
  <2>2. ReadItems \/ ReadCandidates \/ CloseScreen
          => UNCHANGED <<configVars, moves>>
    BY DEF ReadItems, ReadCandidates, CloseScreen
  <2>3. QED
    BY <1>1, <2>1, <2>2 DEF ScreenNext
<1>2. CASE TableNext
  <2>1. ExtractNext => UNCHANGED configVars /\ Move
    BY DEF ExtractNext
  <2>2. \A c : DecideOn(c) \/ PromoteOne(c) => UNCHANGED configVars /\ Move
    BY DEF DecideOn, PromoteOne
  <2>3. \A i, s : MoveItem(i, s) => UNCHANGED configVars /\ Move
    BY DEF MoveItem
  <2>4. QED
    BY <1>2, <2>1, <2>2, <2>3 DEF TableNext
<1>3. QED
  BY <1>1, <1>2 DEF Next

LEMMA MoveType == ASSUME ConfigTypeOK, Move PROVE moves' \in 0..MaxMoves
BY ChatConfigAssumption DEF ConfigTypeOK, Move

(* What people do to a chat. *)
LEMMA ChatSteps ==
  ASSUME ConfigTypeOK, NEW c \in Chats,
         \/ Join(c) \/ Leave(c) \/ BotAdded(c) \/ BotRemoved(c)
         \/ AskAgain(c) \/ TapDestination(c) \/ StoreDestination(c)
  PROVE  ConfigTypeOK' /\ refresh' = refresh
<1>1. CASE Join(c) \/ Leave(c) \/ TapDestination(c)
  <2>1. Move
    BY <1>1 DEF Join, Leave, TapDestination
  <2>2. moves' \in 0..MaxMoves
    BY <2>1, MoveType
  <2>3. CASE Join(c)
    BY <2>2, <2>3 DEF Join, ConfigTypeOK
  <2>4. CASE Leave(c)
    BY <2>2, <2>4 DEF Leave, ConfigTypeOK
  <2>5. CASE TapDestination(c)
    BY <2>2, <2>5 DEF TapDestination, ConfigTypeOK
  <2>6. QED
    BY <1>1, <2>3, <2>4, <2>5
<1>2. CASE BotAdded(c)
  BY <1>2 DEF BotAdded, ConfigTypeOK
<1>3. CASE BotRemoved(c)
  BY <1>3 DEF BotRemoved, ConfigTypeOK, Stored
<1>4. CASE AskAgain(c)
  BY <1>4 DEF AskAgain, ConfigTypeOK
<1>5. CASE StoreDestination(c)
  BY <1>5 DEF StoreDestination, SetConfig, ConfigTypeOK, Stored
<1>6. QED
  BY <1>1, <1>2, <1>3, <1>4, <1>5

(* What the panel's list of chats does. *)
LEMMA RefreshSteps ==
  ASSUME ConfigInv,
         \/ \E c \in Chats : LookAtTitle(c) \/ FillTitle(c)
         \/ OpenChats \/ StartFill \/ ShowChats
  PROVE  ConfigInv'
<1> USE DEF ConfigInv, ConfigTypeOK, FillsBare, Refresh
<1>1. CASE \E c \in Chats : LookAtTitle(c)
  <2>1. PICK c \in Chats : LookAtTitle(c)
    BY <1>1
  <2>2. PICK bare \in SUBSET Chats, titles \in SUBSET Chats :
          /\ refresh' = [refresh EXCEPT !.todo = @ \ {c}, !.bare = bare,
                                        !.titles = titles]
          /\ titles \subseteq bare
    <3>1. PICK answers \in BOOLEAN :
            refresh' = [refresh EXCEPT
              !.todo = @ \ {c},
              !.bare = IF config[c] # "titled" THEN @ \cup {c} ELSE @,
              !.titles = IF answers /\ config[c] # "titled" /\ c \notin Private
                         THEN @ \cup {c} ELSE @]
      BY <2>1 DEF LookAtTitle
    <3> DEFINE bare == IF config[c] # "titled" THEN refresh.bare \cup {c}
                       ELSE refresh.bare
               titles == IF answers /\ config[c] # "titled" /\ c \notin Private
                         THEN refresh.titles \cup {c} ELSE refresh.titles
    <3>2. bare \in SUBSET Chats /\ titles \in SUBSET Chats
      OBVIOUS
    <3>3. titles \subseteq bare
      OBVIOUS
    <3>4. refresh' = [refresh EXCEPT !.todo = @ \ {c}, !.bare = bare,
                                     !.titles = titles]
      BY <3>1
    <3> HIDE DEF bare, titles
    <3>5. QED
      BY <3>2, <3>3, <3>4
  <2>3. QED
    BY <2>1, <2>2 DEF LookAtTitle
<1>2. CASE \E c \in Chats : FillTitle(c)
  BY <1>2 DEF FillTitle, SetConfig, Stored
<1>3. CASE OpenChats
  BY <1>3 DEF OpenChats, NoRefresh, Configured
<1>4. CASE StartFill
  BY <1>4 DEF StartFill
<1>5. CASE ShowChats
  BY <1>5 DEF ShowChats, NoRefresh
<1>6. QED
  BY <1>1, <1>2, <1>3, <1>4, <1>5

LEMMA ConfigStep == ConfigInv /\ [Next]_vars => ConfigInv'
<1> SUFFICES ASSUME ConfigInv, [Next]_vars PROVE ConfigInv'
  OBVIOUS
<1>1. CASE ConfigNext
  <2>1. CASE \E c \in Chats :
               \/ Join(c) \/ Leave(c) \/ BotAdded(c) \/ BotRemoved(c)
               \/ AskAgain(c) \/ TapDestination(c) \/ StoreDestination(c)
    BY <2>1, ChatSteps DEF ConfigInv, FillsBare
  <2>2. CASE \/ \E c \in Chats : LookAtTitle(c) \/ FillTitle(c)
             \/ OpenChats \/ StartFill \/ ShowChats
    BY <2>2, RefreshSteps
  <2>3. QED
    BY <1>1, <2>1, <2>2 DEF ConfigNext
<1>2. CASE UNCHANGED configVars /\ (Move \/ moves' = moves)
  BY <1>2, MoveType DEF ConfigInv, ConfigTypeOK, FillsBare
<1>3. QED
  BY <1>1, <1>2, OnlyConfigNext

LEMMA ConfigAlways == Spec => []ConfigInv
BY ConfigInitially, ConfigStep, PTL DEF Spec
-----------------------------------------------------------------------------
(* For any number of chats, of updates in any order and of moves, a chat   *)
(* without a configuration gets one from a choice that is being handled,   *)
(* or from the panel's list of chats that had found no title for it        *)
(* (on_bot_removed_from_group, _admin_chats).                              *)
THEOREM ReopenedCorrect == Spec => ReopenedKnowingly
<1>1. ConfigInv /\ [Next]_vars => [Reopened]_vars
  <2> SUFFICES ASSUME ConfigInv, Next, NEW c \in Chats,
                      config[c] = "none", config'[c] # "none"
               PROVE  tapped[c] \/ c \in refresh.bare
    BY DEF Reopened
  <2>1. ConfigNext /\ config' # config
    BY OnlyConfigNext
  <2>2. PICK d \in Chats : BotRemoved(d) \/ StoreDestination(d) \/ FillTitle(d)
    BY <2>1 DEF ConfigNext, Join, Leave, BotAdded, AskAgain, TapDestination,
       LookAtTitle, OpenChats, StartFill, ShowChats
  <2>3. ~BotRemoved(d) /\ d = c
    BY <2>2 DEF BotRemoved, StoreDestination, FillTitle, SetConfig,
       ConfigInv, ConfigTypeOK
  <2>4. CASE StoreDestination(d)
    BY <2>3, <2>4 DEF StoreDestination
  <2>5. CASE FillTitle(d)
    BY <2>3, <2>5 DEF FillTitle, ConfigInv, FillsBare
  <2>6. QED
    BY <2>2, <2>3, <2>4, <2>5
<1>2. QED
  BY <1>1, ConfigAlways, PTL DEF Spec, ReopenedKnowingly
-----------------------------------------------------------------------------
(* The tables.  A work item is a promoted candidate's, and only an         *)
(* approval makes a candidate "approved".                                  *)
TablesTyped ==
  /\ status \in [1..Len(facts) -> CandidateStatus]
  /\ tasks \in Seq(1..Len(facts))
  /\ facts \in Seq(Facts)
  /\ stage \in Seq(ItemStatus)
  /\ Len(stage) = Len(tasks)

Approvals ==
  /\ \A i, j \in DOMAIN tasks : tasks[i] = tasks[j] => i = j
  /\ \A c \in Known : status[c] = "approved" => c \in Promoted

TablesInv == TablesTyped /\ Approvals

(* What a screen holds. *)
ItemRow == [id : Nat, cand : Nat, status : ItemStatus,
            priority : Priorities \cup {NoPriority}]
CandRow == [id : Nat, status : CandidateStatus, chat : Chats,
            conf : Confidence]

ScreenTyped ==
  screen \in [kind : Kinds \cup {"none"}, chat : Chats \cup {AllChats},
              closed : BOOLEAN,
              left : {<<>>, <<"items">>, <<"cands">>, <<"items", "cands">>,
                      <<"cands", "items">>},
              items : Seq(ItemRow), cands : Seq(CandRow), since : SUBSET Known]

LeftOfKind ==
  /\ screen.left = <<"items", "cands">> => screen.kind \in {"menu", "overview"}
  /\ screen.left = <<"cands", "items">> => screen.kind = "history"
  /\ screen.left = <<"items">> => screen.kind \in {"tasks", "history"}
  /\ screen.left = <<"cands">> => screen.kind \in {"menu", "overview", "review"}

(* The work items on a screen are those the table began with.              *)
ItemsRead ==
  /\ Len(screen.items) <= Len(tasks)
  /\ \A i \in DOMAIN screen.items :
       /\ screen.items[i].id = Len(screen.items) + 1 - i
       /\ screen.items[i].cand = tasks[screen.items[i].id]

(* The candidates on a screen are the last of the first n of the table, and *)
(* on the review screen those that were there when it was opened are among  *)
(* the n.                                                                   *)
CandsUpTo(n) ==
  /\ Len(screen.cands) <= n
  /\ \A j \in DOMAIN screen.cands :
       /\ screen.cands[j].id = n + 1 - j
       /\ screen.cands[j].status = "approved" => screen.cands[j].id \in Promoted
  /\ Shows("review") =>
       /\ Len(screen.cands) = IF n < ListLimit THEN n ELSE ListLimit
       /\ screen.since \subseteq 1..n

CandsRead == \E n \in 0..Len(facts) : CandsUpTo(n)

(* How two lists of one screen fit, in the order they are read: an approval *)
(* on the history is in the work items read after it; a candidate on a      *)
(* dashboard that is a work item read before it is approved, unless         *)
(* something was written over the approval.                                 *)
ListsFit ==
  /\ Shows("history") =>
       \A j \in DOMAIN screen.cands :
         screen.cands[j].status = "approved" =>
           \E i \in DOMAIN screen.items :
             screen.items[i].cand = screen.cands[j].id
  /\ (Shows("menu") \/ Shows("overview")) /\ Orderly =>
       \A i \in DOMAIN screen.items : \A j \in DOMAIN screen.cands :
         screen.cands[j].id = screen.items[i].cand
           => screen.cands[j].status = "approved"
  /\ Shows("overview") =>
       \A i \in DOMAIN screen.items : \E j \in DOMAIN screen.cands :
         screen.cands[j].id = screen.items[i].cand

(* What nobody touched since the review screen was opened has the status    *)
(* the screen shows.                                                        *)
ReviewCurrent ==
  Shows("review") =>
    \A j \in DOMAIN screen.cands :
      screen.cands[j].id \in screen.since =>
        screen.cands[j].status = status[screen.cands[j].id]

ScreenInv ==
  ScreenTyped /\ LeftOfKind /\ ItemsRead /\ CandsRead /\ ListsFit
    /\ ReviewCurrent
-----------------------------------------------------------------------------
(* What any step does to the tables under an open screen: they grow, an     *)
(* overwritten approval stays overwritten, and what is touched is no longer *)
(* counted as untouched.                                                    *)
Untouched ==
  /\ screen' = [screen EXCEPT !.since = screen'.since]
  /\ screen'.since \subseteq screen.since
  /\ \A c \in screen'.since : status'[c] = status[c]

Grown ==
  /\ Len(facts) <= Len(facts') /\ Len(facts') \in Nat
  /\ Len(tasks) <= Len(tasks')
  /\ \A i \in DOMAIN tasks : i \in DOMAIN tasks' /\ tasks'[i] = tasks[i]
  /\ Known \subseteq Known'
  /\ Orderly' => Orderly
  /\ Untouched

LEMMA TablesFacts ==
  ASSUME TablesTyped
  PROVE  /\ Len(facts) \in Nat
         /\ Len(tasks) \in Nat
         /\ DOMAIN facts = 1..Len(facts)
         /\ DOMAIN tasks = 1..Len(tasks)
         /\ DOMAIN stage = 1..Len(tasks)
         /\ Known = 1..Len(facts)
         /\ \A i \in DOMAIN tasks : tasks[i] \in Known
BY DEF TablesTyped, Known

LEMMA ScreenStays ==
  ASSUME ScreenTyped, screen' = screen
  PROVE  screen' = [screen EXCEPT !.since = screen'.since]
BY DEF ScreenTyped

LEMMA TablesInit == Init => TablesInv
<1> SUFFICES ASSUME Init PROVE TablesInv
  OBVIOUS
<1>1. /\ tasks = <<>> /\ facts = <<>> /\ stage = <<>>
      /\ Known = {}
  BY DEF Init, DecisionsInit
<1>2. status \in [1..Len(facts) -> CandidateStatus]
  <2>1. PICK known \in SUBSET Candidates :
          status \in [known -> {"new", "needs_review"}]
    BY DEF Init, DecisionsInit
  <2>2. known = {}
    BY <1>1, <2>1 DEF Known
  <2>3. 1..Len(facts) = {}
    BY <1>1
  <2>4. QED
    BY <2>1, <2>2, <2>3
<1>3. QED
  BY <1>1, <1>2 DEF TablesInv, TablesTyped, Approvals

(* extract.py: the new candidate is one that waits for review. *)
LEMMA ExtractTables ==
  ASSUME TablesInv, ScreenTyped, ExtractNext
  PROVE  TablesInv' /\ Grown
<1> DEFINE n == Len(facts)
<1>0. /\ n \in Nat /\ Known = 1..n /\ DOMAIN tasks = 1..Len(tasks)
      /\ Len(tasks) \in Nat
      /\ screen.since \subseteq Known
      /\ \A i \in DOMAIN tasks : tasks[i] \in Known
      /\ DOMAIN status = 1..n
  BY TablesFacts DEF TablesInv, ScreenTyped, Known
<1>1. PICK f \in Facts, s \in {"new", "needs_review"} :
        Extract(n + 1, s) /\ facts' = Append(facts, f)
  BY DEF ExtractNext, StatusFor
<1>2. /\ UNCHANGED <<tasks, stage, screen>>
      /\ facts' \in Seq(Facts)
      /\ Len(facts') = n + 1
  BY <1>1 DEF ExtractNext, Extract, TablesInv, TablesTyped
<1>3. /\ DOMAIN status' = 1..(n + 1)
      /\ \A d \in 1..n : status'[d] = status[d]
      /\ status'[n + 1] = s
  BY <1>0, <1>1 DEF Extract
<1>4. status' \in [1..(n + 1) -> CandidateStatus]
  <2>1. status' = [d \in Known \cup {n + 1} |-> IF d = n + 1 THEN s ELSE status[d]]
    BY <1>1 DEF Extract
  <2>2. Known \cup {n + 1} = 1..(n + 1)
    BY <1>0
  <2>3. status \in [1..n -> CandidateStatus] /\ s \in CandidateStatus
    BY DEF TablesInv, TablesTyped, CandidateStatus
  <2>4. QED
    BY <1>0, <2>1, <2>2, <2>3
<1>5. tasks' \in Seq(1..(n + 1))
  <2>1. tasks \in Seq(1..n)
    BY DEF TablesInv, TablesTyped
  <2>2. 1..n \subseteq 1..(n + 1)
    BY <1>0
  <2>3. QED
    BY <1>2, <2>1, <2>2
<1>6. TablesTyped'
  BY <1>2, <1>4, <1>5 DEF TablesInv, TablesTyped
<1>7. Promoted' = Promoted
  BY <1>2 DEF Promoted
<1>8. Approvals'
  <2>1. \A c \in Known' : status'[c] = "approved" => c \in Known /\ status[c] = "approved"
    BY <1>0, <1>3 DEF Known
  <2>2. QED
    BY <1>2, <1>7, <2>1 DEF TablesInv, Approvals
<1>9. Orderly' => Orderly
  <2>1. \A c \in Promoted : status'[c] = status[c]
    BY <1>0, <1>3 DEF Promoted
  <2>2. QED
    BY <1>7, <2>1 DEF Orderly
<1>10. Untouched
  BY <1>0, <1>2, <1>3, ScreenStays DEF Untouched
<1>11. Known \subseteq Known'
  BY <1>0, <1>3 DEF Known
<1>12. Len(facts) <= Len(facts') /\ Len(facts') \in Nat
  BY <1>0, <1>2
<1>13. QED
  BY <1>0, <1>2, <1>6, <1>8, <1>9, <1>10, <1>11, <1>12 DEF Grown, TablesInv

(* A decision touches its candidate, and gives it no approval back. *)
LEMMA DecideTables ==
  ASSUME TablesInv, ScreenTyped, NEW c \in Candidates, DecideOn(c)
  PROVE  TablesInv' /\ Grown
<1>0. /\ Len(facts) \in Nat /\ Known = 1..Len(facts)
      /\ Len(tasks) \in Nat
      /\ \A i \in DOMAIN tasks : tasks[i] \in Known
      /\ status \in [Known -> CandidateStatus]
      /\ screen.since \subseteq Known
  BY TablesFacts DEF TablesInv, TablesTyped, ScreenTyped
<1>1. PICK s \in {"edited", "rejected", "duplicate"} : Decide(c, s)
  BY DEF DecideOn
<1>2. /\ c \in Known
      /\ status' = [status EXCEPT ![c] = s]
      /\ UNCHANGED <<tasks, facts, stage>>
      /\ screen' = [screen EXCEPT !.since = screen.since \ {c}]
  BY <1>1 DEF Decide, DecideOn, Touch
<1>3. /\ status' \in [Known -> CandidateStatus]
      /\ Known' = Known
      /\ \A d \in Known : d # c => status'[d] = status[d]
      /\ status'[c] # "approved"
  BY <1>0, <1>2 DEF Known, CandidateStatus
<1>4. Promoted' = Promoted /\ Promoted \subseteq Known
  BY <1>0, <1>2 DEF Promoted
<1>5. TablesInv'
  BY <1>0, <1>2, <1>3, <1>4 DEF TablesInv, TablesTyped, Approvals
<1>6. Orderly' => Orderly
  BY <1>3, <1>4 DEF Orderly
<1>7. Untouched
  <2>1. screen'.since = screen.since \ {c}
    BY <1>2 DEF ScreenTyped
  <2>2. QED
    BY <1>0, <1>2, <1>3, <2>1 DEF Untouched
<1>8. QED
  BY <1>0, <1>2, <1>3, <1>5, <1>6, <1>7 DEF Grown

(* An approval makes the work item, at the end of the table. *)
LEMMA PromoteTables ==
  ASSUME TablesInv, ScreenTyped, NEW c \in Candidates, PromoteOne(c)
  PROVE  TablesInv' /\ Grown
<1>0. /\ Len(facts) \in Nat /\ Known = 1..Len(facts)
      /\ Len(tasks) \in Nat
      /\ DOMAIN tasks = 1..Len(tasks)
      /\ \A i \in DOMAIN tasks : tasks[i] \in Known
      /\ status \in [Known -> CandidateStatus]
      /\ screen.since \subseteq Known
      /\ tasks \in Seq(Known)
      /\ stage \in Seq(ItemStatus) /\ Len(stage) = Len(tasks)
  BY TablesFacts DEF TablesInv, TablesTyped, ScreenTyped
<1>1. /\ c \in Known
      /\ c \notin Promoted
      /\ status' = [status EXCEPT ![c] = "approved"]
      /\ tasks' = Append(tasks, c)
      /\ stage' = Append(stage, "inbox")
      /\ facts' = facts
      /\ screen' = [screen EXCEPT !.since = screen.since \ {c}]
  BY DEF PromoteOne, Promote, Touch
<1>2. /\ status' \in [Known -> CandidateStatus]
      /\ Known' = Known
      /\ \A d \in Known : d # c => status'[d] = status[d]
      /\ status'[c] = "approved"
  BY <1>0, <1>1 DEF Known, CandidateStatus
<1>3. /\ tasks' \in Seq(Known)
      /\ Len(tasks') = Len(tasks) + 1
      /\ DOMAIN tasks' = 1..(Len(tasks) + 1)
      /\ \A i \in DOMAIN tasks : tasks'[i] = tasks[i]
      /\ tasks'[Len(tasks) + 1] = c
  BY <1>0, <1>1
<1>4. /\ "inbox" \in ItemStatus
      /\ stage' \in Seq(ItemStatus)
      /\ Len(stage') = Len(tasks')
  <2>1. "inbox" \in ItemStatus
    <3>1. 1 \in DOMAIN StatusOrder /\ StatusOrder[1] = "inbox"
      BY DEF StatusOrder
    <3>2. QED
      BY <3>1 DEF ItemStatus
  <2>2. QED
    BY <1>0, <1>1, <1>3, <2>1
<1>5. Promoted' = Promoted \cup {c} /\ Promoted \subseteq Known
  <2>1. \A i \in DOMAIN tasks' : i \in DOMAIN tasks \/ i = Len(tasks) + 1
    BY <1>0, <1>3
  <2>2. DOMAIN tasks \subseteq DOMAIN tasks' /\ Len(tasks) + 1 \in DOMAIN tasks'
    BY <1>0, <1>3
  <2>3. QED
    BY <1>0, <1>3, <2>1, <2>2 DEF Promoted
<1>6. TablesTyped'
  <2>1. /\ status' \in [1..Len(facts') -> CandidateStatus]
        /\ tasks' \in Seq(1..Len(facts'))
    BY <1>0, <1>1, <1>2, <1>3
  <2>2. facts' \in Seq(Facts)
    BY <1>1 DEF TablesInv, TablesTyped
  <2>3. QED
    BY <1>4, <2>1, <2>2 DEF TablesTyped
<1>7. \A i, j \in DOMAIN tasks' : tasks'[i] = tasks'[j] => i = j
  <2>1. \A i \in DOMAIN tasks' : i \in DOMAIN tasks \/ i = Len(tasks) + 1
    BY <1>0, <1>3
  <2>2. \A i \in DOMAIN tasks : tasks[i] # c
    BY <1>1 DEF Promoted
  <2>3. QED
    BY <1>3, <2>1, <2>2 DEF TablesInv, Approvals
<1>8. Approvals'
  BY <1>2, <1>5, <1>7 DEF TablesInv, Approvals
<1>9. Orderly' => Orderly
  <2>1. \A d \in Promoted : d \in Promoted' /\ status'[d] = status[d]
    BY <1>1, <1>2, <1>5
  <2>2. QED
    BY <2>1 DEF Orderly
<1>10. Untouched
  <2>1. screen'.since = screen.since \ {c}
    BY <1>1 DEF ScreenTyped
  <2>2. QED
    BY <1>0, <1>1, <1>2, <2>1 DEF Untouched
<1>11. /\ Len(tasks) <= Len(tasks')
       /\ \A i \in DOMAIN tasks : i \in DOMAIN tasks'
  BY <1>0, <1>3
<1>12. QED
  BY <1>0, <1>1, <1>2, <1>3, <1>6, <1>8, <1>9, <1>10, <1>11
     DEF Grown, TablesInv

LEMMA MoveTables ==
  ASSUME TablesInv, ScreenTyped, NEW i \in DOMAIN stage, NEW s \in Stages,
         MoveItem(i, s)
  PROVE  TablesInv' /\ Grown
<1>0. Len(facts) \in Nat /\ Len(tasks) \in Nat
  BY TablesFacts DEF TablesInv
<1>1. /\ UNCHANGED <<status, tasks, facts, screen>>
      /\ stage' = [stage EXCEPT ![i] = s]
  BY DEF MoveItem
<1>2. s \in ItemStatus
  BY PanelAssumption
<1>3. stage' \in Seq(ItemStatus) /\ Len(stage') = Len(stage)
  BY <1>1, <1>2 DEF TablesInv, TablesTyped
<1>4. TablesInv'
  BY <1>1, <1>3 DEF TablesInv, TablesTyped, Approvals, Known, Promoted
<1>5. Untouched
  BY <1>1, ScreenStays DEF Untouched
<1>6. QED
  BY <1>0, <1>1, <1>4, <1>5 DEF Grown, Orderly, Promoted, Known

LEMMA TablesGrow ==
  ASSUME TablesInv, ScreenTyped, TableNext \/ UNCHANGED <<tableVars, screen>>
  PROVE  TablesInv' /\ Grown
<1>1. CASE UNCHANGED <<tableVars, screen>>
  <2>1. Len(facts) \in Nat /\ Len(tasks) \in Nat
    BY TablesFacts DEF TablesInv
  <2>2. Untouched
    BY <1>1, ScreenStays DEF Untouched
  <2>3. TablesInv'
    BY <1>1 DEF TablesInv, TablesTyped, Approvals, Known, Promoted
  <2>4. QED
    BY <1>1, <2>1, <2>2, <2>3 DEF Grown, Orderly, Promoted, Known
<1>2. QED
  BY <1>1, ExtractTables, DecideTables, PromoteTables, MoveTables DEF TableNext

(* What a screen shows stays true while the tables grow. *)
LEMMA ScreenUnderGrowth ==
  ASSUME TablesInv, ScreenInv, Grown
  PROVE  ScreenInv'
<1>0. /\ Len(facts) \in Nat /\ Len(tasks) \in Nat
      /\ Len(facts) <= Len(facts') /\ Len(facts') \in Nat
      /\ Len(tasks) <= Len(tasks')
      /\ DOMAIN tasks = 1..Len(tasks)
      /\ \A i \in DOMAIN tasks : i \in DOMAIN tasks' /\ tasks'[i] = tasks[i]
      /\ Known \subseteq Known'
      /\ Orderly' => Orderly
      /\ ScreenTyped
  BY TablesFacts DEF Grown, TablesInv, ScreenInv
<1>1. PICK rest \in SUBSET screen.since :
        /\ screen' = [screen EXCEPT !.since = rest]
        /\ \A c \in rest : status'[c] = status[c]
  BY DEF Grown, Untouched
<1>2. /\ UNCHANGED <<screen.kind, screen.chat, screen.closed, screen.left,
                     screen.items, screen.cands>>
      /\ screen'.since = rest
  BY <1>0, <1>1 DEF ScreenTyped
<1>3. ScreenTyped'
  <2>1. rest \in SUBSET (Known')
    BY <1>0, <1>1 DEF ScreenTyped
  <2>2. QED
    BY <1>0, <1>1, <2>1 DEF ScreenTyped
<1>4. \A kind : Shows(kind)' = Shows(kind)
  BY <1>2 DEF Shows
<1>5. LeftOfKind'
  BY <1>2 DEF ScreenInv, LeftOfKind
<1>6. Len(screen.items) \in Nat /\ DOMAIN screen.items = 1..Len(screen.items)
  BY <1>0 DEF ScreenTyped
<1>7. ItemsRead'
  <2>1. Len(screen.items) <= Len(tasks')
    BY <1>0, <1>6 DEF ScreenInv, ItemsRead
  <2>2. ASSUME NEW i \in DOMAIN screen.items
        PROVE  /\ screen.items[i].id = Len(screen.items) + 1 - i
               /\ screen.items[i].cand = tasks'[screen.items[i].id]
    <3>1. Len(screen.items) + 1 - i \in DOMAIN tasks
      BY <1>0, <1>6 DEF ScreenInv, ItemsRead
    <3>2. QED
      BY <1>0, <3>1 DEF ScreenInv, ItemsRead
  <2>3. QED
    BY <1>2, <2>1, <2>2 DEF ItemsRead
<1>8. Promoted \subseteq Promoted'
  BY <1>0 DEF Promoted
<1>9. CandsRead'
  <2>1. PICK n \in 0..Len(facts) : CandsUpTo(n)
    BY DEF ScreenInv, CandsRead
  <2>2. n \in 0..Len(facts')
    BY <1>0
  <2>3. rest \subseteq screen.since
    BY <1>1
  <2>4. CandsUpTo(n)'
    BY <1>2, <1>4, <1>8, <2>1, <2>3 DEF CandsUpTo
  <2>5. QED
    BY <2>2, <2>4 DEF CandsRead
<1>10. ListsFit'
  BY <1>0, <1>2, <1>4 DEF ScreenInv, ListsFit
<1>11. ReviewCurrent'
  BY <1>1, <1>2, <1>4 DEF ScreenInv, ReviewCurrent
<1>12. QED
  BY <1>3, <1>5, <1>7, <1>9, <1>10, <1>11 DEF ScreenInv

(* Lists are tuples of at most two names. *)
LEMMA ReadOrder ==
  /\ Tail(<<"items">>) = <<>>
  /\ Tail(<<"cands">>) = <<>>
  /\ Tail(<<"items", "cands">>) = <<"cands">>
  /\ Tail(<<"cands", "items">>) = <<"items">>
  /\ Head(<<"items">>) = "items"
  /\ Head(<<"cands">>) = "cands"
  /\ Head(<<"items", "cands">>) = "items"
  /\ Head(<<"cands", "items">>) = "cands"
  /\ <<"items">> # <<>> /\ <<"cands">> # <<>>
  /\ <<"items", "cands">> # <<>> /\ <<"cands", "items">> # <<>>
  /\ <<"items">> # <<"cands">>
  /\ <<"items">> # <<"items", "cands">> /\ <<"items">> # <<"cands", "items">>
  /\ <<"cands">> # <<"items", "cands">> /\ <<"cands">> # <<"cands", "items">>
  /\ <<"items", "cands">> # <<"cands", "items">>
OBVIOUS

(* GET /api/work-items returns every work item, the last one first. *)
LEMMA WorkItemsList ==
  ASSUME TablesInv
  PROVE  /\ WorkItems \in Seq(ItemRow)
         /\ Len(WorkItems) = Len(tasks)
         /\ \A i \in 1..Len(tasks) :
              /\ WorkItems[i].id = Len(tasks) + 1 - i
              /\ WorkItems[i].cand = tasks[Len(tasks) + 1 - i]
<1>0. /\ Len(tasks) \in Nat /\ Len(facts) \in Nat
      /\ DOMAIN tasks = 1..Len(tasks)
      /\ DOMAIN facts = 1..Len(facts)
      /\ Known = 1..Len(facts)
      /\ \A i \in DOMAIN tasks : tasks[i] \in Known
      /\ stage \in Seq(ItemStatus) /\ Len(stage) = Len(tasks)
      /\ facts \in Seq(Facts)
  BY TablesFacts DEF TablesInv, TablesTyped
<1>1. ASSUME NEW i \in 1..Len(tasks)
      PROVE  LET k == Len(tasks) + 1 - i
             IN  [id |-> k, cand |-> tasks[k], status |-> stage[k],
                  priority |-> facts[tasks[k]].priority] \in ItemRow
  <2>0. \A n \in Nat : \A x \in 1..n : n + 1 - x \in 1..n
    OBVIOUS
  <2>1. PICK k \in 1..Len(tasks) : k = Len(tasks) + 1 - i
    BY <1>0, <2>0
  <2>2. tasks[k] \in Nat /\ tasks[k] \in DOMAIN facts /\ stage[k] \in ItemStatus
    BY <1>0
  <2>3. facts[tasks[k]] \in Facts
    BY <1>0, <2>2
  <2>4. facts[tasks[k]].priority \in Priorities \cup {NoPriority}
    BY <2>3, PanelAssumption
  <2>5. QED
    BY <2>1, <2>2, <2>4 DEF ItemRow
<1>2. WorkItems = [i \in 1..Len(tasks) |->
        LET k == Len(tasks) + 1 - i
        IN  [id |-> k, cand |-> tasks[k], status |-> stage[k],
             priority |-> facts[tasks[k]].priority]]
  BY <1>0 DEF WorkItems
<1>3. WorkItems \in [1..Len(tasks) -> ItemRow]
  BY <1>1, <1>2
<1>4. WorkItems \in Seq(ItemRow) /\ Len(WorkItems) = Len(tasks)
  BY <1>0, <1>3
<1>5. QED
  BY <1>2, <1>4

(* GET /api/candidates returns every candidate, the last one first; a      *)
(* screen asks for some of them.                                           *)
LEMMA CandidatesList ==
  ASSUME TablesInv
  PROVE  /\ CandidateList \in Seq(CandRow)
         /\ Len(CandidateList) = Len(facts)
         /\ \A j \in 1..Len(facts) :
              /\ CandidateList[j].id = Len(facts) + 1 - j
              /\ CandidateList[j].status = status[Len(facts) + 1 - j]
<1>0. /\ Len(facts) \in Nat
      /\ DOMAIN facts = 1..Len(facts)
      /\ facts \in Seq(Facts)
      /\ status \in [1..Len(facts) -> CandidateStatus]
  BY TablesFacts DEF TablesInv, TablesTyped
<1>1. ASSUME NEW j \in 1..Len(facts)
      PROVE  LET c == Len(facts) + 1 - j
             IN  [id |-> c, status |-> status[c], chat |-> facts[c].chat,
                  conf |-> facts[c].conf] \in CandRow
  <2>0. \A n \in Nat : \A x \in 1..n : n + 1 - x \in 1..n
    OBVIOUS
  <2>1. PICK c \in 1..Len(facts) : c = Len(facts) + 1 - j
    BY <1>0, <2>0
  <2>2. facts[c] \in Facts /\ status[c] \in CandidateStatus /\ c \in Nat
    BY <1>0
  <2>3. facts[c].chat \in Chats /\ facts[c].conf \in Confidence
    BY <2>2, PanelAssumption
  <2>4. QED
    BY <2>1, <2>2, <2>3 DEF CandRow
<1>2. CandidateList = [j \in 1..Len(facts) |->
        LET c == Len(facts) + 1 - j
        IN  [id |-> c, status |-> status[c], chat |-> facts[c].chat,
             conf |-> facts[c].conf]]
  BY <1>0 DEF CandidateList
<1>3. CandidateList \in [1..Len(facts) -> CandRow]
  BY <1>1, <1>2
<1>4. CandidateList \in Seq(CandRow) /\ Len(CandidateList) = Len(facts)
  BY <1>0, <1>3
<1>5. QED
  BY <1>2, <1>4

LEMMA LimitedList ==
  ASSUME NEW S, NEW rows \in Seq(S), NEW n \in Nat
  PROVE  /\ Limit(rows, n) \in Seq(S)
         /\ Len(Limit(rows, n)) = IF Len(rows) < n THEN Len(rows) ELSE n
         /\ \A i \in 1..Len(Limit(rows, n)) : Limit(rows, n)[i] = rows[i]
BY DEF Limit

LEMMA AskedForList ==
  ASSUME TablesInv, screen.kind \in {"menu", "overview", "review", "history"}
  PROVE  /\ AskedFor \in Seq(CandRow)
         /\ Len(AskedFor) <= Len(facts)
         /\ screen.kind = "overview" => Len(AskedFor) = Len(facts)
         /\ screen.kind = "review" =>
              Len(AskedFor) = IF Len(facts) < ListLimit THEN Len(facts)
                                                        ELSE ListLimit
         /\ \A j \in 1..Len(AskedFor) :
              /\ AskedFor[j].id = Len(facts) + 1 - j
              /\ AskedFor[j].status = status[Len(facts) + 1 - j]
<1>0. /\ CandidateList \in Seq(CandRow)
      /\ Len(CandidateList) = Len(facts)
      /\ Len(facts) \in Nat
      /\ ListLimit \in Nat /\ MenuLimit \in Nat
  BY CandidatesList, TablesFacts, PanelAssumption DEF TablesInv
<1>1. CASE screen.kind = "overview"
  <2>1. AskedFor = CandidateList
    BY <1>1 DEF AskedFor
  <2>2. QED
    BY <1>0, <1>1, <2>1, CandidatesList
<1>2. ASSUME NEW n \in Nat, AskedFor = Limit(CandidateList, n)
      PROVE  /\ AskedFor \in Seq(CandRow)
             /\ Len(AskedFor) = IF Len(facts) < n THEN Len(facts) ELSE n
             /\ Len(AskedFor) <= Len(facts)
             /\ \A j \in 1..Len(AskedFor) :
                  /\ AskedFor[j].id = Len(facts) + 1 - j
                  /\ AskedFor[j].status = status[Len(facts) + 1 - j]
  <2>1. /\ AskedFor \in Seq(CandRow)
        /\ Len(AskedFor) = IF Len(facts) < n THEN Len(facts) ELSE n
        /\ \A j \in 1..Len(AskedFor) : AskedFor[j] = CandidateList[j]
    BY <1>0, <1>2, LimitedList
  <2>2. Len(AskedFor) <= Len(facts)
    BY <1>0, <2>1
  <2>3. \A j \in 1..Len(AskedFor) : j \in 1..Len(facts)
    BY <1>0, <2>1
  <2>4. QED
    BY <2>1, <2>2, <2>3, CandidatesList
<1>3. CASE screen.kind = "menu"
  <2>1. AskedFor = Limit(CandidateList, MenuLimit)
    BY <1>3 DEF AskedFor
  <2>2. QED
    BY <1>0, <1>2, <1>3, <2>1
<1>4. CASE screen.kind \in {"review", "history"}
  <2>1. AskedFor = Limit(CandidateList, ListLimit)
    BY <1>4 DEF AskedFor
  <2>2. QED
    BY <1>0, <1>2, <1>4, <2>1
<1>5. QED
  BY <1>1, <1>3, <1>4

(* A screen that holds nothing yet, or nothing any more. *)
LEMMA EmptyScreen ==
  ASSUME TablesInv', ScreenTyped', LeftOfKind',
         screen'.items = <<>>, screen'.cands = <<>>,
         screen'.kind = "none" \/ screen'.left # <<>>
  PROVE  ScreenInv'
<1>1. \A kind \in Kinds : ~Shows(kind)'
  BY DEF Shows, Kinds
<1>2. /\ Len(screen'.items) = 0 /\ DOMAIN screen'.items = {}
      /\ Len(screen'.cands) = 0 /\ DOMAIN screen'.cands = {}
  OBVIOUS
<1>3. (Len(facts) \in Nat /\ Len(tasks) \in Nat)'
  BY DEF TablesInv, TablesTyped
<1>4. ItemsRead'
  BY <1>2, <1>3 DEF ItemsRead
<1>5. CandsRead'
  <2>1. CandsUpTo(0)'
    BY <1>1, <1>2 DEF CandsUpTo, Kinds
  <2>2. (0 \in 0..Len(facts))'
    BY <1>3
  <2>3. QED
    BY <2>1, <2>2 DEF CandsRead
<1>6. ListsFit' /\ ReviewCurrent'
  BY <1>1 DEF ListsFit, ReviewCurrent, Kinds
<1>7. QED
  BY <1>4, <1>5, <1>6 DEF ScreenInv

LEMMA OpenKeeps ==
  ASSUME TablesInv, TablesInv', ScreenInv, NEW kind \in Kinds,
         NEW c \in Chats \cup {AllChats}, NEW closed \in BOOLEAN,
         OpenScreen(kind, c, closed)
  PROVE  ScreenInv'
<1>1. PICK since \in SUBSET Known :
        screen' = [kind |-> kind, chat |-> c, closed |-> closed,
                   left |-> Reads(kind), items |-> <<>>, cands |-> <<>>,
                   since |-> since]
  BY DEF OpenScreen, NoScreen
<1>2. /\ Reads(kind) \in {<<"items">>, <<"cands">>, <<"items", "cands">>,
                          <<"cands", "items">>}
      /\ Reads(kind) = <<"items", "cands">> => kind \in {"menu", "overview"}
      /\ Reads(kind) = <<"cands", "items">> => kind = "history"
      /\ Reads(kind) = <<"items">> => kind \in {"tasks", "history"}
      /\ Reads(kind) = <<"cands">> => kind \in {"menu", "overview", "review"}
      /\ Reads(kind) # <<>>
  BY DEF Reads, Kinds, MenuReads, HistoryReads, OverviewReads
<1>3. since \in SUBSET (Known')
  BY DEF OpenScreen, Known
<1>4. ScreenTyped'
  BY <1>1, <1>2, <1>3 DEF ScreenTyped
<1>5. LeftOfKind'
  BY <1>1, <1>2 DEF LeftOfKind
<1>6. QED
  BY <1>1, <1>2, <1>4, <1>5, EmptyScreen

LEMMA CloseKeeps ==
  ASSUME TablesInv', CloseScreen
  PROVE  ScreenInv'
<1>1. screen' = [kind |-> "none", chat |-> AllChats, closed |-> FALSE,
                 left |-> <<>>, items |-> <<>>, cands |-> <<>>, since |-> {}]
  BY DEF CloseScreen, NoScreen
<1>2. ScreenTyped' /\ LeftOfKind'
  BY <1>1, ReadOrder DEF ScreenTyped, LeftOfKind
<1>3. QED
  BY <1>1, <1>2, EmptyScreen

(* The work items are the last list of the history and the first of a      *)
(* dashboard.                                                              *)
LEMMA ReadItemsKeeps ==
  ASSUME TablesInv, ScreenInv, ReadItems
  PROVE  ScreenInv'
<1>0. /\ ScreenTyped /\ LeftOfKind
      /\ Len(tasks) \in Nat /\ DOMAIN tasks = 1..Len(tasks)
  BY TablesFacts DEF TablesInv, ScreenInv
<1>1. /\ UNCHANGED <<status, tasks, facts>>
      /\ screen' = [screen EXCEPT !.left = Tail(screen.left),
                                  !.items = WorkItems]
      /\ screen.left # <<>> /\ Head(screen.left) = "items"
  BY DEF ReadItems
<1>2. /\ WorkItems \in Seq(ItemRow)
      /\ Len(WorkItems) = Len(tasks)
      /\ DOMAIN WorkItems = 1..Len(tasks)
      /\ \A i \in 1..Len(tasks) :
           /\ WorkItems[i].id = Len(tasks) + 1 - i
           /\ WorkItems[i].cand = tasks[Len(tasks) + 1 - i]
  BY WorkItemsList
<1>3. /\ UNCHANGED <<screen.kind, screen.chat, screen.closed, screen.cands,
                     screen.since>>
      /\ screen'.left = Tail(screen.left)
      /\ screen'.items = WorkItems
  BY <1>0, <1>1 DEF ScreenTyped
<1>4. \/ /\ screen.left = <<"items">> /\ screen'.left = <<>>
         /\ screen.kind \in {"tasks", "history"}
      \/ /\ screen.left = <<"items", "cands">> /\ screen'.left = <<"cands">>
         /\ screen.kind \in {"menu", "overview"}
  <2>1. screen.left \in {<<>>, <<"items">>, <<"cands">>, <<"items", "cands">>,
                         <<"cands", "items">>}
    BY <1>0 DEF ScreenTyped
  <2>2. screen.left \in {<<"items">>, <<"items", "cands">>}
    BY <1>1, <2>1, ReadOrder
  <2>3. QED
    BY <1>0, <1>3, <2>2, ReadOrder DEF LeftOfKind
<1>5. /\ ~Shows("review")' /\ ~Shows("menu")' /\ ~Shows("overview")'
      /\ ~Shows("review")
  BY <1>3, <1>4, ReadOrder DEF Shows
<1>6. ScreenTyped'
  <2>1. Tail(screen.left) \in {<<>>, <<"cands">>}
    BY <1>3, <1>4
  <2>2. Known' = Known
    BY <1>1 DEF Known
  <2>3. QED
    BY <1>0, <1>1, <1>2, <2>1, <2>2 DEF ScreenTyped
<1>7. LeftOfKind'
  BY <1>3, <1>4, ReadOrder DEF LeftOfKind
<1>8. ItemsRead'
  BY <1>0, <1>1, <1>2, <1>3 DEF ItemsRead
<1>9. Promoted' = Promoted
  BY <1>1 DEF Promoted
<1>10. CandsRead'
  <2>1. PICK n \in 0..Len(facts) : CandsUpTo(n)
    BY DEF ScreenInv, CandsRead
  <2>2. CandsUpTo(n)'
    BY <1>3, <1>5, <1>9, <2>1 DEF CandsUpTo
  <2>3. QED
    BY <1>1, <2>2 DEF CandsRead
<1>11. ListsFit'
  <2>1. ASSUME NEW j \in DOMAIN screen.cands,
               screen.cands[j].status = "approved"
        PROVE  \E i \in DOMAIN WorkItems :
                 WorkItems[i].cand = screen.cands[j].id
    <3>1. screen.cands[j].id \in Promoted
      BY <2>1 DEF ScreenInv, CandsRead, CandsUpTo
    <3>2. PICK k \in DOMAIN tasks : tasks[k] = screen.cands[j].id
      BY <3>1 DEF Promoted
    <3>3. /\ Len(tasks) + 1 - k \in 1..Len(tasks)
          /\ Len(tasks) + 1 - (Len(tasks) + 1 - k) = k
      BY <1>0
    <3>4. WorkItems[Len(tasks) + 1 - k].cand = tasks[k]
      BY <1>2, <3>3
    <3>5. QED
      BY <1>2, <3>2, <3>3, <3>4
  <2>2. QED
    BY <1>3, <1>5, <2>1 DEF ListsFit
<1>12. ReviewCurrent'
  BY <1>5 DEF ReviewCurrent
<1>13. QED
  BY <1>6, <1>7, <1>8, <1>10, <1>11, <1>12 DEF ScreenInv

(* The candidates are the first list of the history and the last of a      *)
(* dashboard.                                                              *)
LEMMA ReadCandidatesKeeps ==
  ASSUME TablesInv, ScreenInv, ReadCandidates
  PROVE  ScreenInv'
<1>0. /\ ScreenTyped /\ LeftOfKind
      /\ Len(facts) \in Nat
      /\ Len(tasks) \in Nat /\ DOMAIN tasks = 1..Len(tasks)
      /\ Known = 1..Len(facts)
      /\ \A i \in DOMAIN tasks : tasks[i] \in Known
  BY TablesFacts DEF TablesInv, ScreenInv
<1>1. /\ UNCHANGED <<status, tasks, facts>>
      /\ screen' = [screen EXCEPT !.left = Tail(screen.left),
                                  !.cands = AskedFor]
      /\ screen.left # <<>> /\ Head(screen.left) = "cands"
  BY DEF ReadCandidates
<1>2. /\ UNCHANGED <<screen.kind, screen.chat, screen.closed, screen.items,
                     screen.since>>
      /\ screen'.left = Tail(screen.left)
      /\ screen'.cands = AskedFor
  BY <1>0, <1>1 DEF ScreenTyped
<1>3. \/ /\ screen.left = <<"cands">> /\ screen'.left = <<>>
         /\ screen.kind \in {"menu", "overview", "review"}
      \/ /\ screen.left = <<"cands", "items">> /\ screen'.left = <<"items">>
         /\ screen.kind = "history"
  <2>1. screen.left \in {<<>>, <<"items">>, <<"cands">>, <<"items", "cands">>,
                         <<"cands", "items">>}
    BY <1>0 DEF ScreenTyped
  <2>2. screen.left \in {<<"cands">>, <<"cands", "items">>}
    BY <1>1, <2>1, ReadOrder
  <2>3. QED
    BY <1>0, <1>2, <2>2, ReadOrder DEF LeftOfKind
<1>4. /\ AskedFor \in Seq(CandRow)
      /\ Len(AskedFor) <= Len(facts)
      /\ screen.kind = "overview" => Len(AskedFor) = Len(facts)
      /\ screen.kind = "review" =>
           Len(AskedFor) = IF Len(facts) < ListLimit THEN Len(facts)
                                                     ELSE ListLimit
      /\ DOMAIN AskedFor = 1..Len(AskedFor)
      /\ Len(AskedFor) \in Nat
      /\ \A j \in 1..Len(AskedFor) :
           /\ AskedFor[j].id = Len(facts) + 1 - j
           /\ AskedFor[j].status = status[Len(facts) + 1 - j]
  <2>1. screen.kind \in {"menu", "overview", "review", "history"}
    BY <1>3
  <2>2. QED
    BY <2>1, AskedForList
<1>5. ~Shows("history")'
  BY <1>2, <1>3, ReadOrder DEF Shows
<1>6. ScreenTyped'
  <2>1. Tail(screen.left) \in {<<>>, <<"items">>}
    BY <1>2, <1>3
  <2>2. Known' = Known
    BY <1>1 DEF Known
  <2>3. QED
    BY <1>0, <1>1, <1>4, <2>1, <2>2 DEF ScreenTyped
<1>7. LeftOfKind'
  BY <1>2, <1>3, ReadOrder DEF LeftOfKind
<1>8. ItemsRead'
  BY <1>1, <1>2 DEF ScreenInv, ItemsRead
<1>9. Promoted' = Promoted /\ Orderly' = Orderly
  BY <1>1 DEF Promoted, Orderly
<1>10. ASSUME NEW j \in 1..Len(AskedFor)
       PROVE  /\ AskedFor[j].id \in Known
              /\ AskedFor[j].status = status[AskedFor[j].id]
  <2>1. Len(facts) + 1 - j \in Known
    BY <1>0, <1>4
  <2>2. QED
    BY <1>4, <2>1
<1>11. CandsRead'
  <2>1. \A j \in 1..Len(AskedFor) :
          AskedFor[j].status = "approved" => AskedFor[j].id \in Promoted
    BY <1>10 DEF TablesInv, Approvals
  <2>2. screen.since \subseteq 1..Len(facts)
    BY <1>0 DEF ScreenTyped
  <2>3. CandsUpTo(Len(facts))'
    BY <1>1, <1>2, <1>4, <1>9, <2>1, <2>2 DEF CandsUpTo, Shows
  <2>4. Len(facts) \in (0..Len(facts))'
    BY <1>0, <1>1
  <2>5. Len(facts)' = Len(facts)
    BY <1>1
  <2>6. QED
    BY <2>3, <2>4, <2>5 DEF CandsRead
<1>12. ASSUME NEW i \in DOMAIN screen.items
       PROVE  screen.items[i].cand \in Promoted /\ screen.items[i].cand \in Known
  <2>1. /\ Len(screen.items) \in Nat
        /\ DOMAIN screen.items = 1..Len(screen.items)
    BY <1>0 DEF ScreenTyped
  <2>2. Len(screen.items) + 1 - i \in DOMAIN tasks
    BY <1>0, <2>1 DEF ScreenInv, ItemsRead
  <2>3. QED
    BY <1>0, <2>2 DEF ScreenInv, ItemsRead, Promoted
<1>13. ListsFit'
  <2>1. ASSUME Orderly, NEW i \in DOMAIN screen.items,
               NEW j \in DOMAIN AskedFor,
               AskedFor[j].id = screen.items[i].cand
        PROVE  AskedFor[j].status = "approved"
    BY <1>4, <1>10, <1>12, <2>1 DEF Orderly
  <2>2. ASSUME screen.kind = "overview", NEW i \in DOMAIN screen.items
        PROVE  \E j \in DOMAIN AskedFor : AskedFor[j].id = screen.items[i].cand
    <3>1. PICK c \in 1..Len(facts) : c = screen.items[i].cand
      BY <1>0, <1>12
    <3>2. /\ Len(facts) + 1 - c \in DOMAIN AskedFor
          /\ Len(facts) + 1 - (Len(facts) + 1 - c) = c
      BY <1>0, <1>4, <2>2
    <3>3. QED
      BY <1>4, <3>1, <3>2
  <2>3. QED
    BY <1>2, <1>5, <1>9, <2>1, <2>2 DEF ListsFit, Shows
<1>14. ReviewCurrent'
  BY <1>1, <1>2, <1>4, <1>10 DEF ReviewCurrent
<1>15. QED
  BY <1>6, <1>7, <1>8, <1>11, <1>13, <1>14 DEF ScreenInv

PanelInv == TablesInv /\ ScreenInv

LEMMA PanelInit == Init => PanelInv
<1> SUFFICES ASSUME Init PROVE PanelInv
  OBVIOUS
<1>1. TablesInv
  BY TablesInit
<1>2. screen = [kind |-> "none", chat |-> AllChats, closed |-> FALSE,
                left |-> <<>>, items |-> <<>>, cands |-> <<>>, since |-> {}]
  BY DEF Init, NoScreen
<1>3. ScreenTyped /\ LeftOfKind
  BY <1>2, ReadOrder DEF ScreenTyped, LeftOfKind
<1>4. Len(facts) \in Nat /\ Len(tasks) \in Nat
  BY <1>1, TablesFacts DEF TablesInv
<1>5. \A kind \in Kinds : ~Shows(kind)
  BY <1>2 DEF Shows, Kinds
<1>6. ItemsRead /\ ListsFit /\ ReviewCurrent
  BY <1>2, <1>4, <1>5 DEF ItemsRead, ListsFit, ReviewCurrent, Kinds
<1>7. CandsRead
  <2>1. CandsUpTo(0)
    BY <1>2, <1>5 DEF CandsUpTo, Kinds
  <2>2. QED
    BY <1>4, <2>1 DEF CandsRead
<1>8. QED
  BY <1>1, <1>3, <1>6, <1>7 DEF PanelInv, ScreenInv

LEMMA PanelStep == PanelInv /\ [Next]_vars => PanelInv'
<1> SUFFICES ASSUME TablesInv, ScreenInv, [Next]_vars
             PROVE  TablesInv' /\ ScreenInv'
  BY DEF PanelInv
<1>0. ScreenTyped
  BY DEF ScreenInv
<1>1. CASE TableNext \/ UNCHANGED <<tableVars, screen>>
  BY <1>0, <1>1, TablesGrow, ScreenUnderGrowth
<1>2. CASE ScreenNext
  <2>1. UNCHANGED tableVars
    <3>1. \A kind, c, closed :
            OpenScreen(kind, c, closed) => UNCHANGED tableVars
      BY DEF OpenScreen
    <3>2. QED
      BY <1>2, <3>1 DEF ScreenNext, ReadItems, ReadCandidates, CloseScreen
  <2>2. TablesInv'
    BY <2>1 DEF TablesInv, TablesTyped, Approvals, Known, Promoted
  <2>3. ASSUME NEW kind \in Kinds, NEW c \in Chats \cup {AllChats},
               NEW closed \in BOOLEAN, OpenScreen(kind, c, closed)
        PROVE  ScreenInv'
    BY <2>2, <2>3, OpenKeeps
  <2>4. CASE ReadItems
    BY <2>2, <2>4, ReadItemsKeeps
  <2>5. CASE ReadCandidates
    BY <2>2, <2>5, ReadCandidatesKeeps
  <2>6. CASE CloseScreen
    BY <2>2, <2>6, CloseKeeps
  <2>7. QED
    BY <1>2, <2>2, <2>3, <2>4, <2>5, <2>6 DEF ScreenNext
<1>3. CASE UNCHANGED vars
  BY <1>1, <1>3
<1>4. QED
  BY <1>1, <1>2, <1>3 DEF Next

LEMMA PanelAlways == Spec => []PanelInv
BY PanelInit, PanelStep, PTL DEF Spec
-----------------------------------------------------------------------------
(* For any number of candidates, of work items and of steps, every         *)
(* variable has its type; in particular a work item has a status and a     *)
(* candidate that exists, and so has every candidate a screen counts as    *)
(* untouched.                                                              *)
THEOREM PanelTypeCorrect == Spec => []TypeOK
<1>1. ConfigInv /\ PanelInv => TypeOK
  <2> SUFFICES ASSUME ConfigInv, TablesInv, ScreenInv PROVE TypeOK
    BY DEF PanelInv
  <2>1. tasks \in Seq(Known) /\ DOMAIN stage = DOMAIN tasks
    BY TablesFacts DEF TablesInv, TablesTyped
  <2>2. stage \in [DOMAIN tasks -> ItemStatus]
    BY <2>1 DEF TablesInv, TablesTyped
  <2>3. QED
    BY <2>1, <2>2
       DEF TypeOK, ConfigInv, TablesInv, TablesTyped, ScreenInv, ScreenTyped
<1>2. QED
  BY <1>1, ConfigAlways, PanelAlways, PTL

(* An approved candidate on the history is named by its work item          *)
(* (history_text).                                                         *)
LEMMA LineNamesTask ==
  ASSUME TablesInv, ScreenInv, Shows("history"),
         NEW j \in DOMAIN screen.cands,
         screen.cands[j].status = "approved"
  PROVE  LET ref == Reference(screen.cands[j], screen.items)
         IN  ref.task /\ tasks[ref.id] = screen.cands[j].id
<1> DEFINE made == {i \in DOMAIN screen.items :
                      screen.items[i].cand = screen.cands[j].id}
           i == CHOOSE i \in made : TRUE
<1>1. made # {}
  BY DEF ScreenInv, ListsFit
<1>2. i \in made
  BY <1>1
<1>3. tasks[screen.items[i].id] = screen.cands[j].id
  BY <1>2 DEF ScreenInv, ItemsRead
<1>4. Reference(screen.cands[j], screen.items)
        = [task |-> TRUE, id |-> screen.items[i].id]
  BY <1>1 DEF Reference
<1> HIDE DEF i, made
<1> DEFINE ref == Reference(screen.cands[j], screen.items)
<1>5. ref.task /\ ref.id = screen.items[i].id
  BY <1>4
<1>6. QED
  BY <1>3, <1>5

(* For any number of candidates, and whatever is committed between the two *)
(* reads of the history, it names an approved candidate by its work item.  *)
THEOREM HistoryCorrect == Spec => []HistoryNamesTasks
<1>1. PanelInv => HistoryNamesTasks
  <2> SUFFICES ASSUME TablesInv, ScreenInv, Shows("history")
               PROVE  LET lines == HistoryLines(screen.cands, screen.items,
                                                screen.chat)
                      IN  \A i \in DOMAIN lines :
                            lines[i].cand.status = "approved"
                              => /\ lines[i].ref.task
                                 /\ tasks[lines[i].ref.id] = lines[i].cand.id
    BY DEF PanelInv, HistoryNamesTasks
  <2> DEFINE lines == HistoryLines(screen.cands, screen.items, screen.chat)
  <2>1. ASSUME NEW i \in DOMAIN lines
        PROVE  /\ i \in DOMAIN screen.cands
               /\ lines[i] = [cand |-> screen.cands[i],
                              ref |-> Reference(screen.cands[i], screen.items)]
    BY DEF HistoryLines, OfChat, First, With
  <2> HIDE DEF lines
  <2>2. ASSUME NEW i \in DOMAIN lines, lines[i].cand.status = "approved"
        PROVE  lines[i].ref.task /\ tasks[lines[i].ref.id] = lines[i].cand.id
    <3>1. /\ i \in DOMAIN screen.cands
          /\ lines[i].cand = screen.cands[i]
          /\ lines[i].ref = Reference(screen.cands[i], screen.items)
      BY <2>1
    <3>2. QED
      BY <2>2, <3>1, LineNamesTask
  <2>3. QED
    BY <2>2 DEF lines
<1>2. QED
  BY <1>1, PanelAlways, PTL
-----------------------------------------------------------------------------
(* What the first n of some rows leave out has n rows before it. *)
LEMMA FirstOrHidden ==
  ASSUME NEW rows, IsFiniteSet(rows), NEW n \in Nat, NEW i \in rows,
         i \notin First(rows, n)
  PROVE  Cardinality({j \in rows : j < i}) >= n
<1> DEFINE before == {j \in rows : j < i}
<1>1. before \in SUBSET rows
  OBVIOUS
<1>2. IsFiniteSet(before)
  BY <1>1, FS_Subset
<1>3. Cardinality(before) \in Nat
  BY <1>2, FS_CardinalityType
<1>4. ~(Cardinality(before) < n)
  BY DEF First
<1>5. QED
  BY <1>3, <1>4

(* The lists of a screen. *)
LEMMA ScreenLists ==
  ASSUME ScreenInv
  PROVE  /\ screen.items \in Seq(ItemRow) /\ screen.cands \in Seq(CandRow)
         /\ Len(screen.items) \in Nat /\ Len(screen.cands) \in Nat
         /\ DOMAIN screen.items = 1..Len(screen.items)
         /\ DOMAIN screen.cands = 1..Len(screen.cands)
         /\ \A i \in DOMAIN screen.items : screen.items[i] \in ItemRow
         /\ \A j \in DOMAIN screen.cands : screen.cands[j] \in CandRow
         /\ IsFiniteSet(DOMAIN screen.items)
         /\ IsFiniteSet(DOMAIN screen.cands)
<1>1. screen.items \in Seq(ItemRow) /\ screen.cands \in Seq(CandRow)
  BY DEF ScreenInv, ScreenTyped
<1>2. /\ Len(screen.items) \in Nat /\ Len(screen.cands) \in Nat
      /\ DOMAIN screen.items = 1..Len(screen.items)
      /\ DOMAIN screen.cands = 1..Len(screen.cands)
      /\ \A i \in DOMAIN screen.items : screen.items[i] \in ItemRow
      /\ \A j \in DOMAIN screen.cands : screen.cands[j] \in CandRow
  BY <1>1
<1>3. /\ IsFiniteSet(1..Len(screen.items))
      /\ IsFiniteSet(1..Len(screen.cands))
  BY <1>2, FS_Interval
<1>4. QED
  BY <1>1, <1>2, <1>3

(* tasks_text: a task of the half on display is among the first of its     *)
(* priority, or behind enough newer ones.                                  *)
LEMMA TasksShown ==
  ASSUME ScreenInv
  PROVE  TasksNamedOrHidden
<1> SUFFICES ASSUME NEW i \in DOMAIN screen.items,
                    IsClosed(screen.items[i]) = screen.closed,
                    screen.items[i].id
                      \notin TasksNamed(screen.items, screen.closed)
             PROVE  Cardinality({j \in 1..(i - 1) :
                      /\ screen.items[j].priority = screen.items[i].priority
                      /\ IsClosed(screen.items[j]) = screen.closed})
                    >= TaskRows
  BY DEF TasksNamedOrHidden
<1> DEFINE p == screen.items[i].priority
           group == {j \in DOMAIN screen.items :
                       /\ screen.items[j].priority = p
                       /\ IsClosed(screen.items[j]) = screen.closed}
<1>1. /\ p \in Priorities \cup {NoPriority}
      /\ DOMAIN screen.items = 1..Len(screen.items)
      /\ Len(screen.items) \in Nat
      /\ IsFiniteSet(DOMAIN screen.items)
  BY ScreenLists DEF ItemRow
<1>2. i \in group
  OBVIOUS
<1>3. group \in SUBSET DOMAIN screen.items
  OBVIOUS
<1>4. IsFiniteSet(group)
  BY <1>1, <1>3, FS_Subset
<1>5. i \notin First(group, TaskRows)
  <2> DEFINE rows(q) ==
               With(screen.items, LAMBDA w : /\ w.priority = q
                                             /\ IsClosed(w) = screen.closed)
             named(q) == Ids(screen.items, First(rows(q), TaskRows))
  <2>1. TasksNamed(screen.items, screen.closed)
          = UNION {named(q) : q \in Priorities \cup {NoPriority}}
    BY DEF TasksNamed
  <2>2. rows(p) = group
    BY DEF With
  <2> HIDE DEF rows, group
  <2>3. named(p) \subseteq TasksNamed(screen.items, screen.closed)
    <3> HIDE DEF named
    <3>1. QED
      BY <1>1, <2>1
  <2>4. QED
    BY <2>2, <2>3 DEF Ids
<1>6. {j \in group : j < i}
        = {j \in 1..(i - 1) :
             /\ screen.items[j].priority = p
             /\ IsClosed(screen.items[j]) = screen.closed}
  BY <1>1
<1>7. TaskRows \in Nat
  BY PanelAssumption
<1> HIDE DEF group
<1>8. Cardinality({j \in group : j < i}) >= TaskRows
  BY <1>2, <1>4, <1>5, <1>7, FirstOrHidden
<1>9. QED
  BY <1>6, <1>8

(* review_text: the newest candidates are on the list, and those that wait *)
(* have, unless somebody touched them, the status the list has.            *)
LEMMA ReviewShown ==
  ASSUME TablesInv, ScreenInv
  PROVE  PendingNamed
<1> SUFFICES ASSUME Shows("review"), NEW c \in screen.since,
                    status[c] \in Pending,
                    c \notin ReviewNamed(screen.cands)
             PROVE  \/ Cardinality(NewerThan(c)) >= ListLimit
                    \/ Cardinality({d \in NewerThan(c) :
                         status[d] \in Pending \/ d \notin screen.since})
                       >= CardLimit
  BY DEF PendingNamed
<1>1. /\ Len(facts) \in Nat /\ Known = 1..Len(facts)
      /\ Len(screen.cands) \in Nat
      /\ DOMAIN screen.cands = 1..Len(screen.cands)
      /\ IsFiniteSet(DOMAIN screen.cands)
      /\ ListLimit \in Nat /\ CardLimit \in Nat
  BY TablesFacts, ScreenLists, PanelAssumption DEF TablesInv
<1>2. PICK n \in 0..Len(facts) : CandsUpTo(n)
  BY DEF ScreenInv, CandsRead
<1>3. /\ Len(screen.cands) = IF n < ListLimit THEN n ELSE ListLimit
      /\ c \in 1..n
      /\ \A j \in 1..Len(screen.cands) : screen.cands[j].id = n + 1 - j
  BY <1>1, <1>2 DEF CandsUpTo
<1>4. NewerThan(c) = (c + 1)..Len(facts)
  BY <1>1, <1>3 DEF NewerThan
<1>5. IsFiniteSet(NewerThan(c))
  <2>1. c + 1 \in Int /\ Len(facts) \in Int
    BY <1>1, <1>3
  <2>2. QED
    BY <1>4, <2>1, FS_Interval
<1>6. CASE n + 1 - c > Len(screen.cands)
  <2>1. c + 1 \in Int /\ Len(facts) \in Int
    BY <1>1, <1>3
  <2>2. Cardinality(NewerThan(c))
          = IF c + 1 > Len(facts) THEN 0 ELSE Len(facts) - (c + 1) + 1
    BY <1>4, <2>1, FS_Interval
  <2>3. n - c >= ListLimit /\ Len(facts) >= n
    BY <1>1, <1>2, <1>3, <1>6
  <2>4. QED
    BY <1>1, <1>2, <1>3, <2>2, <2>3
<1>7. CASE n + 1 - c <= Len(screen.cands)
  <2> DEFINE k == n + 1 - c
             waiting == With(screen.cands, IsPending)
             before == {j \in waiting : j < k}
             newer == {d \in NewerThan(c) :
                         status[d] \in Pending \/ d \notin screen.since}
             g == [j \in before |-> screen.cands[j].id]
  <2>1. k \in DOMAIN screen.cands /\ n + 1 - k = c
    BY <1>1, <1>3, <1>7
  <2>2. screen.cands[k].id = c
    BY <1>1, <1>3, <2>1
  <2>3. screen.cands[k].status = status[c]
    BY <2>1, <2>2 DEF ScreenInv, ReviewCurrent
  <2>4. k \in waiting
    BY <2>1, <2>3 DEF With, IsPending
  <2>5. k \notin First(waiting, CardLimit)
    BY <2>2 DEF ReviewNamed, Ids
  <2>6. waiting \in SUBSET DOMAIN screen.cands
    BY DEF With
  <2>7. IsFiniteSet(waiting)
    BY <1>1, <2>6, FS_Subset
  <2> HIDE DEF k
  <2>8. Cardinality(before) >= CardLimit
    BY <1>1, <2>4, <2>5, <2>7, FirstOrHidden
  <2>9. ASSUME NEW j \in before
        PROVE  g[j] = n + 1 - j /\ g[j] \in newer
    <3>1. /\ j \in 1..Len(screen.cands) /\ j < k
          /\ screen.cands[j].status \in Pending
      BY <1>1 DEF With, IsPending
    <3>2. g[j] = screen.cands[j].id /\ screen.cands[j].id = n + 1 - j
      BY <1>3, <3>1
    <3>3. n + 1 - j \in NewerThan(c)
      BY <1>1, <1>2, <1>3, <1>4, <2>1, <3>1
    <3>4. g[j] \in screen.since => status[g[j]] \in Pending
      BY <1>1, <3>1, <3>2 DEF ScreenInv, ReviewCurrent
    <3>5. QED
      BY <3>2, <3>3, <3>4
  <2>10. newer \in SUBSET NewerThan(c)
    OBVIOUS
  <2>11. IsFiniteSet(newer)
    BY <1>5, <2>10, FS_Subset
  <2>12. \A i, j \in before : n + 1 - i = n + 1 - j => i = j
    BY <1>1, <1>2, <2>6
  <2>13. g \in [before -> newer]
    BY <2>9
  <2>14. \A i, j \in before : g[i] = g[j] => i = j
    BY <2>9, <2>12
  <2> HIDE DEF g, before, newer, waiting
  <2>15. g \in Injection(before, newer)
    BY <2>13, <2>14 DEF Injection, IsInjective
  <2>16. Cardinality(before) <= Cardinality(newer)
    BY <2>11, <2>15, FS_Injection
  <2>17. IsFiniteSet(before)
    BY <2>11, <2>15, FS_Injection
  <2>18. Cardinality(before) \in Nat /\ Cardinality(newer) \in Nat
    BY <2>11, <2>17, FS_CardinalityType
  <2>19. Cardinality(newer) >= CardLimit
    BY <1>1, <2>8, <2>16, <2>18
  <2>20. QED
    BY <2>19 DEF newer
<1>8. QED
  BY <1>1, <1>2, <1>3, <1>6, <1>7

(* For any numbers of candidates and of work items and any limits, what    *)
(* the panel leaves out is hidden by its limits only, whatever is          *)
(* committed while it is on display (review_text, tasks_text).             *)
THEOREM NamedCorrect == Spec => []NamedOrHidden
<1>1. PanelInv => NamedOrHidden
  BY TasksShown, ReviewShown DEF PanelInv, NamedOrHidden
<1>2. QED
  BY <1>1, PanelAlways, PTL
-----------------------------------------------------------------------------
(* The sum of a function.  Total is defined by a recursive fold; what it   *)
(* is equal to is shown without recursion, by the cells of a bar chart: a  *)
(* bar of height n has the cells 1..n.                                     *)
Of(s) == CHOOSE x \in s : TRUE
Cells(f, s) == UNION {{i} \X (1..f[i]) : i \in s}

(* The equation of the fold, and that the number of cells solves it. *)
SumsUp(f, it) ==
  it = [s \in SUBSET DOMAIN f |->
          IF s = {} THEN 0 ELSE f[Of(s)] + it[s \ {Of(s)}]]

LEMMA TotalFolds ==
  ASSUME NEW f
  PROVE  Total(f) = (CHOOSE it : SumsUp(f, it))[DOMAIN f]
BY DEF Total, FoldFunction, FoldFunctionOnSet, MapThenFoldSet, Of, SumsUp

(* One bar more has its cells more. *)
LEMMA CellsAdd ==
  ASSUME NEW S, NEW f \in [S -> Nat], NEW s \in SUBSET S, IsFiniteSet(s),
         NEW x \in s,
         IsFiniteSet(Cells(f, s \ {x}))
  PROVE  /\ IsFiniteSet(Cells(f, s))
         /\ Cardinality(Cells(f, s)) = f[x] + Cardinality(Cells(f, s \ {x}))
<1> DEFINE bar == {x} \X (1..f[x])
           rest == Cells(f, s \ {x})
<1>1. f[x] \in Nat
  OBVIOUS
<1>2. /\ IsFiniteSet({x}) /\ Cardinality({x}) = 1
      /\ IsFiniteSet(1..f[x]) /\ Cardinality(1..f[x]) = f[x]
  <2>1. IsFiniteSet({x}) /\ Cardinality({x}) = 1
    BY FS_Singleton
  <2>2. IsFiniteSet(1..f[x]) /\ Cardinality(1..f[x]) = f[x]
    BY <1>1, FS_Interval
  <2>3. QED
    BY <2>1, <2>2
<1>3. IsFiniteSet(bar) /\ Cardinality(bar) = f[x]
  <2>1. IsFiniteSet(bar) /\ Cardinality(bar) = Cardinality({x}) * Cardinality(1..f[x])
    BY <1>2, FS_Product
  <2>2. \A n \in Nat : 1 * n = n
    OBVIOUS
  <2> HIDE DEF bar
  <2>3. QED
    BY <1>1, <1>2, <2>1, <2>2
<1>4. Cells(f, s) = bar \cup rest
  BY DEF Cells
<1>5. bar \cap rest = {}
  BY DEF Cells
<1> HIDE DEF bar, rest
<1>6. /\ IsFiniteSet(bar \cup rest)
      /\ Cardinality(bar \cup rest) =
           Cardinality(bar) + Cardinality(rest) - Cardinality(bar \cap rest)
  BY <1>3, FS_Union DEF rest
<1>7. Cardinality(rest) \in Nat /\ Cardinality(bar \cap rest) = 0
  BY <1>5, FS_EmptySet, FS_CardinalityType DEF rest
<1>8. QED
  BY <1>1, <1>3, <1>4, <1>6, <1>7 DEF rest

LEMMA CellsFinite ==
  ASSUME NEW S, NEW f \in [S -> Nat], NEW s \in SUBSET S, IsFiniteSet(s)
  PROVE  IsFiniteSet(Cells(f, s)) /\ Cardinality(Cells(f, s)) \in Nat
<1> DEFINE T == {{i} \X (1..f[i]) : i \in s}
           g == [i \in s |-> {i} \X (1..f[i])]
<1>1. g \in Surjection(s, T)
  BY DEF Surjection
<1>2. ASSUME NEW i \in s PROVE IsFiniteSet({i} \X (1..f[i]))
  <2>1. IsFiniteSet({i})
    BY FS_Singleton
  <2>2. f[i] \in Int
    OBVIOUS
  <2>3. IsFiniteSet(1..f[i])
    BY <2>2, FS_Interval
  <2>4. QED
    BY <2>1, <2>3, FS_Product
<1>3. \A t \in T : IsFiniteSet(t)
  BY <1>2
<1>4. IsFiniteSet(T)
  <2> HIDE DEF T, g
  <2>1. QED
    BY <1>1, FS_Surjection
<1>5. IsFiniteSet(UNION T)
  <2> HIDE DEF T
  <2>1. QED
    BY <1>3, <1>4, FS_UNION
<1>6. QED
  BY <1>5, FS_CardinalityType DEF Cells

LEMMA CellsFold ==
  ASSUME NEW S, IsFiniteSet(S), NEW f \in [S -> Nat]
  PROVE  SumsUp(f, [s \in SUBSET S |-> Cardinality(Cells(f, s))])
<1> DEFINE it == [s \in SUBSET S |-> Cardinality(Cells(f, s))]
<1>1. DOMAIN f = S
  OBVIOUS
<1>2. ASSUME NEW s \in SUBSET S
      PROVE  it[s] = IF s = {} THEN 0 ELSE f[Of(s)] + it[s \ {Of(s)}]
  <2>1. CASE s = {}
    <3>1. Cells(f, s) = {}
      BY <2>1 DEF Cells
    <3>2. QED
      BY <2>1, <3>1, FS_EmptySet
  <2>2. CASE s # {}
    <3>1. Of(s) \in s
      BY <2>2 DEF Of
    <3>2. IsFiniteSet(s) /\ IsFiniteSet(s \ {Of(s)}) /\ s \ {Of(s)} \in SUBSET S
      BY FS_Subset
    <3>3. IsFiniteSet(Cells(f, s \ {Of(s)}))
      BY <3>2, CellsFinite
    <3>4. Cardinality(Cells(f, s)) =
            f[Of(s)] + Cardinality(Cells(f, s \ {Of(s)}))
      BY <3>1, <3>2, <3>3, CellsAdd
    <3>5. QED
      BY <2>2, <3>2, <3>4
  <2>3. QED
    BY <2>1, <2>2
<1>3. it = [s \in SUBSET S |-> it[s]]
  OBVIOUS
<1> HIDE DEF it
<1>4. SumsUp(f, it)
  BY <1>1, <1>2, <1>3 DEF SumsUp
<1>5. QED
  BY <1>4 DEF it

(* Two solutions agree: a smallest set on which they differ would be that  *)
(* set without one element.                                                *)
LEMMA FoldUnique ==
  ASSUME NEW f, IsFiniteSet(DOMAIN f), NEW it, SumsUp(f, it),
         NEW jt, SumsUp(f, jt)
  PROVE  it[DOMAIN f] = jt[DOMAIN f]
<1> DEFINE S == DOMAIN f
           D == {s \in SUBSET S : it[s] # jt[s]}
<1>1. SUFFICES ASSUME D # {} PROVE FALSE
  OBVIOUS
<1>2. IsWellFoundedOn(StrictSubsetOrdering(S), FiniteSubsetsOf(S))
  BY FS_StrictSubsetOrderingWellFounded
<1>3. FiniteSubsetsOf(S) = SUBSET S
  BY FS_FiniteSubsetsOfFinite
<1>4. PICK s \in D : \A t \in D : <<t, s>> \notin StrictSubsetOrdering(S)
  <2>1. D \subseteq FiniteSubsetsOf(S)
    BY <1>3
  <2> HIDE DEF D
  <2>2. QED
    BY <1>1, <1>2, <2>1, WFMin
<1>5. \A t \in D : ~(t \subseteq s /\ t # s)
  BY <1>4 DEF StrictSubsetOrdering
<1>6. s \in SUBSET S /\ it[s] # jt[s]
  BY <1>4
<1>7. /\ it[s] = IF s = {} THEN 0 ELSE f[Of(s)] + it[s \ {Of(s)}]
      /\ jt[s] = IF s = {} THEN 0 ELSE f[Of(s)] + jt[s \ {Of(s)}]
  BY <1>6 DEF SumsUp
<1>8. s # {}
  BY <1>6, <1>7
<1>9. s \ {Of(s)} \subseteq s /\ s \ {Of(s)} # s
  BY <1>8 DEF Of
<1>10. s \ {Of(s)} \notin D
  BY <1>5, <1>9
<1>11. it[s \ {Of(s)}] = jt[s \ {Of(s)}]
  BY <1>6, <1>10
<1>12. QED
  BY <1>6, <1>7, <1>8, <1>11

LEMMA TotalIsCells ==
  ASSUME NEW S, IsFiniteSet(S), NEW f \in [S -> Nat]
  PROVE  Total(f) = Cardinality(Cells(f, S))
<1> DEFINE it == [s \in SUBSET S |-> Cardinality(Cells(f, s))]
           jt == CHOOSE jt : SumsUp(f, jt)
<1>1. SumsUp(f, it)
  BY CellsFold
<1>2. it[S] = Cardinality(Cells(f, S))
  OBVIOUS
<1>3. DOMAIN f = S
  OBVIOUS
<1>4. Total(f) = jt[S]
  BY <1>3, TotalFolds
<1> HIDE DEF it
<1>5. SumsUp(f, jt)
  BY <1>1
<1> HIDE DEF jt
<1>6. it[S] = jt[S]
  BY <1>1, <1>3, <1>5, FoldUnique
<1>7. QED
  BY <1>2, <1>4, <1>6

(* The bars of a chart add up to its rows if each row is in one bar. *)
LEMMA PartitionTotal ==
  ASSUME NEW B, IsFiniteSet(B), NEW U, IsFiniteSet(U),
         NEW part \in [B -> SUBSET U],
         NEW f \in [B -> Nat],
         \A b \in B : f[b] = Cardinality(part[b]),
         \A u \in U : \E b \in B : u \in part[b],
         \A a, b \in B : part[a] \cap part[b] # {} => a = b
  PROVE  Total(f) = Cardinality(U)
<1>1. \A b \in B : \E g : g \in Bijection(1..f[b], part[b])
  <2> SUFFICES ASSUME NEW b \in B PROVE \E g : g \in Bijection(1..f[b], part[b])
    OBVIOUS
  <2>1. part[b] \in SUBSET U
    OBVIOUS
  <2>2. IsFiniteSet(part[b])
    BY <2>1, FS_Subset
  <2>3. ExistsBijection(1..Cardinality(part[b]), part[b])
    BY <2>2, FS_CardinalityType
  <2>4. QED
    BY <2>3 DEF ExistsBijection
<1> DEFINE g(b) == CHOOSE h : h \in Bijection(1..f[b], part[b])
           cells == Cells(f, B)
           all == [p \in cells |-> g(p[1])[p[2]]]
<1>2. \A b \in B : g(b) \in Bijection(1..f[b], part[b])
  BY <1>1
<1> HIDE DEF g
<1>3. \A p : p \in cells <=>
               p = <<p[1], p[2]>> /\ p[1] \in B /\ p[2] \in 1..f[p[1]]
  BY DEF Cells
<1> HIDE DEF cells
<1>4. ASSUME NEW p \in cells
      PROVE  g(p[1])[p[2]] \in part[p[1]] /\ g(p[1])[p[2]] \in U
  BY <1>2, <1>3 DEF Bijection, Injection, Surjection
<1>5. all \in [cells -> U]
  BY <1>4
<1>6. ASSUME NEW p \in cells, NEW q \in cells, all[p] = all[q]
      PROVE  p = q
  <2>1. p[1] = q[1]
    BY <1>3, <1>4, <1>6
  <2>2. g(p[1])[p[2]] = g(p[1])[q[2]]
    BY <1>6, <2>1
  <2>3. p[2] \in 1..f[p[1]] /\ q[2] \in 1..f[p[1]] /\ p[1] \in B
    BY <1>3, <2>1
  <2>4. g(p[1]) \in Bijection(1..f[p[1]], part[p[1]])
    BY <1>2, <2>3
  <2>5. p[2] = q[2]
    BY <2>2, <2>3, <2>4 DEF Bijection, Injection, IsInjective
  <2>6. QED
    BY <1>3, <2>1, <2>5
<1>7. ASSUME NEW u \in U
      PROVE  \E p \in cells : all[p] = u
  <2>1. PICK b \in B : u \in part[b]
    OBVIOUS
  <2>2. PICK k \in 1..f[b] : g(b)[k] = u
    BY <1>2, <2>1 DEF Bijection, Surjection
  <2>3. <<b, k>> \in cells
    BY <1>3, <2>1, <2>2
  <2>4. all[<<b, k>>] = u
    BY <2>2, <2>3
  <2>5. QED
    BY <2>3, <2>4
<1> HIDE DEF all
<1>8. all \in Bijection(cells, U)
  BY <1>5, <1>6, <1>7 DEF Bijection, Injection, Surjection, IsInjective
<1>9. IsFiniteSet(cells)
  BY CellsFinite DEF cells
<1>10. Cardinality(U) = Cardinality(cells)
  BY <1>8, <1>9, FS_Bijection DEF ExistsBijection
<1>11. QED
  BY <1>10, TotalIsCells DEF cells
-----------------------------------------------------------------------------
(* The length of a list is the number of its positions. *)
LEMMA UpTo ==
  ASSUME NEW n \in Nat
  PROVE  IsFiniteSet(1..n) /\ Cardinality(1..n) = n
<1>1. 1 \in Int /\ n \in Int
  OBVIOUS
<1>2. /\ IsFiniteSet(1..n)
      /\ Cardinality(1..n) = IF 1 > n THEN 0 ELSE n - 1 + 1
  BY <1>1, FS_Interval
<1>3. QED
  BY <1>2

(* The rows of a screen are of different candidates. *)
LEMMA ItemsDistinct ==
  ASSUME TablesInv, ScreenInv
  PROVE  /\ \A i \in DOMAIN screen.items : screen.items[i].cand \in Known
         /\ \A i, k \in DOMAIN screen.items :
              screen.items[i].cand = screen.items[k].cand => i = k
<1> DEFINE n == Len(screen.items)
           row(i) == n + 1 - i
<1>1. /\ n \in Nat /\ DOMAIN screen.items = 1..n
      /\ Len(tasks) \in Nat /\ n <= Len(tasks)
      /\ DOMAIN tasks = 1..Len(tasks)
      /\ \A i \in DOMAIN tasks : tasks[i] \in Known
  BY ScreenLists, TablesFacts DEF TablesInv, ScreenInv, ItemsRead
<1>2. \A i \in 1..n : row(i) \in 1..n /\ row(i) \in DOMAIN tasks
  BY <1>1
<1>3. \A i \in DOMAIN screen.items :
        screen.items[i].cand = tasks[row(i)]
  BY DEF ScreenInv, ItemsRead
<1>4. \A i, k \in 1..n : row(i) = row(k) => i = k
  BY <1>1
<1> HIDE DEF row
<1>5. \A i, k \in DOMAIN tasks : tasks[i] = tasks[k] => i = k
  BY DEF TablesInv, Approvals
<1>6. QED
  BY <1>1, <1>2, <1>3, <1>4, <1>5

LEMMA CandsDistinct ==
  ASSUME TablesInv, ScreenInv
  PROVE  /\ \A j \in DOMAIN screen.cands : screen.cands[j].id \in Known
         /\ \A j, k \in DOMAIN screen.cands :
              screen.cands[j].id = screen.cands[k].id => j = k
<1>1. PICK n \in 0..Len(facts) : CandsUpTo(n)
  BY DEF ScreenInv, CandsRead
<1>2. /\ Len(facts) \in Nat /\ Known = 1..Len(facts)
      /\ Len(screen.cands) \in Nat
      /\ DOMAIN screen.cands = 1..Len(screen.cands)
  BY ScreenLists, TablesFacts DEF TablesInv
<1>3. n \in Int /\ n <= Len(facts) /\ Len(screen.cands) <= n
  BY <1>1, <1>2 DEF CandsUpTo
<1>4. \A j \in 1..Len(screen.cands) : screen.cands[j].id = n + 1 - j
  BY <1>1, <1>2 DEF CandsUpTo
<1>5. \A j, k \in 1..Len(screen.cands) :
        n + 1 - j \in 1..Len(facts) /\ (n + 1 - j = n + 1 - k => j = k)
  BY <1>2, <1>3
<1>6. \A j \in DOMAIN screen.cands : screen.cands[j].id \in Known
  BY <1>2, <1>4, <1>5
<1>7. ASSUME NEW j \in DOMAIN screen.cands, NEW k \in DOMAIN screen.cands,
             screen.cands[j].id = screen.cands[k].id
      PROVE  j = k
  <2>1. n + 1 - j = n + 1 - k
    BY <1>2, <1>4, <1>7
  <2>2. QED
    BY <1>2, <1>5, <2>1
<1>8. QED
  BY <1>6, <1>7

(* As many as the rows are the candidates they are of. *)
LEMMA ImageCount ==
  ASSUME NEW S, IsFiniteSet(S), NEW f, DOMAIN f = S,
         \A i, k \in S : f[i] = f[k] => i = k
  PROVE  Cardinality({f[i] : i \in S}) = Cardinality(S)
<1> DEFINE T == {f[i] : i \in S}
           g == [i \in S |-> f[i]]
<1>1. g \in [S -> T] /\ \A t \in T : \E i \in S : g[i] = t
  OBVIOUS
<1>2. \A i, k \in S : g[i] = g[k] => i = k
  OBVIOUS
<1> HIDE DEF g, T
<1>3. g \in Bijection(S, T)
  BY <1>1, <1>2 DEF Bijection, Injection, Surjection, IsInjective
<1>4. Cardinality(T) = Cardinality(S)
  BY <1>3, FS_Bijection DEF ExistsBijection
<1>5. QED
  BY <1>4 DEF T

LEMMA DisjointCount ==
  ASSUME NEW U, IsFiniteSet(U),
         NEW A \in SUBSET U, NEW B \in SUBSET U, NEW C \in SUBSET U,
         A \cap B = {}, A \cap C = {}, B \cap C = {}
  PROVE  Cardinality(A) + Cardinality(B) + Cardinality(C) <= Cardinality(U)
<1>1. IsFiniteSet(A) /\ IsFiniteSet(B) /\ IsFiniteSet(C)
  BY FS_Subset
<1>2. /\ IsFiniteSet(A \cup B)
      /\ Cardinality(A \cup B)
           = Cardinality(A) + Cardinality(B) - Cardinality(A \cap B)
  BY <1>1, FS_Union
<1>3. /\ IsFiniteSet((A \cup B) \cup C)
      /\ Cardinality((A \cup B) \cup C)
           = Cardinality(A \cup B) + Cardinality(C)
               - Cardinality((A \cup B) \cap C)
  BY <1>1, <1>2, FS_Union
<1>4. A \cap B = {} /\ (A \cup B) \cap C = {}
  OBVIOUS
<1>5. Cardinality(A \cap B) = 0 /\ Cardinality((A \cup B) \cap C) = 0
  BY <1>4, FS_EmptySet
<1>6. (A \cup B) \cup C \in SUBSET U
  OBVIOUS
<1>7. Cardinality((A \cup B) \cup C) <= Cardinality(U)
  BY <1>6, FS_Subset
<1>8. /\ Cardinality(A) \in Nat /\ Cardinality(B) \in Nat
      /\ Cardinality(C) \in Nat /\ Cardinality(U) \in Nat
      /\ Cardinality(A \cup B) \in Nat
      /\ Cardinality((A \cup B) \cup C) \in Nat
  BY <1>1, <1>2, <1>3, FS_CardinalityType
<1>9. QED
  BY <1>2, <1>3, <1>5, <1>7, <1>8

(* dashboard_counters: the tasks, the pending and the rejected candidates  *)
(* are different candidates.                                               *)
LEMMA MenuCountsOnce ==
  ASSUME TablesInv, ScreenInv
  PROVE  CountedOnce
<1> SUFFICES ASSUME Shows("menu"), Orderly
             PROVE  LET n == DashboardCounters(screen.items, screen.cands)
                    IN  n.tasks + n.pending + n.rejected <= Len(facts)
  BY DEF CountedOnce
<1> DEFINE all == DOMAIN screen.items
           waiting == With(screen.cands, IsPending)
           rejected == With(screen.cands, LAMBDA c : c.status = "rejected")
           made == [i \in all |-> screen.items[i].cand]
           wait == [j \in waiting |-> screen.cands[j].id]
           reject == [j \in rejected |-> screen.cands[j].id]
           A == {made[i] : i \in all}
           B == {wait[j] : j \in waiting}
           C == {reject[j] : j \in rejected}
<1>1. /\ waiting = {j \in DOMAIN screen.cands :
                      screen.cands[j].status \in Pending}
      /\ rejected = {j \in DOMAIN screen.cands :
                       screen.cands[j].status = "rejected"}
  BY DEF With, IsPending
<1>2. waiting \in SUBSET DOMAIN screen.cands
      /\ rejected \in SUBSET DOMAIN screen.cands
  BY <1>1
<1>3. IsFiniteSet(all) /\ IsFiniteSet(waiting) /\ IsFiniteSet(rejected)
  BY <1>2, ScreenLists, FS_Subset
<1>4. /\ Known = 1..Len(facts) /\ Len(facts) \in Nat
  BY TablesFacts DEF TablesInv
<1>5. IsFiniteSet(Known) /\ Cardinality(Known) = Len(facts)
  BY <1>4, UpTo
<1>6. ASSUME NEW i \in all, NEW j \in DOMAIN screen.cands,
             screen.cands[j].id = screen.items[i].cand
      PROVE  screen.cands[j].status = "approved"
  BY <1>6 DEF ScreenInv, ListsFit
<1>7. A \cap B = {} /\ A \cap C = {}
  <2>1. ASSUME NEW i \in all, NEW j \in waiting \cup rejected
        PROVE  screen.items[i].cand # screen.cands[j].id
    <3>1. /\ j \in DOMAIN screen.cands
          /\ screen.cands[j].status # "approved"
      BY <1>1 DEF Pending
    <3>2. QED
      BY <1>6, <3>1
  <2>2. \A x \in A : \E i \in all : x = screen.items[i].cand
    OBVIOUS
  <2>3. \A x \in B \cup C :
          \E j \in waiting \cup rejected : x = screen.cands[j].id
    OBVIOUS
  <2> HIDE DEF A, B, C, all, waiting, rejected
  <2>4. QED
    BY <2>1, <2>2, <2>3
<1>8. B \cap C = {}
  BY <1>1, CandsDistinct DEF Pending
<1>9. A \in SUBSET Known /\ B \in SUBSET Known /\ C \in SUBSET Known
  BY <1>2, ItemsDistinct, CandsDistinct
<1>10. /\ \A i, k \in all : made[i] = made[k] => i = k
       /\ \A i, k \in waiting : wait[i] = wait[k] => i = k
       /\ \A i, k \in rejected : reject[i] = reject[k] => i = k
  BY <1>2, ItemsDistinct, CandsDistinct
<1>11. DOMAIN made = all /\ DOMAIN wait = waiting /\ DOMAIN reject = rejected
  OBVIOUS
<1>12. /\ DashboardCounters(screen.items, screen.cands).tasks
            = Len(screen.items)
       /\ DashboardCounters(screen.items, screen.cands).pending
            = Cardinality(waiting)
       /\ DashboardCounters(screen.items, screen.cands).rejected
            = Cardinality(rejected)
  BY DEF DashboardCounters, Number
<1>13. Cardinality(all) = Len(screen.items)
  BY ScreenLists, UpTo
<1> HIDE DEF all, waiting, rejected, made, wait, reject
<1>14. /\ Cardinality(A) = Cardinality(all)
       /\ Cardinality(B) = Cardinality(waiting)
       /\ Cardinality(C) = Cardinality(rejected)
  BY <1>3, <1>10, <1>11, ImageCount
<1> HIDE DEF A, B, C
<1>15. Cardinality(A) + Cardinality(B) + Cardinality(C) <= Len(facts)
  BY <1>5, <1>7, <1>8, <1>9, DisjointCount
<1>16. QED
  BY <1>12, <1>13, <1>14, <1>15

(* funnel: each work item's candidate is among the approved ones.          *)
LEMMA FunnelHolds ==
  ASSUME TablesInv, ScreenInv
  PROVE  FunnelHoldsTasks
<1> SUFFICES ASSUME Shows("overview"), Orderly
             PROVE  Len(screen.items) <= Funnel(screen.cands).approved
  BY DEF FunnelHoldsTasks
<1> DEFINE all == 1..Len(screen.items)
           approved == {j \in DOMAIN screen.cands :
                          screen.cands[j].status = "approved"}
           row(i) == CHOOSE j \in DOMAIN screen.cands :
                       screen.cands[j].id = screen.items[i].cand
           g == [i \in all |-> row(i)]
<1>1. all = DOMAIN screen.items /\ Len(screen.items) \in Nat
  BY ScreenLists
<1>2. \A i \in all : \E j \in DOMAIN screen.cands :
        screen.cands[j].id = screen.items[i].cand
  BY <1>1 DEF ScreenInv, ListsFit
<1>3. \A i \in all : /\ row(i) \in DOMAIN screen.cands
                     /\ screen.cands[row(i)].id = screen.items[i].cand
  BY <1>2
<1> HIDE DEF row
<1>4. \A i \in all : row(i) \in approved
  BY <1>1, <1>3 DEF ScreenInv, ListsFit
<1>5. \A i, k \in all : row(i) = row(k) => i = k
  BY <1>1, <1>3, ItemsDistinct
<1>6. Funnel(screen.cands).approved = Cardinality(approved)
  BY DEF Funnel, Number, With
<1>7. approved \in SUBSET DOMAIN screen.cands
  OBVIOUS
<1>8. IsFiniteSet(approved)
  BY <1>7, ScreenLists, FS_Subset
<1>9. Cardinality(all) = Len(screen.items)
  BY <1>1, UpTo
<1> HIDE DEF all, approved
<1>10. g \in Injection(all, approved)
  BY <1>4, <1>5 DEF Injection, IsInjective
<1> HIDE DEF g
<1>11. Cardinality(all) <= Cardinality(approved)
  BY <1>8, <1>10, FS_Injection
<1>12. QED
  BY <1>6, <1>9, <1>11

(* status_distribution: a work item is in one of the statuses. *)
LEMMA StatusesAddUp ==
  ASSUME ScreenInv
  PROVE  Total(StatusDistribution(screen.items)) = Len(screen.items)
<1> DEFINE B == DOMAIN StatusOrder
           U == DOMAIN screen.items
           part == [b \in B |-> {i \in U :
                                   screen.items[i].status = StatusOrder[b]}]
           f == StatusDistribution(screen.items)
<1>1. B = 1..9
  BY DEF StatusOrder
<1>2. \A a, b \in B : StatusOrder[a] = StatusOrder[b] => a = b
  BY DEF StatusOrder
<1>3. IsFiniteSet(B)
  <2>1. 9 \in Nat
    OBVIOUS
  <2>2. QED
    BY <1>1, <2>1, UpTo
<1>4. IsFiniteSet(U) /\ U = 1..Len(screen.items) /\ Len(screen.items) \in Nat
  BY ScreenLists
<1>5. part \in [B -> SUBSET U]
  OBVIOUS
<1>6. ASSUME NEW b \in B
      PROVE  f[b] = Cardinality(part[b]) /\ Cardinality(part[b]) \in Nat
  <2>1. f[b] = Cardinality(part[b])
    BY DEF StatusDistribution, Number, With
  <2>2. part[b] \in SUBSET U
    BY <1>5
  <2>3. IsFiniteSet(part[b])
    BY <1>4, <2>2, FS_Subset
  <2>4. QED
    BY <2>1, <2>3, FS_CardinalityType
<1>7. f \in [B -> Nat]
  <2>1. DOMAIN f = B /\ f = [b \in B |-> f[b]]
    BY DEF StatusDistribution
  <2>2. QED
    BY <1>6, <2>1
<1>8. \A u \in U : \E b \in B : u \in part[b]
  BY ScreenLists DEF ItemRow, ItemStatus
<1>9. \A a, b \in B : part[a] \cap part[b] # {} => a = b
  BY <1>2
<1> HIDE DEF B, U, part, f
<1>10. Total(f) = Cardinality(U)
  <2>1. \A b \in B : f[b] = Cardinality(part[b])
    BY <1>6
  <2>2. IsFiniteSet(U)
    BY <1>4
  <2>3. QED
    BY <1>3, <1>5, <1>7, <1>8, <1>9, <2>1, <2>2, PartitionTotal
<1>11. Cardinality(U) = Len(screen.items)
  BY <1>4, UpTo
<1>12. QED
  BY <1>10, <1>11 DEF f

(* confidence_histogram: a confidence is in one of the fifths. *)
LEMMA BucketsAddUp ==
  ASSUME ScreenInv
  PROVE  Total(ConfidenceHistogram(screen.cands)) = Len(screen.cands)
<1> DEFINE B == 1..5
           U == DOMAIN screen.cands
           part == [b \in B |-> {j \in U : InBucket(screen.cands[j].conf, b)}]
           f == ConfidenceHistogram(screen.cands)
<1>1. \A conf \in Confidence : \E b \in B : InBucket(conf, b)
  BY DEF Confidence, InBucket
<1>2. \A conf \in Confidence : \A a, b \in B :
        InBucket(conf, a) /\ InBucket(conf, b) => a = b
  BY DEF Confidence, InBucket
<1>3. IsFiniteSet(B)
  <2>1. 5 \in Nat
    OBVIOUS
  <2>2. QED
    BY <2>1, UpTo
<1>4. /\ IsFiniteSet(U) /\ U = 1..Len(screen.cands)
      /\ Len(screen.cands) \in Nat
  BY ScreenLists
<1>5. part \in [B -> SUBSET U]
  OBVIOUS
<1>6. ASSUME NEW b \in B
      PROVE  f[b] = Cardinality(part[b]) /\ Cardinality(part[b]) \in Nat
  <2>1. f[b] = Cardinality(part[b])
    BY DEF ConfidenceHistogram, Number, With
  <2>2. part[b] \in SUBSET U
    BY <1>5
  <2>3. IsFiniteSet(part[b])
    BY <1>4, <2>2, FS_Subset
  <2>4. QED
    BY <2>1, <2>3, FS_CardinalityType
<1>7. f \in [B -> Nat]
  <2>1. DOMAIN f = B /\ f = [b \in B |-> f[b]]
    BY DEF ConfidenceHistogram
  <2>2. QED
    BY <1>6, <2>1
<1>8. \A j \in U : screen.cands[j].conf \in Confidence
  BY ScreenLists DEF CandRow
<1>9. \A u \in U : \E b \in B : u \in part[b]
  BY <1>1, <1>8
<1>10. \A a, b \in B : part[a] \cap part[b] # {} => a = b
  BY <1>2, <1>8
<1> HIDE DEF B, U, part, f
<1>11. Total(f) = Cardinality(U)
  <2>1. \A b \in B : f[b] = Cardinality(part[b])
    BY <1>6
  <2>2. IsFiniteSet(U)
    BY <1>4
  <2>3. QED
    BY <1>3, <1>5, <1>7, <1>9, <1>10, <2>1, <2>2, PartitionTotal
<1>12. Cardinality(U) = Len(screen.cands)
  BY <1>4, UpTo
<1>13. QED
  BY <1>11, <1>12 DEF f

(* For any number of candidates, and whatever is committed between the     *)
(* reads of a dashboard, nothing is counted twice, the funnel has no more  *)
(* tasks than approvals, and the bars add up (dashboard_counters, funnel,  *)
(* status_distribution, confidence_histogram).                             *)
THEOREM CountsCorrect == Spec => []CountsAgree
<1>1. PanelInv => CountsAgree
  BY MenuCountsOnce, FunnelHolds, StatusesAddUp, BucketsAddUp
     DEF PanelInv, CountsAgree, BarsAddUp
<1>2. QED
  BY <1>1, PanelAlways, PTL
-----------------------------------------------------------------------------
(* The tables the screens read change as Decisions says: what is shown of  *)
(* them holds for any implementation of it, such as Review (extract.py,    *)
(* routers/candidates.py, promotion.py).                                   *)
THEOREM TablesAreDecisions == Spec => DecisionsSpec
<1>1. Init => DecisionsInit
  BY DEF Init
<1>2. [Next]_vars => [DecisionsNext]_<<status, tasks>>
  <2> SUFFICES ASSUME [Next]_vars
               PROVE  DecisionsNext \/ UNCHANGED <<status, tasks>>
    OBVIOUS
  <2>1. CASE UNCHANGED vars
    BY <2>1
  <2>2. CASE ScreenNext
    <3>1. \A kind, chat, closed :
            OpenScreen(kind, chat, closed) => UNCHANGED <<status, tasks>>
      BY DEF OpenScreen
    <3>2. QED
      BY <2>2, <3>1 DEF ScreenNext, ReadItems, ReadCandidates, CloseScreen
  <2>3. CASE TableNext
    <3>1. ExtractNext => DecisionsNext
      <4>1. \A conf : StatusFor(conf) \subseteq {"new", "needs_review"}
        BY DEF StatusFor
      <4>2. QED
        BY <4>1 DEF ExtractNext, DecisionsNext
    <3>2. \A c \in Candidates : DecideOn(c) \/ PromoteOne(c) => DecisionsNext
      BY DEF DecideOn, PromoteOne, DecisionsNext
    <3>3. \A i, s : MoveItem(i, s) => UNCHANGED <<status, tasks>>
      BY DEF MoveItem
    <3>4. QED
      BY <2>3, <3>1, <3>2, <3>3 DEF TableNext
  <2>4. QED
    BY <2>1, <2>2, <2>3 DEF Next
<1>3. QED
  BY <1>1, <1>2, PTL DEF Spec, DecisionsSpec
=============================================================================
