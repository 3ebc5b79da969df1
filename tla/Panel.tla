------------------------------- MODULE Panel -------------------------------
(***************************************************************************)
(* The bot's admin panel and the web dashboard: screens made from several  *)
(* reads, while the worker extracts candidates, admins decide about them   *)
(* and users move work items.  Each read is an HTTP request or a SQL       *)
(* statement of its own, so anything may be committed between two of one   *)
(* screen.  Screens only read, the list of chats apart (ChatConfig), so    *)
(* one at a time is enough to see what they can show.                      *)
(***************************************************************************)
EXTENDS ChatConfig, Decisions, Overview

CONSTANTS
  Facts,     \* what the worker may find out about a candidate
  Stages,    \* statuses users give to work items
  ListLimit, \* candidates a screen asks for (100)
  MenuLimit  \* candidates the dashboard asks for (500)

ASSUME PanelAssumption ==
  /\ Facts \subseteq [chat : Chats, priority : Priorities \cup {NoPriority},
                      conf : Confidence]
  /\ Stages \subseteq ItemStatus
  /\ {CardLimit, HistoryRows, TaskRows, ListLimit, MenuLimit} \subseteq Nat

VARIABLES
  facts,  \* facts of each candidate extracted so far
  stage,  \* status of each work item, the index is its id
  screen  \* the screen being opened, or on display

tableVars == <<status, tasks, facts, stage>>
vars == <<configVars, tableVars, screen, moves>>

Kinds == {"menu", "tasks", "review", "history", "overview"}
NoScreen == [kind |-> "none", chat |-> AllChats, closed |-> FALSE,
             left |-> <<>>, items |-> <<>>, cands |-> <<>>, since |-> {}]

Init ==
  /\ ConfigInit
  /\ DecisionsInit
  /\ Known = {}
  /\ facts = <<>>
  /\ stage = <<>>
  /\ screen = NoScreen
-----------------------------------------------------------------------------
(* GET /api/work-items and select(WorkItem): every work item. *)
WorkItems ==
  [i \in DOMAIN tasks |->
     LET k == Len(tasks) + 1 - i
     IN  [id |-> k, cand |-> tasks[k], status |-> stage[k],
          priority |-> facts[tasks[k]].priority]]

(* GET /api/candidates and select(Candidate), with the chats of enrich.py. *)
CandidateList ==
  LET last == Len(facts) IN
  [i \in DOMAIN facts |->
     LET c == last + 1 - i
     IN  [id |-> c, status |-> status[c], chat |-> facts[c].chat,
          conf |-> facts[c].conf]]

(* Mutants: the two lists are read in the other order. *)
HistoryReadsSwapped == <<"items", "cands">>

OverviewReadsSwapped == <<"cands", "items">>

(* _admin_menu, _admin_history and overview read two lists. *)
MenuReads == <<"items", "cands">>

HistoryReads == <<"cands", "items">>

OverviewReads == <<"items", "cands">>

Reads(kind) ==
  CASE kind = "menu"     -> MenuReads
    [] kind = "tasks"    -> <<"items">>
    [] kind = "review"   -> <<"cands">>
    [] kind = "history"  -> HistoryReads
    [] kind = "overview" -> OverviewReads

(* An admin opens a screen; since are the candidates nobody touched since. *)
OpenScreen(kind, chat, closed) ==
  /\ screen = NoScreen
  /\ refresh.pc = "idle"
  /\ chat # AllChats => kind = "history"
  /\ closed => kind = "tasks"
  /\ screen' = [NoScreen EXCEPT
       !.kind = kind, !.chat = chat, !.closed = closed, !.left = Reads(kind),
       !.since = IF kind = "review" THEN Known ELSE {}]
  /\ UNCHANGED <<configVars, tableVars, moves>>

ReadItems ==
  /\ screen.left # <<>> /\ Head(screen.left) = "items"
  /\ screen' = [screen EXCEPT !.left = Tail(@), !.items = WorkItems]
  /\ UNCHANGED <<configVars, tableVars, moves>>

AskedFor ==
  CASE screen.kind = "menu" -> Limit(CandidateList, MenuLimit)
    [] screen.kind = "overview" -> CandidateList
    [] screen.kind \in {"review", "history"} ->
         Limit(CandidateList, ListLimit)

ReadCandidates ==
  /\ screen.left # <<>> /\ Head(screen.left) = "cands"
  /\ screen' = [screen EXCEPT !.left = Tail(@), !.cands = AskedFor]
  /\ UNCHANGED <<configVars, tableVars, moves>>

(* The panel is replaced by the next one, or a request fails. *)
CloseScreen ==
  /\ screen # NoScreen
  /\ screen' = NoScreen
  /\ UNCHANGED <<configVars, tableVars, moves>>
-----------------------------------------------------------------------------
(* _status_for: a candidate below 0.6 is not stored, and one that is new   *)
(* (0.9) awaits review like the others when nobody was found to do it.     *)
StatusFor(conf) ==
  CASE conf >= 9 -> {"new", "needs_review"}
    [] conf \in 6..8 -> {"needs_review"}
    [] OTHER -> {}

(* extract.py stores the next candidate.  Those of one run are committed   *)
(* together; one at a time only adds states between them.                  *)
ExtractNext ==
  LET c == Len(facts) + 1 IN
  /\ c \in Candidates
  /\ Move
  /\ \E f \in Facts :
       /\ \E s \in StatusFor(f.conf) : Extract(c, s)
       /\ facts' = Append(facts, f)
  /\ UNCHANGED <<configVars, stage, screen>>

Touch(c) == screen' = [screen EXCEPT !.since = @ \ {c}]

(* A review request commits, perhaps one that did not see the approval. *)
DecideOn(c) ==
  /\ Move
  /\ \E s \in {"edited", "rejected", "duplicate"} : Decide(c, s)
  /\ Touch(c)
  /\ UNCHANGED <<configVars, facts, stage>>

(* Mutant: the work item is left without its first status. *)
PromoteUnstaged(c) ==
  /\ Move
  /\ Promote(c)
  /\ UNCHANGED stage
  /\ Touch(c)
  /\ UNCHANGED <<configVars, facts>>

(* Promotion puts the work item in the inbox, with the priority the        *)
(* candidate has then; edits of either are left out.                       *)
PromoteOne(c) ==
  /\ Move
  /\ Promote(c)
  /\ stage' = Append(stage, "inbox")
  /\ Touch(c)
  /\ UNCHANGED <<configVars, facts>>

(* PATCH /api/work-items/{id}/status. *)
MoveItem(i, s) ==
  /\ Move
  /\ stage[i] # s
  /\ stage' = [stage EXCEPT ![i] = s]
  /\ UNCHANGED <<configVars, status, tasks, facts, screen>>
-----------------------------------------------------------------------------
ScreenNext ==
  \/ \E kind \in Kinds : \E chat \in Chats \cup {AllChats} :
       \E closed \in BOOLEAN : OpenScreen(kind, chat, closed)
  \/ ReadItems
  \/ ReadCandidates
  \/ CloseScreen

TableNext ==
  \/ ExtractNext
  \/ \E c \in Candidates : DecideOn(c) \/ PromoteOne(c)
  \/ \E i \in DOMAIN stage : \E s \in Stages : MoveItem(i, s)

Next ==
  \/ ScreenNext
  \/ TableNext
  \/ /\ screen = NoScreen
     /\ ConfigNext
     /\ UNCHANGED <<tableVars, screen>>

Spec == Init /\ [][Next]_vars
-----------------------------------------------------------------------------
(* Types of all variables. *)
TypeOK ==
  /\ ConfigTypeOK
  /\ status \in [1..Len(facts) -> CandidateStatus]
  /\ tasks \in Seq(Known)
  /\ facts \in Seq(Facts)
  /\ stage \in [DOMAIN tasks -> ItemStatus]
  /\ screen.kind \in Kinds \cup {"none"}
  /\ screen.chat \in Chats \cup {AllChats}
  /\ screen.closed \in BOOLEAN
  /\ screen.since \subseteq Known

Shows(kind) == screen.kind = kind /\ screen.left = <<>>

(* No review request was written over an approval. *)
Orderly == \A c \in Promoted : status[c] = "approved"

(* history_text: "Approved candidates are shown as their promoted task id  *)
(* (WI-N), never the raw candidate id" - although the two lists are read   *)
(* one after the other.                                                    *)
HistoryNamesTasks ==
  Shows("history") =>
    LET lines == HistoryLines(screen.cands, screen.items, screen.chat) IN
    \A i \in DOMAIN lines :
      lines[i].cand.status = "approved"
        => /\ lines[i].ref.task
           /\ tasks[lines[i].ref.id] = lines[i].cand.id

(* The dashboard counts nothing twice: no candidate is both a task and one *)
(* that waits for review or was rejected, if it was approved in between.   *)
CountedOnce ==
  Shows("menu") /\ Orderly =>
    LET n == DashboardCounters(screen.items, screen.cands)
    IN  n.tasks + n.pending + n.rejected <= Len(facts)

(* The web dashboard's funnel narrows: it has no more tasks than approved  *)
(* candidates, although they are counted at different times.               *)
FunnelHoldsTasks ==
  Shows("overview") /\ Orderly =>
    Len(screen.items) <= Funnel(screen.cands).approved

(* Its bars add up: each task is in one status, and each confidence in one *)
(* bucket, 1.0 too.                                                        *)
BarsAddUp ==
  Shows("overview") =>
    /\ Total(StatusDistribution(screen.items)) = Len(screen.items)
    /\ Total(ConfidenceHistogram(screen.cands)) = Len(screen.cands)

(* The counts of both dashboards agree, whatever is committed while their  *)
(* lists are read one after the other.                                     *)
CountsAgree == CountedOnce /\ FunnelHoldsTasks /\ BarsAddUp

(* A candidate that waits for review, and that nobody touched since the    *)
(* review screen was opened, is named on it, unless the screen's limits    *)
(* hide it behind newer ones.                                              *)
NewerThan(c) == {d \in Known : d > c}

PendingNamed ==
  Shows("review") =>
    \A c \in screen.since :
      status[c] \in Pending =>
        \/ c \in ReviewNamed(screen.cands)
        \/ Cardinality(NewerThan(c)) >= ListLimit
        \/ Cardinality({d \in NewerThan(c) :
             status[d] \in Pending \/ d \notin screen.since}) >= CardLimit

(* The tasks screen names every task of its half, unless TaskRows newer    *)
(* ones of the same priority hide it.                                      *)
TasksNamedOrHidden ==
  Shows("tasks") =>
    \A i \in DOMAIN screen.items :
      LET w == screen.items[i] IN
      IsClosed(w) = screen.closed =>
        \/ w.id \in TasksNamed(screen.items, screen.closed)
        \/ Cardinality({j \in 1..(i - 1) :
             /\ screen.items[j].priority = w.priority
             /\ IsClosed(screen.items[j]) = screen.closed}) >= TaskRows

(* What the lists of the panel leave out is hidden by their limits only.   *)
NamedOrHidden == PendingNamed /\ TasksNamedOrHidden

(* After the bot was removed from a chat, nothing is captured "until the   *)
(* chat is reconfigured" (on_bot_removed_from_group): the chat opens again *)
(* when someone chooses a destination, or when the panel's list of chats   *)
(* had found no title stored for it and stores one.                        *)
Reopened ==
  \A c \in Chats :
    config[c] = "none" /\ config'[c] # "none"
      => tapped[c] \/ c \in refresh.bare

ReopenedKnowingly == [][Reopened]_vars
=============================================================================
