------------------------------ MODULE Overview ------------------------------
(***************************************************************************)
(* The sums and lists of the bot's admin panel (admin.py) and of the web   *)
(* dashboard (analytics.py), as functions of the lists they were given.    *)
(* A list is a sequence of rows, the newest first, as the API returns it.  *)
(***************************************************************************)
EXTENDS Integers, Sequences, FiniteSets, Functions

CONSTANTS
  CardLimit,   \* candidates named on the review screen (10)
  HistoryRows, \* candidates named on the history screen (6)
  TaskRows     \* tasks named per priority (15)

(* WorkItemStatus in the order of its declaration, and Priority. *)
StatusOrder == <<"inbox", "backlog", "ready", "in_progress", "blocked",
                 "review", "done", "cancelled", "archived">>
ItemStatus == {StatusOrder[i] : i \in DOMAIN StatusOrder}
ClosedStatuses == {"done", "cancelled", "archived"}
NoPriority == "none"
Priorities == {"critical", "high", "medium", "low"}

(* Candidates that await a human decision. *)
Pending == {"new", "needs_review", "edited"}

(* Confidences in tenths. *)
Confidence == 0..10

(* What a screen that is not one chat's asks for. *)
AllChats == "all chats"

Limit(rows, n) == SubSeq(rows, 1, IF Len(rows) < n THEN Len(rows) ELSE n)
Ids(rows, positions) == {rows[i].id : i \in positions}
With(rows, Test(_)) == {i \in DOMAIN rows : Test(rows[i])}
Number(rows, Test(_)) == Cardinality(With(rows, Test))

(* The first n of some rows. *)
First(positions, n) ==
  {i \in positions : Cardinality({j \in positions : j < i}) < n}

(* The sum of a function's or a sequence's values. *)
Total(f) == FoldFunction(LAMBDA x, y : x + y, 0, f)

IsClosed(item) == item.status \in ClosedStatuses
IsPending(cand) == cand.status \in Pending
-----------------------------------------------------------------------------
(* dashboard_counters. *)
DashboardCounters(items, cands) ==
  [tasks    |-> Len(items),
   done     |-> Number(items, IsClosed),
   pending  |-> Number(cands, IsPending),
   rejected |-> Number(cands, LAMBDA c : c.status = "rejected")]

(* tasks_text: of each priority, and of none, the first few tasks. *)
TasksNamed(items, closed) ==
  LET group(p) == With(items, LAMBDA w : /\ w.priority = p
                                         /\ IsClosed(w) = closed)
  IN  UNION {Ids(items, First(group(p), TaskRows)) :
               p \in Priorities \cup {NoPriority}}

(* Mutant: an edited candidate no longer counts as waiting. *)
ReviewNamedUnedited(cands) ==
  Ids(cands, First(With(cands, LAMBDA c : c.status \in Pending \ {"edited"}),
                   CardLimit))

(* review_text, and the candidates _admin_review sends cards for. *)
ReviewNamed(cands) == Ids(cands, First(With(cands, IsPending), CardLimit))

(* history_text: the task an approved candidate became, if the list of     *)
(* work items has it, else the candidate itself.                           *)
Reference(cand, items) ==
  LET made == {i \in DOMAIN items : items[i].cand = cand.id}
  IN  IF cand.status = "approved" /\ made # {}
      THEN [task |-> TRUE, id |-> items[CHOOSE i \in made : TRUE].id]
      ELSE [task |-> FALSE, id |-> cand.id]

(* The history of one chat, filtered after both lists were read. *)
OfChat(cands, chat) == With(cands, LAMBDA c : chat \in {AllChats, c.chat})

(* A line has the place of its candidate in the list that was read. *)
HistoryLines(cands, items, chat) ==
  [i \in First(OfChat(cands, chat), HistoryRows) |->
     [cand |-> cands[i], ref |-> Reference(cands[i], items)]]
-----------------------------------------------------------------------------
(* status_distribution: the number of work items in each status. *)
StatusDistribution(items) ==
  [i \in DOMAIN StatusOrder |->
     Number(items, LAMBDA w : w.status = StatusOrder[i])]

(* funnel, the messages apart. *)
Funnel(cands) ==
  [candidates |-> Len(cands),
   approved   |-> Number(cands, LAMBDA c : c.status = "approved"),
   rejected   |-> Number(cands, LAMBDA c : c.status = "rejected")]

(* _CONF_BUCKETS: fifths, each without its end, but for the last one,      *)
(* which holds 1.0.                                                        *)
InBucket(conf, b) ==
  /\ 2 * (b - 1) <= conf
  /\ conf < 2 * b \/ (b = 5 /\ conf = 10)

(* confidence_histogram. *)
ConfidenceHistogram(cands) ==
  [b \in 1..5 |-> Number(cands, LAMBDA c : InBucket(c.conf, b))]
=============================================================================
