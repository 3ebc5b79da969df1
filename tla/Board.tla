------------------------------- MODULE Board -------------------------------
(***************************************************************************)
(* The Kanban board (web/app/board/page.tsx) over the table of work items  *)
(* (routers/work_items.py): moves are shown before they are posted, a      *)
(* failed one offers a Retry, a successful batch an Undo, and the board is *)
(* loaded again after some of them only.                                   *)
(*                                                                         *)
(* A slot of Ops runs one asynchronous function of the page, from the      *)
(* user's action to the end of the GET of the load() it calls.             *)
(***************************************************************************)
EXTENDS Integers, FiniteSets

CONSTANTS
  Items,        \* the work items
  NoItem,       \* no item
  Last,         \* the last column (9 of WORK_STATUSES)
  Ops,          \* the functions that may run at a time
  MaxActions,   \* bound: actions of the user
  MaxTroubles   \* bound: requests that fail, changes by other users

ASSUME BoardAssumption ==
  /\ Last \in Nat \ {0}
  /\ Ops # {}
  /\ NoItem \notin Items
  /\ MaxActions \in Nat
  /\ MaxTroubles \in Nat

(* Statuses are numbered in the order of the columns.                      *)
Statuses == 1..Last

(* Which items to move, and where to.                                      *)
Moves == UNION {[S -> Statuses] : S \in SUBSET Items}
NoMoves == [i \in {} |-> 1]

(* What an action of the user runs: move, batchMove, retryMoves, undoBatch,*)
(* changeStatus of the drawer, and load.                                   *)
Kinds == {"move", "batch", "retry", "undo", "drawer", "load"}

(* pc: a POST is on its way, has read its row, is answered; the GET is on  *)
(* its way, is answered.  "left" are the items still to post, "from" is    *)
(* where the page showed the items, "before" and "calm" tell the property  *)
(* UndoRestores what the table held when the batch began and whether the   *)
(* page was right about it, "clean" that nothing overlaps the GET.         *)
Op == [pc : {"idle", "sent", "read", "answer", "get", "got"}, kind : Kinds,
       moves : Moves, from : Moves, before : Moves, calm : BOOLEAN,
       left : SUBSET Items, item : Items \cup {NoItem}, seen : Statuses,
       failed : SUBSET Items, board : [Items -> Statuses], clean : BOOLEAN]

(* What a button of a toast runs; two that run the same count as one, and  *)
(* one that is dismissed is one that is never pressed.                     *)
Toast == [kind : Kinds, moves : Moves, from : Moves, before : Moves,
          calm : BOOLEAN]

VARIABLES
  table,     \* [Items -> Statuses], work_items.status
  late,      \* SUBSET Late, posts the page has given up and the server not
  cards,     \* [Items -> [Statuses -> Nat]], the cards shown per column
  loading,
  error,     \* the banner "Failed to load the board."
  toasts,    \* SUBSET Toast, those with a button
  op,        \* [Ops -> Op]
  disturbed, \* something overlapped or went astray since the last clean load
  actions,   \* actions of the user so far
  troubles   \* failures and changes by other users so far

vars == <<table, late, cards, loading, error, toasts, op, disturbed, actions,
          troubles>>
page == <<cards, loading, error, toasts>>
bounds == <<actions, troubles>>

Late == [item : Items, to : Statuses, seen : Statuses]

Nothing ==
  [pc |-> "idle", kind |-> "load", moves |-> NoMoves, from |-> NoMoves,
   before |-> NoMoves, calm |-> FALSE, left |-> {},
   item |-> NoItem, seen |-> 1, failed |-> {},
   board |-> [i \in Items |-> 1], clean |-> FALSE]

(* The page is mounted and loads the board.                                *)
Init ==
  /\ table \in [Items -> Statuses]
  /\ late = {}
  /\ cards = [i \in Items |-> [s \in Statuses |-> 0]]
  /\ loading = TRUE
  /\ error = FALSE
  /\ toasts = {}
  /\ \E o \in Ops :
       op = [q \in Ops |-> IF q = o THEN [Nothing EXCEPT !.pc = "get",
                                                         !.clean = TRUE]
                           ELSE Nothing]
  /\ disturbed = TRUE
  /\ actions = 0
  /\ troubles = 0
-----------------------------------------------------------------------------
Idle(o) == op[o].pc = "idle"
Quiet(o) == late = {} /\ \A q \in Ops \ {o} : Idle(q)

(* findItem: the first column that shows the item.                         *)
Shown(i) == {s \in Statuses : cards[i][s] > 0}
First(i) == CHOOSE s \in Shown(i) : \A t \in Shown(i) : s <= t

(* Mutant: that findIndex found the card is not checked.                   *)
AppliedUnchecked(moves) ==
  [i \in Items |->
     IF i \in DOMAIN moves
     THEN LET taken == [cards[i] EXCEPT ![1] = @ - 1]
          IN [taken EXCEPT ![moves[i]] = @ + 1]
     ELSE cards[i]]

(* applyMoves: the first card found goes to the new column.                *)
Applied(moves) ==
  [i \in Items |->
     IF i \in DOMAIN moves /\ Shown(i) # {}
     THEN LET taken == [cards[i] EXCEPT ![First(i)] = @ - 1]
          IN [taken EXCEPT ![moves[i]] = @ + 1]
     ELSE cards[i]]

(* move: all cards in the column the item had are replaced by a new one.   *)
Moved(i, from, to) ==
  LET gone == [cards[i] EXCEPT ![from] = 0]
  IN [cards EXCEPT ![i] = [gone EXCEPT ![to] = @ + 1]]

(* The operations with one more; a GET that is on its way is no longer     *)
(* alone.                                                                  *)
With(o, new) ==
  [q \in Ops |-> IF q = o THEN new ELSE [op[q] EXCEPT !.clean = FALSE]]

(* The user acts: the operation posts the moves it has.                    *)
Begin(o, kind, moves, from, before, calm) ==
  /\ Idle(o)
  /\ op' = With(o, [Nothing EXCEPT !.pc = "sent", !.kind = kind,
                      !.moves = moves, !.from = from, !.before = before,
                      !.calm = calm, !.left = DOMAIN moves])
  /\ UNCHANGED <<table, late, loading, error, troubles>>

Act == actions < MaxActions /\ actions' = actions + 1

(* A card is dragged, or its menu is used.                                 *)
Move(o, i, from, to) ==
  /\ Act
  /\ ~loading
  /\ from \in Shown(i)
  /\ from # to
  /\ cards' = Moved(i, from, to)
  /\ Begin(o, "move", [j \in {i} |-> to], [j \in {i} |-> from], NoMoves, FALSE)
  /\ disturbed' = (disturbed \/ ~Quiet(o))
  /\ UNCHANGED toasts

(* Mutant: the columns are noted after the cards were moved.               *)
PrevAfter(S, to) == [i \in {j \in S : Shown(j) \ {to} # {}} |-> to]

(* What batchMove notes of the selected items: where the board shows them. *)
Prev(S, to) == [i \in {j \in S : Shown(j) # {} /\ First(j) # to} |-> First(i)]

(* The selected items are moved together.                                  *)
BatchMove(o, S, to) ==
  LET prev == Prev(S, to)
      moves == [i \in DOMAIN prev |-> to]
  IN
  /\ Act
  /\ DOMAIN prev # {}
  /\ cards' = Applied(moves)
  /\ Begin(o, "batch", moves, prev, [i \in DOMAIN prev |-> table[i]],
           ~disturbed /\ ~error /\ Quiet(o))
  /\ disturbed' = (disturbed \/ ~Quiet(o))
  /\ UNCHANGED toasts

(* The drawer of an item shows the status it was opened with, which may be *)
(* an old one.                                                             *)
ChangeStatus(o, i, to) ==
  /\ Act
  /\ Begin(o, "drawer", [j \in {i} |-> to], NoMoves, NoMoves, FALSE)
  /\ disturbed' = (disturbed \/ ~Quiet(o))
  /\ UNCHANGED <<cards, toasts>>

(* The button of a toast.  The Retry of a move still has the item it was   *)
(* given, with the status of that time.                                    *)
Press(o, t) ==
  /\ Act
  /\ toasts' = toasts \ {t}
  /\ Begin(o, t.kind, t.moves, t.from, t.before, t.calm)
  /\ \/ /\ t.kind = "move"
        /\ \E i \in DOMAIN t.moves :
             /\ cards' = Moved(i, t.from[i], t.moves[i])
             /\ disturbed' = (disturbed \/ ~Quiet(o) \/ Shown(i) # {t.from[i]})
     \/ /\ t.kind \in {"retry", "undo"}
        /\ cards' = Applied(t.moves)
        /\ disturbed' = (disturbed \/ ~Quiet(o))
     \/ /\ t.kind = "drawer"
        /\ disturbed' = (disturbed \/ ~Quiet(o))
        /\ UNCHANGED cards

(* load: the GET is sent, what follows does not wait for it; "alone" tells   *)
(* whether something else is under way.  Only an undo is remembered, for    *)
(* UndoRestores.                                                           *)
Load(o, o1, alone) ==
  /\ loading' = TRUE
  /\ error' = FALSE
  /\ op' = [op EXCEPT ![o] =
       [(IF o1.kind = "undo" THEN o1 ELSE Nothing) EXCEPT !.pc = "get",
                                                          !.clean = alone]]

(* The button Refresh.                                                     *)
Refresh(o) ==
  /\ Act
  /\ Idle(o)
  /\ loading' = TRUE
  /\ error' = FALSE
  /\ op' = With(o, [Nothing EXCEPT !.pc = "get", !.clean = Quiet(o)])
  /\ disturbed' = (disturbed \/ ~Quiet(o))
  /\ UNCHANGED <<table, late, cards, toasts, troubles>>
-----------------------------------------------------------------------------
(* change_status: the row is read...                                       *)
Read(o) ==
  /\ op[o].pc = "sent"
  /\ \E i \in op[o].left :
       op' = [op EXCEPT ![o].pc = "read", ![o].item = i, ![o].seen = table[i]]
  /\ UNCHANGED <<table, late, page, disturbed, bounds>>

(* ...and written if the new status differs from what was read.            *)
Written(i, to, seen) ==
  IF to = seen THEN table ELSE [table EXCEPT ![i] = to]

Commit(o) ==
  /\ op[o].pc = "read"
  /\ table' = Written(op[o].item, op[o].moves[op[o].item], op[o].seen)
  /\ op' = [op EXCEPT ![o].pc = "answer"]
  /\ UNCHANGED <<late, page, disturbed, bounds>>

LateCommit(l) ==
  /\ l \in late
  /\ table' = Written(l.item, l.to, l.seen)
  /\ late' = late \ {l}
  /\ UNCHANGED <<page, op, disturbed, bounds>>

(* Mutant: a batch that failed in part does not load again.                *)
ReloadsUnlessBatch(o1) ==
  \/ o1.kind \in {"retry", "undo"}
  \/ o1.kind = "move" /\ o1.failed # {}
  \/ o1.kind = "drawer" /\ o1.failed = {}

(* What the page does after the last answer: it loads the board again...   *)
Reloads(o1) ==
  \/ o1.kind \in {"retry", "undo"}
  \/ o1.kind \in {"move", "batch"} /\ o1.failed # {}
  \/ o1.kind = "drawer" /\ o1.failed = {}

Button(kind, moves, from, o1) ==
  [kind |-> kind, moves |-> moves, from |-> from, before |-> o1.before,
   calm |-> o1.calm]

(* ...and offers Retry or Undo.                                            *)
Offers(o1) ==
  IF o1.failed # {} /\ o1.kind # "undo"
  THEN LET again == [i \in o1.failed |-> o1.moves[i]] IN
       IF o1.kind \in {"batch", "retry"}
       THEN {Button("retry", again, NoMoves, [o1 EXCEPT !.before = NoMoves])}
       ELSE {Button(o1.kind, again, o1.from, o1)}
  ELSE IF o1.kind = "batch" THEN {Button("undo", o1.from, NoMoves, o1)}
  ELSE {}

(* A POST is answered or has failed: the next one, or the end.             *)
Continue(o, item, failed, alone) ==
  LET o1 == [op[o] EXCEPT !.left = @ \ {item}, !.failed = @ \cup failed,
                          !.item = NoItem, !.seen = 1]
  IN
  IF o1.left # {}
  THEN /\ op' = [op EXCEPT ![o] = [o1 EXCEPT !.pc = "sent"]]
       /\ UNCHANGED <<loading, error, toasts>>
  ELSE /\ toasts' = toasts \cup Offers(o1)
       /\ IF Reloads(o1) THEN Load(o, o1, alone)
          ELSE /\ op' = [op EXCEPT ![o] = Nothing]
               /\ UNCHANGED <<loading, error>>

Answered(o) ==
  /\ op[o].pc = "answer"
  /\ Continue(o, op[o].item, {}, Quiet(o))
  /\ UNCHANGED <<table, late, cards, disturbed, bounds>>

Trouble == troubles < MaxTroubles /\ troubles' = troubles + 1

(* The POST does not reach the server, or is undone there.                 *)
Refused(o) ==
  /\ Trouble
  /\ \/ /\ op[o].pc = "sent"
        /\ \E i \in op[o].left : Continue(o, i, {i}, Quiet(o))
     \/ op[o].pc = "read" /\ Continue(o, op[o].item, {op[o].item}, Quiet(o))
  /\ UNCHANGED <<table, late, cards, disturbed, actions>>

(* The connection breaks before the server has committed, or after.        *)
Lost(o) ==
  /\ Trouble
  /\ op[o].pc \in {"read", "answer"}
  /\ late' = IF op[o].pc = "answer" THEN late
             ELSE late \cup {[item |-> op[o].item, seen |-> op[o].seen,
                              to |-> op[o].moves[op[o].item]]}
  /\ Continue(o, op[o].item, {op[o].item}, Quiet(o) /\ op[o].pc = "answer")
  /\ disturbed' = TRUE
  /\ UNCHANGED <<table, cards, actions>>

(* GET /board: all rows in one statement.                                  *)
ServeBoard(o) ==
  /\ op[o].pc = "get"
  /\ op' = [op EXCEPT ![o].pc = "got", ![o].board = table]
  /\ UNCHANGED <<table, late, page, disturbed, bounds>>

ShowBoard(o) ==
  /\ op[o].pc = "got"
  /\ cards' = [i \in Items |-> [s \in Statuses |->
                 IF s = op[o].board[i] THEN 1 ELSE 0]]
  /\ loading' = FALSE
  /\ disturbed' = (disturbed /\ ~op[o].clean)
  /\ op' = [op EXCEPT ![o] = Nothing]
  /\ UNCHANGED <<table, late, error, toasts, bounds>>

(* Mutant: loading is reset when the board has come only.                  *)
LoadFailsForGood(o) ==
  /\ Trouble
  /\ op[o].pc \in {"get", "got"}
  /\ error' = TRUE
  /\ op' = [op EXCEPT ![o] = Nothing]
  /\ UNCHANGED <<table, late, cards, loading, toasts, disturbed, actions>>

LoadFails(o) ==
  /\ Trouble
  /\ op[o].pc \in {"get", "got"}
  /\ error' = TRUE
  /\ loading' = FALSE
  /\ op' = [op EXCEPT ![o] = Nothing]
  /\ UNCHANGED <<table, late, cards, toasts, disturbed, actions>>

(* Another user moves an item. *)
OtherMoves ==
  /\ Trouble
  /\ \E i \in Items, to \in Statuses :
       /\ table[i] # to
       /\ table' = [table EXCEPT ![i] = to]
  /\ op' = [q \in Ops |-> [op[q] EXCEPT !.clean = FALSE]]
  /\ disturbed' = TRUE
  /\ UNCHANGED <<late, page, actions>>
-----------------------------------------------------------------------------
Progress(o) ==
  \/ Read(o)
  \/ Commit(o)
  \/ Answered(o)
  \/ ServeBoard(o)
  \/ ShowBoard(o)

User(o) ==
  \/ \E i \in Items, from, to \in Statuses : Move(o, i, from, to)
  \/ \E S \in SUBSET Items, to \in Statuses : BatchMove(o, S, to)
  \/ \E i \in Items, to \in Statuses : ChangeStatus(o, i, to)
  \/ \E t \in toasts : Press(o, t)
  \/ Refresh(o)

Next ==
  \/ \E o \in Ops :
       User(o) \/ Progress(o) \/ Refused(o) \/ Lost(o) \/ LoadFails(o)
  \/ \E l \in late : LateCommit(l)
  \/ OtherMoves

Spec == Init /\ [][Next]_vars
-----------------------------------------------------------------------------
(* The types of the variables.                                             *)
TypeOK ==
  /\ table \in [Items -> Statuses]
  /\ late \subseteq Late
  /\ cards \in [Items -> [Statuses -> 0..(MaxActions + 1)]]
  /\ loading \in BOOLEAN
  /\ error \in BOOLEAN
  /\ toasts \subseteq Toast
  /\ op \in [Ops -> Op]
  /\ disturbed \in BOOLEAN
  /\ actions \in 0..MaxActions
  /\ troubles \in 0..MaxTroubles

(* When nothing is under way and no banner tells that loading failed,      *)
(* every item has one card, in the column of its status, whichever moves,  *)
(* batches, retries and undos came before and however they failed; unless  *)
(* operations overlapped, another user moved an item, an answer was lost,  *)
(* or a Retry came back to a card that is elsewhere by now, and no load    *)
(* has set it right since (load, move, batchMove, retryMoves, undoBatch).  *)
ShownWhereItIs ==
  (\A o \in Ops : Idle(o)) /\ late = {} /\ ~error /\ ~disturbed =>
    \A i \in Items, s \in Statuses :
      cards[i][s] = IF s = table[i] THEN 1 ELSE 0

(* An Undo that succeeds gives every item of the batch the status the      *)
(* table had before the batch, which the page only knows from what it      *)
(* showed (batchMove, undoBatch).                                          *)
UndoRestores ==
  \A o \in Ops :
    /\ op[o].kind = "undo"
    /\ op[o].pc = "get"
    /\ op[o].failed = {}
    /\ op[o].calm
    /\ ~disturbed
    => \A i \in DOMAIN op[o].moves : table[i] = op[o].before[i]

(* The board is not hidden behind the spinner for ever: while it shows, a  *)
(* GET is under way whose end takes it away (load).                        *)
SpinnerEnds == loading => \E o \in Ops : op[o].pc \in {"get", "got"}
=============================================================================
