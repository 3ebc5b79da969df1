---------------------------- MODULE Board_proofs ----------------------------
(***************************************************************************)
(* Theorems about Board, for any number of work items, columns, functions  *)
(* of the page under way, actions and troubles.                            *)
(***************************************************************************)
EXTENDS Board, WellFoundedInduction, TLAPS

(* A tuple of variables is always expanded. *)
USE DEF vars, page, bounds

Posting(r) == r.pc \in {"sent", "read", "answer"}

Single(f) == \E i \in Items : DOMAIN f = {i}

(* The moves of an operation that posts them.                              *)
Fits(kind, moves, from) ==
  /\ kind # "load"
  /\ kind \in {"move", "drawer"} => Single(moves)
  /\ kind = "move" => DOMAIN from = DOMAIN moves

(* What a toast can run, and an operation be doing.                        *)
ToastSound(t) ==
  /\ t.kind # "batch"
  /\ Fits(t.kind, t.moves, t.from)

OpSound(r) ==
  /\ r.pc = "idle" => r = Nothing
  /\ r.pc \in {"read", "answer"} => r.item \in r.left
  /\ r.pc \in {"get", "got"} => r.left = {}
  /\ Posting(r) =>
       /\ r.left \subseteq DOMAIN r.moves
       /\ r.failed \subseteq DOMAIN r.moves
       /\ Fits(r.kind, r.moves, r.from)
       /\ r.kind = "drawer" => r.failed = {}

OpsSound == op \in [Ops -> Op] /\ \A o \in Ops : OpSound(op[o])
ToastsSound == toasts \subseteq Toast /\ \A t \in toasts : ToastSound(t)

(* Every action adds at most one card to a column.                         *)
CardsUpTo(n) == [Items -> [Statuses -> 0..(n + 1)]]

Typed ==
  /\ TypeOK
  /\ cards \in CardsUpTo(actions)
  /\ OpsSound
  /\ ToastsSound
-----------------------------------------------------------------------------
LEMMA StatusesType ==
  /\ Last \in Nat \ {0}
  /\ 1 \in Statuses
  /\ Statuses \subseteq Nat
BY BoardAssumption DEF Statuses

LEMMA MovesType ==
  /\ NoMoves \in Moves /\ DOMAIN NoMoves = {}
  /\ \A S \in SUBSET Items : [S -> Statuses] \subseteq Moves
  /\ \A f \in Moves :
       /\ DOMAIN f \subseteq Items
       /\ \A i \in DOMAIN f : f[i] \in Statuses
       /\ f = [i \in DOMAIN f |-> f[i]]
<1>1. \A S \in SUBSET Items : [S -> Statuses] \subseteq Moves
  BY DEF Moves
<1>2. NoMoves \in [{} -> Statuses] /\ DOMAIN NoMoves = {}
  BY DEF NoMoves
<1>3. ASSUME NEW f \in Moves
      PROVE  /\ DOMAIN f \subseteq Items
             /\ \A i \in DOMAIN f : f[i] \in Statuses
             /\ f = [i \in DOMAIN f |-> f[i]]
  <2>1. PICK S \in SUBSET Items : f \in [S -> Statuses]
    BY DEF Moves
  <2>2. QED
    BY <2>1
<1>4. NoMoves \in Moves
  BY <1>1, <1>2
<1>5. QED
  BY <1>1, <1>2, <1>3, <1>4

LEMMA NothingType ==
  /\ Nothing \in Op
  /\ Nothing.pc = "idle" /\ Nothing.kind = "load" /\ Nothing.clean = FALSE
  /\ Nothing.moves = NoMoves /\ Nothing.left = {} /\ Nothing.failed = {}
  /\ OpSound(Nothing)
<1>1. [i \in Items |-> 1] \in [Items -> Statuses]
  BY StatusesType
<1>2. Nothing \in Op
  BY <1>1, StatusesType, MovesType DEF Nothing, Op, Kinds
<1>3. QED
  BY <1>2 DEF Nothing, OpSound, Posting

LEMMA NatMinimum ==
  ASSUME NEW S \in SUBSET Nat, S # {}
  PROVE  \E x \in S : \A y \in S : x <= y
<1> DEFINE R == {ss \in Nat \X Nat : ss[1] < ss[2]}
<1>1. IsWellFoundedOn(R, Nat)
  BY NatLessThanWellFounded DEF OpToRel
<1>2. PICK x \in S : \A y \in S : <<y, x>> \notin R
  <2> HIDE DEF R
  <2>1. QED
    BY <1>1, WFMin
<1>3. \A y \in S : ~(y < x)
  BY <1>2
<1>4. QED
  BY <1>3

(* findItem finds a card that is there.                                    *)
LEMMA FirstShown ==
  ASSUME NEW i \in Items, Shown(i) # {}
  PROVE  First(i) \in Shown(i) /\ First(i) \in Statuses
<1>1. Shown(i) \in SUBSET Nat /\ Shown(i) \subseteq Statuses
  BY StatusesType DEF Shown
<1>2. \E s \in Shown(i) : \A t \in Shown(i) : s <= t
  BY <1>1, NatMinimum
<1>3. First(i) \in Shown(i)
  BY <1>2 DEF First
<1>4. QED
  BY <1>1, <1>3

LEMMA AppliedType ==
  ASSUME Typed, NEW moves \in Moves
  PROVE  Applied(moves) \in CardsUpTo(actions + 1)
<1>1. cards \in CardsUpTo(actions) /\ actions \in Nat
  BY BoardAssumption DEF Typed, TypeOK
<1>2. ASSUME NEW i \in Items, i \in DOMAIN moves, Shown(i) # {}
      PROVE  LET taken == [cards[i] EXCEPT ![First(i)] = @ - 1]
             IN  [taken EXCEPT ![moves[i]] = @ + 1]
                   \in [Statuses -> 0..(actions + 2)]
  <2> DEFINE taken == [cards[i] EXCEPT ![First(i)] = @ - 1]
  <2>1. First(i) \in Statuses /\ cards[i][First(i)] > 0
    BY <1>2, FirstShown DEF Shown
  <2>2. cards[i] \in [Statuses -> 0..(actions + 1)]
    BY <1>1 DEF CardsUpTo
  <2>3. taken \in [Statuses -> 0..(actions + 1)]
    BY <1>1, <2>1, <2>2
  <2> HIDE DEF taken
  <2>4. [taken EXCEPT ![moves[i]] = @ + 1] \in [Statuses -> 0..(actions + 2)]
    <3>1. \A s \in Statuses : /\ taken[s] \in 0..(actions + 2)
                              /\ taken[s] + 1 \in 0..(actions + 2)
      BY <1>1, <2>3
    <3>2. QED
      BY <2>3, <3>1
  <2>5. QED
    BY <2>4 DEF taken
<1>3. \A i \in Items : cards[i] \in [Statuses -> 0..(actions + 2)]
  BY <1>1 DEF CardsUpTo
<1>4. QED
  BY <1>1, <1>2, <1>3 DEF Applied, CardsUpTo

LEMMA MovedType ==
  ASSUME Typed, NEW i \in Items, NEW from \in Statuses, NEW to \in Statuses
  PROVE  Moved(i, from, to) \in CardsUpTo(actions + 1)
<1>1. cards \in CardsUpTo(actions) /\ actions \in Nat
  BY BoardAssumption DEF Typed, TypeOK
<1> DEFINE gone == [cards[i] EXCEPT ![from] = 0]
<1>2. gone \in [Statuses -> 0..(actions + 1)]
  BY <1>1 DEF CardsUpTo
<1>3. [gone EXCEPT ![to] = @ + 1] \in [Statuses -> 0..(actions + 2)]
  <2> HIDE DEF gone
  <2>1. QED
    BY <1>1, <1>2
<1>4. \A j \in Items : cards[j] \in [Statuses -> 0..(actions + 2)]
  BY <1>1 DEF CardsUpTo
<1>5. Moved(i, from, to) = [cards EXCEPT ![i] = [gone EXCEPT ![to] = @ + 1]]
  BY DEF Moved
<1> HIDE DEF gone
<1>6. QED
  BY <1>1, <1>3, <1>4, <1>5 DEF CardsUpTo
-----------------------------------------------------------------------------
(* An action of the user starts an operation; no GET under way is alone    *)
(* any more.                                                               *)
LEMMA WithType ==
  ASSUME OpsSound, NEW o \in Ops, NEW new \in Op, OpSound(new),
         op' = With(o, new)
  PROVE  /\ OpsSound'
         /\ op'[o] = new
         /\ \A q \in Ops \ {o} : op'[q] = [op[q] EXCEPT !.clean = FALSE]
<1>1. op \in [Ops -> Op]
  BY DEF OpsSound
<1>2. \A q \in Ops : op'[q] = IF q = o THEN new
                              ELSE [op[q] EXCEPT !.clean = FALSE]
  BY DEF With
<1>3. \A q \in Ops : [op[q] EXCEPT !.clean = FALSE] \in Op
  BY <1>1 DEF Op
<1>4. op' \in [Ops -> Op]
  BY <1>2, <1>3 DEF With
<1>5. ASSUME NEW q \in Ops PROVE OpSound([op[q] EXCEPT !.clean = FALSE])
  <2> DEFINE r == [op[q] EXCEPT !.clean = FALSE]
  <2>1. op[q] \in Op /\ OpSound(op[q])
    BY DEF OpsSound
  <2>2. /\ r.pc = op[q].pc /\ r.kind = op[q].kind /\ r.moves = op[q].moves
        /\ r.from = op[q].from /\ r.left = op[q].left
        /\ r.item = op[q].item /\ r.failed = op[q].failed
    BY <2>1 DEF Op
  <2>3. op[q] = Nothing => r = Nothing
    BY NothingType DEF Nothing
  <2> HIDE DEF r
  <2>4. OpSound(r)
    BY <2>1, <2>2, <2>3 DEF OpSound, Posting
  <2>5. QED
    BY <2>4 DEF r
<1>6. QED
  BY <1>2, <1>4, <1>5 DEF OpsSound

Started(r, kind, moves, from, before, calm) ==
  /\ r.pc = "sent" /\ r.kind = kind /\ r.moves = moves /\ r.from = from
  /\ r.before = before /\ r.calm = calm /\ r.left = DOMAIN moves
  /\ r.failed = {} /\ r.clean = FALSE

LEMMA BeginType ==
  ASSUME Typed, NEW o \in Ops, NEW kind \in Kinds,
         NEW moves \in Moves, NEW from \in Moves, NEW before \in Moves,
         NEW calm \in BOOLEAN, Fits(kind, moves, from),
         Begin(o, kind, moves, from, before, calm)
  PROVE  /\ OpsSound'
         /\ Started(op'[o], kind, moves, from, before, calm)
         /\ \A q \in Ops \ {o} : op'[q] = [op[q] EXCEPT !.clean = FALSE]
<1> DEFINE new == [Nothing EXCEPT !.pc = "sent", !.kind = kind,
                     !.moves = moves, !.from = from, !.before = before,
                     !.calm = calm, !.left = DOMAIN moves]
<1>1. DOMAIN moves \in SUBSET Items
  BY MovesType
<1>2. new \in Op
  BY <1>1, NothingType DEF Op, Kinds
<1>3. Started(new, kind, moves, from, before, calm)
  BY NothingType DEF Op, Started
<1>4. op' = With(o, new)
  BY DEF Begin
<1> HIDE DEF new
<1>5. OpSound(new)
  BY <1>3 DEF OpSound, Started, Posting, Fits
<1>6. QED
  BY <1>2, <1>3, <1>4, <1>5, WithType DEF Typed

(* The step of one operation, for the types: what the others keep.         *)
LEMMA OneOp ==
  ASSUME OpsSound, NEW o \in Ops, NEW new \in Op, OpSound(new),
         op' = [op EXCEPT ![o] = new]
  PROVE  /\ OpsSound'
         /\ op'[o] = new
         /\ \A q \in Ops \ {o} : op'[q] = op[q]
<1>1. op \in [Ops -> Op]
  BY DEF OpsSound
<1>2. /\ op' \in [Ops -> Op] /\ op'[o] = new
      /\ \A q \in Ops \ {o} : op'[q] = op[q]
  BY <1>1
<1>3. QED
  BY <1>2 DEF OpsSound

LEMMA CardsWiden ==
  /\ actions \in Nat /\ cards \in CardsUpTo(actions) =>
       cards \in CardsUpTo(actions + 1)
  /\ \A n \in 0..MaxActions : CardsUpTo(n) \subseteq CardsUpTo(MaxActions)
<1>1. \A n \in 0..MaxActions : 0..(n + 1) \subseteq 0..(MaxActions + 1)
  BY BoardAssumption
<1>2. ASSUME NEW n \in 0..MaxActions
      PROVE  CardsUpTo(n) \subseteq CardsUpTo(MaxActions)
  <2>1. [Statuses -> 0..(n + 1)] \subseteq [Statuses -> 0..(MaxActions + 1)]
    BY <1>1
  <2>2. QED
    BY <2>1 DEF CardsUpTo
<1>3. ASSUME actions \in Nat, cards \in CardsUpTo(actions)
      PROVE  cards \in CardsUpTo(actions + 1)
  <2>1. [Statuses -> 0..(actions + 1)] \subseteq [Statuses -> 0..(actions + 2)]
    BY <1>3
  <2>2. QED
    BY <1>3, <2>1 DEF CardsUpTo
<1>4. QED
  BY <1>2, <1>3

(* What an action of the user leaves behind, whatever it starts.           *)
LEMMA ActTyped ==
  ASSUME Typed, Act, OpsSound', cards' \in CardsUpTo(actions + 1),
         UNCHANGED <<table, late, troubles>>,
         loading' \in BOOLEAN, error' \in BOOLEAN, disturbed' \in BOOLEAN,
         toasts' \subseteq toasts
  PROVE  Typed'
<1>1. actions' = actions + 1 /\ actions' \in 0..MaxActions
  BY BoardAssumption DEF Act, Typed, TypeOK
<1>2. cards' \in CardsUpTo(actions') /\ cards' \in CardsUpTo(MaxActions)
  BY <1>1, CardsWiden
<1>3. cards' \in [Items -> [Statuses -> 0..(MaxActions + 1)]]
  BY <1>2 DEF CardsUpTo
<1>4. op' \in [Ops -> Op]
  BY DEF OpsSound
<1>5. ToastsSound'
  BY DEF Typed, ToastsSound, ToastSound
<1>6. TypeOK'
  BY <1>1, <1>3, <1>4 DEF Typed, TypeOK
<1>7. QED
  BY <1>2, <1>5, <1>6 DEF Typed

StartedMove(r, i, to) ==
  \E moves, old \in Moves :
    /\ DOMAIN moves = {i} /\ moves[i] = to
    /\ Started(r, "move", moves, old, NoMoves, FALSE)

LEMMA MoveTyped ==
  ASSUME Typed, NEW o \in Ops, NEW i \in Items, NEW from \in Statuses,
         NEW to \in Statuses, Move(o, i, from, to)
  PROVE  /\ Typed'
         /\ StartedMove(op'[o], i, to)
         /\ \A q \in Ops \ {o} : op'[q] = [op[q] EXCEPT !.clean = FALSE]
<1> DEFINE moves == [j \in {i} |-> to]
           old == [j \in {i} |-> from]
<1>1. /\ moves \in Moves /\ old \in Moves
      /\ DOMAIN moves = {i} /\ DOMAIN old = {i} /\ moves[i] = to
  <2>1. moves \in [{i} -> Statuses] /\ old \in [{i} -> Statuses]
    OBVIOUS
  <2>2. {i} \in SUBSET Items /\ moves[i] = to
    OBVIOUS
  <2> HIDE DEF moves, old
  <2>3. QED
    BY <2>1, <2>2, MovesType
<1>2. Begin(o, "move", moves, old, NoMoves, FALSE)
  BY DEF Move
<1> HIDE DEF moves, old
<1>3. /\ OpsSound'
      /\ Started(op'[o], "move", moves, old, NoMoves, FALSE)
      /\ \A q \in Ops \ {o} : op'[q] = [op[q] EXCEPT !.clean = FALSE]
  <2>1. "move" \in Kinds /\ Fits("move", moves, old)
    BY <1>1 DEF Kinds, Fits, Single
  <2>2. QED
    BY <1>1, <1>2, <2>1, MovesType, BeginType
<1>4. cards' \in CardsUpTo(actions + 1)
  BY MovedType DEF Move
<1>5. /\ Act /\ toasts' = toasts /\ disturbed' \in BOOLEAN
      /\ UNCHANGED <<table, late, loading, error, troubles>>
  BY DEF Move, Begin, Typed, TypeOK
<1>6. loading \in BOOLEAN /\ error \in BOOLEAN
  BY DEF Typed, TypeOK
<1>7. Typed'
  BY <1>3, <1>4, <1>5, <1>6, ActTyped
<1>8. StartedMove(op'[o], i, to)
  BY <1>1, <1>3 DEF StartedMove
<1>9. QED
  BY <1>3, <1>7, <1>8

LEMMA BatchTyped ==
  ASSUME Typed, NEW o \in Ops, NEW S \in SUBSET Items, NEW to \in Statuses,
         BatchMove(o, S, to)
  PROVE  /\ Typed'
         /\ Started(op'[o], "batch", [i \in DOMAIN Prev(S, to) |-> to],
                    Prev(S, to), [i \in DOMAIN Prev(S, to) |-> table[i]],
                    ~disturbed /\ ~error /\ Quiet(o))
         /\ \A q \in Ops \ {o} : op'[q] = [op[q] EXCEPT !.clean = FALSE]
         /\ [i \in DOMAIN Prev(S, to) |-> to] \in Moves
<1> DEFINE prev == Prev(S, to)
           moves == [i \in DOMAIN prev |-> to]
           before == [i \in DOMAIN prev |-> table[i]]
           calm == ~disturbed /\ ~error /\ Quiet(o)
<1>1. /\ DOMAIN prev \in SUBSET Items
      /\ \A i \in DOMAIN prev : Shown(i) # {} /\ prev[i] = First(i)
      /\ prev = [i \in DOMAIN prev |-> First(i)]
  BY DEF Prev
<1> HIDE DEF prev
<1>2. \A i \in DOMAIN prev : First(i) \in Statuses
  BY <1>1, FirstShown
<1>3. prev \in [DOMAIN prev -> Statuses] /\ moves \in [DOMAIN prev -> Statuses]
  BY <1>1, <1>2
<1>4. before \in [DOMAIN prev -> Statuses]
  BY <1>1 DEF Typed, TypeOK
<1>5. prev \in Moves /\ moves \in Moves /\ before \in Moves
  <2> HIDE DEF moves, before
  <2>1. QED
    BY <1>1, <1>3, <1>4, MovesType
<1>6. Begin(o, "batch", moves, prev, before, calm)
  BY DEF BatchMove, prev
<1>7. cards' = Applied(moves)
  BY DEF BatchMove, prev
<1>8. calm \in BOOLEAN
  OBVIOUS
<1> HIDE DEF moves, before, calm
<1>9. /\ OpsSound'
      /\ Started(op'[o], "batch", moves, prev, before, calm)
      /\ \A q \in Ops \ {o} : op'[q] = [op[q] EXCEPT !.clean = FALSE]
  <2>1. "batch" \in Kinds /\ Fits("batch", moves, prev)
    BY DEF Kinds, Fits
  <2>2. QED
    BY <1>5, <1>6, <1>8, <2>1, BeginType
<1>10. cards' \in CardsUpTo(actions + 1)
  BY <1>5, <1>7, AppliedType
<1>11. /\ Act /\ toasts' = toasts /\ disturbed' \in BOOLEAN
       /\ UNCHANGED <<table, late, loading, error, troubles>>
  BY DEF BatchMove, Begin, Typed, TypeOK
<1>12. loading \in BOOLEAN /\ error \in BOOLEAN
  BY DEF Typed, TypeOK
<1>13. Typed'
  BY <1>9, <1>10, <1>11, <1>12, ActTyped
<1>14. QED
  BY <1>5, <1>9, <1>13 DEF prev, moves, before, calm

LEMMA DrawerTyped ==
  ASSUME Typed, NEW o \in Ops, NEW i \in Items, NEW to \in Statuses,
         ChangeStatus(o, i, to)
  PROVE  /\ Typed'
         /\ Started(op'[o], "drawer", [j \in {i} |-> to], NoMoves, NoMoves,
                    FALSE)
         /\ \A q \in Ops \ {o} : op'[q] = [op[q] EXCEPT !.clean = FALSE]
<1> DEFINE moves == [j \in {i} |-> to]
<1>1. moves \in Moves /\ DOMAIN moves = {i}
  <2>1. moves \in [{i} -> Statuses] /\ {i} \in SUBSET Items
    OBVIOUS
  <2> HIDE DEF moves
  <2>2. QED
    BY <2>1, MovesType
<1>2. Begin(o, "drawer", moves, NoMoves, NoMoves, FALSE)
  BY DEF ChangeStatus
<1> HIDE DEF moves
<1>3. /\ OpsSound'
      /\ Started(op'[o], "drawer", moves, NoMoves, NoMoves, FALSE)
      /\ \A q \in Ops \ {o} : op'[q] = [op[q] EXCEPT !.clean = FALSE]
  <2>1. "drawer" \in Kinds /\ Fits("drawer", moves, NoMoves)
    BY <1>1 DEF Kinds, Fits, Single
  <2>2. QED
    BY <1>1, <1>2, <2>1, MovesType, BeginType
<1>4. /\ Act /\ UNCHANGED <<cards, toasts>> /\ disturbed' \in BOOLEAN
      /\ UNCHANGED <<table, late, loading, error, troubles>>
  BY DEF ChangeStatus, Begin, Typed, TypeOK
<1>5. /\ loading \in BOOLEAN /\ error \in BOOLEAN
      /\ actions \in Nat /\ cards \in CardsUpTo(actions)
  BY BoardAssumption DEF Typed, TypeOK
<1>6. cards' \in CardsUpTo(actions + 1)
  BY <1>4, <1>5, CardsWiden
<1>7. Typed'
  BY <1>3, <1>4, <1>5, <1>6, ActTyped
<1>8. QED
  BY <1>3, <1>7 DEF moves

LEMMA PressTyped ==
  ASSUME Typed, NEW o \in Ops, NEW t \in toasts, Press(o, t)
  PROVE  /\ Typed'
         /\ ToastSound(t) /\ t \in Toast
         /\ Started(op'[o], t.kind, t.moves, t.from, t.before, t.calm)
         /\ \A q \in Ops \ {o} : op'[q] = [op[q] EXCEPT !.clean = FALSE]
<1>1. ToastSound(t) /\ t \in Toast
  BY DEF Typed, ToastsSound
<1>2. /\ t.kind \in Kinds /\ Fits(t.kind, t.moves, t.from)
      /\ t.moves \in Moves /\ t.from \in Moves /\ t.before \in Moves
      /\ t.calm \in BOOLEAN
  BY <1>1 DEF ToastSound, Toast
<1>3. Begin(o, t.kind, t.moves, t.from, t.before, t.calm)
  BY DEF Press
<1>4. /\ OpsSound'
      /\ Started(op'[o], t.kind, t.moves, t.from, t.before, t.calm)
      /\ \A q \in Ops \ {o} : op'[q] = [op[q] EXCEPT !.clean = FALSE]
  BY <1>2, <1>3, BeginType
<1>5. /\ Act /\ toasts' \subseteq toasts /\ disturbed' \in BOOLEAN
      /\ UNCHANGED <<table, late, loading, error, troubles>>
  BY DEF Press, Begin, Typed, TypeOK
<1>6. /\ loading \in BOOLEAN /\ error \in BOOLEAN
      /\ actions \in Nat /\ cards \in CardsUpTo(actions)
  BY BoardAssumption DEF Typed, TypeOK
<1>7. cards' \in CardsUpTo(actions + 1)
  <2>1. CASE t.kind = "move"
    <3>1. PICK i \in DOMAIN t.moves : cards' = Moved(i, t.from[i], t.moves[i])
      BY <2>1 DEF Press
    <3>2. DOMAIN t.from = DOMAIN t.moves
      BY <1>2, <2>1 DEF Fits
    <3>3. /\ i \in Items /\ t.moves[i] \in Statuses /\ t.from[i] \in Statuses
      BY <1>2, <3>2, MovesType
    <3>4. QED
      BY <3>1, <3>3, MovedType
  <2>2. CASE cards' = Applied(t.moves)
    BY <1>2, <2>2, AppliedType
  <2>3. CASE cards' = cards
    BY <1>6, <2>3, CardsWiden
  <2>4. QED
    BY <2>1, <2>2, <2>3 DEF Press
<1>8. Typed'
  BY <1>4, <1>5, <1>6, <1>7, ActTyped
<1>9. QED
  BY <1>1, <1>4, <1>8
-----------------------------------------------------------------------------
(* The operation after the answer of one POST, or its failure.             *)
After(o, item, failed) ==
  [op[o] EXCEPT !.left = @ \ {item}, !.failed = @ \cup failed,
                !.item = NoItem, !.seen = 1]

LEMMA AfterType ==
  ASSUME Typed, NEW o \in Ops, Posting(op[o]), NEW item \in op[o].left,
         NEW failed \in SUBSET {item}
  PROVE  LET r == After(o, item, failed) IN
         /\ r \in Op
         /\ r.left = op[o].left \ {item} /\ r.left \subseteq DOMAIN r.moves
         /\ r.failed = op[o].failed \cup failed
         /\ r.failed \subseteq DOMAIN r.moves
         /\ r.kind = op[o].kind /\ r.moves = op[o].moves
         /\ r.from = op[o].from /\ r.before = op[o].before
         /\ r.calm = op[o].calm
         /\ Fits(r.kind, r.moves, r.from)
         /\ r.kind = "drawer" => r.left = {}
<1> DEFINE r == After(o, item, failed)
<1>1. op[o] \in Op /\ OpSound(op[o])
  BY DEF Typed, OpsSound
<1>2. /\ op[o].left \subseteq DOMAIN op[o].moves
      /\ op[o].failed \subseteq DOMAIN op[o].moves
      /\ DOMAIN op[o].moves \subseteq Items
      /\ Fits(op[o].kind, op[o].moves, op[o].from)
  <2>1. op[o].moves \in Moves
    BY <1>1 DEF Op
  <2>2. QED
    BY <1>1, <2>1, MovesType DEF OpSound
<1>3. /\ r \in Op
      /\ r.left = op[o].left \ {item} /\ r.failed = op[o].failed \cup failed
      /\ r.kind = op[o].kind /\ r.moves = op[o].moves
      /\ r.from = op[o].from /\ r.before = op[o].before
      /\ r.calm = op[o].calm
  BY <1>1, <1>2, StatusesType DEF Op, After
<1> HIDE DEF r
<1>4. ASSUME op[o].kind = "drawer" PROVE op[o].left \ {item} = {}
  <2>1. PICK i \in Items : DOMAIN op[o].moves = {i}
    BY <1>2, <1>4 DEF Fits, Single
  <2>2. QED
    BY <1>2, <2>1
<1>5. QED
  BY <1>2, <1>3, <1>4 DEF r

LEMMA OffersType ==
  ASSUME NEW r \in Op, r.failed \subseteq DOMAIN r.moves,
         Fits(r.kind, r.moves, r.from)
  PROVE  Offers(r) \subseteq Toast /\ \A t \in Offers(r) : ToastSound(t)
<1>1. /\ r.kind \in Kinds /\ r.moves \in Moves /\ r.from \in Moves
      /\ r.before \in Moves /\ r.calm \in BOOLEAN
  BY DEF Op
<1> DEFINE again == [i \in r.failed |-> r.moves[i]]
<1>2. again \in Moves /\ DOMAIN again = r.failed
  <2>1. r.failed \in SUBSET Items /\ again \in [r.failed -> Statuses]
    BY <1>1, MovesType
  <2> HIDE DEF again
  <2>2. QED
    BY <2>1, MovesType
<1> HIDE DEF again
<1>3. CASE r.failed # {} /\ r.kind # "undo" /\ r.kind \in {"batch", "retry"}
  <2> DEFINE t == Button("retry", again, NoMoves,
                         [r EXCEPT !.before = NoMoves])
  <2>1. Offers(r) = {t}
    BY <1>3 DEF Offers, again
  <2>2. /\ t = [kind |-> "retry", moves |-> again, from |-> NoMoves,
                before |-> NoMoves, calm |-> r.calm]
    BY DEF Button, Op
  <2> HIDE DEF t
  <2>3. t \in Toast /\ ToastSound(t)
    BY <1>1, <1>2, <2>2, MovesType DEF Toast, Kinds, ToastSound, Fits
  <2>4. QED
    BY <2>1, <2>3
<1>4. CASE r.failed # {} /\ r.kind # "undo" /\ r.kind \notin {"batch", "retry"}
  <2> DEFINE t == Button(r.kind, again, r.from, r)
  <2>1. Offers(r) = {t}
    BY <1>4 DEF Offers, again
  <2>2. t = [kind |-> r.kind, moves |-> again, from |-> r.from,
             before |-> r.before, calm |-> r.calm]
    BY DEF Button
  <2> HIDE DEF t
  <2>3. t \in Toast
    BY <1>1, <1>2, <2>2 DEF Toast
  <2>4. PICK i \in Items : DOMAIN r.moves = {i}
    BY <1>1, <1>4 DEF Fits, Single, Kinds
  <2>5. DOMAIN again = {i} /\ (r.kind = "move" => DOMAIN r.from = {i})
    BY <1>2, <1>4, <2>4 DEF Fits
  <2>6. Fits(r.kind, again, r.from) /\ r.kind # "batch"
    BY <1>4, <2>5 DEF Fits, Single
  <2>7. QED
    BY <2>1, <2>2, <2>3, <2>6 DEF ToastSound
<1>5. CASE r.failed = {} \/ r.kind = "undo"
  <2> DEFINE t == Button("undo", r.from, NoMoves, r)
  <2>1. Offers(r) \subseteq {t}
    BY <1>5 DEF Offers
  <2>2. t = [kind |-> "undo", moves |-> r.from, from |-> NoMoves,
             before |-> r.before, calm |-> r.calm]
    BY DEF Button
  <2> HIDE DEF t
  <2>3. t \in Toast /\ ToastSound(t)
    BY <1>1, <2>2, MovesType DEF Toast, Kinds, ToastSound, Fits
  <2>4. QED
    BY <2>1, <2>3
<1>6. QED
  BY <1>3, <1>4, <1>5

(* What it goes on with.                                                   *)
Continued(o, r, alone) ==
  \/ /\ r.left # {}
     /\ op'[o] = [r EXCEPT !.pc = "sent"]
     /\ UNCHANGED <<loading, error, toasts>>
  \/ /\ r.left = {} /\ Reloads(r)
     /\ op'[o] = [(IF r.kind = "undo" THEN r ELSE Nothing)
                    EXCEPT !.pc = "get", !.clean = alone]
     /\ toasts' = toasts \cup Offers(r)
     /\ loading' = TRUE /\ error' = FALSE
  \/ /\ r.left = {} /\ ~Reloads(r)
     /\ op'[o] = Nothing
     /\ toasts' = toasts \cup Offers(r)
     /\ UNCHANGED <<loading, error>>

LEMMA ContinueType ==
  ASSUME Typed, NEW o \in Ops, Posting(op[o]), NEW item \in op[o].left,
         NEW failed \in SUBSET {item}, NEW alone \in BOOLEAN,
         Continue(o, item, failed, alone)
  PROVE  /\ OpsSound' /\ ToastsSound'
         /\ loading' \in BOOLEAN /\ error' \in BOOLEAN
         /\ Continued(o, After(o, item, failed), alone)
         /\ \A q \in Ops \ {o} : op'[q] = op[q]
<1> DEFINE r == After(o, item, failed)
<1>1. /\ r \in Op
      /\ r.left \subseteq DOMAIN r.moves /\ r.failed \subseteq DOMAIN r.moves
      /\ Fits(r.kind, r.moves, r.from)
      /\ r.kind = "drawer" => r.left = {}
  BY AfterType
<1>2. \/ /\ r.left # {}
         /\ op' = [op EXCEPT ![o] = [r EXCEPT !.pc = "sent"]]
         /\ UNCHANGED <<loading, error, toasts>>
      \/ /\ r.left = {} /\ Reloads(r) /\ Load(o, r, alone)
         /\ toasts' = toasts \cup Offers(r)
      \/ /\ r.left = {} /\ ~Reloads(r)
         /\ op' = [op EXCEPT ![o] = Nothing]
         /\ toasts' = toasts \cup Offers(r)
         /\ UNCHANGED <<loading, error>>
  BY DEF Continue, After
<1>3. r.kind = "drawer" => r.failed = op[o].failed \cup failed
  BY AfterType
<1> HIDE DEF r
<1>4. /\ OpsSound /\ ToastsSound /\ op \in [Ops -> Op]
      /\ loading \in BOOLEAN /\ error \in BOOLEAN
  BY DEF Typed, TypeOK
<1>5. Offers(r) \subseteq Toast /\ \A t \in Offers(r) : ToastSound(t)
  BY <1>1, OffersType
<1>6. CASE /\ r.left # {}
           /\ op' = [op EXCEPT ![o] = [r EXCEPT !.pc = "sent"]]
           /\ UNCHANGED <<loading, error, toasts>>
  <2> DEFINE new == [r EXCEPT !.pc = "sent"]
  <2>1. /\ new \in Op /\ new.pc = "sent" /\ new.left = r.left
        /\ new.failed = r.failed /\ new.moves = r.moves
        /\ new.from = r.from /\ new.kind = r.kind
    BY <1>1 DEF Op
  <2>2. op' = [op EXCEPT ![o] = new]
    BY <1>6
  <2> HIDE DEF new
  <2>3. OpSound(new)
    BY <1>1, <1>6, <2>1 DEF OpSound, Posting
  <2>4. /\ OpsSound' /\ op'[o] = new
        /\ \A q \in Ops \ {o} : op'[q] = op[q]
    BY <1>4, <2>1, <2>2, <2>3, OneOp
  <2>5. Continued(o, r, alone)
    BY <1>6, <2>4 DEF Continued, new
  <2>6. QED
    BY <1>4, <1>6, <2>4, <2>5 DEF r, ToastsSound, ToastSound
<1>7. CASE /\ r.left = {} /\ Reloads(r) /\ Load(o, r, alone)
           /\ toasts' = toasts \cup Offers(r)
  <2> DEFINE base == IF r.kind = "undo" THEN r ELSE Nothing
             new == [base EXCEPT !.pc = "get", !.clean = alone]
  <2>1. base \in Op /\ base.left = {}
    BY <1>1, <1>7, NothingType
  <2>2. op' = [op EXCEPT ![o] = new] /\ loading' = TRUE /\ error' = FALSE
    BY <1>7 DEF Load
  <2> HIDE DEF base
  <2>3. new \in Op /\ new.pc = "get" /\ new.left = {}
    BY <2>1 DEF Op
  <2> HIDE DEF new
  <2>4. OpSound(new)
    BY <2>3 DEF OpSound, Posting
  <2>5. /\ OpsSound' /\ op'[o] = new
        /\ \A q \in Ops \ {o} : op'[q] = op[q]
    BY <1>4, <2>2, <2>3, <2>4, OneOp
  <2>6. Continued(o, r, alone)
    BY <1>7, <2>2, <2>5 DEF Continued, new, base
  <2>7. ToastsSound'
    BY <1>4, <1>5, <1>7 DEF ToastsSound, ToastSound
  <2>8. QED
    BY <2>2, <2>5, <2>6, <2>7 DEF r
<1>8. CASE /\ r.left = {} /\ ~Reloads(r)
           /\ op' = [op EXCEPT ![o] = Nothing]
           /\ toasts' = toasts \cup Offers(r)
           /\ UNCHANGED <<loading, error>>
  <2>1. /\ OpsSound' /\ op'[o] = Nothing
        /\ \A q \in Ops \ {o} : op'[q] = op[q]
    BY <1>4, <1>8, NothingType, OneOp
  <2>2. Continued(o, r, alone)
    BY <1>8, <2>1 DEF Continued
  <2>3. ToastsSound'
    BY <1>4, <1>5, <1>8 DEF ToastsSound, ToastSound
  <2>4. QED
    BY <1>4, <1>8, <2>1, <2>2, <2>3 DEF r
<1>9. QED
  BY <1>2, <1>6, <1>7, <1>8
-----------------------------------------------------------------------------
(* Steps that are no actions of the user.                                  *)
LEMMA StepTyped ==
  ASSUME Typed, OpsSound', ToastsSound',
         table' \in [Items -> Statuses], late' \subseteq Late,
         cards' \in CardsUpTo(actions),
         loading' \in BOOLEAN, error' \in BOOLEAN, disturbed' \in BOOLEAN,
         actions' = actions, troubles' \in 0..MaxTroubles
  PROVE  Typed'
<1>1. actions \in 0..MaxActions /\ cards' \in CardsUpTo(MaxActions)
  BY CardsWiden DEF Typed, TypeOK
<1>2. cards' \in [Items -> [Statuses -> 0..(MaxActions + 1)]]
  BY <1>1 DEF CardsUpTo
<1>3. TypeOK'
  BY <1>1, <1>2 DEF TypeOK, OpsSound, ToastsSound
<1>4. QED
  BY <1>3 DEF Typed

LEMMA TypedParts ==
  ASSUME Typed
  PROVE  /\ table \in [Items -> Statuses] /\ late \subseteq Late
         /\ cards \in CardsUpTo(actions)
         /\ loading \in BOOLEAN /\ error \in BOOLEAN /\ disturbed \in BOOLEAN
         /\ troubles \in 0..MaxTroubles
         /\ OpsSound /\ ToastsSound
         /\ \A o \in Ops : op[o] \in Op /\ OpSound(op[o])
         /\ Trouble => troubles' \in 0..MaxTroubles
         /\ toasts' = toasts => ToastsSound'
<1>1. Trouble => troubles' \in 0..MaxTroubles
  BY BoardAssumption DEF Trouble, Typed, TypeOK
<1>2. toasts' = toasts => ToastsSound'
  BY DEF Typed, ToastsSound, ToastSound
<1>3. QED
  BY <1>1, <1>2 DEF Typed, TypeOK, OpsSound

LEMMA WrittenType ==
  ASSUME Typed, NEW i \in Items, NEW to \in Statuses, NEW seen \in Statuses
  PROVE  Written(i, to, seen) \in [Items -> Statuses]
BY TypedParts DEF Written

LEMMA RefreshTyped ==
  ASSUME Typed, NEW o \in Ops, Refresh(o)
  PROVE  /\ Typed'
         /\ op'[o] = [Nothing EXCEPT !.pc = "get", !.clean = Quiet(o)]
         /\ \A q \in Ops \ {o} : op'[q] = [op[q] EXCEPT !.clean = FALSE]
<1> DEFINE new == [Nothing EXCEPT !.pc = "get", !.clean = Quiet(o)]
<1>1. Quiet(o) \in BOOLEAN
  BY DEF Quiet
<1>2. new \in Op /\ new.pc = "get" /\ new.left = {}
  BY <1>1, NothingType DEF Op
<1>3. op' = With(o, new)
  BY DEF Refresh
<1> HIDE DEF new
<1>4. OpSound(new)
  BY <1>2 DEF OpSound, Posting
<1>5. /\ OpsSound' /\ op'[o] = new
      /\ \A q \in Ops \ {o} : op'[q] = [op[q] EXCEPT !.clean = FALSE]
  BY <1>2, <1>3, <1>4, TypedParts, WithType
<1>6. /\ Act /\ UNCHANGED <<table, late, cards, toasts, troubles>>
      /\ loading' \in BOOLEAN /\ error' \in BOOLEAN /\ disturbed' \in BOOLEAN
  BY TypedParts DEF Refresh
<1>7. cards' \in CardsUpTo(actions + 1)
  BY <1>6, BoardAssumption, CardsWiden DEF Typed, TypeOK
<1>8. Typed'
  BY <1>5, <1>6, <1>7, ActTyped
<1>9. QED
  BY <1>5, <1>8 DEF new

LEMMA ReadTyped ==
  ASSUME Typed, NEW o \in Ops, Read(o)
  PROVE  /\ Typed'
         /\ op[o].pc = "sent"
         /\ \E i \in op[o].left :
              op'[o] = [op[o] EXCEPT !.pc = "read", !.item = i,
                                     !.seen = table[i]]
         /\ \A q \in Ops \ {o} : op'[q] = op[q]
<1>1. PICK i \in op[o].left :
        op' = [op EXCEPT ![o] = [op[o] EXCEPT !.pc = "read", !.item = i,
                                              !.seen = table[i]]]
  BY DEF Read
<1> DEFINE new == [op[o] EXCEPT !.pc = "read", !.item = i, !.seen = table[i]]
<1>2. /\ op[o] \in Op /\ OpSound(op[o]) /\ op[o].pc = "sent"
      /\ table \in [Items -> Statuses]
  BY TypedParts DEF Read
<1>3. i \in Items
  BY <1>2 DEF Op
<1>4. /\ new \in Op /\ new.pc = "read" /\ new.item = i
      /\ new.left = op[o].left /\ new.failed = op[o].failed
      /\ new.moves = op[o].moves /\ new.from = op[o].from
      /\ new.kind = op[o].kind
  BY <1>2, <1>3 DEF Op
<1> HIDE DEF new
<1>5. OpSound(new)
  BY <1>2, <1>4 DEF OpSound, Posting
<1>6. OpsSound' /\ op'[o] = new /\ \A q \in Ops \ {o} : op'[q] = op[q]
  <2>1. op' = [op EXCEPT ![o] = new]
    BY <1>1 DEF new
  <2>2. QED
    BY <1>4, <1>5, <2>1, TypedParts, OneOp
<1>7. UNCHANGED <<table, late, cards, loading, error, toasts, disturbed,
                  actions, troubles>>
  BY DEF Read
<1>8. Typed'
  BY <1>6, <1>7, TypedParts, StepTyped
<1>9. QED
  BY <1>2, <1>6, <1>8 DEF new

LEMMA CommitTyped ==
  ASSUME Typed, NEW o \in Ops, Commit(o)
  PROVE  /\ Typed'
         /\ op[o].pc = "read" /\ op[o].item \in op[o].left
         /\ op[o].item \in Items
         /\ op'[o] = [op[o] EXCEPT !.pc = "answer"]
         /\ \A q \in Ops \ {o} : op'[q] = op[q]
<1> DEFINE new == [op[o] EXCEPT !.pc = "answer"]
<1>1. op[o] \in Op /\ OpSound(op[o]) /\ op[o].pc = "read"
  BY TypedParts DEF Commit
<1>2. /\ op[o].item \in op[o].left /\ op[o].item \in Items
      /\ op[o].left \subseteq DOMAIN op[o].moves
  BY <1>1 DEF Op, OpSound, Posting
<1>3. /\ new \in Op /\ new.pc = "answer" /\ new.item = op[o].item
      /\ new.left = op[o].left /\ new.failed = op[o].failed
      /\ new.moves = op[o].moves /\ new.from = op[o].from
      /\ new.kind = op[o].kind
  BY <1>1 DEF Op
<1>4. op' = [op EXCEPT ![o] = new]
  BY DEF Commit
<1> HIDE DEF new
<1>5. OpSound(new)
  BY <1>1, <1>3 DEF OpSound, Posting
<1>6. OpsSound' /\ op'[o] = new /\ \A q \in Ops \ {o} : op'[q] = op[q]
  BY <1>3, <1>4, <1>5, TypedParts, OneOp
<1>7. table' \in [Items -> Statuses]
  <2>1. op[o].moves[op[o].item] \in Statuses /\ op[o].seen \in Statuses
    BY <1>1, <1>2, MovesType DEF Op
  <2>2. QED
    BY <1>2, <2>1, WrittenType DEF Commit
<1>8. UNCHANGED <<late, cards, loading, error, toasts, disturbed, actions,
                  troubles>>
  BY DEF Commit
<1>9. Typed'
  BY <1>6, <1>7, <1>8, TypedParts, StepTyped
<1>10. QED
  BY <1>1, <1>2, <1>6, <1>9 DEF new

LEMMA PostEndTyped ==
  ASSUME Typed, NEW o \in Ops, Posting(op[o]), NEW item \in op[o].left,
         NEW failed \in SUBSET {item}, NEW alone \in BOOLEAN,
         Continue(o, item, failed, alone),
         UNCHANGED <<table, cards, actions>>,
         late' \subseteq Late, disturbed' \in BOOLEAN,
         troubles' \in 0..MaxTroubles
  PROVE  /\ Typed'
         /\ Continued(o, After(o, item, failed), alone)
         /\ \A q \in Ops \ {o} : op'[q] = op[q]
<1>1. /\ OpsSound' /\ ToastsSound'
      /\ loading' \in BOOLEAN /\ error' \in BOOLEAN
      /\ Continued(o, After(o, item, failed), alone)
      /\ \A q \in Ops \ {o} : op'[q] = op[q]
  BY ContinueType
<1>2. table' \in [Items -> Statuses] /\ cards' \in CardsUpTo(actions)
  BY TypedParts
<1>3. Typed'
  BY <1>1, <1>2, StepTyped
<1>4. QED
  BY <1>1, <1>3

LEMMA AnsweredTyped ==
  ASSUME Typed, NEW o \in Ops, Answered(o)
  PROVE  /\ Typed'
         /\ op[o].pc = "answer" /\ op[o].item \in op[o].left
         /\ Continued(o, After(o, op[o].item, {}), Quiet(o))
         /\ \A q \in Ops \ {o} : op'[q] = op[q]
<1>1. op[o].pc = "answer" /\ op[o].item \in op[o].left /\ Posting(op[o])
  BY TypedParts DEF Answered, OpSound, Posting
<1>2. /\ Continue(o, op[o].item, {}, Quiet(o))
      /\ UNCHANGED <<table, late, cards, disturbed, actions, troubles>>
  BY DEF Answered
<1>3. Quiet(o) \in BOOLEAN /\ {} \in SUBSET {op[o].item}
  BY DEF Quiet
<1>4. /\ late' \subseteq Late /\ disturbed' \in BOOLEAN
      /\ troubles' \in 0..MaxTroubles
  BY <1>2, TypedParts
<1>5. PICK item \in op[o].left : item = op[o].item
  BY <1>1
<1>6. /\ Typed'
      /\ Continued(o, After(o, item, {}), Quiet(o))
      /\ \A q \in Ops \ {o} : op'[q] = op[q]
  <2>1. Continue(o, item, {}, Quiet(o)) /\ {} \in SUBSET {item}
    BY <1>2, <1>5
  <2>2. QED
    BY <1>1, <1>2, <1>3, <1>4, <2>1, PostEndTyped
<1>7. QED
  BY <1>1, <1>5, <1>6

LEMMA RefusedTyped ==
  ASSUME Typed, NEW o \in Ops, Refused(o)
  PROVE  /\ Typed'
         /\ op[o].pc \in {"sent", "read"}
         /\ \E item \in op[o].left :
              Continued(o, After(o, item, {item}), Quiet(o))
         /\ \A q \in Ops \ {o} : op'[q] = op[q]
<1>1. PICK item \in op[o].left :
        op[o].pc \in {"sent", "read"} /\ Continue(o, item, {item}, Quiet(o))
  BY TypedParts DEF Refused, OpSound
<1>2. Posting(op[o]) /\ Quiet(o) \in BOOLEAN /\ {item} \in SUBSET {item}
  BY <1>1 DEF Posting, Quiet
<1>3. UNCHANGED <<table, late, cards, disturbed, actions>> /\ Trouble
  BY DEF Refused
<1>4. /\ late' \subseteq Late /\ disturbed' \in BOOLEAN
      /\ troubles' \in 0..MaxTroubles
  BY <1>3, TypedParts
<1>5. /\ Typed'
      /\ Continued(o, After(o, item, {item}), Quiet(o))
      /\ \A q \in Ops \ {o} : op'[q] = op[q]
  BY <1>1, <1>2, <1>3, <1>4, PostEndTyped
<1>6. QED
  BY <1>1, <1>5

LEMMA LostTyped ==
  ASSUME Typed, NEW o \in Ops, Lost(o)
  PROVE  /\ Typed'
         /\ op[o].pc \in {"read", "answer"} /\ op[o].item \in op[o].left
         /\ Continued(o, After(o, op[o].item, {op[o].item}),
                      Quiet(o) /\ op[o].pc = "answer")
         /\ \A q \in Ops \ {o} : op'[q] = op[q]
         /\ op[o].pc = "answer" => late' = late
<1> DEFINE alone == Quiet(o) /\ op[o].pc = "answer"
<1>1. /\ op[o].pc \in {"read", "answer"} /\ op[o].item \in op[o].left
      /\ Posting(op[o]) /\ op[o] \in Op
      /\ op[o].left \subseteq DOMAIN op[o].moves
  BY TypedParts DEF Lost, OpSound, Posting
<1>2. /\ Continue(o, op[o].item, {op[o].item}, alone)
      /\ UNCHANGED <<table, cards, actions>> /\ Trouble
      /\ disturbed' = TRUE
  BY DEF Lost
<1>3. alone \in BOOLEAN /\ {op[o].item} \in SUBSET {op[o].item}
  BY DEF Quiet
<1>4. late' \subseteq Late /\ (op[o].pc = "answer" => late' = late)
  <2>1. /\ op[o].item \in Items /\ op[o].seen \in Statuses
        /\ op[o].moves[op[o].item] \in Statuses
    BY <1>1, MovesType DEF Op
  <2>2. [item |-> op[o].item, seen |-> op[o].seen,
         to |-> op[o].moves[op[o].item]] \in Late
    BY <2>1 DEF Late
  <2>3. QED
    BY <2>2, TypedParts DEF Lost
<1>5. disturbed' \in BOOLEAN /\ troubles' \in 0..MaxTroubles
  BY <1>2, TypedParts
<1> HIDE DEF alone
<1>6. PICK item \in op[o].left : item = op[o].item
  BY <1>1
<1>7. /\ Typed'
      /\ Continued(o, After(o, item, {item}), alone)
      /\ \A q \in Ops \ {o} : op'[q] = op[q]
  <2>1. Continue(o, item, {item}, alone) /\ {item} \in SUBSET {item}
    BY <1>2, <1>6
  <2>2. QED
    BY <1>1, <1>2, <1>3, <1>4, <1>5, <2>1, PostEndTyped
<1>8. QED
  BY <1>1, <1>4, <1>6, <1>7 DEF alone

LEMMA ServeTyped ==
  ASSUME Typed, NEW o \in Ops, ServeBoard(o)
  PROVE  /\ Typed'
         /\ op[o].pc = "get"
         /\ op'[o] = [op[o] EXCEPT !.pc = "got", !.board = table]
         /\ \A q \in Ops \ {o} : op'[q] = op[q]
<1> DEFINE new == [op[o] EXCEPT !.pc = "got", !.board = table]
<1>1. /\ op[o] \in Op /\ OpSound(op[o]) /\ op[o].pc = "get"
      /\ table \in [Items -> Statuses]
  BY TypedParts DEF ServeBoard
<1>2. new \in Op /\ new.pc = "got" /\ new.left = op[o].left
  BY <1>1 DEF Op
<1>3. op' = [op EXCEPT ![o] = new]
  BY DEF ServeBoard
<1> HIDE DEF new
<1>4. OpSound(new)
  BY <1>1, <1>2 DEF OpSound, Posting
<1>5. OpsSound' /\ op'[o] = new /\ \A q \in Ops \ {o} : op'[q] = op[q]
  BY <1>2, <1>3, <1>4, TypedParts, OneOp
<1>6. UNCHANGED <<table, late, cards, loading, error, toasts, disturbed,
                  actions, troubles>>
  BY DEF ServeBoard
<1>7. Typed'
  BY <1>5, <1>6, TypedParts, StepTyped
<1>8. QED
  BY <1>1, <1>5, <1>7 DEF new

LEMMA GetEndTyped ==
  ASSUME Typed, NEW o \in Ops, ShowBoard(o) \/ LoadFails(o)
  PROVE  /\ Typed'
         /\ op[o].pc \in {"get", "got"}
         /\ op'[o] = Nothing
         /\ \A q \in Ops \ {o} : op'[q] = op[q]
<1>1. op' = [op EXCEPT ![o] = Nothing]
  BY DEF ShowBoard, LoadFails
<1>2. OpsSound' /\ op'[o] = Nothing /\ \A q \in Ops \ {o} : op'[q] = op[q]
  BY <1>1, TypedParts, NothingType, OneOp
<1>3. cards' \in CardsUpTo(actions)
  <2>1. CASE ShowBoard(o)
    <3>1. {0, 1} \subseteq 0..(actions + 1)
      BY BoardAssumption DEF Typed, TypeOK
    <3>2. cards' \in [Items -> [Statuses -> {0, 1}]]
      BY <2>1 DEF ShowBoard
    <3>3. QED
      BY <3>1, <3>2 DEF CardsUpTo
  <2>2. CASE LoadFails(o)
    BY <2>2, TypedParts DEF LoadFails
  <2>3. QED
    BY <2>1, <2>2
<1>4. /\ UNCHANGED <<table, late, toasts, actions>>
      /\ loading' \in BOOLEAN /\ error' \in BOOLEAN /\ disturbed' \in BOOLEAN
      /\ troubles' \in 0..MaxTroubles
  BY TypedParts DEF ShowBoard, LoadFails
<1>5. Typed'
  BY <1>2, <1>3, <1>4, TypedParts, StepTyped
<1>6. op[o].pc \in {"get", "got"}
  BY DEF ShowBoard, LoadFails
<1>7. QED
  BY <1>2, <1>5, <1>6

LEMMA LateTyped ==
  ASSUME Typed, NEW l \in late, LateCommit(l)
  PROVE  Typed'
<1>1. l \in Late
  BY TypedParts
<1>2. table' \in [Items -> Statuses] /\ late' \subseteq Late
  BY <1>1, TypedParts, WrittenType DEF LateCommit, Late
<1>3. UNCHANGED <<cards, loading, error, toasts, op, disturbed, actions,
                  troubles>>
  BY DEF LateCommit
<1>4. OpsSound'
  BY <1>3, TypedParts DEF OpsSound
<1>5. QED
  BY <1>2, <1>3, <1>4, TypedParts, StepTyped

LEMMA OtherTyped ==
  ASSUME Typed, OtherMoves
  PROVE  /\ Typed'
         /\ \A q \in Ops : op'[q] = [op[q] EXCEPT !.clean = FALSE]
<1>1. \A q \in Ops : op'[q] = [op[q] EXCEPT !.clean = FALSE]
  BY DEF OtherMoves
<1>2. OpsSound'
  <2>1. PICK o \in Ops : TRUE
    BY BoardAssumption
  <2> DEFINE new == [op[o] EXCEPT !.clean = FALSE]
  <2>2. op[o] \in Op /\ OpSound(op[o])
    BY TypedParts
  <2>3. /\ new \in Op /\ new.pc = op[o].pc /\ new.item = op[o].item
        /\ new.left = op[o].left /\ new.failed = op[o].failed
        /\ new.moves = op[o].moves /\ new.from = op[o].from
        /\ new.kind = op[o].kind
    BY <2>2 DEF Op
  <2>4. op[o] = Nothing => new = Nothing
    BY NothingType DEF Nothing
  <2>5. op' = With(o, new)
    BY DEF With, OtherMoves
  <2> HIDE DEF new
  <2>6. OpSound(new)
    BY <2>2, <2>3, <2>4 DEF OpSound, Posting
  <2>7. QED
    BY <2>3, <2>5, <2>6, TypedParts, WithType
<1>3. table' \in [Items -> Statuses]
  BY TypedParts DEF OtherMoves
<1>4. /\ UNCHANGED <<late, cards, loading, error, toasts, actions>>
      /\ disturbed' \in BOOLEAN /\ troubles' \in 0..MaxTroubles
  BY TypedParts DEF OtherMoves
<1>5. Typed'
  BY <1>2, <1>3, <1>4, TypedParts, StepTyped
<1>6. QED
  BY <1>1, <1>5
-----------------------------------------------------------------------------
LEMMA TypedInit == Init => Typed
<1> SUFFICES ASSUME Init PROVE Typed
  OBVIOUS
<1>1. PICK o \in Ops :
        op = [q \in Ops |-> IF q = o THEN [Nothing EXCEPT !.pc = "get",
                                                          !.clean = TRUE]
                            ELSE Nothing]
  BY DEF Init
<1> DEFINE new == [Nothing EXCEPT !.pc = "get", !.clean = TRUE]
<1>2. new \in Op /\ new.pc = "get" /\ new.left = {}
  BY NothingType DEF Op
<1>3. \A q \in Ops : op[q] = IF q = o THEN new ELSE Nothing
  BY <1>1
<1>4. op \in [Ops -> Op]
  BY <1>1, <1>2, NothingType
<1> HIDE DEF new
<1>5. OpSound(new)
  BY <1>2 DEF OpSound, Posting
<1>6. OpsSound
  BY <1>3, <1>4, <1>5, NothingType DEF OpsSound
<1>7. /\ cards \in CardsUpTo(0)
      /\ cards \in [Items -> [Statuses -> 0..(MaxActions + 1)]]
  <2>1. 0 \in 0..1 /\ 0 \in 0..(MaxActions + 1)
    BY BoardAssumption
  <2>2. QED
    BY <2>1 DEF Init, CardsUpTo
<1>8. ToastsSound
  BY DEF Init, ToastsSound
<1>9. TypeOK
  <2>1. /\ table \in [Items -> Statuses] /\ late = {} /\ loading = TRUE
        /\ error = FALSE /\ toasts = {} /\ disturbed = TRUE
        /\ actions = 0 /\ troubles = 0
    BY Zenon DEF Init
  <2>2. 0 \in 0..MaxActions /\ 0 \in 0..MaxTroubles
    BY BoardAssumption
  <2>3. late \subseteq Late /\ toasts \subseteq Toast
    BY <2>1
  <2>4. QED
    BY <1>4, <1>7, <2>1, <2>2, <2>3, Zenon DEF TypeOK
<1>10. QED
  BY <1>6, <1>7, <1>8, <1>9 DEF Typed, Init

LEMMA TypedInductive == Typed /\ [Next]_vars => Typed'
<1> SUFFICES ASSUME Typed, [Next]_vars PROVE Typed'
  OBVIOUS
<1>1. ASSUME NEW o \in Ops, User(o) PROVE Typed'
  BY <1>1, MoveTyped, BatchTyped, DrawerTyped, PressTyped, RefreshTyped
     DEF User
<1>2. ASSUME NEW o \in Ops, Progress(o) PROVE Typed'
  BY <1>2, ReadTyped, CommitTyped, AnsweredTyped, ServeTyped, GetEndTyped
     DEF Progress
<1>3. ASSUME NEW o \in Ops, Refused(o) \/ Lost(o) \/ LoadFails(o) PROVE Typed'
  BY <1>3, RefusedTyped, LostTyped, GetEndTyped
<1>4. ASSUME NEW l \in late, LateCommit(l) PROVE Typed'
  BY <1>4, LateTyped
<1>5. CASE OtherMoves
  BY <1>5, OtherTyped
<1>6. CASE UNCHANGED vars
  BY <1>6 DEF Typed, TypeOK, OpsSound, ToastsSound
<1>7. QED
  BY <1>1, <1>2, <1>3, <1>4, <1>5, <1>6 DEF Next

(* The variables have their types: whatever the page runs at the same time *)
(* (load, move, batchMove, retryMoves, undoBatch, changeStatus), what it   *)
(* posts, keeps to post and hangs on the buttons of its toasts are moves   *)
(* of items, every post is of an item still to be moved, and no column has *)
(* more cards of an item than the user acted, and one.                     *)
THEOREM TypeCorrect == Spec => []TypeOK
<1>1. Init => Typed
  BY TypedInit
<1>2. Typed /\ [Next]_vars => Typed'
  BY TypedInductive
<1>3. Typed => TypeOK
  BY DEF Typed
<1>4. QED
  BY <1>1, <1>2, <1>3, PTL DEF Spec
-----------------------------------------------------------------------------
Waiting(r) == r.pc \in {"get", "got"}

(* A step of one operation: another GET, or none, or the one there was.    *)
LEMMA StillWaiting ==
  ASSUME SpinnerEnds, NEW o \in Ops,
         \A q \in Ops \ {o} : op'[q].pc = op[q].pc,
         loading' => (loading /\ ~Waiting(op[o])) \/ Waiting(op'[o])
  PROVE  SpinnerEnds'
BY DEF SpinnerEnds, Waiting

LEMMA SameLetters ==
  ASSUME Typed, NEW q \in Ops, op'[q] = [op[q] EXCEPT !.clean = FALSE]
  PROVE  /\ op'[q].pc = op[q].pc /\ op'[q].kind = op[q].kind
         /\ op'[q].moves = op[q].moves /\ op'[q].from = op[q].from
         /\ op'[q].before = op[q].before /\ op'[q].calm = op[q].calm
         /\ op'[q].left = op[q].left /\ op'[q].item = op[q].item
         /\ op'[q].seen = op[q].seen /\ op'[q].failed = op[q].failed
         /\ op'[q].board = op[q].board /\ op'[q].clean = FALSE
BY TypedParts DEF Op

LEMMA SpinnerInductive ==
  ASSUME Typed, SpinnerEnds, [Next]_vars
  PROVE  SpinnerEnds'
<1>1. ASSUME NEW o \in Ops, User(o), ~Refresh(o) PROVE SpinnerEnds'
  <2>1. Idle(o) /\ loading' = loading
    BY <1>1 DEF User, Move, BatchMove, ChangeStatus, Press, Begin
  <2>2. \A q \in Ops \ {o} : op'[q] = [op[q] EXCEPT !.clean = FALSE]
    BY <1>1, MoveTyped, BatchTyped, DrawerTyped, PressTyped DEF User
  <2>3. QED
    BY <2>1, <2>2, SameLetters, StillWaiting DEF Idle, Waiting
<1>2. ASSUME NEW o \in Ops, Refresh(o) PROVE SpinnerEnds'
  <2>1. Waiting(op'[o])
    BY <1>2, RefreshTyped, NothingType DEF Op, Waiting
  <2>2. QED
    BY <1>2, <2>1, RefreshTyped, SameLetters, StillWaiting
<1>3. ASSUME NEW o \in Ops, Read(o) \/ Commit(o) \/ ServeBoard(o)
      PROVE  SpinnerEnds'
  <2>1. /\ \A q \in Ops \ {o} : op'[q] = op[q]
        /\ loading' = loading
    BY <1>3, ReadTyped, CommitTyped, ServeTyped DEF Read, Commit, ServeBoard
  <2>2. ~Waiting(op[o]) \/ Waiting(op'[o])
    BY <1>3, ServeTyped, TypedParts DEF Read, Commit, Waiting, Op
  <2>3. QED
    BY <2>1, <2>2, StillWaiting
<1>4. ASSUME NEW o \in Ops, Answered(o) \/ Refused(o) \/ Lost(o)
      PROVE  SpinnerEnds'
  <2>1. /\ Posting(op[o])
        /\ \A q \in Ops \ {o} : op'[q] = op[q]
        /\ \E item \in op[o].left : \E failed \in SUBSET {item} :
             \E alone \in BOOLEAN : Continued(o, After(o, item, failed), alone)
    <3>1. CASE Answered(o)
      BY <3>1, AnsweredTyped DEF Posting, Quiet
    <3>2. CASE Refused(o)
      BY <3>2, RefusedTyped DEF Posting, Quiet
    <3>3. CASE Lost(o)
      BY <3>3, LostTyped DEF Posting, Quiet
    <3>4. QED
      BY <1>4, <3>1, <3>2, <3>3
  <2> PICK item \in op[o].left : \E failed \in SUBSET {item} :
        \E alone \in BOOLEAN : Continued(o, After(o, item, failed), alone)
    BY <2>1
  <2> PICK failed \in SUBSET {item} :
        \E alone \in BOOLEAN : Continued(o, After(o, item, failed), alone)
    OBVIOUS
  <2>2. PICK alone \in BOOLEAN : Continued(o, After(o, item, failed), alone)
    OBVIOUS
  <2>3. ~Waiting(op[o])
    BY <2>1 DEF Posting, Waiting
  <2>4. After(o, item, failed) \in Op
    BY <2>1, AfterType
  <2>5. loading' = loading \/ Waiting(op'[o])
    BY <2>2, <2>4, NothingType DEF Continued, Waiting, Op
  <2>6. QED
    BY <2>1, <2>3, <2>5, StillWaiting
<1>5. ASSUME NEW o \in Ops, ShowBoard(o) \/ LoadFails(o) PROVE SpinnerEnds'
  BY <1>5 DEF ShowBoard, LoadFails, SpinnerEnds
<1>6. CASE OtherMoves
  <2>1. \A q \in Ops : op'[q].pc = op[q].pc
    BY <1>6, OtherTyped, SameLetters
  <2>2. loading' = loading
    BY <1>6 DEF OtherMoves
  <2>3. QED
    BY <2>1, <2>2 DEF SpinnerEnds
<1>7. ASSUME NEW l \in late, LateCommit(l) PROVE SpinnerEnds'
  BY <1>7 DEF LateCommit, SpinnerEnds
<1>8. CASE UNCHANGED vars
  BY <1>8 DEF SpinnerEnds
<1>9. QED
  BY <1>1, <1>2, <1>3, <1>4, <1>5, <1>6, <1>7, <1>8 DEF Next, Progress, User

(* The board is not hidden behind the spinner for ever: whichever          *)
(* operations overlap and however they fail, while the spinner shows a     *)
(* GET is under way whose end takes it away (load and its catch).          *)
THEOREM SpinnerEndsCorrect == Spec => []SpinnerEnds
<1>1. Init => SpinnerEnds
  <2> SUFFICES ASSUME Init PROVE SpinnerEnds
    OBVIOUS
  <2>1. PICK o \in Ops :
          op = [q \in Ops |-> IF q = o THEN [Nothing EXCEPT !.pc = "get",
                                                            !.clean = TRUE]
                              ELSE Nothing]
    BY DEF Init
  <2>2. op[o].pc = "get"
    BY <2>1, NothingType DEF Op
  <2>3. QED
    BY <2>2 DEF SpinnerEnds
<1>2. Typed /\ SpinnerEnds /\ [Next]_vars => SpinnerEnds'
  BY SpinnerInductive
<1>3. Init => Typed
  BY TypedInit
<1>4. Typed /\ [Next]_vars => Typed'
  BY TypedInductive
<1>5. QED
  BY <1>1, <1>2, <1>3, <1>4, PTL DEF Spec
-----------------------------------------------------------------------------
(* The strengthening for ShownWhereItIs and UndoRestores.                  *)

(* Every item has one card, in the column m gives it.                      *)
Exact(m) ==
  \A i \in Items, s \in Statuses : cards[i][s] = IF s = m[i] THEN 1 ELSE 0

(* The posts of an operation the table does not show yet, and the table    *)
(* when they have succeeded.                                               *)
Rest(r) == IF r.pc = "answer" THEN r.left \ {r.item} ELSE r.left
Ahead(r) == [i \in Items |-> IF i \in Rest(r) THEN r.moves[i] ELSE table[i]]

(* What an operation that nothing overlaps knows of the table.             *)
Settled(r) ==
  /\ r.pc = "got" => r.board = table
  /\ r.pc = "read" => r.seen = table[r.item]
  /\ r.pc # "got" => \A i \in DOMAIN r.moves \ (Rest(r) \cup r.failed) :
                       table[i] = r.moves[i]
  /\ ~error /\ r.kind = "drawer" /\ r.pc \in {"sent", "read"} => Exact(table)
  /\ ~error /\ r.kind \in {"move", "batch"} /\ Posting(r) /\ r.failed = {} =>
       Exact(Ahead(r))

CleanInv ==
  \A o \in Ops : op[o].clean =>
    /\ op[o].pc \in {"get", "got"}
    /\ Quiet(o)
    /\ op[o].pc = "got" => op[o].board = table

CalmInv ==
  ~disturbed =>
    /\ late = {}
    /\ \A o \in Ops : ~Idle(o) => Quiet(o)
    /\ \A o \in Ops : Settled(op[o])
    /\ (\A o \in Ops : Idle(o)) /\ ~error => Exact(table)

(* What a calm batch and its Undo remember of the table.                   *)
Remembers(r) ==
  /\ r.kind = "batch" /\ r.calm => r.before = r.from
  /\ r.kind = "undo" /\ r.calm => r.before = r.moves

Remembered ==
  /\ \A t \in toasts : Remembers(t)
  /\ \A o \in Ops : Remembers(op[o])

Calm == Typed /\ CleanInv /\ CalmInv /\ Remembered

LEMMA SettledNothing == Settled(Nothing)'
BY NothingType, MovesType DEF Settled, Posting

(* A step of operation o: what it must establish.                          *)
LEMMA StepCalm ==
  ASSUME Typed, CleanInv, NEW o \in Ops,
         \A q \in Ops \ {o} :
           \/ op'[q] = [op[q] EXCEPT !.clean = FALSE]
           \/ ~Idle(o) /\ op'[q] = op[q],
         op'[o].clean =>
           /\ op'[o].pc \in {"get", "got"}
           /\ Quiet(o) /\ late' = {}
           /\ op'[o].pc = "got" => op'[o].board = table',
         ~disturbed' =>
           /\ Quiet(o) /\ late' = {}
           /\ Settled(op[o])'
           /\ op'[o].pc = "idle" /\ ~error' => Exact(table)'
  PROVE  CleanInv' /\ CalmInv'
<1>1. ASSUME NEW q \in Ops \ {o} PROVE op'[q].pc = op[q].pc
  BY SameLetters
<1>2. ASSUME NEW q \in Ops \ {o} PROVE ~op'[q].clean
  <2>1. CASE op'[q] = [op[q] EXCEPT !.clean = FALSE]
    BY <2>1, SameLetters
  <2>2. CASE ~Idle(o) /\ op'[q] = op[q]
    <3>1. op[q].clean => Quiet(q)
      BY DEF CleanInv
    <3>2. ~Quiet(q)
      BY <2>2 DEF Quiet
    <3>3. QED
      BY <2>2, <3>1, <3>2
  <2>3. QED
    BY <2>1, <2>2
<1>3. Quiet(o) /\ late' = {} => Quiet(o)'
  BY <1>1 DEF Quiet, Idle
<1>4. CleanInv'
  BY <1>2, <1>3 DEF CleanInv
<1>5. ASSUME ~disturbed' PROVE \A q \in Ops : Settled(op[q])'
  <2>1. ASSUME NEW q \in Ops \ {o} PROVE Settled(op[q])'
    <3>1. op[q] = Nothing
      BY <1>5, TypedParts DEF Quiet, Idle, OpSound
    <3>2. op'[q] = Nothing
      BY <3>1, NothingType DEF Nothing
    <3>3. QED
      BY <3>2, SettledNothing DEF Settled
  <2>2. QED
    BY <1>5, <2>1
<1>6. ASSUME ~disturbed' PROVE \A q \in Ops : ~Idle(q)' => Quiet(q)'
  BY <1>1, <1>3, <1>6 DEF Quiet, Idle
<1>7. CalmInv'
  BY <1>5, <1>6 DEF CalmInv, Idle
<1>8. QED
  BY <1>4, <1>7
-----------------------------------------------------------------------------
(* The cards after moves that are shown before they are posted.            *)
Taken(moves) ==
  \A i \in Items, s \in Statuses :
    cards'[i][s] = IF s = (IF i \in DOMAIN moves THEN moves[i] ELSE table[i])
                   THEN 1 ELSE 0

LEMMA ExactShown ==
  ASSUME Typed, Exact(table), NEW i \in Items
  PROVE  /\ Shown(i) = {table[i]} /\ table[i] \in Statuses
         /\ First(i) = table[i]
         /\ cards[i] \in [Statuses -> Int]
         /\ cards[i][table[i]] = 1
         /\ \A s \in Statuses : s # table[i] => cards[i][s] = 0
<1>1. /\ table[i] \in Statuses
      /\ \A s \in Statuses : cards[i][s] = IF s = table[i] THEN 1 ELSE 0
  BY TypedParts DEF Exact
<1>2. Shown(i) = {table[i]}
  BY <1>1 DEF Shown
<1>3. First(i) = table[i]
  BY <1>1, <1>2, FirstShown
<1>4. cards[i] \in [Statuses -> Int]
  BY BoardAssumption DEF Typed, TypeOK
<1>5. QED
  BY <1>1, <1>2, <1>3, <1>4

LEMMA MovedExact ==
  ASSUME Typed, Exact(table), NEW i \in Items, NEW moves \in Moves,
         DOMAIN moves = {i}, cards' = Moved(i, table[i], moves[i])
  PROVE  Taken(moves)
<1>1. moves[i] \in Statuses
  BY MovesType
<1> DEFINE gone == [cards[i] EXCEPT ![table[i]] = 0]
           new == [gone EXCEPT ![moves[i]] = @ + 1]
<1>2. gone \in [Statuses -> Int] /\ \A s \in Statuses : gone[s] = 0
  BY ExactShown
<1>3. cards' = [cards EXCEPT ![i] = new]
  BY DEF Moved
<1> HIDE DEF gone
<1>4. \A s \in Statuses : new[s] = IF s = moves[i] THEN 1 ELSE 0
  BY <1>1, <1>2
<1> HIDE DEF new
<1>5. cards'[i] = new /\ \A j \in Items \ {i} : cards'[j] = cards[j]
  BY <1>3 DEF Typed, TypeOK
<1>6. QED
  BY <1>4, <1>5 DEF Taken, Exact

LEMMA AppliedExact ==
  ASSUME Typed, Exact(table), NEW moves \in Moves, cards' = Applied(moves)
  PROVE  Taken(moves)
<1>1. ASSUME NEW i \in Items, i \in DOMAIN moves
      PROVE  \A s \in Statuses : cards'[i][s] = IF s = moves[i] THEN 1 ELSE 0
  <2> DEFINE taken == [cards[i] EXCEPT ![First(i)] = @ - 1]
  <2>1. moves[i] \in Statuses
    BY <1>1, MovesType
  <2>2. taken \in [Statuses -> Int] /\ \A s \in Statuses : taken[s] = 0
    BY ExactShown
  <2>3. Shown(i) # {}
    BY ExactShown
  <2>4. cards'[i] = [taken EXCEPT ![moves[i]] = @ + 1]
    BY <1>1, <2>3 DEF Applied
  <2> HIDE DEF taken
  <2>5. QED
    BY <2>1, <2>2, <2>4
<1>2. ASSUME NEW i \in Items, i \notin DOMAIN moves
      PROVE  cards'[i] = cards[i]
  BY <1>2 DEF Applied
<1>3. QED
  BY <1>1, <1>2 DEF Taken, Exact

LEMMA CalmRest ==
  ASSUME CalmInv, ~disturbed, NEW o \in Ops, Idle(o), Quiet(o), ~error
  PROVE  Exact(table)
BY DEF CalmInv, Quiet

LEMMA BeginCalm ==
  ASSUME Typed, CleanInv, CalmInv, NEW o \in Ops, Idle(o),
         NEW kind, NEW moves, NEW from, NEW before, NEW calm,
         Started(op'[o], kind, moves, from, before, calm),
         \A q \in Ops \ {o} : op'[q] = [op[q] EXCEPT !.clean = FALSE],
         UNCHANGED <<table, late, error>>,
         ~disturbed' => ~disturbed /\ Quiet(o),
         ~disturbed' /\ ~error /\ Exact(table) =>
           /\ kind = "drawer" => cards' = cards
           /\ kind \in {"move", "batch"} => Taken(moves)
  PROVE  CleanInv' /\ CalmInv'
<1> DEFINE r == op'[o]
<1>1. /\ r.pc = "sent" /\ r.kind = kind /\ r.moves = moves
      /\ r.left = DOMAIN moves /\ r.failed = {} /\ r.clean = FALSE
  BY DEF Started
<1> HIDE DEF r
<1>2. Rest(r) = DOMAIN moves
  BY <1>1 DEF Rest
<1>3. ASSUME ~disturbed', ~error, kind = "drawer" PROVE Exact(table)'
  BY <1>3, CalmRest DEF Exact
<1>4. ASSUME ~disturbed', ~error, kind \in {"move", "batch"}
      PROVE  \A i \in Items, s \in Statuses :
               cards'[i][s] =
                 IF s = [j \in Items |-> IF j \in Rest(r) THEN r.moves[j]
                                         ELSE table'[j]][i] THEN 1 ELSE 0
  <2>1. Taken(moves)
    BY <1>4, CalmRest
  <2>2. QED
    BY <1>1, <1>2, <2>1 DEF Taken
<1>5. ASSUME ~disturbed' PROVE Settled(op[o])'
  <2>1. /\ error' = error /\ r.pc \notin {"got", "read"}
        /\ DOMAIN r.moves \ (Rest(r) \cup r.failed) = {}
    BY <1>1, <1>2
  <2>2. ~error' /\ r.kind = "drawer" => Exact(table)'
    BY <1>1, <1>3, <1>5, <2>1
  <2>3. ~error' /\ r.kind \in {"move", "batch"} => Exact(Ahead(op[o]))'
    BY <1>1, <1>4, <1>5, <2>1 DEF Exact, Ahead, r
  <2>4. QED
    BY <2>1, <2>2, <2>3 DEF Settled, r
<1>6. ~disturbed' => Quiet(o) /\ late' = {}
  BY DEF Quiet
<1>7. ~op'[o].clean /\ op'[o].pc # "idle"
  BY <1>1 DEF r
<1>8. QED
  BY <1>5, <1>6, <1>7, StepCalm

LEMMA OthersRemember ==
  ASSUME Typed, Remembered, NEW o \in Ops, toasts' \subseteq toasts,
         \A q \in Ops \ {o} :
           op'[q] = op[q] \/ op'[q] = [op[q] EXCEPT !.clean = FALSE],
         Remembers(op'[o])
  PROVE  Remembered'
<1>1. ASSUME NEW q \in Ops \ {o} PROVE Remembers(op'[q])
  <2>1. Remembers(op[q])
    BY DEF Remembered
  <2>2. QED
    BY <2>1, SameLetters DEF Remembers
<1>2. QED
  BY <1>1 DEF Remembered

LEMMA MoveCalm ==
  ASSUME Calm, NEW o \in Ops, NEW i \in Items, NEW from \in Statuses,
         NEW to \in Statuses, Move(o, i, from, to)
  PROVE  Calm'
<1>1. /\ Typed' /\ Typed /\ CleanInv /\ CalmInv /\ Remembered
      /\ \A q \in Ops \ {o} : op'[q] = [op[q] EXCEPT !.clean = FALSE]
  BY MoveTyped DEF Calm
<1>2. PICK moves, old \in Moves :
        /\ DOMAIN moves = {i} /\ moves[i] = to
        /\ Started(op'[o], "move", moves, old, NoMoves, FALSE)
  <2>1. StartedMove(op'[o], i, to)
    BY <1>1, MoveTyped
  <2>2. QED
    BY <2>1 DEF StartedMove
<1>3. /\ Idle(o) /\ UNCHANGED <<table, late, error, toasts>>
      /\ from \in Shown(i) /\ cards' = Moved(i, from, to)
      /\ disturbed' = (disturbed \/ ~Quiet(o))
  BY DEF Move, Begin
<1>4. ASSUME Exact(table) PROVE Taken(moves)
  BY <1>1, <1>2, <1>3, <1>4, ExactShown, MovedExact
<1>5. CleanInv' /\ CalmInv'
  BY <1>1, <1>2, <1>3, <1>4, BeginCalm
<1>6. Remembers(op'[o])
  BY <1>2 DEF Started, Remembers
<1>7. Remembered'
  BY <1>1, <1>3, <1>6, OthersRemember
<1>8. QED
  BY <1>1, <1>5, <1>7 DEF Calm

LEMMA BatchCalm ==
  ASSUME Calm, NEW o \in Ops, NEW S \in SUBSET Items, NEW to \in Statuses,
         BatchMove(o, S, to)
  PROVE  Calm'
<1> DEFINE prev == Prev(S, to)
           moves == [i \in DOMAIN prev |-> to]
           before == [i \in DOMAIN prev |-> table[i]]
           calm == ~disturbed /\ ~error /\ Quiet(o)
<1>1. /\ Typed' /\ Typed /\ CleanInv /\ CalmInv /\ Remembered
      /\ Started(op'[o], "batch", moves, prev, before, calm)
      /\ \A q \in Ops \ {o} : op'[q] = [op[q] EXCEPT !.clean = FALSE]
      /\ moves \in Moves
  BY BatchTyped DEF Calm
<1>2. /\ Idle(o) /\ UNCHANGED <<table, late, error, toasts>>
      /\ cards' = Applied(moves)
      /\ disturbed' = (disturbed \/ ~Quiet(o))
  BY DEF BatchMove, Begin
<1>3. prev = [i \in DOMAIN prev |-> First(i)] /\ DOMAIN prev \subseteq Items
  BY DEF Prev
<1>4. calm => before = prev
  <2> HIDE DEF prev
  <2>1. ASSUME calm PROVE \A i \in DOMAIN prev : First(i) = table[i]
    BY <1>1, <1>2, <1>3, <2>1, CalmRest, ExactShown
  <2>2. QED
    BY <1>3, <2>1
<1> HIDE DEF prev, moves, before, calm
<1>5. ASSUME Exact(table) PROVE Taken(moves)
  BY <1>1, <1>2, <1>5, AppliedExact
<1>6. CleanInv' /\ CalmInv'
  BY <1>1, <1>2, <1>5, BeginCalm
<1>7. Remembers(op'[o])
  BY <1>1, <1>4 DEF Started, Remembers
<1>8. Remembered'
  BY <1>1, <1>2, <1>7, OthersRemember
<1>9. QED
  BY <1>1, <1>6, <1>8 DEF Calm

LEMMA DrawerCalm ==
  ASSUME Calm, NEW o \in Ops, NEW i \in Items, NEW to \in Statuses,
         ChangeStatus(o, i, to)
  PROVE  Calm'
<1> DEFINE moves == [j \in {i} |-> to]
<1>1. /\ Typed' /\ Typed /\ CleanInv /\ CalmInv /\ Remembered
      /\ Started(op'[o], "drawer", moves, NoMoves, NoMoves, FALSE)
      /\ \A q \in Ops \ {o} : op'[q] = [op[q] EXCEPT !.clean = FALSE]
  BY DrawerTyped DEF Calm
<1> HIDE DEF moves
<1>2. /\ Idle(o) /\ UNCHANGED <<table, late, error, toasts, cards>>
      /\ disturbed' = (disturbed \/ ~Quiet(o))
  BY DEF ChangeStatus, Begin
<1>3. CleanInv' /\ CalmInv'
  BY <1>1, <1>2, BeginCalm
<1>4. Remembers(op'[o])
  BY <1>1 DEF Started, Remembers
<1>5. Remembered'
  BY <1>1, <1>2, <1>4, OthersRemember
<1>6. QED
  BY <1>1, <1>3, <1>5 DEF Calm

LEMMA PressCalm ==
  ASSUME Calm, NEW o \in Ops, NEW t \in toasts, Press(o, t)
  PROVE  Calm'
<1>1. /\ Typed' /\ Typed /\ CleanInv /\ CalmInv /\ Remembered
      /\ ToastSound(t) /\ t \in Toast
      /\ Started(op'[o], t.kind, t.moves, t.from, t.before, t.calm)
      /\ \A q \in Ops \ {o} : op'[q] = [op[q] EXCEPT !.clean = FALSE]
  BY PressTyped DEF Calm
<1>2. /\ Idle(o) /\ UNCHANGED <<table, late, error>>
      /\ toasts' \subseteq toasts
      /\ ~disturbed' => ~disturbed /\ Quiet(o)
  BY DEF Press, Begin
<1>3. t.moves \in Moves /\ t.kind # "batch"
  BY <1>1 DEF Toast, ToastSound
<1>4. ASSUME t.kind = "drawer" PROVE cards' = cards
  BY <1>4 DEF Press
<1>5. ASSUME t.kind = "move", ~disturbed', Exact(table) PROVE Taken(t.moves)
  <2>1. PICK i \in DOMAIN t.moves :
          /\ cards' = Moved(i, t.from[i], t.moves[i])
          /\ Shown(i) = {t.from[i]}
    BY <1>5 DEF Press
  <2>2. DOMAIN t.moves = {i} /\ i \in Items
    BY <1>1, <1>3, <1>5, <2>1, MovesType DEF ToastSound, Fits, Single
  <2>3. t.from[i] = table[i]
    BY <1>1, <1>5, <2>1, <2>2, ExactShown
  <2>4. QED
    BY <1>1, <1>3, <1>5, <2>1, <2>2, <2>3, MovedExact
<1>6. CleanInv' /\ CalmInv'
  BY <1>1, <1>2, <1>3, <1>4, <1>5, BeginCalm
<1>7. Remembered'
  <2>1. t.kind = "undo" /\ t.calm => t.before = t.moves
    BY <1>1 DEF Remembered, Remembers
  <2>2. Remembers(op'[o])
    BY <1>1, <1>3, <2>1 DEF Started, Remembers
  <2>3. QED
    BY <1>1, <1>2, <2>2, OthersRemember
<1>8. QED
  BY <1>1, <1>6, <1>7 DEF Calm

LEMMA RefreshCalm ==
  ASSUME Calm, NEW o \in Ops, Refresh(o)
  PROVE  Calm'
<1>1. /\ Typed' /\ Typed /\ CleanInv /\ CalmInv /\ Remembered
      /\ op'[o] = [Nothing EXCEPT !.pc = "get", !.clean = Quiet(o)]
      /\ \A q \in Ops \ {o} : op'[q] = [op[q] EXCEPT !.clean = FALSE]
  BY RefreshTyped DEF Calm
<1> DEFINE r == op'[o]
<1>2. /\ r.pc = "get" /\ r.clean = Quiet(o) /\ r.moves = NoMoves
      /\ r.kind = "load"
  BY <1>1, NothingType DEF Op
<1> HIDE DEF r
<1>3. late' = late /\ disturbed' = (disturbed \/ ~Quiet(o)) /\ toasts' = toasts
  BY DEF Refresh
<1>4. Settled(op[o])'
  BY <1>2, MovesType DEF Settled, Posting, r
<1>5. CleanInv' /\ CalmInv'
  <2>1. Quiet(o) => late' = {}
    BY <1>3 DEF Quiet
  <2>2. op'[o].pc = "get" /\ op'[o].clean = Quiet(o)
    BY <1>2 DEF r
  <2>3. QED
    BY <1>1, <1>3, <1>4, <2>1, <2>2, StepCalm
<1>6. Remembered'
  <2>1. Remembers(op'[o])
    BY <1>2 DEF Remembers, r
  <2>2. QED
    BY <1>1, <1>3, <2>1, OthersRemember
<1>7. QED
  BY <1>1, <1>5, <1>6 DEF Calm
-----------------------------------------------------------------------------
(* An operation is not idle: nothing overlaps it, as long as all is calm.  *)
LEMMA CalmParts ==
  ASSUME Calm, NEW o \in Ops
  PROVE  /\ Typed /\ CleanInv /\ CalmInv /\ Remembered
         /\ op[o] \in Op /\ OpSound(op[o]) /\ Remembers(op[o])
         /\ ~disturbed => late = {} /\ Settled(op[o])
         /\ ~disturbed /\ ~Idle(o) => Quiet(o)
         /\ op[o].clean => Quiet(o) /\ late = {} /\ ~Posting(op[o])
BY TypedParts DEF Calm, CleanInv, CalmInv, Remembered, Quiet, Posting

LEMMA OfferRemembers ==
  ASSUME NEW r \in Op, Remembers(r)
  PROVE  \A t \in Offers(r) : Remembers(t)
<1> DEFINE again == [i \in r.failed |-> r.moves[i]]
<1>1. CASE r.failed # {} /\ r.kind # "undo" /\ r.kind \in {"batch", "retry"}
  <2>1. Offers(r) = {Button("retry", again, NoMoves,
                            [r EXCEPT !.before = NoMoves])}
    BY <1>1 DEF Offers
  <2> HIDE DEF again
  <2>2. QED
    BY <2>1 DEF Button, Remembers
<1>2. CASE r.failed # {} /\ r.kind # "undo" /\ r.kind \notin {"batch", "retry"}
  <2>1. Offers(r) = {Button(r.kind, again, r.from, r)}
    BY <1>2 DEF Offers
  <2> HIDE DEF again
  <2>2. QED
    BY <1>2, <2>1 DEF Button, Remembers
<1>3. CASE r.failed = {} \/ r.kind = "undo"
  <2>1. \A t \in Offers(r) :
          r.kind = "batch" /\ t = Button("undo", r.from, NoMoves, r)
    BY <1>3 DEF Offers
  <2>2. QED
    BY <2>1 DEF Button, Remembers
<1>4. QED
  BY <1>1, <1>2, <1>3

(* A POST is answered, or has failed.                                      *)
Outcome(o, item, failed) ==
  \/ op[o].pc = "answer" /\ item = op[o].item /\ failed = {}
  \/ op[o].pc \in {"sent", "read"} /\ failed = {item}

LEMMA AfterKnows ==
  ASSUME Calm, ~disturbed, NEW o \in Ops, Posting(op[o]),
         NEW item \in op[o].left, NEW failed \in SUBSET {item},
         Outcome(o, item, failed)
  PROVE  LET r == After(o, item, failed) IN
         /\ \A i \in DOMAIN r.moves \ (r.left \cup r.failed) :
              table[i] = r.moves[i]
         /\ ~error /\ r.kind = "drawer" /\ r.failed # {} => Exact(table)
         /\ ~error /\ r.kind \in {"move", "batch"} /\ r.failed = {} =>
              Exact([i \in Items |-> IF i \in r.left THEN r.moves[i]
                                     ELSE table[i]])
<1> DEFINE r == After(o, item, failed)
<1>1. /\ r.left = op[o].left \ {item} /\ r.failed = op[o].failed \cup failed
      /\ r.kind = op[o].kind /\ r.moves = op[o].moves
  BY AfterType, CalmParts
<1> HIDE DEF r
<1>2. Settled(op[o]) /\ (op[o].kind = "drawer" => op[o].failed = {})
  BY CalmParts DEF OpSound
<1>3. CASE op[o].pc = "answer" /\ item = op[o].item /\ failed = {}
  <2>1. r.left = Rest(op[o]) /\ r.failed = op[o].failed
    BY <1>1, <1>3 DEF Rest
  <2>2. Ahead(op[o]) = [i \in Items |-> IF i \in r.left THEN r.moves[i]
                                        ELSE table[i]]
    BY <1>1, <2>1 DEF Ahead
  <2>3. QED
    BY <1>1, <1>2, <1>3, <2>1, <2>2 DEF Settled, r
<1>4. CASE op[o].pc \in {"sent", "read"} /\ failed = {item}
  <2>1. Rest(op[o]) = op[o].left
    BY <1>4 DEF Rest
  <2>2. r.left \cup r.failed = Rest(op[o]) \cup op[o].failed /\ r.failed # {}
    BY <1>1, <1>4, <2>1
  <2>3. QED
    BY <1>1, <1>2, <1>4, <2>2 DEF Settled, r
<1>5. QED
  BY <1>3, <1>4 DEF Outcome

LEMMA ContinueCalm ==
  ASSUME Calm, Typed', NEW o \in Ops, Posting(op[o]), NEW item \in op[o].left,
         NEW failed \in SUBSET {item}, NEW alone \in BOOLEAN,
         Continued(o, After(o, item, failed), alone),
         \A q \in Ops \ {o} : op'[q] = op[q],
         UNCHANGED <<table, cards>>,
         alone => Quiet(o) /\ late' = {},
         ~disturbed' =>
           ~disturbed /\ late' = late /\ Outcome(o, item, failed)
  PROVE  Calm'
<1> DEFINE r == After(o, item, failed)
<1>1. /\ r \in Op /\ r.clean = FALSE /\ ~Idle(o)
      /\ r.kind # "load" /\ Remembers(r)
      /\ r.kind = "drawer" => r.left = {}
  <2>1. /\ r \in Op /\ Fits(r.kind, r.moves, r.from)
        /\ r.kind = op[o].kind /\ r.moves = op[o].moves
        /\ r.from = op[o].from /\ r.before = op[o].before
        /\ r.calm = op[o].calm
        /\ r.kind = "drawer" => r.left = {}
    BY AfterType, CalmParts
  <2>2. r.clean = op[o].clean
    BY CalmParts DEF After, Op
  <2>3. op[o].clean \in BOOLEAN /\ ~op[o].clean /\ ~Idle(o)
    BY CalmParts DEF Op, Posting, Idle
  <2> HIDE DEF r
  <2>4. QED
    BY <2>1, <2>2, <2>3, CalmParts DEF Fits, Remembers
<1>2. ~disturbed' =>
        /\ Quiet(o) /\ late' = {}
        /\ \A i \in DOMAIN r.moves \ (r.left \cup r.failed) :
             table[i] = r.moves[i]
        /\ ~error /\ r.kind = "drawer" /\ r.failed # {} => Exact(table)
        /\ ~error /\ r.kind \in {"move", "batch"} /\ r.failed = {} =>
             Exact([i \in Items |-> IF i \in r.left THEN r.moves[i]
                                    ELSE table[i]])
  BY <1>1, CalmParts, AfterKnows
<1> HIDE DEF r
<1>3. r.left = {} =>
        [i \in Items |-> IF i \in r.left THEN r.moves[i] ELSE table[i]] = table
  BY CalmParts, TypedParts
<1>4. \/ /\ r.left # {}
         /\ op'[o] = [r EXCEPT !.pc = "sent"]
         /\ UNCHANGED <<loading, error, toasts>>
      \/ /\ r.left = {} /\ Reloads(r)
         /\ op'[o] = [(IF r.kind = "undo" THEN r ELSE Nothing)
                        EXCEPT !.pc = "get", !.clean = alone]
         /\ toasts' = toasts \cup Offers(r)
      \/ /\ r.left = {} /\ ~Reloads(r)
         /\ op'[o] = Nothing
         /\ toasts' = toasts \cup Offers(r)
         /\ UNCHANGED <<loading, error>>
  BY DEF Continued, r
<1>5. ASSUME op'[o].clean => op'[o].pc = "get" /\ alone,
             ~disturbed' => /\ Settled(op[o])'
                            /\ op'[o].pc = "idle" /\ ~error' => Exact(table)',
             Remembers(op'[o]),
             toasts' = toasts \/ toasts' = toasts \cup Offers(r)
      PROVE  Calm'
  <2>1. CleanInv' /\ CalmInv'
    <3>1. op'[o].clean =>
            /\ op'[o].pc \in {"get", "got"} /\ Quiet(o) /\ late' = {}
            /\ op'[o].pc = "got" => op'[o].board = table'
      BY <1>5
    <3>2. ~disturbed' => /\ Quiet(o) /\ late' = {} /\ Settled(op[o])'
                         /\ op'[o].pc = "idle" /\ ~error' => Exact(table)'
      BY <1>2, <1>5
    <3>3. QED
      BY <1>1, <3>1, <3>2, CalmParts, StepCalm
  <2>2. Remembered'
    <3>1. \A t \in Offers(r) : Remembers(t)
      BY <1>1, OfferRemembers
    <3>2. \A t \in toasts' : Remembers(t)
      BY <1>5, <3>1 DEF Calm, Remembered
    <3>3. \A q \in Ops : Remembers(op'[q])
      BY <1>5 DEF Calm, Remembered
    <3>4. QED
      BY <3>2, <3>3 DEF Remembered
  <2>3. QED
    BY <2>1, <2>2 DEF Calm
<1>6. CASE /\ r.left # {}
           /\ op'[o] = [r EXCEPT !.pc = "sent"]
           /\ UNCHANGED <<loading, error, toasts>>
  <2> DEFINE new == op'[o]
  <2>1. /\ new.pc = "sent" /\ new.clean = FALSE /\ new.left = r.left
        /\ new.failed = r.failed /\ new.kind = r.kind /\ new.moves = r.moves
        /\ new.from = r.from /\ new.before = r.before /\ new.calm = r.calm
    BY <1>1, <1>6 DEF Op
  <2> HIDE DEF new
  <2>2. Remembers(new)
    BY <1>1, <2>1 DEF Remembers
  <2>3. ASSUME ~disturbed' PROVE Settled(op[o])'
    <3>1. Rest(new) = r.left /\ new.kind # "drawer"
      BY <1>1, <1>6, <2>1 DEF Rest
    <3>2. \A i \in DOMAIN new.moves \ (Rest(new) \cup new.failed) :
            table'[i] = new.moves[i]
      BY <1>2, <2>1, <2>3, <3>1
    <3>3. ASSUME ~error', new.kind \in {"move", "batch"}, new.failed = {}
          PROVE  Exact(Ahead(op[o]))'
      <4>1. Exact([i \in Items |-> IF i \in r.left THEN r.moves[i]
                                   ELSE table[i]])
        BY <1>2, <1>6, <2>1, <2>3, <3>3
      <4>2. QED
        BY <2>1, <3>1, <4>1 DEF Exact, Ahead, new
    <3>4. QED
      BY <2>1, <3>1, <3>2, <3>3 DEF Settled, new
  <2>4. ~op'[o].clean /\ op'[o].pc # "idle" /\ Remembers(op'[o])
    BY <2>1, <2>2 DEF new
  <2>5. ~disturbed' => /\ Settled(op[o])'
                       /\ op'[o].pc = "idle" /\ ~error' => Exact(table)'
    BY <2>3, <2>4
  <2>6. toasts' = toasts
    BY <1>6
  <2>7. op'[o].clean => op'[o].pc = "get" /\ alone
    BY <2>4
  <2>8. QED
    BY <1>5, <2>4, <2>5, <2>6, <2>7
<1>7. CASE /\ r.left = {} /\ Reloads(r)
           /\ op'[o] = [(IF r.kind = "undo" THEN r ELSE Nothing)
                          EXCEPT !.pc = "get", !.clean = alone]
           /\ toasts' = toasts \cup Offers(r)
  <2> DEFINE new == op'[o]
             base == IF r.kind = "undo" THEN r ELSE Nothing
  <2>1. /\ base \in Op /\ base.left = {} /\ base.kind \in {"undo", "load"}
        /\ Remembers(base)
    BY <1>1, <1>7, NothingType DEF Remembers
  <2>2. new = [base EXCEPT !.pc = "get", !.clean = alone]
    BY <1>7
  <2>3. ~disturbed' => \A i \in DOMAIN base.moves \ base.failed :
                         table[i] = base.moves[i]
    BY <1>2, <1>7, NothingType, MovesType
  <2> HIDE DEF new, base
  <2>4. /\ new.pc = "get" /\ new.clean = alone /\ new.left = {}
        /\ new.failed = base.failed /\ new.kind = base.kind
        /\ new.moves = base.moves /\ new.from = base.from
        /\ new.before = base.before /\ new.calm = base.calm
    BY <2>1, <2>2 DEF Op
  <2>5. Remembers(new)
    BY <2>1, <2>4 DEF Remembers
  <2>6. ASSUME ~disturbed' PROVE Settled(op[o])'
    <3>1. Rest(new) = {} /\ ~Posting(new)
      BY <2>4 DEF Rest, Posting
    <3>2. \A i \in DOMAIN new.moves \ (Rest(new) \cup new.failed) :
            table'[i] = new.moves[i]
      BY <2>3, <2>4, <2>6, <3>1
    <3>3. QED
      BY <2>1, <2>4, <3>1, <3>2 DEF Settled, new
  <2>7. /\ op'[o].pc = "get" /\ op'[o].clean = alone
        /\ Remembers(op'[o])
    BY <2>4, <2>5 DEF new
  <2>8. QED
    BY <1>5, <1>7, <2>6, <2>7
<1>8. CASE /\ r.left = {} /\ ~Reloads(r)
           /\ op'[o] = Nothing
           /\ toasts' = toasts \cup Offers(r)
           /\ UNCHANGED <<loading, error>>
  <2>1. Remembers(Nothing) /\ Nothing.clean = FALSE
    BY NothingType DEF Remembers
  <2>2. Settled(op[o])'
    BY <1>8, SettledNothing DEF Settled
  <2>3. ASSUME ~disturbed', ~error' PROVE Exact(table)'
    <3>1. \/ r.kind \in {"move", "batch"} /\ r.failed = {}
          \/ r.kind = "drawer" /\ r.failed # {}
      BY <1>1, <1>8 DEF Reloads, Op, Kinds
    <3>2. Exact(table)
      BY <1>2, <1>3, <1>8, <2>3, <3>1
    <3>3. QED
      BY <3>2 DEF Exact
  <2>4. ~disturbed' => /\ Settled(op[o])'
                       /\ op'[o].pc = "idle" /\ ~error' => Exact(table)'
    BY <2>2, <2>3
  <2>5. ~op'[o].clean /\ Remembers(op'[o])
    BY <1>8, <2>1
  <2>6. toasts' = toasts \cup Offers(r)
    BY <1>8
  <2>7. op'[o].clean => op'[o].pc = "get" /\ alone
    BY <2>5
  <2>8. QED
    BY <1>5, <2>4, <2>5, <2>6, <2>7
<1>9. QED
  BY <1>4, <1>6, <1>7, <1>8

LEMMA AnsweredCalm ==
  ASSUME Calm, NEW o \in Ops, Answered(o)
  PROVE  Calm'
<1>1. Typed /\ op[o].pc = "answer" /\ Posting(op[o]) /\ Quiet(o) \in BOOLEAN
  BY DEF Answered, Calm, Posting, Quiet
<1>2. PICK item \in op[o].left : item = op[o].item
  BY <1>1, AnsweredTyped
<1>3. /\ Typed'
      /\ Continued(o, After(o, item, {}), Quiet(o))
      /\ \A q \in Ops \ {o} : op'[q] = op[q]
  BY <1>1, <1>2, AnsweredTyped
<1>4. UNCHANGED <<table, cards, late, disturbed>>
  BY DEF Answered
<1>5. Outcome(o, item, {}) /\ {} \in SUBSET {item}
  BY <1>1, <1>2 DEF Outcome
<1>6. Quiet(o) => late' = {}
  BY <1>4 DEF Quiet
<1>7. QED
  BY <1>1, <1>3, <1>4, <1>5, <1>6, ContinueCalm

LEMMA RefusedCalm ==
  ASSUME Calm, NEW o \in Ops, Refused(o)
  PROVE  Calm'
<1>1. Typed /\ op[o].pc \in {"sent", "read"} /\ Quiet(o) \in BOOLEAN
  BY DEF Refused, Calm, Quiet
<1>2. /\ Typed'
      /\ \E item \in op[o].left :
           Continued(o, After(o, item, {item}), Quiet(o))
      /\ \A q \in Ops \ {o} : op'[q] = op[q]
  BY <1>1, RefusedTyped
<1>3. PICK item \in op[o].left :
        Continued(o, After(o, item, {item}), Quiet(o))
  BY <1>2
<1>4. UNCHANGED <<table, cards, late, disturbed>>
  BY DEF Refused
<1>5. /\ Outcome(o, item, {item}) /\ {item} \in SUBSET {item}
      /\ Posting(op[o])
  BY <1>1 DEF Outcome, Posting
<1>6. Quiet(o) => late' = {}
  BY <1>4 DEF Quiet
<1>7. QED
  BY <1>1, <1>2, <1>3, <1>4, <1>5, <1>6, ContinueCalm

LEMMA LostCalm ==
  ASSUME Calm, NEW o \in Ops, Lost(o)
  PROVE  Calm'
<1> DEFINE alone == Quiet(o) /\ op[o].pc = "answer"
<1>1. /\ Typed /\ Posting(op[o]) /\ alone \in BOOLEAN
      /\ op[o].item \in op[o].left
  BY LostTyped DEF Lost, Calm, Posting, Quiet
<1>2. PICK item \in op[o].left : item = op[o].item
  BY <1>1
<1>3. /\ Typed'
      /\ Continued(o, After(o, item, {item}), alone)
      /\ \A q \in Ops \ {o} : op'[q] = op[q]
  BY <1>1, <1>2, LostTyped
<1>4. UNCHANGED <<table, cards>> /\ disturbed' = TRUE
  BY DEF Lost
<1>5. alone => Quiet(o) /\ late' = {}
  BY DEF Lost, Quiet
<1>6. {item} \in SUBSET {item}
  OBVIOUS
<1> HIDE DEF alone
<1>7. QED
  BY <1>1, <1>3, <1>4, <1>5, <1>6, ContinueCalm

LEMMA ReadCalm ==
  ASSUME Calm, NEW o \in Ops, Read(o)
  PROVE  Calm'
<1>1. /\ Typed /\ CleanInv /\ Typed' /\ op[o].pc = "sent"
      /\ \A q \in Ops \ {o} : op'[q] = op[q]
  BY ReadTyped DEF Calm
<1>2. PICK i \in op[o].left :
        op'[o] = [op[o] EXCEPT !.pc = "read", !.item = i, !.seen = table[i]]
  BY <1>1, ReadTyped
<1>3. UNCHANGED <<table, late, cards, error, toasts, disturbed>>
  BY DEF Read
<1> DEFINE r == op'[o]
<1>4. /\ r.pc = "read" /\ r.item = i /\ r.seen = table[i]
      /\ r.left = op[o].left /\ r.failed = op[o].failed
      /\ r.kind = op[o].kind /\ r.moves = op[o].moves
      /\ r.from = op[o].from /\ r.before = op[o].before
      /\ r.calm = op[o].calm /\ r.clean = op[o].clean
  BY <1>2, CalmParts DEF Op
<1> HIDE DEF r
<1>5. Rest(r) = Rest(op[o])
  BY <1>1, <1>4 DEF Rest
<1>6. ASSUME ~disturbed' PROVE Settled(op[o])'
  <2>1. Settled(op[o])
    BY <1>3, <1>6, CalmParts
  <2>2. ASSUME ~error', r.kind \in {"move", "batch"}, r.failed = {}
        PROVE  Exact(Ahead(op[o]))'
    <3>1. Exact(Ahead(op[o]))
      BY <1>1, <1>3, <1>4, <2>1, <2>2 DEF Settled, Posting
    <3>2. QED
      BY <1>3, <1>4, <1>5, <3>1 DEF Exact, Ahead, r
  <2>3. ~error' /\ r.kind = "drawer" => Exact(table)'
    BY <1>1, <1>3, <1>4, <2>1 DEF Settled, Exact
  <2>4. \A j \in DOMAIN r.moves \ (Rest(r) \cup r.failed) :
          table'[j] = r.moves[j]
    BY <1>1, <1>3, <1>4, <1>5, <2>1 DEF Settled
  <2>5. QED
    BY <1>3, <1>4, <2>2, <2>3, <2>4 DEF Settled, r
<1>7. ~disturbed' => Quiet(o) /\ late' = {}
  BY <1>1, <1>3, CalmParts DEF Idle
<1>8. op'[o].pc = "read" /\ ~op'[o].clean /\ Remembers(op'[o])
  BY <1>1, <1>4, CalmParts DEF Posting, Remembers, r
<1>9. CleanInv' /\ CalmInv'
  <2>1. ~Idle(o)
    BY <1>1 DEF Idle
  <2>2. QED
    BY <1>1, <1>6, <1>7, <1>8, <2>1, StepCalm
<1>10. Remembered'
  BY <1>1, <1>3, <1>8, CalmParts, OthersRemember
<1>11. QED
  BY <1>1, <1>9, <1>10 DEF Calm

LEMMA CommitCalm ==
  ASSUME Calm, NEW o \in Ops, Commit(o)
  PROVE  Calm'
<1>1. /\ Typed /\ CleanInv /\ Typed'
      /\ op[o].pc = "read" /\ op[o].item \in op[o].left
      /\ op[o].item \in Items
      /\ op'[o] = [op[o] EXCEPT !.pc = "answer"]
      /\ \A q \in Ops \ {o} : op'[q] = op[q]
  BY CommitTyped DEF Calm
<1>2. /\ UNCHANGED <<late, cards, error, toasts, disturbed>>
      /\ table' = Written(op[o].item, op[o].moves[op[o].item], op[o].seen)
  BY DEF Commit
<1> DEFINE r == op'[o]
<1>3. /\ r.pc = "answer" /\ r.item = op[o].item
      /\ r.left = op[o].left /\ r.failed = op[o].failed
      /\ r.kind = op[o].kind /\ r.moves = op[o].moves
      /\ r.from = op[o].from /\ r.before = op[o].before
      /\ r.calm = op[o].calm /\ r.clean = op[o].clean
  BY <1>1, CalmParts DEF Op
<1> HIDE DEF r
<1>4. Rest(r) = op[o].left \ {op[o].item} /\ Rest(op[o]) = op[o].left
  BY <1>1, <1>3 DEF Rest
<1>5. ASSUME ~disturbed' PROVE Settled(op[o])'
  <2>1. Settled(op[o])
    BY <1>2, <1>5, CalmParts
  <2>2. /\ table'[op[o].item] = op[o].moves[op[o].item]
        /\ \A j \in Items \ {op[o].item} : table'[j] = table[j]
    <3>1. op[o].seen = table[op[o].item] /\ table \in [Items -> Statuses]
      BY <1>1, <2>1, TypedParts DEF Settled
    <3>2. QED
      BY <1>1, <1>2, <3>1 DEF Written
  <2>3. ASSUME ~error', r.kind \in {"move", "batch"}, r.failed = {}
        PROVE  Exact(Ahead(op[o]))'
    <3>1. Exact(Ahead(op[o]))
      BY <1>1, <1>2, <1>3, <2>1, <2>3 DEF Settled, Posting
    <3>2. \A i \in Items :
            (IF i \in Rest(r) THEN r.moves[i] ELSE table'[i]) =
            (IF i \in Rest(op[o]) THEN op[o].moves[i] ELSE table[i])
      BY <1>1, <1>3, <1>4, <2>2
    <3>3. QED
      BY <1>2, <3>1, <3>2 DEF Exact, Ahead, r
  <2>4. \A j \in DOMAIN r.moves \ (Rest(r) \cup r.failed) :
          table'[j] = r.moves[j]
    <3>1. DOMAIN op[o].moves \subseteq Items
      BY CalmParts, MovesType DEF Op
    <3>2. QED
      BY <1>1, <1>3, <1>4, <2>1, <2>2, <3>1 DEF Settled
  <2>5. QED
    BY <1>2, <1>3, <2>3, <2>4 DEF Settled, r
<1>6. ~disturbed' => Quiet(o) /\ late' = {}
  BY <1>1, <1>2, CalmParts DEF Idle
<1>7. op'[o].pc = "answer" /\ ~op'[o].clean /\ Remembers(op'[o])
  BY <1>1, <1>3, CalmParts DEF Posting, Remembers, r
<1>8. CleanInv' /\ CalmInv'
  <2>1. ~Idle(o)
    BY <1>1 DEF Idle
  <2>2. QED
    BY <1>1, <1>5, <1>6, <1>7, <2>1, StepCalm
<1>9. Remembered'
  BY <1>1, <1>2, <1>7, CalmParts, OthersRemember
<1>10. QED
  BY <1>1, <1>8, <1>9 DEF Calm

LEMMA ServeCalm ==
  ASSUME Calm, NEW o \in Ops, ServeBoard(o)
  PROVE  Calm'
<1>1. /\ Typed /\ CleanInv /\ Typed' /\ op[o].pc = "get"
      /\ op'[o] = [op[o] EXCEPT !.pc = "got", !.board = table]
      /\ \A q \in Ops \ {o} : op'[q] = op[q]
  BY ServeTyped DEF Calm
<1>2. UNCHANGED <<table, late, cards, error, toasts, disturbed>>
  BY DEF ServeBoard
<1> DEFINE r == op'[o]
<1>3. /\ r.pc = "got" /\ r.board = table
      /\ r.kind = op[o].kind /\ r.moves = op[o].moves
      /\ r.from = op[o].from /\ r.before = op[o].before
      /\ r.calm = op[o].calm /\ r.clean = op[o].clean
  BY <1>1, CalmParts DEF Op
<1> HIDE DEF r
<1>4. Settled(op[o])'
  BY <1>2, <1>3 DEF Settled, Posting, r
<1>5. ~disturbed' => Quiet(o) /\ late' = {}
  BY <1>1, <1>2, CalmParts DEF Idle
<1>6. /\ op'[o].pc = "got" /\ op'[o].board = table' /\ Remembers(op'[o])
      /\ op'[o].clean => Quiet(o) /\ late' = {}
  BY <1>2, <1>3, CalmParts DEF Remembers, r
<1>7. CleanInv' /\ CalmInv'
  <2>1. ~Idle(o)
    BY <1>1 DEF Idle
  <2>2. QED
    BY <1>1, <1>4, <1>5, <1>6, <2>1, StepCalm
<1>8. Remembered'
  BY <1>1, <1>2, <1>6, CalmParts, OthersRemember
<1>9. QED
  BY <1>1, <1>7, <1>8 DEF Calm

LEMMA GetEndCalm ==
  ASSUME Calm, NEW o \in Ops, ShowBoard(o) \/ LoadFails(o)
  PROVE  Calm'
<1>1. /\ Typed /\ CleanInv /\ Typed' /\ ~Idle(o)
      /\ op'[o] = Nothing
      /\ \A q \in Ops \ {o} : op'[q] = op[q]
  BY GetEndTyped DEF Calm, Idle
<1>2. UNCHANGED <<table, late, toasts>>
  BY DEF ShowBoard, LoadFails
<1>3. Settled(op[o])'
  BY <1>1, SettledNothing DEF Settled
<1>4. ASSUME ~disturbed'
      PROVE  Quiet(o) /\ late' = {} /\ (~error' => Exact(table)')
  <2>1. CASE ShowBoard(o)
    <3>1. op[o].clean \/ ~disturbed
      BY <1>4, <2>1 DEF ShowBoard
    <3>2. Quiet(o) /\ late = {} /\ op[o].board = table
      BY <1>1, <2>1, <3>1, CalmParts DEF ShowBoard, CleanInv, Settled
    <3>3. QED
      BY <1>2, <2>1, <3>2 DEF ShowBoard, Exact
  <2>2. CASE LoadFails(o)
    <3>1. ~disturbed /\ error' = TRUE
      BY <1>4, <2>2 DEF LoadFails
    <3>2. QED
      BY <1>1, <1>2, <3>1, CalmParts
  <2>3. QED
    BY <2>1, <2>2
<1>5. ~op'[o].clean /\ Remembers(op'[o])
  BY <1>1, NothingType DEF Remembers
<1>6. CleanInv' /\ CalmInv'
  BY <1>1, <1>3, <1>4, <1>5, StepCalm
<1>7. Remembered'
  BY <1>1, <1>2, <1>5, CalmParts, OthersRemember
<1>8. QED
  BY <1>1, <1>6, <1>7 DEF Calm

LEMMA LateCalm ==
  ASSUME Calm, NEW l \in late, LateCommit(l)
  PROVE  Calm'
<1>1. Typed /\ Typed' /\ CleanInv /\ CalmInv /\ Remembered
  BY LateTyped DEF Calm
<1>2. UNCHANGED <<toasts, op, disturbed>>
  BY DEF LateCommit
<1>3. \A o \in Ops : ~op[o].clean
  BY <1>1 DEF CleanInv, Quiet
<1>4. disturbed
  BY <1>1 DEF CalmInv
<1>5. QED
  BY <1>1, <1>2, <1>3, <1>4 DEF Calm, CleanInv, CalmInv, Remembered

LEMMA OtherCalm ==
  ASSUME Calm, OtherMoves
  PROVE  Calm'
<1>1. /\ Typed /\ Typed' /\ Remembered
      /\ \A q \in Ops : op'[q] = [op[q] EXCEPT !.clean = FALSE]
  BY OtherTyped DEF Calm
<1>2. disturbed' = TRUE /\ toasts' = toasts
  BY DEF OtherMoves
<1>3. \A q \in Ops : ~op'[q].clean
  BY <1>1, SameLetters
<1>4. ASSUME NEW q \in Ops PROVE Remembers(op'[q])
  BY <1>1, SameLetters DEF Remembered, Remembers
<1>5. CleanInv' /\ CalmInv'
  BY <1>2, <1>3 DEF CleanInv, CalmInv
<1>6. Remembered'
  BY <1>1, <1>2, <1>4 DEF Remembered
<1>7. QED
  BY <1>1, <1>5, <1>6 DEF Calm

LEMMA CalmInit == Init => Calm
<1> SUFFICES ASSUME Init PROVE Calm
  OBVIOUS
<1>1. Typed
  BY TypedInit
<1>2. PICK o \in Ops :
        op = [q \in Ops |-> IF q = o THEN [Nothing EXCEPT !.pc = "get",
                                                          !.clean = TRUE]
                            ELSE Nothing]
  BY DEF Init
<1>3. late = {} /\ toasts = {} /\ disturbed = TRUE
  BY Zenon DEF Init
<1> DEFINE new == [Nothing EXCEPT !.pc = "get", !.clean = TRUE]
<1>4. new.pc = "get" /\ new.kind = "load"
  BY NothingType DEF Op
<1>5. op[o] = new /\ \A q \in Ops \ {o} : op[q] = Nothing
  BY <1>2
<1> HIDE DEF new
<1>6. Quiet(o)
  BY <1>3, <1>5, NothingType DEF Quiet, Idle
<1>7. CleanInv
  <2>1. \A q \in Ops \ {o} : ~op[q].clean
    BY <1>5, NothingType
  <2>2. op[o].pc = "get"
    BY <1>4, <1>5
  <2>3. QED
    BY <1>6, <2>1, <2>2 DEF CleanInv
<1>8. \A q \in Ops : Remembers(op[q])
  BY <1>4, <1>5, NothingType DEF Remembers
<1>9. QED
  BY <1>1, <1>3, <1>7, <1>8 DEF Calm, CalmInv, Remembered

LEMMA CalmInductive == Calm /\ [Next]_vars => Calm'
<1> SUFFICES ASSUME Calm, [Next]_vars PROVE Calm'
  OBVIOUS
<1>1. ASSUME NEW o \in Ops, User(o) PROVE Calm'
  BY <1>1, MoveCalm, BatchCalm, DrawerCalm, PressCalm, RefreshCalm DEF User
<1>2. ASSUME NEW o \in Ops, Progress(o) PROVE Calm'
  BY <1>2, ReadCalm, CommitCalm, AnsweredCalm, ServeCalm, GetEndCalm
     DEF Progress
<1>3. ASSUME NEW o \in Ops, Refused(o) \/ Lost(o) \/ LoadFails(o) PROVE Calm'
  BY <1>3, RefusedCalm, LostCalm, GetEndCalm
<1>4. ASSUME NEW l \in late, LateCommit(l) PROVE Calm'
  BY <1>4, LateCalm
<1>5. CASE OtherMoves
  BY <1>5, OtherCalm
<1>6. CASE UNCHANGED vars
  <2>1. Typed'
    BY TypedInductive DEF Calm
  <2>2. CleanInv' /\ CalmInv' /\ Remembered'
    BY <1>6 DEF Calm, CleanInv, CalmInv, Remembered, Quiet, Idle, Settled,
                Exact, Ahead
  <2>3. QED
    BY <2>1, <2>2 DEF Calm
<1>7. QED
  BY <1>1, <1>2, <1>3, <1>4, <1>5, <1>6 DEF Next

(* When nothing is under way and no banner says that loading failed, every *)
(* item has one card, in the column of its status, after any moves,        *)
(* batches, retries and undos and however they failed, unless something    *)
(* disturbed the page since its last clean load (move, batchMove,          *)
(* retryMoves, undoBatch, changeStatus, load).                             *)
THEOREM ShownWhereItIsCorrect == Spec => []ShownWhereItIs
<1>1. Init => Calm
  BY CalmInit
<1>2. Calm /\ [Next]_vars => Calm'
  BY CalmInductive
<1>3. Calm => ShownWhereItIs
  BY DEF Calm, CalmInv, Exact, ShownWhereItIs
<1>4. QED
  BY <1>1, <1>2, <1>3, PTL DEF Spec

(* An Undo that succeeds gives every item of the batch the status the      *)
(* table had before it, though the page only noted the columns its cards   *)
(* were shown in (batchMove, undoBatch).                                   *)
THEOREM UndoRestoresCorrect == Spec => []UndoRestores
<1>1. Init => Calm
  BY CalmInit
<1>2. Calm /\ [Next]_vars => Calm'
  BY CalmInductive
<1>3. Calm => UndoRestores
  <2> SUFFICES ASSUME Calm, NEW o \in Ops, op[o].kind = "undo",
                      op[o].pc = "get", op[o].failed = {}, op[o].calm,
                      ~disturbed, NEW i \in DOMAIN op[o].moves
               PROVE  table[i] = op[o].before[i]
    BY DEF UndoRestores
  <2>1. /\ Settled(op[o]) /\ op[o].before = op[o].moves
        /\ op[o].left = {}
    BY CalmParts DEF Remembers, OpSound
  <2>2. Rest(op[o]) = {}
    BY <2>1 DEF Rest
  <2>3. QED
    BY <2>1, <2>2 DEF Settled
<1>4. QED
  BY <1>1, <1>2, <1>3, PTL DEF Spec
=============================================================================
