-------------------------- MODULE WorkItemTrail_proofs --------------------------
(***************************************************************************)
(* Theorems about WorkItem that follow what a drawer sends, and what the   *)
(* audit log then says, from the read to the commit.                       *)
(***************************************************************************)
EXTENDS WorkItem_proofs

(* A tuple of variables is always expanded. *)
USE DEF vars, rowVars, labelVars, asked, pageVars

(* The step moves the function of one drawer from one statement to another;*)
(* until it ends, it is the same call.                                     *)
Moves(d, from, to) ==
  /\ req[d].pc \in from
  /\ req'[d].pc \in to
  /\ \A q \in Drawers \ {d} : req'[q] = req[q]
  /\ req[d].pc # "idle" /\ req'[d].pc # "idle" => req'[d].call = req[d].call
  /\ req'[d].pc = "idle" => req'[d].call.pc = "idle"

LEMMA UserMoves ==
  ASSUME Typed, NEW d \in Drawers, User(d)
  PROVE  \/ req' = req
         \/ /\ Moves(d, {"idle"}, {"load", "see", "snapshot", "name",
                                   "exists", "idle"})
            /\ req'[d].pc = req'[d].call.pc
BY UserBegins DEF Moves

LEMMA EndMoves ==
  ASSUME Typed, NEW d \in Drawers, End(d)
  PROVE  Moves(d, {req[d].pc}, {"idle"})
BY EndType, NoRequestType DEF Moves, NoCall

LEMMA GoToMoves ==
  ASSUME Typed, NEW d \in Drawers, NEW pc, pc # "idle", GoTo(d, pc)
  PROVE  Moves(d, {req[d].pc}, {pc}) /\ req'[d] = [req[d] EXCEPT !.pc = pc]
<1>1. req \in [Drawers -> Request] /\ req[d] \in Request
  BY DEF Typed, TypeOK
<1>2. req' = [req EXCEPT ![d] = [req[d] EXCEPT !.pc = pc]]
  BY DEF GoTo
<1>3. /\ [req[d] EXCEPT !.pc = pc].pc = pc
      /\ [req[d] EXCEPT !.pc = pc].call = req[d].call
  BY <1>1 DEF Request
<1>4. QED
  BY <1>1, <1>2, <1>3 DEF Moves

LEMMA EditMoves ==
  ASSUME Typed, NEW d \in Drawers
  PROVE  /\ Load(d) => /\ Moves(d, {"load"}, {"write"})
                       /\ req'[d].loaded = content
         /\ CommitEdit(d) => Moves(d, {"write"}, {"refetch"})
         /\ See(d) => \/ Moves(d, {"see"}, {"idle"})
                      \/ Moves(d, {"see"}, {"move"}) /\ req'[d].seen = status
         /\ CommitStatus(d) => Moves(d, {"move"}, {"moved"})
         /\ Moved(d) => Moves(d, {"moved"}, {"idle"})
<1>1. req \in [Drawers -> Request] /\ req[d] \in Request
  BY DEF Typed, TypeOK
<1>2. ASSUME Load(d)
      PROVE  Moves(d, {"load"}, {"write"}) /\ req'[d].loaded = content
  BY <1>1, <1>2 DEF Load, At, Moves, Request
<1>3. CommitEdit(d) => Moves(d, {"write"}, {"refetch"})
  BY GoToMoves DEF CommitEdit, At
<1>4. ASSUME See(d)
      PROVE  \/ Moves(d, {"see"}, {"idle"})
             \/ Moves(d, {"see"}, {"move"}) /\ req'[d].seen = status
  <2>1. CASE Error(d)
    BY <1>4, <2>1, EndMoves, ErrorType DEF See, At
  <2>2. CASE req' = [req EXCEPT ![d].pc = "move", ![d].seen = status]
    BY <1>1, <1>4, <2>2 DEF See, At, Moves, Request
  <2>3. QED
    BY <1>4, <2>1, <2>2 DEF See
<1>5. CommitStatus(d) => Moves(d, {"move"}, {"moved"})
  BY GoToMoves DEF CommitStatus, At
<1>6. Moved(d) => Moves(d, {"moved"}, {"idle"})
  BY EndMoves DEF Moved, At
<1>7. QED
  BY <1>2, <1>3, <1>4, <1>5, <1>6

LEMMA ReassignMoves ==
  ASSUME Typed, NEW d \in Drawers
  PROVE  /\ Snapshot(d) => /\ Moves(d, {"snapshot"}, {"find"})
                           /\ req'[d].before = IdsOf(people)
         /\ Find(d) => /\ Moves(d, {"find"}, {"delete"})
                       /\ req'[d].before = req[d].before
                       /\ req'[d].gone = people
         /\ Delete(d) => /\ Moves(d, {"delete"}, {"insert", "commit"})
                         /\ req'[d].before = req[d].before
                         /\ req'[d].gone = req[d].gone \cap people
         /\ Insert(d) => \/ Moves(d, {"insert"}, {"idle"})
                         \/ /\ Moves(d, {"insert"}, {"insert", "commit"})
                            /\ req'[d].before = req[d].before
                            /\ req'[d].gone = req[d].gone
         /\ CommitReassign(d) => Moves(d, {"commit"}, {"refetch"})
<1>1. req \in [Drawers -> Request] /\ req[d] \in Request
  BY DEF Typed, TypeOK
<1>2. ASSUME Snapshot(d)
      PROVE  /\ Moves(d, {"snapshot"}, {"find"})
             /\ req'[d].before = IdsOf(people)
  BY <1>1, <1>2 DEF Snapshot, At, Moves, Request
<1>3. ASSUME Find(d)
      PROVE  /\ Moves(d, {"find"}, {"delete"})
             /\ req'[d].before = req[d].before
             /\ req'[d].gone = people
  BY <1>1, <1>3 DEF Find, At, Moves, Request
<1>4. ASSUME Delete(d)
      PROVE  /\ Moves(d, {"delete"}, {"insert", "commit"})
             /\ req'[d].before = req[d].before
             /\ req'[d].gone = req[d].gone \cap people
  BY <1>1, <1>4 DEF Delete, At, Moves, Request
<1>5. ASSUME Insert(d)
      PROVE  \/ Moves(d, {"insert"}, {"idle"})
             \/ /\ Moves(d, {"insert"}, {"insert", "commit"})
                /\ req'[d].before = req[d].before
                /\ req'[d].gone = req[d].gone
  <2>1. CASE Error(d)
    BY <1>5, <2>1, EndMoves, ErrorType DEF Insert, At
  <2>2. CASE PutNext(d)
    BY <1>1, <1>5, <2>2 DEF PutNext, Insert, At, Moves, Request
  <2>3. QED
    BY <1>5, <2>1, <2>2 DEF Insert
<1>6. CommitReassign(d) => Moves(d, {"commit"}, {"refetch"})
  BY GoToMoves DEF CommitReassign, At
<1>7. QED
  BY <1>2, <1>3, <1>4, <1>5, <1>6

LEMMA LabelMoves ==
  ASSUME Typed, NEW d \in Drawers
  PROVE  /\ FindName(d) => Moves(d, {"name"}, {"idle", "create"})
         /\ Create(d) => Moves(d, {"create"}, {"idle", "created"})
         /\ Created(d) => Moves(d, {"created"}, {"exists"})
         /\ FindTag(d) => Moves(d, {"exists"}, {"refetch", "tag"})
         /\ Tag(d) => Moves(d, {"tag"}, {"idle", "refetch"})
         /\ Refetch(d) => Moves(d, {"refetch"}, {"idle"})
<1>1. \A pc : pc # "idle" /\ GoTo(d, pc) => Moves(d, {req[d].pc}, {pc})
  BY GoToMoves
<1>2. /\ End(d) => Moves(d, {req[d].pc}, {"idle"})
      /\ Error(d) => Moves(d, {req[d].pc}, {"idle"})
  BY EndMoves, ErrorType
<1>3. FindName(d) => Moves(d, {"name"}, {"idle", "create"})
  BY <1>1, <1>2 DEF FindName, At, Moves
<1>4. Create(d) => Moves(d, {"create"}, {"idle", "created"})
  BY <1>1, <1>2 DEF Create, At, Moves
<1>5. Created(d) => Moves(d, {"created"}, {"exists"})
  BY <1>1 DEF Created, At
<1>6. FindTag(d) => Moves(d, {"exists"}, {"refetch", "tag"})
  BY <1>1 DEF FindTag, At, Moves
<1>7. Tag(d) => Moves(d, {"tag"}, {"idle", "refetch"})
  BY <1>1, <1>2 DEF Tag, At, Moves
<1>8. Refetch(d) => Moves(d, {"refetch"}, {"idle"})
  BY <1>2 DEF Refetch, At
<1>9. QED
  BY <1>3, <1>4, <1>5, <1>6, <1>7, <1>8

(* A function that fails, alone or in the place of another. *)
LEMMA AbortMoves ==
  ASSUME Typed, NEW d \in Drawers
  PROVE  /\ Fails(d) => Moves(d, {req[d].pc}, {"idle"})
         /\ \A q \in Drawers : BreakDeadlock(d, q) =>
              \E p \in Drawers :
                Moves(p, {"delete", "insert"}, {"idle"})
<1>1. \A p \in Drawers : Error(p) => Moves(p, {req[p].pc}, {"idle"})
  BY EndMoves, ErrorType
<1>2. ASSUME NEW q \in Drawers, BreakDeadlock(d, q)
      PROVE  \E p \in Drawers : Moves(p, {"delete", "insert"}, {"idle"})
  <2>1. req[d].pc \in {"delete", "insert"} /\ req[q].pc \in {"delete", "insert"}
    BY <1>2 DEF BreakDeadlock, WaitsFor, At
  <2>2. PICK p \in {d, q} : Error(p)
    BY <1>2 DEF BreakDeadlock
  <2>3. QED
    BY <1>1, <2>1, <2>2 DEF Moves
<1>3. QED
  BY <1>1, <1>2 DEF Fails

(* Every step moves one function at most, and it either begins with its    *)
(* first statement, or it goes on, or it ends.                             *)
LEMMA NextMoves ==
  ASSUME Typed, NEW d \in Drawers, User(d) \/ Step(d) \/ Fails(d)
  PROVE  \/ req' = req
         \/ \E p \in Drawers : Moves(p, Pc, {"idle"})
         \/ /\ Moves(d, {"idle"}, {"load", "see", "snapshot", "name",
                                   "exists", "idle"})
            /\ req'[d].pc = req'[d].call.pc
         \/ Moves(d, {"load", "write"}, {"write", "refetch"})
         \/ Moves(d, {"see", "move"}, {"move", "moved"})
         \/ Moves(d, {"snapshot", "find", "delete", "insert", "commit"},
                     {"find", "delete", "insert", "commit", "refetch"})
         \/ Moves(d, {"name", "create"}, {"create", "created"})
         \/ Moves(d, {"created", "exists", "tag"},
                     {"exists", "tag", "refetch"})
<1>1. CASE User(d)
  BY <1>1, UserMoves
<1>2. CASE Fails(d)
  <2>1. req[d].pc \in Pc
    BY DEF Typed, TypeOK, Request
  <2>2. QED
    BY <1>2, <2>1, AbortMoves DEF Moves
<1>3. CASE Step(d)
  <2>1. {"see", "moved", "insert", "delete", "name", "create", "tag",
         "refetch"} \subseteq Pc
    BY DEF Pc
  <2>2. CASE Load(d) \/ CommitEdit(d) \/ See(d) \/ CommitStatus(d) \/ Moved(d)
    BY <2>1, <2>2, EditMoves DEF Moves
  <2>3. CASE \/ Snapshot(d) \/ Find(d) \/ Delete(d) \/ Insert(d)
             \/ CommitReassign(d)
    BY <2>1, <2>3, ReassignMoves DEF Moves
  <2>4. CASE \/ FindName(d) \/ Create(d) \/ Created(d) \/ FindTag(d)
             \/ Tag(d) \/ Refetch(d)
    BY <2>1, <2>4, LabelMoves DEF Moves
  <2>5. CASE \E q \in Drawers \ {d} : BreakDeadlock(d, q)
    BY <2>1, <2>5, AbortMoves DEF Moves
  <2>6. QED
    BY <1>3, <2>2, <2>3, <2>4, <2>5 DEF Step
<1>4. QED
  BY <1>1, <1>2, <1>3
-----------------------------------------------------------------------------
(* A function runs the statements of what was called.                      *)
CallInv ==
  \A d \in Drawers :
    /\ req[d].pc \in {"load", "write"} => req[d].call.pc = "load"
    /\ req[d].pc \in {"see", "move", "moved"} => req[d].call.pc = "see"
    /\ req[d].pc \in {"name", "create", "created"} => req[d].call.pc = "name"

LEMMA CallInitially == Init => CallInv
BY NoRequestType DEF Init, CallInv

LEMMA CallInductive ==
  ASSUME Typed, CallInv, [Next]_vars
  PROVE  CallInv'
<1>1. CASE UNCHANGED vars
  BY <1>1 DEF CallInv
<1>2. ASSUME NEW d \in Drawers, User(d) \/ Step(d) \/ Fails(d)
      PROVE  CallInv'
  <2>1. CASE req' = req
    BY <2>1 DEF CallInv
  <2>2. CASE \E p \in Drawers : Moves(p, Pc, {"idle"})
    BY <2>2 DEF CallInv, Moves
  <2>3. CASE /\ Moves(d, {"idle"}, {"load", "see", "snapshot", "name",
                                    "exists", "idle"})
             /\ req'[d].pc = req'[d].call.pc
    BY <2>3 DEF CallInv, Moves
  <2>4. CASE \/ Moves(d, {"load", "write"}, {"write", "refetch"})
             \/ Moves(d, {"see", "move"}, {"move", "moved"})
             \/ Moves(d, {"snapshot", "find", "delete", "insert", "commit"},
                         {"find", "delete", "insert", "commit", "refetch"})
             \/ Moves(d, {"name", "create"}, {"create", "created"})
             \/ Moves(d, {"created", "exists", "tag"},
                         {"exists", "tag", "refetch"})
    BY <2>4 DEF CallInv, Moves
  <2>5. QED
    BY <1>2, <2>1, <2>2, <2>3, <2>4, NextMoves
<1>3. QED
  BY <1>1, <1>2 DEF Next
-----------------------------------------------------------------------------
(* A label the item does not have is in the hands of a drawer that is      *)
(* about to assign what it created, or of one that failed there.           *)
LabelInv ==
  \A n \in labels \ tags :
    n \in abandoned \/ \E d \in Drawers : HalfWay(d) /\ req[d].call.name = n

(* Steps that leave the labels alone. *)
LEMMA LabelFrame ==
  ASSUME LabelInv, NEW d \in Drawers,
         UNCHANGED <<labels, tags>>, abandoned \subseteq abandoned',
         \A q \in Drawers \ {d} : req'[q] = req[q],
         HalfWay(d) => \/ req[d].call.name \in tags \cup abandoned'
                       \/ HalfWay(d)' /\ req'[d].call.name = req[d].call.name
  PROVE  LabelInv'
<1>1. \A q \in Drawers \ {d} :
        (HalfWay(q)' <=> HalfWay(q)) /\ req'[q].call.name = req[q].call.name
  BY DEF HalfWay
<1>2. ASSUME NEW n \in labels' \ tags', n \notin abandoned'
      PROVE  \E q \in Drawers : HalfWay(q)' /\ req'[q].call.name = n
  <2>1. PICK q \in Drawers : HalfWay(q) /\ req[q].call.name = n
    BY <1>2 DEF LabelInv
  <2>2. HalfWay(q)' /\ req'[q].call.name = n
    BY <1>1, <1>2, <2>1
  <2>3. QED
    BY <2>2
<1>3. QED
  BY <1>2 DEF LabelInv

(* What has nothing to do with labels, and a function that fails. *)
LEMMA LabelOthers ==
  ASSUME Typed, LabelInv, NEW d \in Drawers,
         \/ User(d) \/ Load(d) \/ CommitEdit(d) \/ See(d) \/ CommitStatus(d)
         \/ Moved(d) \/ Snapshot(d) \/ Find(d) \/ Delete(d) \/ Insert(d)
         \/ CommitReassign(d) \/ FindName(d) \/ Refetch(d) \/ Fails(d)
         \/ \E q \in Drawers \ {d} : BreakDeadlock(d, q)
  PROVE  LabelInv'
<1> DEFINE still == Pc \ {"created", "exists", "tag"}
<1>1. UNCHANGED <<labels, tags>> /\ abandoned \subseteq abandoned'
  BY DEF User, Open, StartEdit, CancelEdit, SaveEdit, ChangeStatus,
         SaveAssignees, CreateAndAssign, AssignLabel, Retry, Begin,
         Load, CommitEdit, See, CommitStatus, Moved, Snapshot, Find, Delete,
         Insert, CommitReassign, FindName, Refetch, Fails, BreakDeadlock
<1>2. ASSUME NEW p \in Drawers, req[p].pc \in still,
             \A q \in Drawers \ {p} : req'[q] = req[q]
      PROVE  LabelInv'
  <2>1. ~HalfWay(p)
    BY <1>2 DEF HalfWay
  <2>2. QED
    BY <1>1, <1>2, <2>1, LabelFrame
<1>3. {"idle", "load", "write", "see", "move", "moved", "snapshot", "find",
       "delete", "insert", "commit", "name", "refetch"} \subseteq still
  BY DEF Pc
<1>4. CASE User(d)
  <2>1. CASE req' = req
    BY <1>1, <2>1 DEF LabelInv, HalfWay
  <2>2. CASE req' # req
    <3>1. req[d].pc \in still /\ \A q \in Drawers \ {d} : req'[q] = req[q]
      BY <1>3, <1>4, <2>2, UserMoves DEF Moves
    <3>2. QED
      BY <1>2, <3>1
  <2>3. QED
    BY <2>1, <2>2
<1>5. CASE Fails(d)
  <2>1. HalfWay(d) => req[d].call.name \in abandoned'
    BY <1>5 DEF Fails
  <2>2. \A q \in Drawers \ {d} : req'[q] = req[q]
    BY <1>5, AbortMoves DEF Moves
  <2>3. QED
    BY <1>1, <2>1, <2>2, LabelFrame
<1>6. CASE \E q \in Drawers \ {d} : BreakDeadlock(d, q)
  <2>1. PICK p \in Drawers : Moves(p, {"delete", "insert"}, {"idle"})
    BY <1>6, AbortMoves
  <2>2. req[p].pc \in still /\ \A q \in Drawers \ {p} : req'[q] = req[q]
    BY <1>3, <2>1 DEF Moves
  <2>3. QED
    BY <1>2, <2>2
<1>7. CASE \/ Load(d) \/ CommitEdit(d) \/ See(d) \/ CommitStatus(d)
           \/ Moved(d) \/ Snapshot(d) \/ Find(d) \/ Delete(d) \/ Insert(d)
           \/ CommitReassign(d) \/ FindName(d) \/ Refetch(d)
  <2>1. req[d].pc \in still /\ \A q \in Drawers \ {d} : req'[q] = req[q]
    BY <1>3, <1>7, EditMoves, ReassignMoves, LabelMoves DEF Moves
  <2>2. QED
    BY <1>2, <2>1
<1>8. QED
  BY <1>4, <1>5, <1>6, <1>7

LEMMA LabelTransactions ==
  ASSUME Typed, CallInv, LabelInv, NEW d \in Drawers,
         Create(d) \/ Created(d) \/ FindTag(d) \/ Tag(d)
  PROVE  LabelInv'
<1>1. abandoned' = abandoned
  BY DEF Create, Created, FindTag, Tag
<1>2. CASE Create(d)
  <2>1. /\ Moves(d, {"create"}, {"idle", "created"}) /\ tags' = tags
        /\ req[d].pc = "create" /\ req[d].call.pc = "name"
    BY <1>2, LabelMoves DEF Create, At, CallInv
  <2>2. ~HalfWay(d) /\ \A q \in Drawers \ {d} : req'[q] = req[q]
    BY <2>1 DEF Moves, HalfWay
  <2>3. CASE labels' = labels
    BY <1>1, <2>1, <2>2, <2>3, LabelFrame
  <2>4. CASE labels' # labels
    <3>1. /\ labels' = labels \cup {req[d].call.name}
          /\ GoTo(d, "created")
      BY <1>2, <2>4 DEF Create
    <3>2. req'[d].pc = "created" /\ req'[d].call = req[d].call
      <4>1. Moves(d, {req[d].pc}, {"created"})
        BY <3>1, GoToMoves
      <4>2. QED
        BY <2>1, <4>1 DEF Moves
    <3>3. HalfWay(d)' /\ req'[d].call.name = req[d].call.name
      BY <2>1, <3>2 DEF HalfWay
    <3>4. \A q \in Drawers \ {d} :
            (HalfWay(q)' <=> HalfWay(q)) /\ req'[q].call.name = req[q].call.name
      BY <2>2 DEF HalfWay
    <3>5. ASSUME NEW n \in labels' \ tags', n \notin abandoned'
          PROVE  \E q \in Drawers : HalfWay(q)' /\ req'[q].call.name = n
      <4>1. CASE n = req[d].call.name
        BY <3>3, <4>1
      <4>2. CASE n # req[d].call.name
        <5>1. PICK q \in Drawers : HalfWay(q) /\ req[q].call.name = n
          BY <1>1, <2>1, <3>1, <3>5, <4>2 DEF LabelInv
        <5>2. QED
          BY <2>2, <3>4, <5>1
      <4>3. QED
        BY <4>1, <4>2
    <3>6. QED
      BY <3>5 DEF LabelInv
  <2>5. QED
    BY <2>3, <2>4
<1>3. CASE Created(d)
  <2>1. Moves(d, {"created"}, {"exists"}) /\ UNCHANGED <<labels, tags>>
    BY <1>3, LabelMoves DEF Created
  <2>2. /\ HalfWay(d) => HalfWay(d)' /\ req'[d].call.name = req[d].call.name
        /\ \A q \in Drawers \ {d} : req'[q] = req[q]
    BY <2>1 DEF Moves, HalfWay
  <2>3. QED
    BY <1>1, <2>1, <2>2, LabelFrame
<1>4. CASE FindTag(d)
  <2>1. /\ Moves(d, {"exists"}, {"refetch", "tag"})
        /\ UNCHANGED <<labels, tags>>
        /\ req[d].call.name \in tags \/ GoTo(d, "tag")
    BY <1>4, LabelMoves DEF FindTag
  <2>2. GoTo(d, "tag") => req'[d].pc = "tag"
    BY GoToMoves DEF Moves
  <2>3. /\ HalfWay(d) => \/ req[d].call.name \in tags
                         \/ /\ HalfWay(d)'
                            /\ req'[d].call.name = req[d].call.name
        /\ \A q \in Drawers \ {d} : req'[q] = req[q]
    BY <2>1, <2>2 DEF Moves, HalfWay
  <2>4. QED
    BY <1>1, <2>1, <2>3, LabelFrame
<1>5. CASE Tag(d)
  <2>1. /\ Moves(d, {"tag"}, {"idle", "refetch"})
        /\ tags' = tags \cup {req[d].call.name} /\ labels' = labels
    BY <1>5, LabelMoves DEF Tag
  <2>2. \A q \in Drawers \ {d} :
          (HalfWay(q)' <=> HalfWay(q)) /\ req'[q].call.name = req[q].call.name
    BY <2>1 DEF Moves, HalfWay
  <2>3. ASSUME NEW n \in labels' \ tags', n \notin abandoned'
        PROVE  \E q \in Drawers : HalfWay(q)' /\ req'[q].call.name = n
    <3>1. PICK q \in Drawers : HalfWay(q) /\ req[q].call.name = n
      BY <1>1, <2>1, <2>3 DEF LabelInv
    <3>2. q # d
      BY <2>1, <2>3, <3>1
    <3>3. QED
      BY <2>2, <3>1, <3>2
  <2>4. QED
    BY <2>3 DEF LabelInv
<1>6. QED
  BY <1>2, <1>3, <1>4, <1>5

LEMMA LabelInductive ==
  ASSUME Typed, CallInv, LabelInv, [Next]_vars
  PROVE  LabelInv'
<1>1. CASE UNCHANGED vars
  BY <1>1 DEF LabelInv, HalfWay
<1>2. ASSUME NEW d \in Drawers, User(d) \/ Step(d) \/ Fails(d)
      PROVE  LabelInv'
  BY <1>2, LabelOthers, LabelTransactions DEF Step
<1>3. QED
  BY <1>1, <1>2 DEF Next

(* createAndAssign of the board page, create_label and assign_label: when  *)
(* no drawer is busy, a label that the item does not have is one whose     *)
(* createAndAssign failed after it was created, however many drawers       *)
(* created the same label or different ones at once.                       *)
THEOREM NoOrphanLabelCorrect == Spec => []NoOrphanLabel
<1> DEFINE Inv == Typed /\ LinkInv /\ CallInv /\ LabelInv
<1>1. Init => Inv
  <2>1. Init => LabelInv
    BY DEF Init, LabelInv
  <2>2. QED
    BY <2>1, TypedInitially, LinksInitially, CallInitially
<1>2. Inv /\ [Next]_vars => Inv'
  BY LinksInductive, CallInductive, LabelInductive
<1>3. Inv => NoOrphanLabel
  BY DEF LabelInv, NoOrphanLabel, HalfWay, At
<1>4. QED
  BY <1>1, <1>2, <1>3, PTL DEF Spec
-----------------------------------------------------------------------------
(* A copy the page holds is of versions there were, and where nobody has   *)
(* written since, it says what the item has; a form then says what         *)
(* saveEdit sends for it, where its user has not typed.                    *)
Seen(copy) ==
  \A c \in Columns :
    /\ copy.of[c] <= version[c]
    /\ copy.of[c] = version[c] => copy.columns[c] = content[c]

Filled(copy, touched) ==
  \A c \in Columns :
    /\ copy.of[c] <= version[c]
    /\ c \notin touched /\ copy.of[c] = version[c] =>
         copy.columns[c] = Resent[c][content[c]]

CallSound(call) ==
  /\ call.pc = "see" => Seen(call.carries)
  /\ call.pc = "load" => Filled(call.carries, call.touched)

PageSound(d) ==
  /\ Seen(page[d].shown)
  /\ page[d].editing => Filled(page[d].form, page[d].touched)

(* What edit_work_item has loaded is compared with what is there when it   *)
(* commits.                                                                *)
Loaded(d) ==
  \A c \in Columns :
    /\ req[d].call.carries.of[c] <= version[c]
    /\ req[d].call.carries.of[c] = version[c] => req[d].loaded[c] = content[c]

Running(d) ==
  /\ CallSound(req[d].call)
  /\ req[d].pc = "write" => Loaded(d)

SaveInv ==
  \A d \in Drawers :
    PageSound(d) /\ Running(d) /\ \A call \in retry[d] : CallSound(call)

(* Versions only grow, and a column that has kept its version has kept its *)
(* value.                                                                  *)
Newer ==
  \A c \in Columns :
    /\ version[c] <= version'[c]
    /\ version'[c] = version[c] => content'[c] = content[c]

LEMMA StepNewer ==
  ASSUME Typed, NEW d \in Drawers, User(d) \/ Step(d) \/ Fails(d)
  PROVE  Newer
<1>1. \A c \in Columns : version[c] \in Nat
  BY DEF Typed, TypeOK
<1>2. CASE CommitEdit(d)
  <2>1. PICK new \in Content : Set(new)
    BY <1>2, WrittenType DEF CommitEdit
  <2>2. \A c \in Columns :
          /\ content'[c] = new[c]
          /\ version'[c] = IF new[c] = content[c] THEN version[c]
                           ELSE version[c] + 1
    BY <2>1 DEF Set
  <2>3. QED
    BY <1>1, <2>2 DEF Newer
<1>3. CASE ~CommitEdit(d)
  <2>1. UNCHANGED <<content, version>>
    BY <1>3 DEF User, Step, Open, StartEdit, CancelEdit, SaveEdit,
         ChangeStatus, SaveAssignees, CreateAndAssign, AssignLabel, Retry,
         Begin, Load, See, CommitStatus, Moved, Snapshot, Find, Delete,
         Insert, CommitReassign, FindName, Create, Created, FindTag, Tag,
         Refetch, BreakDeadlock, Fails
  <2>2. QED
    BY <1>1, <2>1 DEF Newer
<1>4. QED
  BY <1>2, <1>3

LEMMA CopyKept ==
  ASSUME Typed, Typed', Newer, NEW copy \in Copy
  PROVE  /\ Seen(copy) => Seen(copy)'
         /\ \A touched \in SUBSET Columns :
              Filled(copy, touched) => Filled(copy, touched)'
<1>1. \A c \in Columns :
        copy.of[c] \in Nat /\ version[c] \in Nat /\ version'[c] \in Nat
  BY DEF Typed, TypeOK, Copy
<1>2. \A c \in Columns : copy.of[c] <= version[c] =>
        /\ copy.of[c] <= version'[c]
        /\ copy.of[c] = version'[c] =>
             copy.of[c] = version[c] /\ content'[c] = content[c]
  BY <1>1 DEF Newer
<1>3. Seen(copy) => Seen(copy)'
  BY <1>2 DEF Seen
<1>4. ASSUME NEW touched \in SUBSET Columns, Filled(copy, touched)
      PROVE  Filled(copy, touched)'
  BY <1>2, <1>4 DEF Filled
<1>5. QED
  BY <1>3, <1>4

LEMMA CallKept ==
  ASSUME Typed, Typed', Newer, NEW call \in Call, CallSound(call)
  PROVE  CallSound(call)'
<1>1. call.carries \in Copy /\ call.touched \in SUBSET Columns
  BY DEF Call
<1>2. QED
  BY <1>1, CopyKept DEF CallSound

LEMMA PageKept ==
  ASSUME Typed, Typed', Newer, NEW q \in Drawers, PageSound(q),
         page'[q].shown = page[q].shown,
         page'[q].editing =>
           /\ page[q].editing
           /\ page'[q].form = page[q].form
           /\ page'[q].touched = page[q].touched
  PROVE  PageSound(q)'
<1>1. /\ page[q].shown \in Copy /\ page[q].form \in Copy
      /\ page[q].touched \in SUBSET Columns
  BY DEF Typed, TypeOK, Page
<1>2. Seen(page[q].shown)'
  BY <1>1, CopyKept DEF PageSound
<1>3. page[q].editing => \A form, touched :
        form = page[q].form /\ touched = page[q].touched =>
          Filled(form, touched)'
  BY <1>1, CopyKept DEF PageSound
<1>4. QED
  BY <1>2, <1>3 DEF PageSound, Seen, Filled

(* A function that goes on, other than to write what it has loaded, or     *)
(* ends.                                                                   *)
LEMMA RunningKept ==
  ASSUME Typed, Typed', Newer, NEW q \in Drawers, Running(q),
         \/ req'[q] = req[q]
         \/ req'[q].pc # "write" /\ req'[q].call = req[q].call
         \/ req'[q].pc = "idle" /\ req'[q].call.pc = "idle"
  PROVE  Running(q)'
<1>1. /\ req[q].call \in Call
      /\ \A c \in Columns :
           /\ req[q].call.carries.of[c] \in Nat
           /\ version[c] \in Nat /\ version'[c] \in Nat
  BY DEF Typed, TypeOK, Request, Call, Copy
<1>2. CASE req'[q].pc = "idle" /\ req'[q].call.pc = "idle"
  BY <1>2 DEF Running, CallSound
<1>3. ASSUME req'[q].call = req[q].call PROVE CallSound(req[q].call)'
  <2>1. \A call \in Call : CallSound(call) => CallSound(call)'
    BY CallKept
  <2>2. QED
    BY <1>1, <1>3, <2>1 DEF Running, CallSound, Seen, Filled
<1>4. CASE req'[q].pc # "write" /\ req'[q].call = req[q].call
  BY <1>3, <1>4 DEF Running, CallSound, Seen, Filled
<1>5. CASE req'[q] = req[q]
  <2>1. req[q].pc = "write" => Loaded(q)'
    BY <1>1, <1>5 DEF Running, Loaded, Newer
  <2>2. QED
    BY <1>3, <1>5, <2>1 DEF Running, CallSound, Seen, Filled
<1>6. QED
  BY <1>2, <1>4, <1>5

(* The Retry of a toast is that of the call that failed. *)
LEMMA RetriesGrow ==
  ASSUME Typed, NEW d \in Drawers, User(d) \/ Step(d) \/ Fails(d)
  PROVE  \A q \in Drawers : retry'[q] \subseteq retry[q] \cup {req[q].call}
<1>1. retry \in [Drawers -> SUBSET Call]
  BY DEF Typed, TypeOK
<1>2. ASSUME NEW p \in Drawers, Error(p)
      PROVE  \A q \in Drawers : retry'[q] \subseteq retry[q] \cup {req[q].call}
  BY <1>2, ErrorType
<1>3. CASE retry' = retry
  BY <1>3
<1>4. CASE Open(d) \/ Retry(d)
  <2>1. \E calls \in SUBSET Call :
          calls \subseteq retry[d] /\ retry' = [retry EXCEPT ![d] = calls]
    <3>1. CASE Open(d)
      BY <3>1 DEF Open
    <3>2. CASE Retry(d)
      <4>1. PICK call \in retry[d] : retry' = [retry EXCEPT ![d] = @ \ {call}]
        BY <3>2 DEF Retry
      <4>2. retry' = [retry EXCEPT ![d] = retry[d] \ {call}]
        BY <1>1, <4>1
      <4>3. retry[d] \ {call} \in SUBSET Call
        BY <1>1
      <4>4. QED
        BY <4>2, <4>3
    <3>3. QED
      BY <1>4, <3>1, <3>2
  <2>2. QED
    BY <1>1, <2>1
<1>5. \/ retry' = retry
      \/ Open(d) \/ Retry(d)
      \/ \E p \in Drawers : Error(p)
  <2>1. CASE User(d)
    BY <2>1 DEF User, StartEdit, CancelEdit, SaveEdit, ChangeStatus,
                SaveAssignees, CreateAndAssign, AssignLabel
  <2>2. CASE Step(d)
    BY <2>2 DEF Step, Load, CommitEdit, See, CommitStatus, Moved, Snapshot,
                Find, Delete, Insert, CommitReassign, FindName, Create,
                Created, FindTag, Tag, Refetch, BreakDeadlock
  <2>3. CASE Fails(d)
    BY <2>3 DEF Fails
  <2>4. QED
    BY <2>1, <2>2, <2>3
<1>6. QED
  BY <1>2, <1>3, <1>4, <1>5

(* What is left to show of a step: what its drawer displays, and runs.     *)
LEMMA SaveFrame ==
  ASSUME Typed, Typed', SaveInv, NEW d \in Drawers,
         User(d) \/ Step(d) \/ Fails(d),
         \A q \in Drawers : PageSound(q)',
         \A q \in Drawers : Running(q)'
  PROVE  SaveInv'
<1>1. Newer
  BY StepNewer
<1>2. ASSUME NEW q \in Drawers, NEW call \in retry'[q]
      PROVE  CallSound(call)'
  <2>1. call \in retry[q] \cup {req[q].call}
    BY RetriesGrow
  <2>2. call \in Call /\ CallSound(call)
    BY <2>1 DEF SaveInv, Running, Typed, TypeOK, Request
  <2>3. QED
    BY <1>1, <2>2, CallKept
<1>3. QED
  BY <1>2 DEF SaveInv

(* Pages and functions that a step does not concern. *)
LEMMA PagesKept ==
  ASSUME Typed, Typed', SaveInv, NEW d \in Drawers,
         User(d) \/ Step(d) \/ Fails(d),
         \A q \in Drawers : /\ page'[q].shown = page[q].shown
                            /\ page'[q].editing = page[q].editing
                            /\ page'[q].form = page[q].form
                            /\ page'[q].touched = page[q].touched
  PROVE  \A q \in Drawers : PageSound(q)'
BY StepNewer, PageKept DEF SaveInv

LEMMA PageOfOne ==
  ASSUME Typed, Typed', SaveInv, NEW d \in Drawers,
         User(d) \/ Step(d) \/ Fails(d),
         \A q \in Drawers \ {d} : page'[q] = page[q],
         PageSound(d)'
  PROVE  \A q \in Drawers : PageSound(q)'
BY StepNewer, PageKept DEF SaveInv

LEMMA RunsOn ==
  ASSUME Typed, Typed', SaveInv, NEW d \in Drawers,
         User(d) \/ Step(d) \/ Fails(d),
         \/ req' = req
         \/ \E p \in Drawers, from \in SUBSET (Pc \ {"idle"}) :
              Moves(p, from, Pc \ {"write"})
  PROVE  \A q \in Drawers : Running(q)'
<1>1. Newer /\ \A q \in Drawers : Running(q)
  BY StepNewer DEF SaveInv
<1>2. CASE req' = req
  BY <1>1, <1>2, RunningKept
<1>3. CASE \E p \in Drawers, from \in SUBSET (Pc \ {"idle"}) :
             Moves(p, from, Pc \ {"write"})
  <2>1. PICK p \in Drawers, from \in SUBSET (Pc \ {"idle"}) :
          Moves(p, from, Pc \ {"write"})
    BY <1>3
  <2>2. /\ \A q \in Drawers \ {p} : req'[q] = req[q]
        /\ req'[p].pc # "write"
        /\ \/ req'[p].call = req[p].call
           \/ req'[p].pc = "idle" /\ req'[p].call.pc = "idle"
    BY <2>1 DEF Moves
  <2>3. QED
    BY <1>1, <2>2, RunningKept
<1>4. QED
  BY <1>2, <1>3

(* A function begins with what its drawer displays, or what it has tried   *)
(* before.                                                                 *)
LEMMA SaveBegins ==
  ASSUME Typed, Typed', SaveInv, NEW d \in Drawers, User(d),
         NEW call \in Call, Begin(d, call), CallSound(call),
         \A q \in Drawers : PageSound(q)',
         page' \in [Drawers -> Page], retry' \in [Drawers -> SUBSET Call]
  PROVE  SaveInv'
<1>1. Newer
  BY StepNewer
<1>2. /\ req'[d].call = call /\ req'[d].pc = call.pc
      /\ \A q \in Drawers \ {d} : req'[q] = req[q]
  BY BeginType
<1>3. CallSound(call)'
  BY <1>1, CallKept
<1>4. Running(d)'
  BY <1>2, <1>3 DEF Running, CallSound, Seen, Filled, Call
<1>5. \A q \in Drawers : Running(q)'
  BY <1>1, <1>2, <1>4, RunningKept DEF SaveInv
<1>6. QED
  BY <1>5, SaveFrame

LEMMA SaveUser ==
  ASSUME Typed, Typed', SaveInv, NEW d \in Drawers, User(d)
  PROVE  SaveInv'
<1>1. /\ page \in [Drawers -> Page] /\ retry \in [Drawers -> SUBSET Call]
      /\ page[d] \in Page
      /\ page' \in [Drawers -> Page] /\ retry' \in [Drawers -> SUBSET Call]
      /\ \A c \in Columns : version[c] \in Nat
  BY DEF Typed, TypeOK
<1>2. PageSound(d) /\ UNCHANGED <<content, version>>
  BY DEF SaveInv, User, Open, StartEdit, CancelEdit, SaveEdit, ChangeStatus,
         SaveAssignees, CreateAndAssign, AssignLabel, Retry, Begin
<1>3. ASSUME req' = req, \A q \in Drawers \ {d} : page'[q] = page[q],
             PageSound(d)'
      PROVE  SaveInv'
  BY <1>3, PageOfOne, RunsOn, SaveFrame
<1>4. CASE Open(d)
  <2>1. /\ page'[d] = [NoPage EXCEPT !.shown = Fetched, !.catalog = labels]
        /\ \A q \in Drawers \ {d} : page'[q] = page[q]
        /\ req' = req
    BY <1>1, <1>4 DEF Open
  <2>2. page'[d].shown = Fetched /\ ~page'[d].editing
    BY <2>1 DEF NoPage
  <2>3. PageSound(d)'
    BY <1>1, <1>2, <2>2 DEF PageSound, Seen, Fetched
  <2>4. QED
    BY <1>3, <2>1, <2>3
<1>5. CASE StartEdit(d)
  <2>1. /\ page'[d].shown = page[d].shown
        /\ page'[d].form.of = page[d].shown.of
        /\ page'[d].form.columns =
             [c \in Columns |-> Resent[c][page[d].shown.columns[c]]]
        /\ \A q \in Drawers \ {d} : page'[q] = page[q]
        /\ req' = req
    BY <1>1, <1>5 DEF StartEdit, Page, Copy
  <2>2. PageSound(d)'
    BY <1>2, <2>1 DEF PageSound, Seen, Filled
  <2>3. QED
    BY <1>3, <2>1, <2>2
<1>6. CASE CancelEdit(d)
  <2>1. /\ page'[d].shown = page[d].shown /\ ~page'[d].editing
        /\ \A q \in Drawers \ {d} : page'[q] = page[q]
        /\ req' = req
    BY <1>1, <1>6 DEF CancelEdit, NoForm, Page
  <2>2. PageSound(d)'
    BY <1>2, <2>1 DEF PageSound, Seen
  <2>3. QED
    BY <1>3, <2>1, <2>2
<1>7. CASE SaveEdit(d)
  <2>0. page[d].editing
    BY <1>7 DEF SaveEdit
  <2>1. PICK new \in Content :
          LET form == SendForm(d, new)
              touched == SendTouched(d, new)
              call == [NoCall EXCEPT !.pc = "load", !.carries = form,
                                     !.touched = touched]
          IN  /\ call \in Call /\ Begin(d, call)
              /\ page' = [page EXCEPT ![d] =
                   [page[d] EXCEPT !.form = form, !.touched = touched]]
    BY <1>7, SaveEditBegins
  <2> DEFINE form == SendForm(d, new)
             touched == SendTouched(d, new)
             call == [NoCall EXCEPT !.pc = "load", !.carries = form,
                                    !.touched = touched]
  <2>2. Filled(form, touched)
    <3>1. /\ form.of = page[d].form.of /\ form.columns = new
          /\ \A c \in Columns \ touched :
               c \notin page[d].touched /\ new[c] = page[d].form.columns[c]
      BY <1>1 DEF SendForm, SendTouched, Page, Copy
    <3> HIDE DEF form, touched
    <3>2. QED
      BY <1>2, <2>0, <3>1 DEF PageSound, Filled
  <2> HIDE DEF form, touched
  <2>3. call \in Call /\ call.pc = "load" /\ call.carries = form
        /\ call.touched = touched
    BY <2>1 DEF NoCall, form, touched
  <2>4. CallSound(call)
    BY <2>2, <2>3 DEF CallSound
  <2>5. /\ page'[d].shown = page[d].shown
        /\ page'[d].form = form /\ page'[d].touched = touched
        /\ \A q \in Drawers \ {d} : page'[q] = page[q]
    BY <1>1, <2>1 DEF Page, form, touched
  <2>6. PageSound(d)'
    BY <1>2, <2>2, <2>5 DEF PageSound, Seen, Filled
  <2>7. Begin(d, call)
    BY <2>1 DEF form, touched
  <2> HIDE DEF call
  <2>8. QED
    BY <1>1, <2>3, <2>4, <2>5, <2>6, <2>7, PageOfOne, SaveBegins
<1>8. ASSUME page' = page, NEW call \in Call, Begin(d, call), CallSound(call)
      PROVE  SaveInv'
  BY <1>1, <1>8, PagesKept, SaveBegins
<1>9. CASE ChangeStatus(d)
  <2>1. PICK call \in Call : /\ Begin(d, call) /\ call.pc = "see"
                             /\ call.carries = page[d].shown
    BY <1>9, OthersBegin
  <2>2. CallSound(call) /\ page' = page
    BY <1>2, <1>9, <2>1 DEF PageSound, CallSound, ChangeStatus
  <2>3. QED
    BY <1>8, <2>1, <2>2
<1>10. CASE SaveAssignees(d) \/ CreateAndAssign(d) \/ AssignLabel(d)
  <2>1. PICK call \in Call : /\ Begin(d, call)
                             /\ call.pc \in {"snapshot", "name", "exists"}
    BY <1>10, OthersBegin
  <2>2. CallSound(call) /\ page' = page
    BY <1>10, <2>1 DEF CallSound, SaveAssignees, CreateAndAssign, AssignLabel
  <2>3. QED
    BY <1>8, <2>1, <2>2
<1>11. CASE Retry(d)
  <2>1. PICK call \in retry[d] : Begin(d, call)
    BY <1>11 DEF Retry
  <2>2. call \in Call /\ CallSound(call) /\ page' = page
    BY <1>1, <1>11, <2>1 DEF SaveInv, Retry
  <2>3. QED
    BY <1>8, <2>1, <2>2
<1>12. QED
  BY <1>4, <1>5, <1>6, <1>7, <1>9, <1>10, <1>11 DEF User

LEMMA SaveStep ==
  ASSUME Typed, Typed', CallInv, SaveInv, NEW d \in Drawers,
         Step(d) \/ Fails(d)
  PROVE  SaveInv'
<1>1. /\ page \in [Drawers -> Page] /\ page[d] \in Page
      /\ \A c \in Columns : version[c] \in Nat
  BY DEF Typed, TypeOK
<1>2. Newer /\ PageSound(d) /\ Running(d)
  BY StepNewer DEF SaveInv
<1>3. CASE Load(d)
  <2>1. /\ Moves(d, {"load"}, {"write"}) /\ req'[d].loaded = content
        /\ UNCHANGED <<content, version, page>>
    BY <1>3, EditMoves DEF Load
  <2>2. /\ req[d].pc = "load" /\ req'[d].call = req[d].call
        /\ \A q \in Drawers \ {d} : req'[q] = req[q]
    BY <2>1 DEF Moves
  <2>3. Filled(req[d].call.carries, req[d].call.touched)
    BY <1>2, <2>2 DEF CallInv, Running, CallSound
  <2>4. Running(d)'
    BY <1>2, <2>1, <2>2, <2>3
       DEF Running, CallSound, Loaded, Filled, Seen, CallInv
  <2>5. \A q \in Drawers : Running(q)'
    BY <1>2, <2>2, <2>4, RunningKept DEF SaveInv
  <2>6. QED
    BY <2>1, <2>5, PagesKept, SaveFrame
<1>4. CASE ~Load(d)
  <2>1. \E p \in Drawers, from \in SUBSET (Pc \ {"idle"}) :
          Moves(p, from, Pc \ {"write"})
    <3>1. {"idle", "see", "move", "moved", "snapshot", "find", "delete",
           "insert", "commit", "name", "create", "created", "exists", "tag",
           "refetch"} \subseteq Pc \ {"write"}
      BY DEF Pc
    <3>2. {"load", "write", "see", "move", "moved", "snapshot", "find",
           "delete", "insert", "commit", "name", "create", "created",
           "exists", "tag", "refetch"} \subseteq Pc \ {"idle"}
      BY DEF Pc
    <3>3. CASE Fails(d)
      <4>1. {req[d].pc} \subseteq Pc \ {"idle"}
        BY <3>3 DEF Fails, At, Typed, TypeOK, Request
      <4>2. Moves(d, {req[d].pc}, Pc \ {"write"})
        BY <3>1, <3>3, AbortMoves DEF Moves
      <4>3. QED
        BY <4>1, <4>2
    <3>4. CASE \E q \in Drawers \ {d} : BreakDeadlock(d, q)
      <4>1. PICK p \in Drawers : Moves(p, {"delete", "insert"}, {"idle"})
        BY <3>4, AbortMoves
      <4>2. Moves(p, {"delete", "insert"}, Pc \ {"write"})
        BY <3>1, <4>1 DEF Moves
      <4>3. QED
        BY <3>2, <4>2
    <3>5. CASE Step(d) /\ ~\E q \in Drawers \ {d} : BreakDeadlock(d, q)
      <4>1. Moves(d, Pc \ {"idle"}, Pc \ {"write"})
        BY <1>4, <3>1, <3>2, <3>5, EditMoves, ReassignMoves, LabelMoves
           DEF Step, Moves
      <4>2. QED
        BY <4>1
    <3>6. QED
      BY <3>3, <3>4, <3>5
  <2>2. \A q \in Drawers : Running(q)'
    BY <2>1, RunsOn
  <2>3. ASSUME \A q \in Drawers \ {d} : page'[q] = page[q], PageSound(d)'
        PROVE  SaveInv'
    BY <2>2, <2>3, PageOfOne, SaveFrame
  <2>4. CASE Moved(d)
    <3>1. /\ page'[d] = [page[d] EXCEPT !.shown = req[d].call.carries]
          /\ \A q \in Drawers \ {d} : page'[q] = page[q]
          /\ UNCHANGED <<content, version>>
          /\ req[d].pc = "moved"
      BY <1>1, <2>4 DEF Moved, At
    <3>2. Seen(req[d].call.carries)
      BY <1>2, <3>1 DEF CallInv, Running, CallSound
    <3>3. /\ page'[d].shown = req[d].call.carries
          /\ page'[d].editing = page[d].editing
          /\ page'[d].form = page[d].form
          /\ page'[d].touched = page[d].touched
      BY <1>1, <3>1 DEF Page
    <3>4. PageSound(d)'
      BY <1>2, <3>1, <3>2, <3>3 DEF PageSound, Seen, Filled
    <3>5. QED
      BY <2>3, <3>1, <3>4
  <2>5. CASE Refetch(d)
    <3> DEFINE p == IF req[d].call.pc = "load" THEN NoForm(d) ELSE page[d]
    <3>1. /\ page'[d] = [p EXCEPT !.shown = Fetched]
          /\ \A q \in Drawers \ {d} : page'[q] = page[q]
          /\ UNCHANGED <<content, version>>
      BY <1>1, <2>5 DEF Refetch
    <3>2. p \in Page /\ (p.editing => p = page[d])
      BY <1>1, NoRequestType DEF NoForm, Page
    <3> HIDE DEF p
    <3>3. /\ page'[d].shown = Fetched
          /\ page'[d].editing = p.editing
          /\ page'[d].form = p.form
          /\ page'[d].touched = p.touched
      BY <3>1, <3>2 DEF Page
    <3>4. PageSound(d)'
      BY <1>1, <1>2, <3>1, <3>2, <3>3 DEF PageSound, Seen, Filled, Fetched
    <3>5. QED
      BY <2>3, <3>1, <3>4
  <2>6. CASE ~Moved(d) /\ ~Refetch(d)
    <3>1. page' = page \/ Created(d)
      BY <1>4, <2>6 DEF Step, CommitEdit, See, CommitStatus, Snapshot, Find,
           Delete, Insert, CommitReassign, FindName, Create, FindTag, Tag,
           BreakDeadlock, Fails
    <3>2. \A q \in Drawers : /\ page'[q].shown = page[q].shown
                             /\ page'[q].editing = page[q].editing
                             /\ page'[q].form = page[q].form
                             /\ page'[q].touched = page[q].touched
      BY <1>1, <3>1 DEF Created, Page
    <3>3. QED
      BY <2>2, <3>2, PagesKept, SaveFrame
  <2>7. QED
    BY <2>4, <2>5, <2>6
<1>5. QED
  BY <1>3, <1>4

LEMMA SaveInductive ==
  ASSUME Typed, Typed', CallInv, SaveInv, [Next]_vars
  PROVE  SaveInv'
<1>1. CASE UNCHANGED vars
  BY <1>1 DEF SaveInv, PageSound, Running, Loaded, CallSound, Seen, Filled
<1>2. QED
  BY <1>1, SaveUser, SaveStep DEF Next

(* saveEdit of the board page and edit_work_item: the form sends all       *)
(* columns as startEdit filled it and its user typed, be it at once or by  *)
(* a Retry; whatever was displayed, fetched or tried in between, a commit  *)
(* changes of the columns that nobody has written since the form's GET     *)
(* only those its user typed and at most the time of day of the due date.  *)
THEOREM SaveKeepsRestCorrect == Spec => SaveKeepsRest
<1> DEFINE Inv == Typed /\ LinkInv /\ CallInv /\ SaveInv
           Keeps == \A d \in Drawers : CommitEdit(d) =>
                      \A c \in Columns \ req[d].call.touched :
                        req[d].call.carries.of[c] = version[c] =>
                          content'[c] = Resent[c][content[c]]
<1>1. Init => Inv
  <2> SUFFICES ASSUME Init PROVE Inv
    OBVIOUS
  <2>1. Typed /\ LinkInv /\ CallInv
    BY TypedInitially, LinksInitially, CallInitially
  <2>2. \A d \in Drawers :
          /\ page[d].shown = NoCopy /\ ~page[d].editing
          /\ req[d].pc = "idle" /\ req[d].call.pc = "idle"
          /\ retry[d] = {}
    BY NoRequestType DEF Init, NoPage, NoCall
  <2>3. Seen(NoCopy)
    BY DEF Init, Seen, NoCopy
  <2>4. SaveInv
    BY <2>2, <2>3 DEF SaveInv, PageSound, Running, CallSound
  <2>5. QED
    BY <2>1, <2>4
<1>2. Inv /\ [Next]_vars => Inv'
  BY LinksInductive, CallInductive, SaveInductive
<1>3. Inv => Keeps
  <2> SUFFICES ASSUME Inv, NEW d \in Drawers, CommitEdit(d),
                      NEW c \in Columns \ req[d].call.touched,
                      req[d].call.carries.of[c] = version[c]
               PROVE  content'[c] = Resent[c][content[c]]
    OBVIOUS
  <2>1. req[d].pc = "write"
    BY DEF CommitEdit, At
  <2>2. /\ req[d].loaded[c] = content[c]
        /\ req[d].call.carries.columns[c] = Resent[c][content[c]]
    BY <2>1 DEF SaveInv, Running, Loaded, CallSound, Filled, CallInv
  <2>3. content'[c] = Written(req[d].loaded[c],
                              req[d].call.carries.columns[c], content[c])
    BY DEF CommitEdit, Set
  <2>4. QED
    BY <2>2, <2>3 DEF Written
<1>4. QED
  BY <1>1, <1>2, <1>3, PTL DEF Spec, SaveKeepsRest
-----------------------------------------------------------------------------
(* As long as no functions overlapped, one drawer at most is busy, and     *)
(* what it read first is still so.                                         *)
Alone ==
  \A p, q \in Drawers : p # q => req[p].pc = "idle" \/ req[q].pc = "idle"

Fresh(d) ==
  /\ req[d].pc = "write" => req[d].loaded = content
  /\ req[d].pc = "move" => req[d].seen = status
  /\ req[d].pc \in {"find", "delete", "insert", "commit"} =>
       req[d].before = IdsOf(people)
  /\ req[d].pc \in {"delete", "insert", "commit"} => req[d].gone = people

Replayed ==
  /\ Replays(trail.edited, Original, content)
  /\ Replays(trail.status_changed, AnyStatus, status)
  /\ Replays(trail.reassigned, trail.promoted, IdsOf(people))

TrailInv ==
  ~overlapped => Alone /\ Replayed /\ \A d \in Drawers : Fresh(d)

LEMMA ReplaysAppend ==
  ASSUME NEW S, NEW entries \in Seq([before : S, after : S]),
         NEW first, NEW now, NEW e \in [before : S, after : S],
         Replays(entries, first, now), e.before = now
  PROVE  Replays(Append(entries, e), first, e.after)
<1> DEFINE more == Append(entries, e)
           n == Len(entries)
<1>1. /\ n \in Nat /\ Len(more) = n + 1 /\ more # <<>>
      /\ more[n + 1] = e /\ \A i \in 1..n : more[i] = entries[i]
  OBVIOUS
<1>2. CASE n = 0
  <2>1. entries = <<>>
    BY <1>2
  <2>2. now = first
    BY <2>1 DEF Replays
  <2>3. more[1].before = first /\ more[Len(more)].after = e.after
    BY <1>1, <1>2, <2>2
  <2>4. \A i \in 1..(Len(more) - 1) : more[i].after = more[i + 1].before
    BY <1>1, <1>2
  <2> HIDE DEF more
  <2>5. QED
    BY <1>1, <2>3, <2>4 DEF Replays, more
<1>3. CASE n # 0
  <2>1. entries # <<>>
    BY <1>3
  <2>2. /\ entries[1].before = first /\ entries[n].after = now
        /\ \A i \in 1..(n - 1) : entries[i].after = entries[i + 1].before
    BY <2>1 DEF Replays
  <2>3. more[1].before = first /\ more[Len(more)].after = e.after
    BY <1>1, <1>3, <2>2
  <2>4. ASSUME NEW i \in 1..(Len(more) - 1)
        PROVE  more[i].after = more[i + 1].before
    <3>1. i \in 1..n /\ more[i] = entries[i]
      BY <1>1
    <3>2. CASE i = n
      BY <1>1, <2>2, <3>1, <3>2
    <3>3. CASE i # n
      <4>1. i \in 1..(n - 1) /\ i + 1 \in 1..n
        BY <1>1, <3>1, <3>3
      <4>2. more[i + 1] = entries[i + 1]
        BY <1>1, <4>1
      <4> HIDE DEF more
      <4>3. QED
        BY <2>2, <3>1, <4>1, <4>2
    <3>4. QED
      BY <3>2, <3>3
  <2> HIDE DEF more
  <2>5. QED
    BY <1>1, <2>3, <2>4 DEF Replays, more
<1>4. QED
  BY <1>2, <1>3

(* The rows a reassignment inserts are those its audit entry lists.        *)
LEMMA NewRowsListed ==
  ASSUME Typed, NEW d \in Drawers, req[d].pc = "commit"
  PROVE  IdsOf(NewRows(d)) = Listed(req[d].call.draft)
<1>1. /\ req[d].call.draft \in Drafts /\ req[d].put = Len(req[d].call.draft)
      /\ DOMAIN req[d].call.draft = 1..Len(req[d].call.draft)
      /\ Len(req[d].call.draft) \in Nat
  BY DraftsType DEF Typed, TypeOK, PutSound, Request, Call
<1>2. NewRows(d) = {NewRow(d, i) : i \in DOMAIN req[d].call.draft}
  BY <1>1 DEF NewRows
<1>3. CASE req[d].call.draft = <<>>
  <2>1. NewRows(d) = {}
    BY <1>2, <1>3
  <2>2. QED
    BY <1>3, <2>1 DEF IdsOf, Listed
<1>4. CASE req[d].call.draft # <<>>
  <2>1. 1 \in DOMAIN req[d].call.draft
    <3>1. PICK n \in 0..Cardinality(Assignees) :
            req[d].call.draft \in [1..n -> Assignees]
      BY <1>1 DEF Drafts
    <3>2. req[d].call.draft \in Seq(Assignees)
      BY <3>1, DraftsType
    <3>3. QED
      BY <1>1, <1>4, <3>2
  <2>2. /\ NewRow(d, 1).primary /\ NewRow(d, 1).who = req[d].call.draft[1]
        /\ NewRow(d, 1) \in NewRows(d)
    BY <1>2, <2>1 DEF NewRow
  <2>3. \A p \in NewRows(d) : p.primary => p = NewRow(d, 1)
    <3>1. \A i \in DOMAIN req[d].call.draft : NewRow(d, i).primary <=> i = 1
      BY DEF NewRow
    <3>2. QED
      BY <1>2, <3>1
  <2>4. {p \in NewRows(d) : p.primary} = {NewRow(d, 1)}
    BY <2>2, <2>3
  <2>5. {p.who : p \in NewRows(d)}
          = {req[d].call.draft[i] : i \in DOMAIN req[d].call.draft}
    <3>1. \A i \in DOMAIN req[d].call.draft : NewRow(d, i).who = req[d].call.draft[i]
      BY DEF NewRow
    <3>2. QED
      BY <1>2, <3>1
  <2>6. (CHOOSE p \in {NewRow(d, 1)} : TRUE) = NewRow(d, 1)
    OBVIOUS
  <2>7. IdsOf(NewRows(d)) = [first |-> NewRow(d, 1).who,
                             all |-> {p.who : p \in NewRows(d)}]
    BY <2>2, <2>4, <2>6 DEF IdsOf
  <2>8. QED
    BY <1>4, <2>2, <2>5, <2>7 DEF Listed
<1>5. QED
  BY <1>3, <1>4

LEMMA AloneKept ==
  ASSUME Alone, NEW d \in Drawers, NEW from, NEW to, Moves(d, from, to),
         \/ req[d].pc # "idle"
         \/ req'[d].pc = "idle"
         \/ \A q \in Drawers \ {d} : req[q].pc = "idle"
  PROVE  Alone'
<1>1. \A q \in Drawers \ {d} : req'[q] = req[q]
  BY DEF Moves
<1>2. req'[d].pc = "idle" \/ \A q \in Drawers \ {d} : req[q].pc = "idle"
  BY DEF Alone
<1>3. QED
  BY <1>1, <1>2 DEF Alone

(* Steps that neither read the row for a write nor write it. *)
LEMMA TrailFrame ==
  ASSUME TrailInv, NEW d \in Drawers,
         Moves(d, Pc, Pc \ {"write", "move", "find", "delete", "insert",
                            "commit"}),
         UNCHANGED rowVars,
         ~overlapped' =>
           /\ ~overlapped
           /\ \/ req[d].pc # "idle"
              \/ req'[d].pc = "idle"
              \/ \A q \in Drawers \ {d} : req[q].pc = "idle"
  PROVE  TrailInv'
<1> SUFFICES ASSUME ~overlapped'
             PROVE  Alone' /\ Replayed' /\ \A q \in Drawers : Fresh(q)'
  BY DEF TrailInv
<1>1. ~overlapped /\ Alone /\ Replayed /\ \A q \in Drawers : Fresh(q)
  BY DEF TrailInv
<1>2. Alone'
  BY <1>1, AloneKept
<1>3. Replayed'
  BY <1>1 DEF Replayed
<1>4. Fresh(d)'
  BY DEF Moves, Fresh
<1>5. \A q \in Drawers \ {d} : Fresh(q)'
  BY <1>1 DEF Moves, Fresh
<1>6. QED
  BY <1>2, <1>3, <1>4, <1>5

LEMMA TrailReads ==
  ASSUME Typed, TrailInv, NEW d \in Drawers,
         \/ Load(d) \/ See(d) \/ Snapshot(d) \/ Find(d) \/ Delete(d)
         \/ Insert(d)
  PROVE  TrailInv'
<1>1. UNCHANGED <<rowVars, overlapped>>
  BY DEF Load, See, Snapshot, Find, Delete, Insert
<1> SUFFICES ASSUME ~overlapped
             PROVE  Alone' /\ Replayed' /\ \A q \in Drawers : Fresh(q)'
  BY <1>1 DEF TrailInv
<1>2. Alone /\ Replayed /\ \A q \in Drawers : Fresh(q)
  BY DEF TrailInv
<1>3. /\ \E to : Moves(d, Pc \ {"idle"}, to)
      /\ Fresh(d)'
  <2>1. CASE Load(d) \/ See(d)
    BY <1>1, <2>1, EditMoves DEF Moves, Fresh, Pc
  <2>2. CASE Snapshot(d)
    BY <1>1, <2>2, ReassignMoves DEF Moves, Fresh, Pc
  <2>3. CASE Find(d)
    BY <1>1, <1>2, <2>3, ReassignMoves DEF Moves, Fresh, Pc
  <2>4. CASE Delete(d)
    <3>1. /\ Moves(d, {"delete"}, {"insert", "commit"})
          /\ req'[d].before = req[d].before
          /\ req'[d].gone = req[d].gone \cap people
      BY <2>4, ReassignMoves
    <3>2. req[d].before = IdsOf(people) /\ req[d].gone = people
      BY <1>2, <3>1 DEF Fresh, Moves
    <3>3. QED
      BY <1>1, <3>1, <3>2 DEF Moves, Fresh, Pc
  <2>5. CASE Insert(d)
    BY <1>1, <1>2, <2>5, ReassignMoves DEF Moves, Fresh, Pc
  <2>6. QED
    BY <2>1, <2>2, <2>3, <2>4, <2>5
<1>4. Alone'
  <2>1. PICK to : Moves(d, Pc \ {"idle"}, to)
    BY <1>3
  <2>2. req[d].pc # "idle"
    BY <2>1 DEF Moves
  <2>3. QED
    BY <1>2, <2>1, <2>2, AloneKept
<1>5. \A q \in Drawers \ {d} : Fresh(q)'
  BY <1>1, <1>2, <1>3 DEF Moves, Fresh
<1>6. QED
  BY <1>1, <1>2, <1>3, <1>4, <1>5 DEF Replayed

(* A commit appends what its function read first and what it then wrote.   *)
LEMMA TrailCommits ==
  ASSUME Typed, TrailInv, NEW d \in Drawers,
         CommitEdit(d) \/ CommitStatus(d) \/ CommitReassign(d)
  PROVE  TrailInv'
<1>1. overlapped' = overlapped
  BY DEF CommitEdit, CommitStatus, CommitReassign
<1> SUFFICES ASSUME ~overlapped
             PROVE  Alone' /\ Replayed' /\ \A q \in Drawers : Fresh(q)'
  BY <1>1 DEF TrailInv
<1>2. Alone /\ Replayed /\ Fresh(d)
  BY DEF TrailInv
<1>3. Moves(d, {"write", "move", "commit"}, {"refetch", "moved"})
  BY EditMoves, ReassignMoves DEF Moves
<1>4. \A q \in Drawers \ {d} : req[q].pc = "idle"
  BY <1>2, <1>3 DEF Alone, Moves
<1>5. Alone'
  BY <1>2, <1>3, <1>4, AloneKept
<1>6. \A q \in Drawers : Fresh(q)'
  BY <1>3, <1>4 DEF Moves, Fresh
<1>7. req[d] \in Request /\ trail \in Trail
  BY DEF Typed, TypeOK
<1>8. CASE CommitEdit(d)
  <2> DEFINE sent == req[d].call.carries.columns
             e == [before |-> req[d].loaded, after |-> sent]
  <2>1. req[d].loaded = content /\ sent \in Content
    BY <1>2, <1>7, <1>8 DEF CommitEdit, At, Fresh, Request, Call, Copy
  <2>2. content' = sent
    <3>1. content \in [Columns -> Values] /\ sent \in [Columns -> Values]
      BY <2>1 DEF Typed, TypeOK, Content
    <3>2. content' = [c \in Columns |->
                        Written(content[c], sent[c], content[c])]
      BY <1>8, <2>1 DEF CommitEdit, Set
    <3>3. \A c \in Columns : content'[c] = sent[c]
      BY <3>2 DEF Written
    <3>4. QED
      BY <3>1, <3>2, <3>3
  <2>3. /\ trail' = [trail EXCEPT !.edited = Append(@, e)]
        /\ UNCHANGED <<status, people>>
    BY <1>8 DEF CommitEdit
  <2>4. e \in [before : Content, after : Content]
    BY <1>7, <2>1 DEF Request
  <2>5. e.before = content /\ e.after = content'
    BY <2>1, <2>2
  <2> HIDE DEF e
  <2>6. Replays(Append(trail.edited, e), Original, content')
    BY <1>2, <1>7, <2>4, <2>5, ReplaysAppend DEF Replayed, Trail
  <2>7. /\ trail'.edited = Append(trail.edited, e)
        /\ trail'.status_changed = trail.status_changed
        /\ trail'.reassigned = trail.reassigned
        /\ trail'.promoted = trail.promoted
    BY <1>7, <2>3 DEF Trail
  <2>8. Replayed'
    BY <1>2, <2>3, <2>6, <2>7 DEF Replayed
  <2>9. QED
    BY <1>5, <1>6, <2>8
<1>9. CASE CommitStatus(d)
  <2> DEFINE e == [before |-> req[d].seen, after |-> req[d].call.to]
  <2>1. req[d].seen = status
    BY <1>2, <1>9 DEF CommitStatus, At, Fresh
  <2>2. status' = req[d].call.to
    BY <1>9, <2>1 DEF CommitStatus, Written
  <2>3. /\ trail' = [trail EXCEPT !.status_changed = Append(@, e)]
        /\ UNCHANGED <<content, people>>
    BY <1>9 DEF CommitStatus
  <2>4. e \in [before : Statuses, after : Statuses]
    BY <1>7 DEF Request, Call
  <2>5. e.before = status /\ e.after = status'
    BY <2>1, <2>2
  <2> HIDE DEF e
  <2>6. Replays(Append(trail.status_changed, e), AnyStatus, status')
    BY <1>2, <1>7, <2>4, <2>5, ReplaysAppend DEF Replayed, Trail
  <2>7. /\ trail'.edited = trail.edited
        /\ trail'.status_changed = Append(trail.status_changed, e)
        /\ trail'.reassigned = trail.reassigned
        /\ trail'.promoted = trail.promoted
    BY <1>7, <2>3 DEF Trail
  <2>8. Replayed'
    BY <1>2, <2>3, <2>6, <2>7 DEF Replayed
  <2>9. QED
    BY <1>5, <1>6, <2>8
<1>10. CASE CommitReassign(d)
  <2> DEFINE e == [before |-> req[d].before, after |-> Listed(req[d].call.draft)]
  <2>1. /\ req[d].pc = "commit" /\ req[d].before = IdsOf(people)
        /\ req[d].gone = people
    BY <1>2, <1>10 DEF CommitReassign, At, Fresh
  <2>2. people' = NewRows(d)
    BY <1>10, <2>1 DEF CommitReassign, Left
  <2>3. /\ trail' = [trail EXCEPT !.reassigned = Append(@, e)]
        /\ UNCHANGED <<content, status>>
    BY <1>10 DEF CommitReassign
  <2>4. e \in [before : Ids, after : Ids]
    BY <1>7, IdsType DEF Request, Call
  <2>5. e.before = IdsOf(people) /\ e.after = IdsOf(people')
    BY <2>1, <2>2, NewRowsListed
  <2> HIDE DEF e
  <2>6. Replays(Append(trail.reassigned, e), trail.promoted, IdsOf(people'))
    <3>1. trail.reassigned \in Seq([before : Ids, after : Ids])
      BY <1>7 DEF Trail
    <3>2. Replays(trail.reassigned, trail.promoted, e.before)
      BY <1>2, <2>5 DEF Replayed
    <3>3. Replays(Append(trail.reassigned, e), trail.promoted, e.after)
      BY <2>4, <3>1, <3>2, ReplaysAppend
    <3>4. QED
      BY <2>5, <3>3
  <2>7. /\ trail'.edited = trail.edited
        /\ trail'.status_changed = trail.status_changed
        /\ trail'.reassigned = Append(trail.reassigned, e)
        /\ trail'.promoted = trail.promoted
    BY <1>7, <2>3 DEF Trail
  <2>8. IdsOf(people') = IdsOf(people)'
    BY DEF IdsOf
  <2>9. Replayed'
    BY <1>2, <2>3, <2>6, <2>7, <2>8 DEF Replayed
  <2>10. QED
    BY <1>5, <1>6, <2>9
<1>11. QED
  BY <1>8, <1>9, <1>10

LEMMA TrailInductive ==
  ASSUME Typed, TrailInv, [Next]_vars
  PROVE  TrailInv'
<1> DEFINE done == Pc \ {"write", "move", "find", "delete", "insert", "commit"}
<1>1. CASE UNCHANGED vars
  BY <1>1 DEF TrailInv, Alone, Replayed, Fresh
<1>2. ASSUME NEW d \in Drawers, User(d) PROVE TrailInv'
  <2>1. UNCHANGED rowVars
    BY <1>2 DEF User, Open, StartEdit, CancelEdit, SaveEdit, ChangeStatus,
         SaveAssignees, CreateAndAssign, AssignLabel, Retry, Begin
  <2>2. \/ req' = req /\ overlapped' = overlapped
        \/ \E call : Begin(d, call)
    BY <1>2 DEF User, Open, StartEdit, CancelEdit, SaveEdit, ChangeStatus,
         SaveAssignees, CreateAndAssign, AssignLabel, Retry
  <2>3. CASE req' = req /\ overlapped' = overlapped
    BY <2>1, <2>3 DEF TrailInv, Alone, Replayed, Fresh
  <2>4. CASE req' # req /\ \E call : Begin(d, call)
    <3>1. Moves(d, {"idle"}, {"load", "see", "snapshot", "name", "exists",
                              "idle"})
      BY <1>2, <2>4, UserMoves
    <3>2. Moves(d, Pc, done)
      BY <3>1 DEF Moves, Pc
    <3>3. ~overlapped' =>
            ~overlapped /\ \A q \in Drawers \ {d} : req[q].pc = "idle"
      BY <2>4 DEF Begin, At
    <3>4. QED
      BY <2>1, <3>2, <3>3, TrailFrame
  <2>5. CASE req' = req /\ \E call : Begin(d, call)
    <3>1. ~overlapped' => ~overlapped
      BY <2>5 DEF Begin
    <3>2. QED
      BY <2>1, <2>5, <3>1 DEF TrailInv, Alone, Replayed, Fresh
  <2>6. QED
    BY <2>2, <2>3, <2>4, <2>5
<1>3. ASSUME NEW d \in Drawers,
             \/ FindName(d) \/ Create(d) \/ Created(d) \/ FindTag(d)
             \/ Tag(d) \/ Moved(d) \/ Refetch(d) \/ Fails(d)
             \/ \E q \in Drawers \ {d} : BreakDeadlock(d, q)
      PROVE  TrailInv'
  <2>1. \E p \in Drawers : Moves(p, Pc \ {"idle"}, done)
    <3>1. {"name", "create", "created", "exists", "tag", "moved", "refetch",
           "delete", "insert"} \subseteq Pc \ {"idle"}
      BY DEF Pc
    <3>2. {"idle", "create", "created", "exists", "tag", "refetch"}
            \subseteq done
      BY DEF Pc
    <3>3. CASE Fails(d)
      <4>1. req[d].pc \in Pc \ {"idle"}
        BY <3>3 DEF Fails, At, Typed, TypeOK, Request
      <4>2. QED
        BY <3>2, <3>3, <4>1, AbortMoves DEF Moves
    <3>4. CASE \E q \in Drawers \ {d} : BreakDeadlock(d, q)
      BY <3>1, <3>2, <3>4, AbortMoves DEF Moves
    <3>5. CASE \/ FindName(d) \/ Create(d) \/ Created(d) \/ FindTag(d)
               \/ Tag(d) \/ Moved(d) \/ Refetch(d)
      BY <3>1, <3>2, <3>5, EditMoves, LabelMoves DEF Moves
    <3>6. QED
      BY <1>3, <3>3, <3>4, <3>5
  <2>2. PICK p \in Drawers : Moves(p, Pc \ {"idle"}, done)
    BY <2>1
  <2>3. Moves(p, Pc, done) /\ req[p].pc # "idle"
    BY <2>2 DEF Moves
  <2>4. UNCHANGED <<rowVars, overlapped>>
    BY <1>3 DEF FindName, Create, Created, FindTag, Tag, Moved, Refetch,
                Fails, BreakDeadlock
  <2>5. QED
    BY <2>3, <2>4, TrailFrame
<1>4. QED
  BY <1>1, <1>2, <1>3, TrailReads, TrailCommits DEF Next, Step

(* The audit entries of edit_work_item, change_status and                  *)
(* reassign_work_item replay the item from what the approval stored, as    *)
(* long as no functions overlapped and whatever failed.                    *)
THEOREM TrailReplaysCorrect == Spec => []TrailReplays
<1> DEFINE Inv == Typed /\ LinkInv /\ TrailInv
<1>1. Init => Inv
  <2> SUFFICES ASSUME Init PROVE Inv
    OBVIOUS
  <2>1. Typed /\ LinkInv
    BY TypedInitially, LinksInitially
  <2>2. \A d \in Drawers : req[d].pc = "idle"
    BY NoRequestType DEF Init
  <2>3. Alone /\ \A d \in Drawers : Fresh(d)
    BY <2>2 DEF Alone, Fresh
  <2>4. /\ trail.edited = <<>> /\ trail.status_changed = <<>>
        /\ trail.reassigned = <<>> /\ trail.promoted = IdsOf(people)
    BY DEF Init
  <2>5. Replayed
    BY <2>4 DEF Init, Replayed, Replays
  <2>6. QED
    BY <2>1, <2>3, <2>5 DEF TrailInv
<1>2. Inv /\ [Next]_vars => Inv'
  BY LinksInductive, TrailInductive
<1>3. Inv => TrailReplays
  BY DEF TrailInv, Replayed, TrailReplays
<1>4. QED
  BY <1>1, <1>2, <1>3, PTL DEF Spec
=============================================================================
