--------------------------- MODULE Review_proofs ---------------------------
(***************************************************************************)
(* Theorems about Review for every set of candidates, of requests and of   *)
(* people, and every number of requests.                                   *)
(***************************************************************************)
EXTENDS Review, TLAPS

(* A tuple of variables is always expanded. *)
USE DEF vars, dbVars, botVars, asked
-----------------------------------------------------------------------------
(* What a PATCH body may hold. *)
LEMMA EditType ==
  ASSUME NEW edit \in Edits
  PROVE  /\ edit.title \in Titles \cup {"omitted"}
         /\ edit.who \in Assignees \cup {"nobody", "omitted"}
<1>1. CASE edit \in Forms
  BY <1>1 DEF Forms
<1>2. CASE edit \in Picks
  BY <1>2 DEF Picks
<1>3. CASE edit \in Field \cup Due \cup {NoEdit}
  BY <1>3 DEF Field, Due, NoEdit
<1>4. QED
  BY <1>1, <1>2, <1>3 DEF Edits

LEMMA NoRequestType == NoRequest \in Request /\ NoRequest.pc = "idle"
<1>1. (CHOOSE c \in Candidates : TRUE) \in Candidates
  BY ReviewAssumption
<1>2. Created[CHOOSE c \in Candidates : TRUE] \in Row
  BY <1>1, ReviewAssumption
<1>3. NoEdit \in Edits
  BY DEF Edits
<1>4. 0 \in 0..MaxRequests
  BY ReviewAssumption
<1>5. QED
  BY <1>1, <1>2, <1>3, <1>4
     DEF NoRequest, Request, Pc, Ops, Sources, People

LEMMA GoToType ==
  ASSUME TypeOK, NEW r \in Requests, NEW pc \in Pc, GoTo(r, pc)
  PROVE  req' \in [Requests -> Request]
<1>1. [req[r] EXCEPT !.pc = pc] \in Request
  BY DEF TypeOK, Request
<1>2. QED
  BY <1>1 DEF TypeOK, GoTo

LEMMA EndType ==
  ASSUME TypeOK, NEW r \in Requests, End(r)
  PROVE  req' \in [Requests -> Request]
BY NoRequestType DEF TypeOK, End

LEMMA AskType ==
  ASSUME TypeOK, NEW r \in Requests, NEW op \in Ops, NEW from \in Sources,
         NEW c \in Candidates, NEW edit \in Edits, Ask(r, op, from, c, edit)
  PROVE  TypeOK'
<1>1. made + 1 \in 0..MaxRequests
  BY ReviewAssumption DEF TypeOK, Ask
<1>2. (IF from = "command" THEN "load" ELSE "guard") \in Pc
  BY DEF Pc
<1>3. [NoRequest EXCEPT !.nr = made + 1, !.op = op, !.from = from,
                        !.cand = c, !.edit = edit,
                        !.pc = IF from = "command" THEN "load" ELSE "guard"]
        \in Request
  BY <1>1, <1>2, NoRequestType DEF Request
<1>4. req' \in [Requests -> Request]
  BY <1>3 DEF TypeOK, Ask
<1>5. QED
  BY <1>1, <1>4 DEF TypeOK, Ask
-----------------------------------------------------------------------------
(* The assignees an edit links are assignee rows. *)
LEMMA NewPeopleType ==
  ASSUME TypeOK, NEW r \in Requests, ReplacesPeople(r)
  PROVE  NewPeople(r) \in People
<1>1. /\ req[r].edit.who \in Assignees \cup {"nobody"}
      /\ req[r].nr \in 0..MaxRequests
  BY EditType DEF TypeOK, Request, ReplacesPeople
<1>2. CASE req[r].edit.who = "nobody"
  BY <1>2 DEF NewPeople, People
<1>3. CASE req[r].edit.who # "nobody"
  BY <1>1, <1>3 DEF NewPeople, People, Link
<1>4. QED
  BY <1>2, <1>3

(* What an edit commits is a candidate. *)
LEMMA EditedType ==
  ASSUME TypeOK, NEW r \in Requests
  PROVE  LET c == Cand(r)
             old == req[r].loaded
         IN [status |-> Written(old.status, "edited", row[c].status),
             title |-> Written(old.title, NewTitle(r), row[c].title),
             due |-> Written(old.due, NewDue(r), row[c].due),
             missing |-> Written(old.missing, NewMissing(r), row[c].missing),
             people |-> IF ReplacesPeople(r)
                        THEN PeopleLeft(r) \cup NewPeople(r)
                        ELSE row[c].people] \in Row
<1> DEFINE c == Cand(r)
           old == req[r].loaded
<1>1. row[c] \in Row /\ old \in Row /\ req[r].edit \in Edits
  BY DEF TypeOK, Request, Cand
<1>2. Written(old.status, "edited", row[c].status) \in CStatus
  BY <1>1 DEF Written, Row, CStatus
<1>3. NewTitle(r) \in Titles
  BY <1>1, EditType DEF NewTitle, Row
<1>4. NewDue(r) \in BOOLEAN
  BY <1>1 DEF NewDue, Row
<1>5. NewMissing(r) \in SUBSET {"assignee", "due_date"}
  BY <1>1 DEF NewMissing, Row
<1>6. (IF ReplacesPeople(r) THEN PeopleLeft(r) \cup NewPeople(r)
       ELSE row[c].people) \in People
  BY <1>1, NewPeopleType DEF PeopleLeft, Row, People
<1>7. QED
  BY <1>1, <1>2, <1>3, <1>4, <1>5, <1>6 DEF Written, Row

(* A commit of a candidate keeps the types of what it touches. *)
LEMMA NamesType ==
  ASSUME NEW people \in People PROVE Names(people) \in SUBSET Named
BY DEF Names, Named, People, Link

LEMMA CommittedType ==
  ASSUME TypeOK, NEW c \in Candidates, NEW new \in Row, Committed(c, new)
  PROVE  /\ row' \in [Candidates -> Row]
         /\ versions' \in [Candidates -> SUBSET Version]
<1>1. VersionOf(new) \in Version
  BY NamesType DEF VersionOf, Version, Row
<1>2. QED
  BY <1>1 DEF TypeOK, Committed

LEMMA AuditedType ==
  ASSUME TypeOK, NEW c \in Candidates, NEW action \in Outcome,
         NEW item \in Nat, Audited(c, action, item)
  PROVE  trail' \in Seq(Entry)
BY DEF TypeOK, Audited, Entry
-----------------------------------------------------------------------------
(* Every step keeps the types: first the commits... *)
LEMMA TypeCommit ==
  ASSUME TypeOK, NEW r \in Requests, CommitEdit(r) \/ Settle(r) \/ Approve(r)
  PROVE  TypeOK'
<1>1. Cand(r) \in Candidates /\ req[r].loaded \in Row /\ row[Cand(r)] \in Row
  BY DEF TypeOK, Request, Cand
<1>2. CASE CommitEdit(r)
  <2>1. /\ row' \in [Candidates -> Row]
        /\ versions' \in [Candidates -> SUBSET Version]
    BY <1>1, <1>2, EditedType, CommittedType DEF CommitEdit
  <2>2. trail' \in Seq(Entry)
    BY <1>1, <1>2, AuditedType DEF CommitEdit, Outcome
  <2>3. req' \in [Requests -> Request]
    BY <1>2, GoToType, EndType DEF CommitEdit, Pc
  <2>4. QED
    BY <1>2, <2>1, <2>2, <2>3 DEF CommitEdit, TypeOK
<1>3. CASE Settle(r)
  <2> DEFINE to == IF req[r].op = "reject" THEN "rejected" ELSE "duplicate"
             new == [row[Cand(r)] EXCEPT !.status =
                       Written(req[r].loaded.status, to, row[Cand(r)].status)]
  <2>1. new \in Row
    BY <1>1 DEF Written, Row, CStatus
  <2>2. Committed(Cand(r), new) /\ Audited(Cand(r), to, 0)
    BY <1>3 DEF Settle
  <2>3. to \in Outcome
    BY DEF Outcome
  <2> HIDE DEF to, new
  <2>4. /\ row' \in [Candidates -> Row]
        /\ versions' \in [Candidates -> SUBSET Version]
    BY <1>1, <2>1, <2>2, CommittedType
  <2>5. trail' \in Seq(Entry)
    BY <1>1, <2>2, <2>3, AuditedType
  <2>6. req' \in [Requests -> Request]
    BY <1>3, EndType DEF Settle
  <2>7. QED
    BY <1>3, <2>4, <2>5, <2>6 DEF Settle, TypeOK
<1>4. CASE Approve(r)
  <2>1. [row[Cand(r)] EXCEPT !.status = "approved"] \in Row
    BY <1>1 DEF Row, CStatus
  <2>2. /\ row' \in [Candidates -> Row]
        /\ versions' \in [Candidates -> SUBSET Version]
    BY <1>1, <1>4, <2>1, CommittedType DEF Approve
  <2>3. Len(items) + 1 \in Nat
    BY DEF TypeOK
  <2>4. trail' \in Seq(Entry)
    BY <1>1, <1>4, <2>3, AuditedType DEF Approve, Outcome
  <2>5. [cand |-> Cand(r), title |-> req[r].loaded.title,
         people |-> Names(req[r].people)] \in Item
    BY <1>1, NamesType DEF TypeOK, Request, Row, Item
  <2>6. items' \in Seq(Item)
    BY <1>4, <2>5 DEF Approve, TypeOK
  <2>7. req' \in [Requests -> Request]
    BY <1>4, GoToType, EndType DEF Approve, Pc
  <2>8. QED
    BY <1>4, <2>2, <2>4, <2>6, <2>7 DEF Approve, TypeOK
<1>5. QED
  BY <1>2, <1>3, <1>4

(* ...then the steps inside a transaction... *)
LEMMA TypeInside ==
  ASSUME TypeOK, NEW r \in Requests,
         \/ Guard(r) \/ Load(r) \/ Flush(r) \/ Find(r) \/ Delete(r)
         \/ EditConflicts(r) \/ Insert(r) \/ Copy(r) \/ Fails(r)
         \/ \E q \in Requests \ {r} : BreakDeadlock(r, q)
  PROVE  TypeOK'
<1>1. /\ req[r] \in Request /\ Cand(r) \in Candidates
      /\ row[Cand(r)] \in Row
  BY DEF TypeOK, Request, Cand
<1>2. row[Cand(r)].people \in People
  BY <1>1 DEF Row
<1>3. req' \in [Requests -> Request]
  <2>1. CASE Guard(r) \/ Flush(r) \/ EditConflicts(r) \/ Insert(r) \/ Fails(r)
    BY <2>1, GoToType, EndType
       DEF Guard, Flush, EditConflicts, Insert, Fails, Pc
  <2>2. CASE Load(r)
    <3> DEFINE pc == CASE req[r].op = "approve" -> "insert"
                       [] req[r].op = "edit" /\ ReplacesPeople(r) -> "flush"
                       [] OTHER -> "write"
    <3>1. pc \in Pc
      BY DEF Pc
    <3>2. \/ End(r)
          \/ req' = [req EXCEPT ![r].loaded = row[Cand(r)], ![r].pc = pc]
      BY <2>2 DEF Load
    <3> HIDE DEF pc
    <3>3. [req[r] EXCEPT !.loaded = row[Cand(r)], !.pc = pc] \in Request
      BY <1>1, <3>1 DEF Request
    <3>4. QED
      BY <3>2, <3>3, EndType DEF TypeOK
  <2>3. CASE Find(r) \/ Delete(r) \/ Copy(r)
    <3>1. PICK pc \in Pc, p \in People :
            req' = [req EXCEPT ![r].pc = pc, ![r].people = p]
      <4>1. req[r].people \cap row[Cand(r)].people \in People
        BY <1>2 DEF People
      <4>2. QED
        BY <1>2, <2>3, <4>1 DEF Find, Delete, Copy, Pc
    <3>2. [req[r] EXCEPT !.pc = pc, !.people = p] \in Request
      BY <1>1 DEF Request
    <3>3. QED
      BY <3>1, <3>2 DEF TypeOK
  <2>4. CASE \E q \in Requests \ {r} : BreakDeadlock(r, q)
    BY <2>4, EndType DEF BreakDeadlock
  <2>5. QED
    BY <2>1, <2>2, <2>3, <2>4
<1>4. UNCHANGED <<dbVars, botVars, asked>>
  BY DEF Guard, Load, Flush, Find, Delete, EditConflicts, Insert, Copy,
         Fails, BreakDeadlock
<1>5. QED
  BY <1>3, <1>4 DEF TypeOK

(* ...and the bot's and the admins'. *)
LEMMA TypeAround ==
  ASSUME TypeOK
  PROVE  /\ \A r \in Requests :
              \/ FromWeb(r) \/ FromCard(r) \/ FromCommand(r)
              \/ Push(r) \/ Refresh(r)
              => TypeOK'
         /\ \A c \in Candidates : ShowCard(c) => TypeOK'
<1>1. ASSUME NEW c \in Candidates PROVE Ready(c) \in BOOLEAN
  BY DEF Ready
<1>2. ASSUME NEW c \in Candidates, Show(c)
      PROVE  offered' \in [Candidates -> BOOLEAN]
  BY <1>1, <1>2 DEF Show, TypeOK
<1>3. ASSUME NEW r \in Requests, Push(r) PROVE TypeOK'
  <2>1. req' \in [Requests -> Request] /\ Cand(r) \in Candidates
    BY <1>3, EndType DEF Push, TypeOK, Request, Cand
  <2>2. QED
    BY <1>3, <2>1 DEF Push, TypeOK
<1>4. ASSUME NEW r \in Requests, Refresh(r) PROVE TypeOK'
  <2>1. req' \in [Requests -> Request] /\ Cand(r) \in Candidates
    BY <1>4, EndType DEF Refresh, TypeOK, Request, Cand
  <2>2. QED
    BY <1>2, <1>4, <2>1 DEF Refresh, TypeOK
<1>5. ASSUME NEW r \in Requests, FromWeb(r) \/ FromCard(r) \/ FromCommand(r)
      PROVE  TypeOK'
  <2>1. PICK op \in Ops, from \in Sources, c \in Candidates, edit \in Edits :
          Ask(r, op, from, c, edit)
    BY <1>5 DEF FromWeb, FromCard, FromCommand, Ops, Sources, Edits
  <2>2. QED
    BY <2>1, AskType
<1>6. ASSUME NEW c \in Candidates, ShowCard(c) PROVE TypeOK'
  BY <1>2, <1>6 DEF ShowCard, TypeOK
<1>7. QED
  BY <1>3, <1>4, <1>5, <1>6

LEMMA TypeInit == Init => TypeOK
<1> SUFFICES ASSUME Init PROVE TypeOK
  OBVIOUS
<1>1. ASSUME NEW c \in Candidates PROVE VersionOf(Created[c]) \in Version
  BY NamesType, ReviewAssumption DEF VersionOf, Version, Row
<1>2. versions \in [Candidates -> SUBSET Version]
  BY <1>1 DEF Init
<1>3. /\ row \in [Candidates -> Row]
      /\ made \in 0..MaxRequests
  BY ReviewAssumption DEF Init
<1>4. overlapped \in BOOLEAN
  BY Zenon DEF Init
<1>5. /\ req \in [Requests -> Request]
      /\ items \in Seq(Item) /\ trail \in Seq(Entry)
      /\ pushes \in [Candidates -> Nat]
      /\ offered \in [Candidates -> BOOLEAN]
  BY NoRequestType DEF Init
<1>6. QED
  BY <1>2, <1>3, <1>4, <1>5 DEF TypeOK

(* Types, whatever the constants. *)
THEOREM ReviewTypeCorrect == Spec => []TypeOK
<1>1. TypeOK /\ [Next]_vars => TypeOK'
  <2>1. CASE UNCHANGED vars
    BY <2>1 DEF TypeOK
  <2>2. CASE Next
    BY <2>2, TypeCommit, TypeInside, TypeAround DEF Next, Step
  <2>3. QED
    BY <2>1, <2>2
<1>2. QED
  BY <1>1, TypeInit, PTL DEF Spec
-----------------------------------------------------------------------------
(* The strengthening behind Traceable: a request that has inserted a work  *)
(* item and not committed is the only one for its candidate, which has     *)
(* none yet.  That is what the unique constraint is worth.                 *)
InsertedOnce ==
  /\ \A r \in Requests, c \in Candidates : Inserted(r, c) => ~HasItem(c)
  /\ \A q, r \in Requests, c \in Candidates :
       Inserted(q, c) /\ Inserted(r, c) => q = r

(* The one behind PushedOnce: a request about to call the webhook is the   *)
(* only one for its candidate, which has a work item, and is the first.    *)
PushesLeft ==
  /\ \A r \in Requests :
       At(r, "push") => HasItem(Cand(r)) /\ pushes[Cand(r)] = 0
  /\ \A q, r \in Requests :
       At(q, "push") /\ At(r, "push") /\ Cand(q) = Cand(r) => q = r

ApprovalInv == Traceable /\ InsertedOnce /\ PushedOnce /\ PushesLeft

(* How far an approval has come.  Only Insert and Approve take it further. *)
Far(r) == req[r].pc \in {"copy", "approve"}

LEMMA OnlyInsertAndApprove ==
  ASSUME TypeOK, Next, NEW q \in Requests
  PROVE  /\ Far(q)' => (Far(q) /\ Cand(q)' = Cand(q)) \/ Insert(q)
         /\ At(q, "push")' =>
              (At(q, "push") /\ Cand(q)' = Cand(q)) \/ Approve(q)
<1> USE NoRequestType DEF TypeOK, Far, At, Cand
<1>1. ASSUME NEW r \in Requests, End(r)
      PROVE  req'[q] = req[q] \/ req'[q].pc = "idle"
  BY <1>1 DEF End
<1>2. ASSUME NEW r \in Requests, NEW pc, GoTo(r, pc)
      PROVE  req'[q] = req[q] \/ (q = r /\ req'[q].pc = pc)
  BY <1>2 DEF GoTo, Request
<1>3. CASE \E r \in Requests : FromWeb(r) \/ FromCard(r) \/ FromCommand(r)
  <2>1. PICK r \in Requests, op \in Ops, from \in Sources,
             c \in Candidates, edit \in Edits : Ask(r, op, from, c, edit)
    BY <1>3 DEF FromWeb, FromCard, FromCommand, Ops, Sources, Edits
  <2>2. req'[q] = req[q] \/ req'[q].pc \in {"load", "guard"}
    BY <2>1 DEF Ask, NoRequest
  <2>3. QED
    BY <2>2
<1>4. CASE \E r \in Requests : Guard(r) \/ Flush(r) \/ CommitEdit(r)
             \/ EditConflicts(r) \/ Settle(r) \/ Push(r) \/ Refresh(r)
             \/ Fails(r)
  <2>1. req'[q] = req[q] \/ req'[q].pc \in {"idle", "load", "find", "refresh"}
    BY <1>1, <1>2, <1>4 DEF Guard, Flush, CommitEdit, EditConflicts, Settle,
       Push, Refresh, Fails
  <2>2. QED
    BY <2>1
<1>5. CASE \E r \in Requests : Load(r) \/ Find(r) \/ Delete(r)
  <2>1. \/ req'[q] = req[q]
        \/ req'[q].pc \in {"idle", "insert", "flush", "write", "delete"}
    BY <1>1, <1>5 DEF Load, Find, Delete, Request
  <2>2. QED
    BY <2>1
<1>6. CASE \E r \in Requests, p \in Requests : BreakDeadlock(r, p)
  BY <1>1, <1>6 DEF BreakDeadlock
<1>7. CASE \E r \in Requests : Insert(r)
  <2>1. PICK r \in Requests : Insert(r)
    BY <1>7
  <2>2. req'[q] = req[q] \/ req'[q].pc = "idle"
          \/ (q = r /\ req'[q].pc = "copy")
    BY <1>1, <1>2, <2>1 DEF Insert
  <2>3. QED
    BY <2>1, <2>2
<1>8. CASE \E r \in Requests : Copy(r)
  <2>1. \/ req'[q] = req[q]
        \/ req[q].pc = "copy" /\ req'[q].pc = "approve"
           /\ req'[q].cand = req[q].cand
    BY <1>8 DEF Copy, Request
  <2>2. QED
    BY <2>1
<1>9. CASE \E r \in Requests : Approve(r)
  <2>1. PICK r \in Requests : Approve(r)
    BY <1>9
  <2>2. req'[q] = req[q] \/ req'[q].pc = "idle"
          \/ (q = r /\ req'[q].pc = "push")
    BY <1>1, <1>2, <2>1 DEF Approve
  <2>3. QED
    BY <2>1, <2>2
<1>10. CASE \E c \in Candidates : ShowCard(c)
  BY <1>10 DEF ShowCard
<1>11. QED
  BY <1>3, <1>4, <1>5, <1>6, <1>7, <1>8, <1>9, <1>10 DEF Next, Step
-----------------------------------------------------------------------------
(* A step that is no approval neither adds a work item nor audits an       *)
(* approval, and approves no candidate.                                    *)
Unapproving ==
  /\ items' = items
  /\ Approvals' = Approvals
  /\ \A i \in Approvals : trail'[i] = trail[i]
  /\ \A c \in Candidates :
       row'[c].status = "approved" => row[c].status = "approved"

LEMMA Unaudited ==
  ASSUME TypeOK, NEW c \in Candidates, NEW action \in Outcome,
         action # "approved", NEW item, Audited(c, action, item)
  PROVE  /\ Approvals' = Approvals
         /\ \A i \in Approvals : trail'[i] = trail[i]
BY DEF TypeOK, Audited, Approvals

LEMMA OnlyCommitsWrite ==
  ASSUME Next,
         \A r \in Requests : ~CommitEdit(r) /\ ~Settle(r) /\ ~Approve(r)
  PROVE  UNCHANGED <<items, trail, row>>
<1>1. \A r \in Requests : FromWeb(r) \/ FromCard(r) \/ FromCommand(r)
        => UNCHANGED <<items, trail, row>>
  BY DEF FromWeb, FromCard, FromCommand, Ask
<1>2. \A r \in Requests :
        \/ Guard(r) \/ Load(r) \/ Flush(r) \/ Find(r) \/ Delete(r)
        \/ EditConflicts(r) \/ Insert(r) \/ Copy(r) \/ Push(r)
        \/ Refresh(r) \/ Fails(r)
        => UNCHANGED <<items, trail, row>>
  BY DEF Guard, Load, Flush, Find, Delete, EditConflicts, Insert, Copy,
     Push, Refresh, Fails
<1>3. \A q, r : BreakDeadlock(r, q) => UNCHANGED <<items, trail, row>>
  BY DEF BreakDeadlock
<1>4. \A c : ShowCard(c) => UNCHANGED <<items, trail, row>>
  BY DEF ShowCard
<1>5. QED
  BY <1>1, <1>2, <1>3, <1>4 DEF Next, Step

LEMMA OnlyApproveApproves ==
  ASSUME TypeOK, Next, ~ \E r \in Requests : Approve(r)
  PROVE  Unapproving
<1>1. CASE \E r \in Requests : CommitEdit(r)
  <2>1. PICK r \in Requests : CommitEdit(r)
    BY <1>1
  <2>2. Cand(r) \in Candidates
    BY DEF TypeOK, Request, Cand
  <2>3. /\ Approvals' = Approvals
        /\ \A i \in Approvals : trail'[i] = trail[i]
    BY <2>1, <2>2, Unaudited DEF CommitEdit, Outcome
  <2>4. \A c \in Candidates :
          row'[c].status = "approved" => row[c].status = "approved"
    BY <2>1, <2>2 DEF CommitEdit, Committed, Written, TypeOK
  <2>5. QED
    BY <2>1, <2>3, <2>4 DEF CommitEdit, Unapproving
<1>2. CASE \E r \in Requests : Settle(r)
  <2>1. PICK r \in Requests : Settle(r)
    BY <1>2
  <2>2. Cand(r) \in Candidates
    BY DEF TypeOK, Request, Cand
  <2>3. PICK to \in {"rejected", "duplicate"} :
          /\ Committed(Cand(r), [row[Cand(r)] EXCEPT !.status =
               Written(req[r].loaded.status, to, row[Cand(r)].status)])
          /\ Audited(Cand(r), to, 0)
    BY <2>1 DEF Settle
  <2>4. /\ Approvals' = Approvals
        /\ \A i \in Approvals : trail'[i] = trail[i]
    BY <2>2, <2>3, Unaudited DEF Outcome
  <2>5. \A c \in Candidates :
          row'[c].status = "approved" => row[c].status = "approved"
    BY <2>2, <2>3 DEF Committed, Written, TypeOK, Row
  <2>6. QED
    BY <2>1, <2>4, <2>5 DEF Settle, Unapproving
<1>3. CASE UNCHANGED <<items, trail, row>>
  BY <1>3 DEF Unapproving, Approvals
<1>4. QED
  BY <1>1, <1>2, <1>3, OnlyCommitsWrite

LEMMA OnlyPushPushes ==
  ASSUME Next, ~ \E r \in Requests : Push(r)
  PROVE  pushes' = pushes
BY DEF Next, FromWeb, FromCard, FromCommand, Ask, Step, Fails, ShowCard,
   Guard, Load, Flush, Find, Delete, CommitEdit, Settle, EditConflicts,
   Insert, Copy, Approve, Refresh, BreakDeadlock

(* The invariant outlives every step but an approval... *)
LEMMA InvUnapproved ==
  ASSUME TypeOK, ApprovalInv, Next, ~ \E r \in Requests : Approve(r)
  PROVE  ApprovalInv'
<1>1. Unapproving
  BY OnlyApproveApproves
<1>2. \A c : HasItem(c)' <=> HasItem(c)
  BY <1>1 DEF Unapproving, HasItem
<1>3. Traceable'
  BY <1>1, <1>2 DEF Unapproving, Traceable, ApprovalInv
<1>4. \A r \in Requests : Far(r)' =>
        (Far(r) /\ Cand(r)' = Cand(r)) \/ Insert(r)
  BY OnlyInsertAndApprove
<1>5. InsertedOnce'
  <2>1. CASE \E r \in Requests : Insert(r)
    <3>1. PICK r \in Requests : Insert(r)
      BY <2>1
    <3>2. \A q \in Requests \ {r} : req'[q] = req[q]
      BY <3>1 DEF Insert, GoTo, End, TypeOK
    <3>3. Cand(r)' = Cand(r) \/ ~Far(r)'
      BY <3>1, NoRequestType
         DEF Insert, GoTo, End, TypeOK, Request, Cand, Far
    <3>4. Far(r)' => /\ ~HasItem(Cand(r))
                     /\ \A q \in Requests \ {r} : ~Inserted(q, Cand(r))
      BY <3>1, NoRequestType DEF Insert, GoTo, End, TypeOK, Far
    <3>5. QED
      BY <1>2, <3>2, <3>3, <3>4 DEF InsertedOnce, Inserted, Far, Cand,
         ApprovalInv
  <2>2. CASE ~ \E r \in Requests : Insert(r)
    <3>1. \A r \in Requests, c \in Candidates :
            Inserted(r, c)' => Inserted(r, c)
      BY <1>4, <2>2 DEF Inserted, Far
    <3>2. QED
      BY <1>2, <3>1 DEF InsertedOnce, ApprovalInv
  <2>3. QED
    BY <2>1, <2>2
<1>6. \A r \in Requests : At(r, "push")' => At(r, "push") /\ Cand(r)' = Cand(r)
  BY OnlyInsertAndApprove
<1>7. PushedOnce' /\ PushesLeft'
  <2>1. CASE \E r \in Requests : Push(r)
    <3>1. PICK r \in Requests : Push(r)
      BY <2>1
    <3>2. Cand(r) \in Candidates /\ HasItem(Cand(r)) /\ pushes[Cand(r)] = 0
      BY <3>1 DEF Push, PushesLeft, ApprovalInv, TypeOK, Request, Cand
    <3>3. pushes'[Cand(r)] <= 1
      BY <3>1, <3>2 DEF Push, TypeOK
    <3>4. \A c \in Candidates \ {Cand(r)} : pushes'[c] = pushes[c]
      BY <3>1 DEF Push, TypeOK
    <3>5. ~At(r, "push")'
      BY <3>1, NoRequestType DEF Push, End, At, TypeOK
    <3>6. PushedOnce'
      BY <1>2, <3>2, <3>3, <3>4 DEF PushedOnce, ApprovalInv
    <3>7. \A q \in Requests : Cand(q) \in Candidates
      BY DEF TypeOK, Request, Cand
    <3>8. \A q \in Requests : At(q, "push")' => Cand(q) # Cand(r)
      BY <1>6, <3>1, <3>5 DEF Push, PushesLeft, ApprovalInv
    <3>9. PushesLeft'
      BY <1>2, <1>6, <3>4, <3>7, <3>8 DEF PushesLeft, ApprovalInv
    <3>10. QED
      BY <3>6, <3>9
  <2>2. CASE ~ \E r \in Requests : Push(r)
    BY <1>2, <1>6, <2>2, OnlyPushPushes
       DEF PushedOnce, PushesLeft, ApprovalInv
  <2>3. QED
    BY <2>1, <2>2
<1>8. QED
  BY <1>3, <1>5, <1>7 DEF ApprovalInv

(* ...and an approval, which is the first of its candidate. *)
LEMMA InvApproved ==
  ASSUME TypeOK, ApprovalInv, Next, NEW r \in Requests, Approve(r)
  PROVE  ApprovalInv'
<1> DEFINE c == Cand(r)
           n == Len(items) + 1
           k == Len(trail) + 1
<1>1. /\ c \in Candidates /\ Far(r) /\ Inserted(r, c) /\ ~HasItem(c)
      /\ Len(items) \in Nat /\ Len(trail) \in Nat
  BY DEF TypeOK, Request, Cand, Approve, At, Far, Inserted, ApprovalInv,
     InsertedOnce
<1>2. /\ DOMAIN items = 1..Len(items)
      /\ DOMAIN items' = 1..n
      /\ items'[n].cand = c
      /\ \A i \in DOMAIN items : items'[i] = items[i]
  BY <1>1 DEF Approve, TypeOK
<1>3. /\ DOMAIN trail = 1..Len(trail)
      /\ DOMAIN trail' = 1..k
      /\ trail'[k].cand = c
      /\ trail'[k].action = "approved"
      /\ trail'[k].item = n
      /\ \A i \in DOMAIN trail : trail'[i] = trail[i]
  BY <1>1 DEF Approve, Audited, TypeOK
<1>4. n \notin DOMAIN items /\ k \notin DOMAIN trail
  BY <1>1, <1>2, <1>3
<1>5. DOMAIN items' = DOMAIN items \cup {n}
      /\ DOMAIN trail' = DOMAIN trail \cup {k}
  BY <1>1, <1>2, <1>3
<1>6. Approvals' = Approvals \cup {k}
  BY <1>3, <1>5 DEF Approvals
<1>7. \A d : HasItem(d)' <=> HasItem(d) \/ d = c
  BY <1>2, <1>5 DEF HasItem
<1>8. row' = [row EXCEPT ![c] = [row[c] EXCEPT !.status = "approved"]]
  BY DEF Approve, Committed
<1> HIDE DEF n, k, c
<1>9. Traceable'
  <2>1. \A i, j \in DOMAIN items' : items'[i].cand = items'[j].cand => i = j
    <3>1. \A i \in DOMAIN items : items'[i].cand # c
      BY <1>1, <1>2 DEF HasItem
    <3>2. \A i, j \in DOMAIN items : items[i].cand = items[j].cand => i = j
      BY DEF Traceable, ApprovalInv
    <3>3. \A i, j \in DOMAIN items :
            items'[i].cand = items'[j].cand => i = j
      BY <1>2, <3>2
    <3>4. QED
      BY <1>2, <1>5, <3>1, <3>3
  <2>2. \A i \in Approvals : trail[i].item \in DOMAIN items
                             /\ i \in DOMAIN trail
    BY DEF Traceable, ApprovalInv, Approvals
  <2>3. \A i, j \in Approvals' : trail'[i].item = trail'[j].item => i = j
    BY <1>3, <1>4, <1>6, <2>2 DEF Traceable, ApprovalInv
  <2>4. \A i \in Approvals' : /\ trail'[i].item \in DOMAIN items'
                              /\ items'[trail'[i].item].cand = trail'[i].cand
    <3>1. \A i \in Approvals : items[trail[i].item].cand = trail[i].cand
      BY DEF Traceable, ApprovalInv
    <3>2. \A i \in Approvals : /\ trail'[i] = trail[i]
                               /\ items'[trail[i].item] = items[trail[i].item]
      BY <1>2, <1>3, <2>2
    <3>3. \A i \in Approvals :
            /\ trail'[i].item \in DOMAIN items'
            /\ items'[trail'[i].item].cand = trail'[i].cand
      BY <1>5, <2>2, <3>1, <3>2
    <3>4. /\ trail'[k].item \in DOMAIN items'
          /\ items'[trail'[k].item].cand = trail'[k].cand
      BY <1>2, <1>3, <1>5
    <3>5. QED
      BY <1>6, <3>3, <3>4
  <2>5. \A m \in DOMAIN items' : \E i \in Approvals' : trail'[i].item = m
    <3> SUFFICES ASSUME NEW m \in DOMAIN items'
                 PROVE  \E i \in Approvals' : trail'[i].item = m
      OBVIOUS
    <3>1. CASE m = n
      BY <1>3, <1>6, <3>1
    <3>2. CASE m \in DOMAIN items
      <4>1. PICK i \in Approvals : trail[i].item = m
        BY <3>2 DEF Traceable, ApprovalInv
      <4>2. QED
        BY <1>3, <1>6, <2>2, <4>1
    <3>3. QED
      BY <1>5, <3>1, <3>2
  <2>6. \A d \in Candidates : row'[d].status = "approved" => HasItem(d)'
    BY <1>1, <1>7, <1>8 DEF Traceable, ApprovalInv, TypeOK
  <2>7. QED
    BY <2>1, <2>3, <2>4, <2>5, <2>6 DEF Traceable
<1>10. \A q \in Requests \ {r} : req'[q] = req[q]
  BY DEF Approve, GoTo, End, TypeOK
<1>11. req'[r].pc \in {"idle", "push"}
       /\ (req'[r].pc = "push" => Cand(r)' = Cand(r))
  BY NoRequestType DEF Approve, GoTo, End, TypeOK, Request, Cand
<1>12. InsertedOnce'
  <2>1. \A q \in Requests, d \in Candidates :
          Inserted(q, d)' => q # r /\ Inserted(q, d)
    BY <1>10, <1>11 DEF Inserted, Cand
  <2>2. \A q \in Requests : Inserted(q, c) => q = r
    BY <1>1 DEF InsertedOnce, ApprovalInv
  <2>3. QED
    BY <1>7, <2>1, <2>2 DEF InsertedOnce, ApprovalInv
<1>13. pushes' = pushes /\ pushes[c] = 0
  <2>1. pushes[c] \in Nat /\ ~(pushes[c] > 0)
    BY <1>1 DEF TypeOK, PushedOnce, ApprovalInv
  <2>2. QED
    BY <2>1 DEF Approve
<1>14. PushedOnce'
  BY <1>7, <1>13 DEF PushedOnce, ApprovalInv
<1>15. PushesLeft'
  <2>1. \A q \in Requests : At(q, "push") => Cand(q) # c
    BY <1>1 DEF PushesLeft, ApprovalInv
  <2>2. \A q \in Requests \ {r} :
          At(q, "push")' => At(q, "push") /\ Cand(q)' = Cand(q)
    BY <1>10 DEF At, Cand
  <2>3. At(r, "push")' => Cand(r)' = c
    BY <1>11 DEF At, c
  <2>4. QED
    BY <1>7, <1>13, <2>1, <2>2, <2>3 DEF PushesLeft, ApprovalInv
<1>16. QED
  BY <1>9, <1>12, <1>14, <1>15 DEF ApprovalInv

LEMMA ApprovalStep == TypeOK /\ ApprovalInv /\ [Next]_vars => ApprovalInv'
<1> SUFFICES ASSUME TypeOK, ApprovalInv, [Next]_vars PROVE ApprovalInv'
  OBVIOUS
<1>1. CASE UNCHANGED vars
  BY <1>1 DEF ApprovalInv, Traceable, Approvals, HasItem, InsertedOnce,
     Inserted, PushedOnce, PushesLeft, At, Cand
<1>2. CASE Next
  BY <1>2, InvApproved, InvUnapproved
<1>3. QED
  BY <1>1, <1>2

LEMMA ApprovalInit == Init => ApprovalInv
<1> SUFFICES ASSUME Init PROVE ApprovalInv
  OBVIOUS
<1>1. DOMAIN items = {} /\ DOMAIN trail = {}
  BY DEF Init
<1>2. \A c \in Candidates : row[c].status # "approved" /\ pushes[c] = 0
  BY ReviewAssumption DEF Init
<1>3. \A r \in Requests : req[r].pc = "idle"
  BY NoRequestType DEF Init
<1>4. QED
  BY <1>1, <1>2, <1>3 DEF ApprovalInv, Traceable, Approvals, HasItem,
     InsertedOnce, Inserted, PushedOnce, PushesLeft, At

LEMMA Approvable == Spec => []ApprovalInv
<1>1. Spec => []TypeOK
  BY ReviewTypeCorrect
<1>2. QED
  BY <1>1, ApprovalInit, ApprovalStep, PTL DEF Spec

(* However approvals race, a candidate has at most one work item, and work *)
(* items and audited approvals match one to one.                           *)
THEOREM TraceableCorrect == Spec => []Traceable
<1>1. ApprovalInv => Traceable
  BY DEF ApprovalInv
<1>2. QED
  BY <1>1, Approvable, PTL

(* The webhook is called at most once per candidate, and only for one that *)
(* has a work item.                                                        *)
THEOREM PushedOnceCorrect == Spec => []PushedOnce
<1>1. ApprovalInv => PushedOnce
  BY DEF ApprovalInv
<1>2. QED
  BY <1>1, Approvable, PTL
-----------------------------------------------------------------------------
(* What Decisions sees of the tables. *)
StatusOf == [c \in Candidates |-> row[c].status]
TasksOf == [i \in DOMAIN items |-> items[i].cand]

LEMMA DecisionsInitially == TypeOK /\ Init => Abstract!DecisionsInit
<1> SUFFICES ASSUME TypeOK, Init PROVE Abstract!DecisionsInit
  OBVIOUS
<1>1. StatusOf \in [Candidates -> {"new", "needs_review"}]
  BY ReviewAssumption DEF Init, StatusOf
<1>2. TasksOf = <<>>
  BY DEF Init, TasksOf
<1>3. QED
  BY <1>1, <1>2 DEF Abstract!DecisionsInit, StatusOf, TasksOf

(* A commit that is no approval decides about one candidate, or writes the *)
(* status it had loaded and leaves the row's as it is.                     *)
LEMMA CommitsDecide ==
  ASSUME TypeOK, NEW r \in Requests, CommitEdit(r) \/ Settle(r)
  PROVE  Abstract!DecisionsNext \/ UNCHANGED <<StatusOf, TasksOf>>
<1> DEFINE c == Cand(r)
<1>1. c \in Candidates /\ row[c] \in Row
  BY DEF TypeOK, Request, Cand
<1>2. PICK s \in {"edited", "rejected", "duplicate"} :
        row'[c].status \in {s, row[c].status}
  BY <1>1 DEF CommitEdit, Settle, Committed, Written, TypeOK, Row
<1>3. \A d \in Candidates \ {c} : row'[d] = row[d]
  BY <1>1 DEF CommitEdit, Settle, Committed, TypeOK
<1>4. items' = items
  BY DEF CommitEdit, Settle
<1> HIDE DEF c
<1>5. TasksOf' = TasksOf
  BY <1>4 DEF TasksOf
<1>6. CASE row'[c].status = row[c].status
  <2>1. StatusOf' = StatusOf
    BY <1>3, <1>6 DEF StatusOf
  <2>2. QED
    BY <1>5, <2>1
<1>7. CASE row'[c].status = s
  <2>1. StatusOf' = [StatusOf EXCEPT ![c] = s]
    BY <1>1, <1>3, <1>7 DEF StatusOf
  <2>2. Abstract!Decide(c, s)
    BY <1>1, <1>5, <2>1
       DEF Abstract!Decide, Abstract!Known, StatusOf, TasksOf
  <2>3. QED
    BY <1>1, <2>2 DEF Abstract!DecisionsNext
<1>8. QED
  BY <1>2, <1>6, <1>7

LEMMA CandidatesOf ==
  ASSUME NEW s \in Seq(Item)
  PROVE  /\ [i \in DOMAIN s |-> s[i].cand] \in Seq(Candidates)
         /\ Len([i \in DOMAIN s |-> s[i].cand]) = Len(s)
<1>1. \A item \in Item : item.cand \in Candidates
  BY DEF Item
<1>2. \A i \in 1..Len(s) : s[i].cand \in Candidates
  BY <1>1
<1>3. QED
  BY <1>2

(* An approval promotes: the candidate has no work item yet. *)
LEMMA ApprovalPromotes ==
  ASSUME TypeOK, ApprovalInv, NEW r \in Requests, Approve(r)
  PROVE  Abstract!DecisionsNext
<1>1. PICK c \in Candidates : c = Cand(r)
  BY DEF TypeOK, Request, Cand
<1>2. ~HasItem(c)
  BY <1>1 DEF Cand, Approve, At, Inserted, ApprovalInv, InsertedOnce
<1>3. StatusOf' = [StatusOf EXCEPT ![c] = "approved"]
  <2>1. row[c] \in Row
    BY DEF TypeOK
  <2>2. row' = [row EXCEPT ![c] = [row[c] EXCEPT !.status = "approved"]]
    BY <1>1 DEF Approve, Committed
  <2>3. \A d \in Candidates :
          row'[d].status = IF d = c THEN "approved" ELSE row[d].status
    BY <2>1, <2>2 DEF TypeOK, Row
  <2>4. QED
    BY <2>3 DEF StatusOf
<1>4. PICK item : items' = Append(items, item) /\ item.cand = c
  BY <1>1 DEF Approve
<1>5. items \in Seq(Item)
  BY DEF TypeOK
<1>6. TasksOf \in Seq(Candidates) /\ Len(TasksOf) = Len(items)
  BY <1>5, CandidatesOf DEF TasksOf
<1>7. TasksOf' = Append(TasksOf, c)
  BY <1>4, <1>5, <1>6 DEF TasksOf
<1>8. \A i \in DOMAIN TasksOf : TasksOf[i] # c
  BY <1>2 DEF HasItem, TasksOf
<1>9. Abstract!Promote(c)
  BY <1>3, <1>7, <1>8
     DEF Abstract!Promote, Abstract!Known, Abstract!Promoted, StatusOf,
         TasksOf
<1>10. QED
  BY <1>9 DEF Abstract!DecisionsNext

LEMMA DecisionsStep ==
  TypeOK /\ ApprovalInv /\ [Next]_vars
    => Abstract!DecisionsNext \/ UNCHANGED <<StatusOf, TasksOf>>
<1> SUFFICES ASSUME TypeOK, ApprovalInv, [Next]_vars
             PROVE  Abstract!DecisionsNext \/ UNCHANGED <<StatusOf, TasksOf>>
  OBVIOUS
<1>1. CASE \E r \in Requests : CommitEdit(r) \/ Settle(r)
  BY <1>1, CommitsDecide
<1>2. CASE \E r \in Requests : Approve(r)
  BY <1>2, ApprovalPromotes
<1>3. CASE UNCHANGED vars
  BY <1>3 DEF StatusOf, TasksOf
<1>4. CASE /\ Next
           /\ \A r \in Requests : ~CommitEdit(r) /\ ~Settle(r) /\ ~Approve(r)
  <2>1. UNCHANGED <<items, row>>
    BY <1>4, OnlyCommitsWrite
  <2>2. QED
    BY <2>1 DEF StatusOf, TasksOf
<1>5. QED
  BY <1>1, <1>2, <1>3, <1>4

(* However requests overlap, the statuses of the candidates and the work   *)
(* items change as Decisions says: Review implements it.                   *)
THEOREM ImplementsDecisionsCorrect == Spec => ImplementsDecisions
<1>1. Init => Abstract!DecisionsInit
  BY TypeInit, DecisionsInitially
<1>2. TypeOK /\ ApprovalInv /\ [Next]_vars
        => [Abstract!DecisionsNext]_<<StatusOf, TasksOf>>
  BY DecisionsStep
<1>3. QED
  BY <1>1, <1>2, ReviewTypeCorrect, Approvable, PTL
     DEF Spec, ImplementsDecisions, Abstract!DecisionsSpec, StatusOf, TasksOf
=============================================================================
