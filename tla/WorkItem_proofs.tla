--------------------------- MODULE WorkItem_proofs ---------------------------
(***************************************************************************)
(* Theorems about WorkItem, for any number of drawers, assignees, columns  *)
(* and functions, however they overlap.                                    *)
(***************************************************************************)
EXTENDS WorkItem, FiniteSetTheorems, TLAPS

(* A tuple of variables is always expanded. *)
USE DEF vars, rowVars, labelVars, asked, pageVars

(* How much of its draft a reassignment has inserted.                      *)
PutSound(r) ==
  /\ r.pc \in {"snapshot", "find", "delete"} => r.put = 0
  /\ r.pc = "insert" => r.put < Len(r.call.draft)
  /\ r.pc = "commit" => r.put = Len(r.call.draft)

Typed == TypeOK /\ \A d \in Drawers : PutSound(req[d])
-----------------------------------------------------------------------------
LEMMA DraftsType ==
  /\ <<>> \in Drafts
  /\ Cardinality(Assignees) \in Nat
  /\ \A s \in Drafts :
       /\ Len(s) \in 0..Cardinality(Assignees)
       /\ DOMAIN s = 1..Len(s)
       /\ \A i \in 1..Len(s) : s[i] \in Assignees
       /\ \A i, j \in 1..Len(s) : s[i] = s[j] => i = j
<1>1. Cardinality(Assignees) \in Nat
  BY WorkItemAssumption, FS_CardinalityType
<1>2. <<>> \in [1..0 -> Assignees] /\ DOMAIN <<>> = {}
  OBVIOUS
<1>3. <<>> \in Drafts
  <2>1. 0 \in 0..Cardinality(Assignees)
    BY <1>1
  <2>2. QED
    BY <1>2, <2>1 DEF Drafts
<1>4. ASSUME NEW s \in Drafts
      PROVE  /\ Len(s) \in 0..Cardinality(Assignees)
             /\ DOMAIN s = 1..Len(s)
             /\ \A i \in 1..Len(s) : s[i] \in Assignees
             /\ \A i, j \in 1..Len(s) : s[i] = s[j] => i = j
  <2>1. PICK n \in 0..Cardinality(Assignees) : s \in [1..n -> Assignees]
    BY <1>4 DEF Drafts
  <2>2. s \in Seq(Assignees) /\ Len(s) = n
    BY <1>1, <2>1
  <2>3. \A i, j \in DOMAIN s : s[i] = s[j] => i = j
    BY <1>4 DEF Drafts
  <2>4. QED
    BY <2>1, <2>2, <2>3
<1>5. QED
  BY <1>1, <1>3, <1>4

LEMMA NoRequestType ==
  /\ NoCopy \in Copy
  /\ NoCall \in Call
  /\ NoRequest \in Request
  /\ NoRequest.pc = "idle" /\ NoRequest.put = 0 /\ NoRequest.call = NoCall
  /\ NoPage \in Page
<1>1. NoIds \in Ids
  BY DEF NoIds, Ids
<1>2. AnyStatus \in Statuses /\ (CHOOSE n \in Names : TRUE) \in Names
  BY WorkItemAssumption DEF AnyStatus
<1>3. 0 \in 0..MaxRequests /\ Original \in Content
  BY WorkItemAssumption
<1>4. NoCopy \in Copy
  BY <1>3 DEF NoCopy, Copy
<1>5. NoCall \in Call
  BY <1>2, <1>4, DraftsType DEF NoCall, Call
<1>6. NoRequest \in Request /\ NoRequest.pc = "idle" /\ NoRequest.put = 0
      /\ NoRequest.call = NoCall
  BY <1>1, <1>2, <1>3, <1>5, DraftsType DEF NoRequest, Request, Pc
<1>7. NoPage \in Page
  BY <1>4 DEF NoPage, Page
<1>8. QED
  BY <1>4, <1>5, <1>6, <1>7

LEMMA IdsType ==
  /\ NoIds \in Ids
  /\ \A rows \in SUBSET Link : IdsOf(rows) \in Ids
  /\ \A s \in Drafts : Listed(s) \in Ids
<1>1. NoIds \in Ids
  BY DEF NoIds, Ids
<1>2. ASSUME NEW rows \in SUBSET Link, rows # {} PROVE IdsOf(rows) \in Ids
  <2> DEFINE first == IF \E p \in rows : p.primary
                      THEN {p \in rows : p.primary} ELSE rows
             top == CHOOSE p \in first : TRUE
  <2>1. top \in rows
    <3>1. first # {} /\ first \subseteq rows
      BY <1>2
    <3>2. QED
      BY <3>1
  <2>2. IdsOf(rows) = [first |-> top.who, all |-> {p.who : p \in rows}]
    BY <1>2 DEF IdsOf
  <2> HIDE DEF top
  <2>3. QED
    BY <2>1, <2>2 DEF Ids, Link
<1>3. IdsOf({}) \in Ids
  BY <1>1 DEF IdsOf
<1>4. ASSUME NEW s \in Drafts, s # <<>> PROVE Listed(s) \in Ids
  <2>1. 1 \in 1..Len(s)
    <3>1. PICK n \in 0..Cardinality(Assignees) : s \in [1..n -> Assignees]
      BY DEF Drafts
    <3>2. s \in Seq(Assignees) /\ Len(s) = n
      BY <3>1, DraftsType
    <3>3. n # 0
      BY <1>4, <3>2
    <3>4. QED
      BY <3>2, <3>3, DraftsType
  <2>2. s[1] \in Assignees /\ {s[i] : i \in DOMAIN s} \subseteq Assignees
    BY <2>1, DraftsType
  <2>3. QED
    BY <1>4, <2>2 DEF Listed, Ids
<1>5. QED
  BY <1>1, <1>2, <1>3, <1>4 DEF Listed

LEMMA TypedInitially == Init => Typed
<1> SUFFICES ASSUME Init PROVE Typed
  OBVIOUS
<1>1. people \subseteq Link /\ trail \in Trail
  BY WorkItemAssumption, IdsType DEF Init, Trail
<1>2. page \in [Drawers -> Page] /\ retry \in [Drawers -> SUBSET Call]
  BY NoRequestType DEF Init
<1>3. /\ content \in Content /\ version \in [Columns -> Nat]
      /\ status \in Statuses
  BY WorkItemAssumption DEF Init, AnyStatus
<1>4. req \in [Drawers -> Request] /\ \A d \in Drawers : req[d] = NoRequest
  BY NoRequestType DEF Init
<1>5. /\ labels \subseteq Names /\ tags \subseteq Names
      /\ overlapped \in BOOLEAN /\ abandoned \subseteq Names
  BY DEF Init
<1>6. made \in 0..MaxRequests
  BY WorkItemAssumption DEF Init
<1>7. TypeOK
  BY <1>1, <1>2, <1>3, <1>4, <1>5, <1>6 DEF TypeOK
<1>8. QED
  BY <1>4, <1>7, NoRequestType DEF Typed, PutSound
-----------------------------------------------------------------------------
(* A step replaces the request of one drawer.                              *)
Becomes(d, new) == req' = [req EXCEPT ![d] = new]

LEMMA BecomesType ==
  ASSUME Typed, NEW d \in Drawers, NEW new \in Request, PutSound(new),
         Becomes(d, new)
  PROVE  /\ req' \in [Drawers -> Request]
         /\ req'[d] = new
         /\ \A q \in Drawers \ {d} : req'[q] = req[q]
         /\ \A q \in Drawers : PutSound(req'[q])
<1>1. req \in [Drawers -> Request]
  BY DEF Typed, TypeOK
<1>2. /\ req' \in [Drawers -> Request] /\ req'[d] = new
      /\ \A q \in Drawers \ {d} : req'[q] = req[q]
  BY <1>1 DEF Becomes
<1>3. \A q \in Drawers : PutSound(req'[q])
  BY <1>2 DEF Typed
<1>4. QED
  BY <1>2, <1>3

LEMMA EndType ==
  ASSUME Typed, NEW d \in Drawers, End(d)
  PROVE  /\ req' \in [Drawers -> Request]
         /\ req'[d] = NoRequest
         /\ \A q \in Drawers \ {d} : req'[q] = req[q]
         /\ \A q \in Drawers : PutSound(req'[q])
<1>1. PutSound(NoRequest)
  BY NoRequestType DEF PutSound
<1>2. QED
  BY <1>1, NoRequestType, BecomesType DEF End, Becomes

(* To go on at a statement that inserts no assignees.                      *)
LEMMA GoToType ==
  ASSUME Typed, NEW d \in Drawers,
         NEW pc \in Pc \ {"snapshot", "find", "delete", "insert", "commit"},
         GoTo(d, pc)
  PROVE  /\ req' \in [Drawers -> Request]
         /\ req'[d].pc = pc
         /\ \A q \in Drawers \ {d} : req'[q] = req[q]
         /\ \A q \in Drawers : PutSound(req'[q])
<1> DEFINE new == [req[d] EXCEPT !.pc = pc]
<1>1. req[d] \in Request /\ req \in [Drawers -> Request]
  BY DEF Typed, TypeOK
<1>2. new \in Request /\ new.pc = pc
  BY <1>1 DEF Request
<1>3. PutSound(new)
  BY <1>2 DEF PutSound
<1>4. Becomes(d, new)
  BY <1>1 DEF GoTo, Becomes
<1> HIDE DEF new
<1>5. QED
  BY <1>2, <1>3, <1>4, BecomesType

(* A function that throws leaves at most its call to a Retry. *)
LEMMA ErrorType ==
  ASSUME Typed, NEW d \in Drawers, Error(d)
  PROVE  /\ End(d)
         /\ retry' \in [Drawers -> SUBSET Call]
         /\ \A q \in Drawers : retry'[q] \subseteq retry[q] \cup {req[q].call}
<1>1. retry \in [Drawers -> SUBSET Call] /\ req[d].call \in Call
  BY DEF Typed, TypeOK, Request
<1>2. retry' \in {retry, [retry EXCEPT ![d] = retry[d] \cup {req[d].call}]}
  BY DEF Error
<1>3. QED
  BY <1>1, <1>2 DEF Error

(* The request with which a function begins. *)
First(call) ==
  [NoRequest EXCEPT !.pc = call.pc, !.nr = made + 1, !.call = call]

LEMMA BeginType ==
  ASSUME Typed, NEW d \in Drawers, NEW call \in Call, Begin(d, call),
         page' \in [Drawers -> Page], retry' \in [Drawers -> SUBSET Call]
  PROVE  /\ Typed'
         /\ req[d].pc = "idle"
         /\ req'[d].pc = call.pc
         /\ req'[d].call = call
         /\ \A q \in Drawers \ {d} : req'[q] = req[q]
<1> DEFINE new == First(call)
<1>1. made' \in 0..MaxRequests /\ made' = made + 1
  BY WorkItemAssumption DEF Begin, Typed, TypeOK
<1>2. new \in Request /\ new.pc = call.pc /\ new.call = call /\ new.put = 0
  BY <1>1, NoRequestType DEF First, Request, Call, Pc
<1>3. PutSound(new)
  BY <1>2 DEF PutSound, Call
<1>4. Becomes(d, new)
  BY DEF Begin, Becomes, First
<1> HIDE DEF new
<1>5. /\ req' \in [Drawers -> Request] /\ req'[d] = new
      /\ \A q \in Drawers \ {d} : req'[q] = req[q]
      /\ \A q \in Drawers : PutSound(req'[q])
  BY <1>2, <1>3, <1>4, BecomesType
<1>6. overlapped' \in BOOLEAN
  BY DEF Begin, Typed, TypeOK
<1>7. TypeOK'
  BY <1>1, <1>5, <1>6 DEF Begin, Typed, TypeOK
<1>8. QED
  BY <1>2, <1>5, <1>7 DEF Typed, Begin, At
-----------------------------------------------------------------------------
(* A step that has nothing to do with the assignees of the item: it leaves *)
(* them and the other drawers alone, and its drawer, if it moves, holds no *)
(* row then.                                                               *)
Aside(d) ==
  /\ people' = people
  /\ \A q \in Drawers \ {d} : req'[q] = req[q]
  /\ Holds(d)' => req'[d] = req[d]

(* What a drawer does without asking the API for anything but the item. *)
LEMMA PageAside ==
  ASSUME Typed, NEW d \in Drawers,
         Open(d) \/ StartEdit(d) \/ CancelEdit(d)
  PROVE  Typed' /\ people' = people /\ req' = req
<1>1. UNCHANGED <<rowVars, labelVars, req, asked, abandoned>>
  BY DEF Open, StartEdit, CancelEdit
<1>2. /\ page \in [Drawers -> Page] /\ retry \in [Drawers -> SUBSET Call]
      /\ content \in Content /\ version \in [Columns -> Nat]
      /\ labels \subseteq Names
  BY DEF Typed, TypeOK
<1>3. page' \in [Drawers -> Page]
  <2>1. CASE Open(d)
    <3>1. [NoPage EXCEPT !.shown = Fetched, !.catalog = labels] \in Page
      BY <1>2, NoRequestType DEF Page, Copy, Fetched
    <3>2. QED
      BY <1>2, <2>1, <3>1 DEF Open
  <2>2. CASE StartEdit(d)
    <3> DEFINE form == [page[d].shown EXCEPT !.columns =
                          [c \in Columns |-> Resent[c][@[c]]]]
               new == [page[d] EXCEPT !.editing = TRUE, !.form = form]
    <3>1. page[d] \in Page /\ page[d].shown \in Copy
      BY <1>2 DEF Page
    <3>2. form \in Copy
      <4> DEFINE filled == [c \in Columns |-> Resent[c][page[d].shown.columns[c]]]
      <4>1. page[d].shown.columns \in [Columns -> Values]
        BY <3>1 DEF Copy, Content
      <4>2. filled \in Content
        BY <4>1, WorkItemAssumption DEF Content
      <4>3. form = [page[d].shown EXCEPT !.columns = filled]
        BY <3>1 DEF Copy
      <4> HIDE DEF filled
      <4>4. QED
        BY <3>1, <4>2, <4>3 DEF Copy
    <3> HIDE DEF form
    <3>3. new \in Page
      BY <3>1, <3>2 DEF Page
    <3>4. page' = [page EXCEPT ![d] = new]
      BY <1>2, <2>2, <3>1 DEF StartEdit, Page, form
    <3> HIDE DEF new
    <3>5. QED
      BY <1>2, <3>3, <3>4
  <2>3. CASE CancelEdit(d)
    <3>1. NoForm(d) \in Page
      BY <1>2, NoRequestType DEF NoForm, Page
    <3>2. QED
      BY <1>2, <2>3, <3>1 DEF CancelEdit
  <2>4. QED
    BY <2>1, <2>2, <2>3
<1>4. retry' \in [Drawers -> SUBSET Call]
  BY <1>2 DEF Open, StartEdit, CancelEdit
<1>5. QED
  BY <1>1, <1>3, <1>4 DEF Typed, TypeOK

(* saveEdit sends the form, with what its user has typed. *)
SendForm(d, new) ==
  [page[d].form EXCEPT !.columns = new]

SendTouched(d, new) ==
  page[d].touched \cup {c \in Columns : new[c] # page[d].form.columns[c]}

LEMMA SaveEditBegins ==
  ASSUME Typed, NEW d \in Drawers, SaveEdit(d)
  PROVE  \E new \in Content :
           LET form == SendForm(d, new)
               touched == SendTouched(d, new)
               call == [NoCall EXCEPT !.pc = "load", !.carries = form,
                                      !.touched = touched]
           IN  /\ call \in Call /\ Begin(d, call)
               /\ page' = [page EXCEPT ![d] =
                    [page[d] EXCEPT !.form = form, !.touched = touched]]
               /\ page' \in [Drawers -> Page]
               /\ retry' = retry
<1>1. page \in [Drawers -> Page] /\ page[d] \in Page
  BY DEF Typed, TypeOK
<1>2. PICK new \in Content :
        /\ page' = [page EXCEPT ![d].form = SendForm(d, new),
                                ![d].touched = SendTouched(d, new)]
        /\ Begin(d, [NoCall EXCEPT !.pc = "load",
                                   !.carries = SendForm(d, new),
                                   !.touched = SendTouched(d, new)])
  BY DEF SaveEdit, SendForm, SendTouched
<1> DEFINE form == SendForm(d, new)
           touched == SendTouched(d, new)
           call == [NoCall EXCEPT !.pc = "load", !.carries = form,
                                  !.touched = touched]
<1>3. form \in Copy /\ touched \in SUBSET Columns
  BY <1>1 DEF Page, Copy, SendForm, SendTouched
<1> HIDE DEF form, touched
<1>4. call \in Call
  BY <1>3, NoRequestType DEF Call
<1>5. [page[d] EXCEPT !.form = form, !.touched = touched] \in Page
  BY <1>1, <1>3 DEF Page
<1>6. page' = [page EXCEPT ![d] =
                 [page[d] EXCEPT !.form = form, !.touched = touched]]
  BY <1>1, <1>2 DEF form, touched
<1>7. page' \in [Drawers -> Page]
  BY <1>1, <1>5, <1>6
<1>8. retry' = retry
  BY DEF SaveEdit
<1>9. QED
  BY <1>2, <1>4, <1>6, <1>7, <1>8 DEF form, touched

(* What the other functions of the drawer are called with is a call. *)
LEMMA OthersBegin ==
  ASSUME Typed, NEW d \in Drawers
  PROVE  /\ ChangeStatus(d) => \E call \in Call :
              /\ Begin(d, call) /\ call.pc = "see"
              /\ call.carries = page[d].shown
         /\ SaveAssignees(d) => \E call \in Call :
              Begin(d, call) /\ call.pc = "snapshot"
         /\ CreateAndAssign(d) => \E call \in Call :
              Begin(d, call) /\ call.pc = "name"
         /\ AssignLabel(d) => \E call \in Call :
              Begin(d, call) /\ call.pc = "exists"
<1>1. page[d] \in Page
  BY DEF Typed, TypeOK
<1>2. ASSUME ChangeStatus(d)
      PROVE  \E call \in Call : /\ Begin(d, call) /\ call.pc = "see"
                                /\ call.carries = page[d].shown
  <2>1. PICK to \in Statuses :
          Begin(d, [NoCall EXCEPT !.pc = "see", !.to = to,
                                  !.carries = page[d].shown])
    BY <1>2 DEF ChangeStatus
  <2> DEFINE call == [NoCall EXCEPT !.pc = "see", !.to = to,
                                    !.carries = page[d].shown]
  <2>2. call \in Call /\ call.pc = "see" /\ call.carries = page[d].shown
    BY <1>1, NoRequestType DEF Call, Page
  <2> HIDE DEF call
  <2>3. QED
    BY <2>1, <2>2 DEF call
<1>3. ASSUME SaveAssignees(d)
      PROVE  \E call \in Call : Begin(d, call) /\ call.pc = "snapshot"
  <2>1. PICK draft \in Drafts :
          Begin(d, [NoCall EXCEPT !.pc = "snapshot", !.draft = draft])
    BY <1>3 DEF SaveAssignees
  <2> DEFINE call == [NoCall EXCEPT !.pc = "snapshot", !.draft = draft]
  <2>2. call \in Call /\ call.pc = "snapshot"
    BY NoRequestType DEF Call
  <2> HIDE DEF call
  <2>3. QED
    BY <2>1, <2>2 DEF call
<1>4. ASSUME NEW pc \in {"name", "exists"}, NEW name \in Names,
             Begin(d, [NoCall EXCEPT !.pc = pc, !.name = name])
      PROVE  \E call \in Call : Begin(d, call) /\ call.pc = pc
  <2> DEFINE call == [NoCall EXCEPT !.pc = pc, !.name = name]
  <2>1. call \in Call /\ call.pc = pc
    BY NoRequestType DEF Call
  <2> HIDE DEF call
  <2>2. QED
    BY <1>4, <2>1 DEF call
<1>5. CreateAndAssign(d) =>
        \E call \in Call : Begin(d, call) /\ call.pc = "name"
  BY <1>4 DEF CreateAndAssign
<1>6. AssignLabel(d) =>
        \E call \in Call : Begin(d, call) /\ call.pc = "exists"
  BY <1>1, <1>4 DEF AssignLabel, Page
<1>7. QED
  BY <1>2, <1>3, <1>5, <1>6

(* Whatever a user does, at most one function of his drawer begins. *)
LEMMA UserBegins ==
  ASSUME Typed, NEW d \in Drawers, User(d)
  PROVE  /\ Typed'
         /\ people' = people
         /\ \/ req' = req
            \/ /\ req[d].pc = "idle"
               /\ req'[d].pc \in {"load", "see", "snapshot", "name", "exists",
                                  "idle"}
               /\ req'[d].pc = req'[d].call.pc
               /\ \A q \in Drawers \ {d} : req'[q] = req[q]
<1>1. ASSUME NEW call \in Call, Begin(d, call),
             page' \in [Drawers -> Page], retry' \in [Drawers -> SUBSET Call]
      PROVE  /\ Typed' /\ people' = people
             /\ req[d].pc = "idle"
             /\ req'[d].pc \in {"load", "see", "snapshot", "name", "exists",
                                "idle"}
             /\ req'[d].pc = req'[d].call.pc
             /\ \A q \in Drawers \ {d} : req'[q] = req[q]
  BY <1>1, BeginType DEF Begin, Call
<1>2. page \in [Drawers -> Page] /\ retry \in [Drawers -> SUBSET Call]
  BY DEF Typed, TypeOK
<1>3. CASE Open(d) \/ StartEdit(d) \/ CancelEdit(d)
  BY <1>3, PageAside
<1>4. CASE SaveEdit(d)
  <2>1. PICK new \in Content :
          LET form == SendForm(d, new)
              touched == SendTouched(d, new)
              call == [NoCall EXCEPT !.pc = "load", !.carries = form,
                                     !.touched = touched]
          IN  /\ call \in Call /\ Begin(d, call)
              /\ page' \in [Drawers -> Page]
              /\ retry' = retry
    BY <1>4, SaveEditBegins
  <2>2. QED
    BY <1>1, <1>2, <2>1
<1>5. CASE ChangeStatus(d) \/ SaveAssignees(d) \/ CreateAndAssign(d)
           \/ AssignLabel(d)
  <2>1. UNCHANGED pageVars
    BY <1>5 DEF ChangeStatus, SaveAssignees, CreateAndAssign, AssignLabel
  <2>2. \E call \in Call : Begin(d, call)
    BY <1>5, OthersBegin
  <2>3. QED
    BY <1>1, <1>2, <2>1, <2>2
<1>6. CASE Retry(d)
  <2>1. PICK call \in retry[d] :
          Begin(d, call) /\ retry' = [retry EXCEPT ![d] = @ \ {call}]
    BY <1>6 DEF Retry
  <2>2. call \in Call /\ page' = page
    BY <1>2, <1>6 DEF Retry
  <2>3. retry' \in [Drawers -> SUBSET Call]
    BY <1>2, <2>1
  <2>4. QED
    BY <1>1, <1>2, <2>1, <2>2, <2>3
<1>7. QED
  BY <1>3, <1>4, <1>5, <1>6 DEF User

LEMMA UserAside ==
  ASSUME Typed, NEW d \in Drawers, User(d)
  PROVE  Typed' /\ Aside(d)
BY UserBegins DEF Aside, Holds

(* What Set leaves in the tables. *)
LEMMA SetType ==
  ASSUME Typed, NEW new \in Content, Set(new)
  PROVE  content' \in Content /\ version' \in [Columns -> Nat]
<1>1. version \in [Columns -> Nat]
  BY DEF Typed, TypeOK
<1>2. version' \in [Columns -> Nat]
  BY <1>1 DEF Set
<1>3. QED
  BY <1>2 DEF Set

LEMMA WrittenType ==
  ASSUME Typed, NEW d \in Drawers
  PROVE  [c \in Columns |-> Written(req[d].loaded[c],
            req[d].call.carries.columns[c], content[c])] \in Content
<1>1. /\ req[d].loaded \in Content /\ content \in Content
      /\ req[d].call.carries.columns \in Content
  BY DEF Typed, TypeOK, Request, Call, Copy
<1>2. QED
  BY <1>1 DEF Content, Written

LEMMA EditAside ==
  ASSUME Typed, NEW d \in Drawers, Load(d) \/ CommitEdit(d)
  PROVE  Typed' /\ Aside(d)
<1>1. req[d] \in Request /\ req \in [Drawers -> Request]
  BY DEF Typed, TypeOK
<1>2. CASE Load(d)
  <2> DEFINE new == [req[d] EXCEPT !.pc = "write", !.loaded = content]
  <2>1. new \in Request /\ new.pc = "write"
    BY <1>1 DEF Request, Pc, Typed, TypeOK
  <2>2. PutSound(new) /\ Becomes(d, new)
    BY <1>1, <1>2, <2>1 DEF PutSound, Load, Becomes
  <2> HIDE DEF new
  <2>3. QED
    BY <1>2, <2>1, <2>2, BecomesType
       DEF Load, Typed, TypeOK, Aside, Holds
<1>3. CASE CommitEdit(d)
  <2> DEFINE sent == req[d].call.carries.columns
             entry == [before |-> req[d].loaded, after |-> sent]
  <2>1. GoTo(d, "refetch") /\ people' = people
    BY <1>3 DEF CommitEdit
  <2>2. "refetch" \in Pc \ {"snapshot", "find", "delete", "insert", "commit"}
    BY DEF Pc
  <2>3. /\ req' \in [Drawers -> Request] /\ req'[d].pc = "refetch"
        /\ \A q \in Drawers \ {d} : req'[q] = req[q]
        /\ \A q \in Drawers : PutSound(req'[q])
    BY <2>1, <2>2, GoToType
  <2>4. trail' \in Trail
    <3>1. entry \in [before : Content, after : Content]
      BY <1>1 DEF Request, Call, Copy
    <3>2. trail \in Trail
      BY DEF Typed, TypeOK
    <3>3. trail' = [trail EXCEPT !.edited = Append(@, entry)]
      BY <1>3 DEF CommitEdit
    <3> HIDE DEF entry
    <3>4. Append(trail.edited, entry) \in Seq([before : Content, after : Content])
      BY <3>1, <3>2 DEF Trail
    <3>5. QED
      BY <3>2, <3>3, <3>4 DEF Trail
  <2>5. content' \in Content /\ version' \in [Columns -> Nat]
    BY <1>3, WrittenType, SetType DEF CommitEdit
  <2>6. UNCHANGED <<status, people, labelVars, pageVars, asked, abandoned>>
    BY <1>3 DEF CommitEdit
  <2>7. QED
    BY <2>3, <2>4, <2>5, <2>6 DEF Typed, TypeOK, Aside, Holds
<1>4. QED
  BY <1>2, <1>3

LEMMA StatusAside ==
  ASSUME Typed, NEW d \in Drawers, See(d) \/ CommitStatus(d) \/ Moved(d)
  PROVE  Typed' /\ Aside(d)
<1>1. /\ req[d] \in Request /\ req \in [Drawers -> Request]
      /\ status \in Statuses
  BY DEF Typed, TypeOK
<1>2. CASE See(d) /\ ~Error(d)
  <2> DEFINE new == [req[d] EXCEPT !.pc = "move", !.seen = status]
  <2>1. new \in Request /\ new.pc = "move"
    BY <1>1 DEF Request, Pc
  <2>2. PutSound(new) /\ Becomes(d, new)
    BY <1>1, <1>2, <2>1 DEF PutSound, See, Becomes
  <2> HIDE DEF new
  <2>3. UNCHANGED <<rowVars, labelVars, pageVars, asked, abandoned>>
    BY <1>2 DEF See
  <2>4. QED
    BY <2>1, <2>2, <2>3, BecomesType DEF Typed, TypeOK, Aside, Holds
<1>3. CASE See(d) /\ Error(d)
  <2>1. UNCHANGED <<rowVars, labelVars, page, asked, abandoned>>
    BY <1>3 DEF See
  <2>2. QED
    BY <1>3, <2>1, ErrorType, EndType, NoRequestType
       DEF Typed, TypeOK, Aside, Holds
<1>4. CASE CommitStatus(d)
  <2> DEFINE entry == [before |-> req[d].seen, after |-> req[d].call.to]
  <2>1. status' \in Statuses
    BY <1>1, <1>4 DEF CommitStatus, Written, Request, Call
  <2>2. trail' \in Trail
    <3>1. entry \in [before : Statuses, after : Statuses]
      BY <1>1 DEF Request, Call
    <3>2. trail \in Trail
      BY DEF Typed, TypeOK
    <3>3. trail' = [trail EXCEPT !.status_changed = Append(@, entry)]
      BY <1>4 DEF CommitStatus
    <3> HIDE DEF entry
    <3>4. Append(trail.status_changed, entry)
            \in Seq([before : Statuses, after : Statuses])
      BY <3>1, <3>2 DEF Trail
    <3>5. QED
      BY <3>2, <3>3, <3>4 DEF Trail
  <2>3. /\ GoTo(d, "moved")
        /\ UNCHANGED <<content, version, people, labelVars, pageVars, asked,
                       abandoned>>
    BY <1>4 DEF CommitStatus
  <2>4. "moved" \in Pc \ {"snapshot", "find", "delete", "insert", "commit"}
    BY DEF Pc
  <2>5. /\ req' \in [Drawers -> Request] /\ req'[d].pc = "moved"
        /\ \A q \in Drawers \ {d} : req'[q] = req[q]
        /\ \A q \in Drawers : PutSound(req'[q])
    BY <2>3, <2>4, GoToType
  <2>6. QED
    BY <2>1, <2>2, <2>3, <2>5 DEF Typed, TypeOK, Aside, Holds
<1>5. CASE Moved(d)
  <2>1. page \in [Drawers -> Page] /\ req[d].call.carries \in Copy
    BY <1>1 DEF Typed, TypeOK, Request, Call
  <2>2. [page[d] EXCEPT !.shown = req[d].call.carries] \in Page
    BY <2>1 DEF Page
  <2>3. page' = [page EXCEPT ![d] =
                   [page[d] EXCEPT !.shown = req[d].call.carries]]
    BY <1>5, <2>1 DEF Moved
  <2>4. page' \in [Drawers -> Page]
    BY <2>1, <2>2, <2>3
  <2>5. /\ End(d)
        /\ UNCHANGED <<rowVars, labelVars, retry, asked, abandoned>>
    BY <1>5 DEF Moved
  <2>6. QED
    BY <2>4, <2>5, EndType, NoRequestType DEF Typed, TypeOK, Aside, Holds
<1>6. QED
  BY <1>2, <1>3, <1>4, <1>5

LEMMA LabelAside ==
  ASSUME Typed, NEW d \in Drawers,
         FindName(d) \/ Create(d) \/ Created(d) \/ FindTag(d) \/ Tag(d)
  PROVE  Typed' /\ Aside(d)
<1>1. /\ req[d] \in Request /\ req[d].call.name \in Names
      /\ {"create", "created", "exists", "tag", "refetch"}
           \subseteq Pc \ {"snapshot", "find", "delete", "insert", "commit"}
      /\ retry \in [Drawers -> SUBSET Call]
  BY DEF Typed, TypeOK, Request, Call, Pc
<1>2. \/ Error(d)
      \/ /\ retry' = retry
         /\ \E pc \in {"create", "created", "exists", "tag", "refetch"} :
              GoTo(d, pc)
  BY DEF FindName, Create, Created, FindTag, Tag
<1>3. /\ req' \in [Drawers -> Request]
      /\ req'[d].pc \notin {"insert", "commit"}
      /\ \A q \in Drawers \ {d} : req'[q] = req[q]
      /\ \A q \in Drawers : PutSound(req'[q])
      /\ retry' \in [Drawers -> SUBSET Call]
  BY <1>1, <1>2, ErrorType, EndType, GoToType, NoRequestType
<1>4. labels' \subseteq Names /\ tags' \subseteq Names
  BY <1>1 DEF FindName, Create, Created, FindTag, Tag, Typed, TypeOK
<1>5. page' \in [Drawers -> Page]
  <2>1. page \in [Drawers -> Page]
    BY DEF Typed, TypeOK
  <2>2. [page[d] EXCEPT !.catalog = @ \cup {req[d].call.name}] \in Page
    BY <1>1, <2>1 DEF Page
  <2>3. page' \in {page, [page EXCEPT
          ![d] = [page[d] EXCEPT !.catalog = @ \cup {req[d].call.name}]]}
    BY <2>1 DEF FindName, Create, Created, FindTag, Tag
  <2>4. QED
    BY <2>1, <2>2, <2>3
<1>6. UNCHANGED <<rowVars, asked, abandoned>>
  BY DEF FindName, Create, Created, FindTag, Tag
<1>7. QED
  BY <1>3, <1>4, <1>5, <1>6 DEF Typed, TypeOK, Aside, Holds

LEMMA ReadAside ==
  ASSUME Typed, NEW d \in Drawers, Snapshot(d) \/ Find(d)
  PROVE  Typed' /\ Aside(d)
<1>1. /\ req[d] \in Request /\ req \in [Drawers -> Request]
      /\ people \in SUBSET Link /\ req[d].put = 0
  BY DEF Typed, TypeOK, PutSound, Snapshot, Find, At
<1>2. PICK pc \in {"find", "delete"}, before \in Ids, gone \in SUBSET Link :
        Becomes(d, [req[d] EXCEPT !.pc = pc, !.before = before, !.gone = gone])
  <2>1. CASE Snapshot(d)
    <3>1. req' = [req EXCEPT ![d] = [req[d] EXCEPT
            !.pc = "find", !.before = IdsOf(people), !.gone = req[d].gone]]
      BY <1>1, <2>1 DEF Snapshot, Request
    <3>2. IdsOf(people) \in Ids /\ req[d].gone \in SUBSET Link
      BY <1>1, IdsType DEF Request
    <3>3. QED
      BY <3>1, <3>2 DEF Becomes
  <2>2. CASE Find(d)
    <3>1. req' = [req EXCEPT ![d] = [req[d] EXCEPT
            !.pc = "delete", !.before = req[d].before, !.gone = people]]
      BY <1>1, <2>2 DEF Find, Request
    <3>2. req[d].before \in Ids
      BY <1>1 DEF Request
    <3>3. QED
      BY <1>1, <3>1, <3>2 DEF Becomes
  <2>3. QED
    BY <2>1, <2>2
<1> DEFINE new == [req[d] EXCEPT !.pc = pc, !.before = before, !.gone = gone]
<1>3. new \in Request /\ new.pc = pc /\ new.put = 0
  BY <1>1 DEF Request, Pc
<1>4. PutSound(new) /\ Becomes(d, new)
  BY <1>2, <1>3 DEF PutSound
<1> HIDE DEF new
<1>5. UNCHANGED <<rowVars, labelVars, pageVars, asked, abandoned>>
  BY DEF Snapshot, Find
<1>6. QED
  BY <1>3, <1>4, <1>5, BecomesType DEF Typed, TypeOK, Aside, Holds

LEMMA EndAside ==
  ASSUME Typed, NEW d \in Drawers, Refetch(d) \/ Fails(d)
  PROVE  Typed' /\ Aside(d)
<1>1. /\ page \in [Drawers -> Page] /\ retry \in [Drawers -> SUBSET Call]
      /\ content \in Content /\ version \in [Columns -> Nat]
      /\ req[d].call.name \in Names /\ abandoned \subseteq Names
  BY DEF Typed, TypeOK, Request, Call
<1>2. CASE Refetch(d)
  <2> DEFINE p == IF req[d].call.pc = "load" THEN NoForm(d) ELSE page[d]
  <2>1. p \in Page /\ Fetched \in Copy
    BY <1>1, NoRequestType DEF NoForm, Page, Copy, Fetched
  <2>2. page' = [page EXCEPT ![d] = [p EXCEPT !.shown = Fetched]]
    BY <1>2 DEF Refetch
  <2> HIDE DEF p
  <2>3. [p EXCEPT !.shown = Fetched] \in Page
    BY <2>1 DEF Page
  <2>4. page' \in [Drawers -> Page]
    BY <1>1, <2>2, <2>3
  <2>5. End(d) /\ UNCHANGED <<rowVars, labelVars, retry, asked, abandoned>>
    BY <1>2 DEF Refetch
  <2>6. QED
    BY <2>4, <2>5, EndType, NoRequestType DEF Typed, TypeOK, Aside, Holds
<1>3. CASE Fails(d)
  <2>1. /\ Error(d) /\ UNCHANGED <<rowVars, labelVars, page, asked>>
        /\ abandoned' \subseteq Names
    BY <1>1, <1>3 DEF Fails
  <2>2. QED
    BY <2>1, ErrorType, EndType, NoRequestType DEF Typed, TypeOK, Aside, Holds
<1>4. QED
  BY <1>2, <1>3
-----------------------------------------------------------------------------
(* Reassignments that have deleted their rows: whom they have inserted is  *)
(* nobody that another row links, be it one of the table or one that       *)
(* another transaction has deleted or inserted.                            *)
Own(d) ==
  /\ req[d].gone \subseteq people
  /\ \A p \in Left(d), n \in NewRows(d) : p.who # n.who

Apart(d, q) ==
  /\ req[d].gone \cap req[q].gone = {}
  /\ \A n \in NewRows(d), p \in req[q].gone \cup NewRows(q) : n.who # p.who

LinkInv ==
  /\ LinkedOnce
  /\ \A d \in Drawers : Holds(d) => Own(d)
  /\ \A d, q \in Drawers : d # q /\ Holds(d) /\ Holds(q) => Apart(d, q)

LEMMA LinksInitially == Init => LinkInv
<1> SUFFICES ASSUME Init PROVE LinkInv
  OBVIOUS
<1>1. \A d \in Drawers : ~Holds(d)
  BY NoRequestType DEF Init, Holds
<1>2. LinkedOnce
  BY WorkItemAssumption DEF Init, LinkedOnce
<1>3. QED
  BY <1>1, <1>2 DEF LinkInv

(* The rows of a request that did not move. *)
LEMMA Unmoved ==
  ASSUME NEW q \in Drawers, req'[q] = req[q]
  PROVE  /\ Holds(q)' <=> Holds(q)
         /\ NewRows(q)' = NewRows(q)
         /\ people' = people => Left(q)' = Left(q)
BY DEF Holds, NewRows, NewRow, Left

LEMMA AsideLinks ==
  ASSUME LinkInv, NEW d \in Drawers, Aside(d)
  PROVE  LinkInv'
<1>1. \A q \in Drawers : Holds(q)' =>
        /\ req'[q] = req[q]
        /\ Holds(q)
        /\ NewRows(q)' = NewRows(q)
        /\ Left(q)' = Left(q)
  BY Unmoved DEF Aside
<1>2. LinkedOnce'
  BY DEF LinkInv, LinkedOnce, Aside
<1>3. \A q \in Drawers : Holds(q)' => Own(q)'
  BY <1>1 DEF LinkInv, Own, Aside
<1>4. \A p, q \in Drawers : p # q /\ Holds(p)' /\ Holds(q)' => Apart(p, q)'
  BY <1>1 DEF LinkInv, Apart, Aside
<1>5. QED
  BY <1>2, <1>3, <1>4 DEF LinkInv

(* What a reassignment deletes is linked by no other's new rows.           *)
LEMMA DeleteLinks ==
  ASSUME Typed, LinkInv, NEW d \in Drawers, Delete(d)
  PROVE  Typed' /\ LinkInv'
<1> DEFINE new == [req[d] EXCEPT !.gone = @ \cap people,
                     !.pc = IF req[d].call.draft = <<>> THEN "commit" ELSE "insert"]
<1>1. /\ req[d] \in Request /\ req \in [Drawers -> Request]
      /\ req[d].pc = "delete" /\ req[d].put = 0
  BY DEF Typed, TypeOK, PutSound, Delete, At
<1>2. /\ new \in Request /\ new.put = 0
      /\ new.gone = req[d].gone \cap people
      /\ new.pc \in {"insert", "commit"}
  BY <1>1 DEF Request, Pc
<1>3. PutSound(new)
  <2>1. new.call.draft = req[d].call.draft /\ req[d].call.draft \in Drafts
    BY <1>1 DEF Request, Call
  <2>2. CASE req[d].call.draft = <<>>
    BY <1>2, <2>1, <2>2 DEF PutSound
  <2>3. CASE req[d].call.draft # <<>>
    <3>1. Len(req[d].call.draft) \in Nat /\ Len(req[d].call.draft) # 0
      <4>1. PICK n \in 0..Cardinality(Assignees) :
              req[d].call.draft \in [1..n -> Assignees]
        BY <2>1 DEF Drafts
      <4>2. req[d].call.draft \in Seq(Assignees)
        BY <4>1, DraftsType
      <4>3. QED
        BY <2>3, <4>2
    <3>2. new.pc = "insert"
      BY <1>1, <2>3 DEF Request
    <3>3. QED
      BY <1>2, <2>1, <3>1, <3>2 DEF PutSound
  <2>4. QED
    BY <2>2, <2>3
<1>4. Becomes(d, new)
  BY <1>1 DEF Delete, Becomes
<1> HIDE DEF new
<1>5. UNCHANGED <<rowVars, labelVars, pageVars, asked, abandoned>>
  BY DEF Delete
<1>6. /\ req' \in [Drawers -> Request] /\ req'[d] = new
      /\ \A q \in Drawers \ {d} : req'[q] = req[q]
      /\ \A q \in Drawers : PutSound(req'[q])
  BY <1>2, <1>3, <1>4, BecomesType
<1>7. Typed'
  BY <1>5, <1>6 DEF Typed, TypeOK
<1>8. NewRows(d)' = {} /\ req'[d].gone = req[d].gone \cap people
  BY <1>2, <1>6 DEF NewRows
<1>9. \A q \in Drawers \ {d} :
        /\ req'[q] = req[q]
        /\ Holds(q)' <=> Holds(q)
        /\ NewRows(q)' = NewRows(q)
        /\ Left(q)' = Left(q)
  BY <1>5, <1>6, Unmoved
<1>10. \A q \in Drawers \ {d} :
         Holds(q) => req[q].gone \cap req[d].gone = {}
  BY DEF Delete, Free, WaitsFor
<1>11. LinkedOnce'
  BY <1>5 DEF LinkInv, LinkedOnce
<1>12. \A q \in Drawers : Holds(q)' => Own(q)'
  BY <1>5, <1>8, <1>9 DEF LinkInv, Own
<1>13. ASSUME NEW q \in Drawers \ {d}, Holds(q)
       PROVE  Apart(d, q)' /\ Apart(q, d)'
  <2>1. req'[d].gone \cap req'[q].gone = {}
    BY <1>8, <1>9, <1>10, <1>13
  <2>2. \A p \in req'[d].gone : p \in Left(q)
    BY <1>8, <1>10, <1>13 DEF Left
  <2>3. \A n \in NewRows(q), p \in req'[d].gone : n.who # p.who
    BY <1>13, <2>2 DEF LinkInv, Own
  <2>4. QED
    BY <1>8, <1>9, <2>1, <2>3 DEF Apart
<1>14. \A p, q \in Drawers : p # q /\ Holds(p)' /\ Holds(q)' => Apart(p, q)'
  BY <1>9, <1>13 DEF LinkInv, Apart
<1>15. QED
  BY <1>7, <1>11, <1>12, <1>14 DEF LinkInv

(* An insert that neither waits nor fails adds somebody whom no row links. *)
LEMMA InsertLinks ==
  ASSUME Typed, LinkInv, NEW d \in Drawers, Insert(d)
  PROVE  Typed' /\ LinkInv'
<1>1. UNCHANGED <<rowVars, labelVars, page, asked, abandoned>>
  BY DEF Insert
<1>2. CASE Error(d)
  BY <1>1, <1>2, ErrorType, EndType, NoRequestType, AsideLinks
     DEF Typed, TypeOK, Aside, Holds
<1>3. CASE ~Linked(d) /\ PutNext(d) /\ retry' = retry
  <2> DEFINE k == req[d].put + 1
             new == [req[d] EXCEPT !.put = k,
                       !.pc = IF k = Len(req[d].call.draft) THEN "commit" ELSE @]
  <2>1. /\ req[d] \in Request /\ req \in [Drawers -> Request]
        /\ req[d].pc = "insert" /\ Holds(d)
    BY DEF Typed, TypeOK, Insert, At, Holds
  <2>2. /\ req[d].call.draft \in Drafts /\ req[d].put \in Nat
        /\ req[d].put < Len(req[d].call.draft)
    BY <2>1, DraftsType DEF Request, Call, Typed, PutSound
  <2>3. k \in 1..Len(req[d].call.draft) /\ k \in 0..Cardinality(Assignees)
    BY <2>2, DraftsType
  <2>4. /\ new \in Request /\ new.put = k /\ new.call.draft = req[d].call.draft
        /\ new.nr = req[d].nr /\ new.gone = req[d].gone
        /\ new.pc = IF k = Len(req[d].call.draft) THEN "commit" ELSE "insert"
    <3> HIDE DEF k
    <3>1. QED
      BY <2>1, <2>3 DEF Request, Pc
  <2>5. PutSound(new)
    BY <2>2, <2>3, <2>4, DraftsType DEF PutSound
  <2>6. Becomes(d, new)
    BY <1>3, <2>1 DEF PutNext, Becomes
  <2> HIDE DEF new
  <2>7. /\ req' \in [Drawers -> Request] /\ req'[d] = new
        /\ \A q \in Drawers \ {d} : req'[q] = req[q]
        /\ \A q \in Drawers : PutSound(req'[q])
    BY <2>4, <2>5, <2>6, BecomesType
  <2>8. Typed'
    BY <1>1, <1>3, <2>7 DEF Typed, TypeOK
  <2>9. /\ NewRows(d)' = NewRows(d) \cup {NewRow(d, k)}
        /\ NewRow(d, k).who = NextWho(d)
    <3>1. \A i \in 1..k : NewRow(d, i)' = NewRow(d, i)
      BY <2>4, <2>7 DEF NewRow
    <3>2. NewRows(d)' = {NewRow(d, i) : i \in 1..k}
      BY <2>4, <2>7, <3>1 DEF NewRows
    <3>3. 1..k = (1..req[d].put) \cup {k}
      BY <2>2
    <3>4. QED
      BY <3>2, <3>3 DEF NewRows, NewRow, NextWho
  <2>10. \A q \in Drawers \ {d} :
           /\ req'[q] = req[q]
           /\ Holds(q)' <=> Holds(q)
           /\ NewRows(q)' = NewRows(q)
           /\ Left(q)' = Left(q)
    BY <1>1, <2>7, Unmoved
  <2>11. Left(d)' = Left(d) /\ req'[d].gone = req[d].gone
    BY <1>1, <2>4, <2>7 DEF Left
  <2>12. LinkedOnce'
    BY <1>1 DEF LinkInv, LinkedOnce
  <2>13. Own(d)'
    <3>1. Own(d)
      BY <2>1 DEF LinkInv
    <3>2. \A p \in Left(d) : p.who # NextWho(d)
      BY <1>3 DEF Linked
    <3>3. QED
      BY <1>1, <2>9, <2>11, <3>1, <3>2 DEF Own
  <2>14. \A q \in Drawers : Holds(q)' => Own(q)'
    BY <1>1, <2>10, <2>13 DEF LinkInv, Own
  <2>15. ASSUME NEW q \in Drawers \ {d}, Holds(q)
         PROVE  Apart(d, q)' /\ Apart(q, d)'
    <3>1. \A p \in req[q].gone \cup NewRows(q) : p.who # NextWho(d)
      BY <2>1, <2>15 DEF Insert, Free, WaitsFor, HoldsWho
    <3>2. Apart(d, q) /\ Apart(q, d)
      BY <2>1, <2>15 DEF LinkInv
    <3>3. QED
      BY <2>9, <2>10, <2>11, <3>1, <3>2 DEF Apart
  <2>16. \A p, q \in Drawers : p # q /\ Holds(p)' /\ Holds(q)' => Apart(p, q)'
    <3>1. ASSUME NEW p \in Drawers, NEW q \in Drawers, p # q,
                 Holds(p)', Holds(q)', p # d, q # d
          PROVE  Apart(p, q)'
      BY <2>10, <3>1 DEF LinkInv, Apart
    <3>2. QED
      BY <2>10, <2>15, <3>1
  <2>17. QED
    BY <2>8, <2>12, <2>14, <2>16 DEF LinkInv
<1>4. QED
  BY <1>2, <1>3 DEF Insert

(* What a reassignment inserts links everybody of its draft once.          *)
LEMMA NewRowsType ==
  ASSUME Typed, NEW d \in Drawers, Holds(d)
  PROVE  /\ NewRows(d) \subseteq Link
         /\ \A m, n \in NewRows(d) : m.who = n.who => m = n
<1>1. req[d] \in Request /\ PutSound(req[d])
  BY DEF Typed, TypeOK
<1>2. /\ req[d].call.draft \in Drafts /\ req[d].put \in Nat
      /\ req[d].nr \in 0..MaxRequests /\ Len(req[d].call.draft) \in Nat
  BY <1>1, DraftsType DEF Request, Call
<1>3. req[d].put <= Len(req[d].call.draft)
  BY <1>1, <1>2 DEF Holds, PutSound
<1>4. \A i \in 1..req[d].put : i \in 1..Len(req[d].call.draft)
  BY <1>2, <1>3
<1>5. \A i \in 1..req[d].put : NewRow(d, i) \in Link
  <2>1. ASSUME NEW i \in 1..req[d].put PROVE req[d].call.draft[i] \in Assignees
    BY <1>2, <1>4, DraftsType
  <2>2. QED
    BY <1>2, <2>1 DEF NewRow, Link
<1>6. \A i, j \in 1..req[d].put :
        NewRow(d, i).who = NewRow(d, j).who => i = j
  <2>1. \A i, j \in 1..req[d].put :
          req[d].call.draft[i] = req[d].call.draft[j] => i = j
    BY <1>2, <1>4, DraftsType
  <2>2. QED
    BY <2>1 DEF NewRow
<1>7. QED
  BY <1>5, <1>6 DEF NewRows

LEMMA CommitReassignTyped ==
  ASSUME Typed, NEW d \in Drawers, CommitReassign(d)
  PROVE  /\ Typed'
         /\ ~Holds(d)'
         /\ \A q \in Drawers \ {d} : req'[q] = req[q]
<1>1. req[d] \in Request /\ Holds(d) /\ GoTo(d, "refetch")
  BY DEF Typed, TypeOK, CommitReassign, At, Holds
<1>2. "refetch" \in Pc \ {"snapshot", "find", "delete", "insert", "commit"}
  BY DEF Pc
<1>3. /\ req' \in [Drawers -> Request] /\ req'[d].pc = "refetch"
      /\ \A q \in Drawers \ {d} : req'[q] = req[q]
      /\ \A q \in Drawers : PutSound(req'[q])
  BY <1>1, <1>2, GoToType
<1>4. people' \subseteq Link
  BY <1>1, NewRowsType DEF CommitReassign, Left, Typed, TypeOK
<1>5. trail' \in Trail
  <2> DEFINE entry == [before |-> req[d].before, after |-> Listed(req[d].call.draft)]
  <2>1. entry \in [before : Ids, after : Ids]
    BY <1>1, IdsType DEF Request, Call
  <2>2. trail \in Trail
    BY DEF Typed, TypeOK
  <2>3. trail' = [trail EXCEPT !.reassigned = Append(@, entry)]
    BY DEF CommitReassign
  <2> HIDE DEF entry
  <2>4. Append(trail.reassigned, entry) \in Seq([before : Ids, after : Ids])
    BY <2>1, <2>2 DEF Trail
  <2>5. QED
    BY <2>2, <2>3, <2>4 DEF Trail
<1>6. UNCHANGED <<content, version, status, labelVars, pageVars, asked,
                 abandoned>>
  BY DEF CommitReassign
<1>7. QED
  BY <1>3, <1>4, <1>5, <1>6 DEF Typed, TypeOK, Holds

(* A commit puts its new rows in the place of those it deleted; a row that *)
(* another one is still to delete stays.                                   *)
LEMMA CommitReassignLinks ==
  ASSUME Typed, LinkInv, NEW d \in Drawers, CommitReassign(d)
  PROVE  Typed' /\ LinkInv'
<1>1. Holds(d) /\ people' = Left(d) \cup NewRows(d)
  BY DEF CommitReassign, At, Holds
<1>2. /\ Typed' /\ ~Holds(d)'
      /\ \A q \in Drawers \ {d} : req'[q] = req[q]
  BY CommitReassignTyped
<1>3. \A q \in Drawers \ {d} :
        (Holds(q)' <=> Holds(q)) /\ NewRows(q)' = NewRows(q)
  BY <1>2, Unmoved
<1>4. Own(d) /\ LinkedOnce
  BY <1>1 DEF LinkInv
<1>5. LinkedOnce'
  <2>1. \A p, q \in Left(d) : p.who = q.who => p = q
    BY <1>4 DEF Left, LinkedOnce
  <2>2. \A p, q \in Left(d) \cup NewRows(d) : p.who = q.who => p = q
    BY <1>1, <1>4, <2>1, NewRowsType DEF Own
  <2>3. QED
    BY <1>1, <2>2 DEF LinkedOnce
<1>6. ASSUME NEW q \in Drawers \ {d}, Holds(q) PROVE Own(q)'
  <2>1. Own(q) /\ Apart(d, q) /\ Apart(q, d)
    BY <1>1, <1>6 DEF LinkInv
  <2>2. req[q].gone \subseteq Left(d)
    BY <2>1 DEF Own, Apart, Left
  <2>3. \A p \in Left(d), n \in NewRows(q) : p \in Left(q) => p.who # n.who
    BY <2>1 DEF Own
  <2>4. \A p \in people' \ req[q].gone, n \in NewRows(q) : p.who # n.who
    BY <1>1, <2>1, <2>3 DEF Apart, Left
  <2>5. QED
    BY <1>1, <1>2, <1>3, <2>2, <2>4 DEF Own, Left
<1>7. \A q \in Drawers : Holds(q)' => Own(q)'
  BY <1>2, <1>3, <1>6
<1>8. \A p, q \in Drawers : p # q /\ Holds(p)' /\ Holds(q)' => Apart(p, q)'
  <2>1. ASSUME NEW p \in Drawers, NEW q \in Drawers, p # q,
               Holds(p)', Holds(q)'
        PROVE  Apart(p, q)'
    <3>1. p # d /\ q # d
      BY <1>2, <2>1
    <3>2. QED
      BY <1>2, <1>3, <2>1, <3>1 DEF LinkInv, Apart
  <2>2. QED
    BY <2>1
<1>9. QED
  BY <1>2, <1>5, <1>7, <1>8 DEF LinkInv
-----------------------------------------------------------------------------
LEMMA DeadlockAside ==
  ASSUME Typed, NEW d \in Drawers, NEW q \in Drawers, BreakDeadlock(d, q)
  PROVE  Typed' /\ (Aside(d) \/ Aside(q))
<1>1. UNCHANGED <<rowVars, labelVars, page, asked, abandoned>>
  BY DEF BreakDeadlock
<1>2. ASSUME NEW p \in Drawers, Error(p) PROVE Typed' /\ Aside(p)
  BY <1>1, <1>2, ErrorType, EndType, NoRequestType
     DEF Typed, TypeOK, Aside, Holds
<1>3. QED
  BY <1>2 DEF BreakDeadlock

LEMMA StutterTyped ==
  ASSUME Typed, LinkInv, UNCHANGED vars
  PROVE  Typed' /\ LinkInv'
<1>1. Typed'
  BY DEF Typed, TypeOK
<1>2. people' = people /\ req' = req
  OBVIOUS
<1>3. LinkInv'
  BY <1>2 DEF LinkInv, LinkedOnce, Holds, Own, Apart, Left, NewRows, NewRow
<1>4. QED
  BY <1>1, <1>3

LEMMA LinksInductive ==
  ASSUME Typed, LinkInv, [Next]_vars
  PROVE  Typed' /\ LinkInv'
<1>1. CASE UNCHANGED vars
  BY <1>1, StutterTyped
<1>2. ASSUME NEW d \in Drawers, Typed' /\ Aside(d) PROVE Typed' /\ LinkInv'
  BY <1>2, AsideLinks
<1>3. ASSUME NEW d \in Drawers, User(d) \/ Fails(d)
      PROVE  Typed' /\ LinkInv'
  BY <1>2, <1>3, UserAside, EndAside
<1>4. ASSUME NEW d \in Drawers, Step(d) PROVE Typed' /\ LinkInv'
  <2>1. CASE Load(d) \/ CommitEdit(d)
    BY <1>2, <2>1, EditAside
  <2>2. CASE See(d) \/ CommitStatus(d) \/ Moved(d)
    BY <1>2, <2>2, StatusAside
  <2>3. CASE Snapshot(d) \/ Find(d)
    BY <1>2, <2>3, ReadAside
  <2>4. CASE Delete(d)
    BY <2>4, DeleteLinks
  <2>5. CASE Insert(d)
    BY <2>5, InsertLinks
  <2>6. CASE CommitReassign(d)
    BY <2>6, CommitReassignLinks
  <2>7. CASE FindName(d) \/ Create(d) \/ Created(d) \/ FindTag(d) \/ Tag(d)
    BY <1>2, <2>7, LabelAside
  <2>8. CASE Refetch(d)
    BY <1>2, <2>8, EndAside
  <2>9. CASE \E q \in Drawers \ {d} : BreakDeadlock(d, q)
    <3>1. PICK q \in Drawers \ {d} : BreakDeadlock(d, q)
      BY <2>9
    <3>2. QED
      BY <1>2, <3>1, DeadlockAside
  <2>10. QED
    BY <1>4, <2>1, <2>2, <2>3, <2>4, <2>5, <2>6, <2>7, <2>8, <2>9 DEF Step
<1>5. QED
  BY <1>1, <1>3, <1>4 DEF Next

(* The variables keep their types: no reassignment inserts more rows than  *)
(* its draft lists, and every audit entry has what its action records.     *)
THEOREM TypeCorrect == Spec => []TypeOK
<1>1. Init => Typed /\ LinkInv
  BY TypedInitially, LinksInitially
<1>2. Typed /\ LinkInv /\ [Next]_vars => (Typed /\ LinkInv)'
  BY LinksInductive
<1>3. Typed => TypeOK
  BY DEF Typed
<1>4. QED
  BY <1>1, <1>2, <1>3, PTL DEF Spec

(* reassign_work_item and uq_work_item_assignees_pair: nobody is linked to *)
(* the item twice, however many reassignments overlap and whichever of     *)
(* them wait for each other, fail or are rolled back.                      *)
THEOREM LinkedOnceCorrect == Spec => []LinkedOnce
<1>1. Init => Typed /\ LinkInv
  BY TypedInitially, LinksInitially
<1>2. Typed /\ LinkInv /\ [Next]_vars => (Typed /\ LinkInv)'
  BY LinksInductive
<1>3. LinkInv => LinkedOnce
  BY DEF LinkInv
<1>4. QED
  BY <1>1, <1>2, <1>3, PTL DEF Spec
=============================================================================
