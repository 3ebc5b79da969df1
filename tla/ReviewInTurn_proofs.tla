------------------------ MODULE ReviewInTurn_proofs ------------------------
(***************************************************************************)
(* Theorems about Review while requests are served in turn: what overlaps  *)
(* break, and nothing else does.                                           *)
(***************************************************************************)
EXTENDS Review_proofs

(* A tuple of variables is always expanded. *)
USE DEF vars, dbVars, botVars, asked

(* A request between the statement that loads the candidate and the commit *)
(* knows the candidate as it is.                                           *)
Holding(r) == req[r].pc \in {"insert", "copy", "approve", "flush", "find",
                             "delete", "write"}

InTurn ==
  \A q, r \in Requests : ~At(q, "idle") /\ ~At(r, "idle") => q = r

KnowsPeople(r) ==
  \/ req[r].pc \in {"approve", "delete"}
  \/ At(r, "write") /\ req[r].op = "edit" /\ ReplacesPeople(r)

Fresh(r) ==
  /\ Holding(r) => /\ req[r].loaded = row[Cand(r)]
                   /\ row[Cand(r)].status # "approved"
  /\ KnowsPeople(r) => req[r].people = row[Cand(r)].people

(* What a candidate says of itself. *)
Sound(c) ==
  /\ row[c].people = {} => "assignee" \in row[c].missing
  /\ \A p, q \in row[c].people : p.primary /\ q.primary => p = q
  /\ VersionOf(row[c]) \in versions[c]

(* What work items and audit entries say of candidates. *)
ItemsSound ==
  \A i \in DOMAIN items :
    [title |-> items[i].title, people |-> items[i].people]
      \in versions[items[i].cand]

LastOf(i) == \A j \in DOMAIN trail : trail[j].cand = trail[i].cand => j <= i

TrailSound ==
  \A i \in DOMAIN trail :
    LastOf(i) => row[trail[i].cand].status = trail[i].action

Tables == (\A c \in Candidates : Sound(c)) /\ ItemsSound /\ TrailSound

TurnInv == ~overlapped => InTurn /\ (\A r \in Requests : Fresh(r)) /\ Tables
-----------------------------------------------------------------------------
LEMMA OverlapStays == ASSUME Next, ~overlapped' PROVE ~overlapped
BY DEF Next, FromWeb, FromCard, FromCommand, Ask, Step, Fails, ShowCard,
   Guard, Load, Flush, Find, Delete, CommitEdit, Settle, EditConflicts,
   Insert, Copy, Approve, Push, Refresh, BreakDeadlock

(* Nothing undoes an overlap, and a request that begins while no other is  *)
(* served is alone.                                                        *)
LEMMA StillInTurn ==
  ASSUME TypeOK, InTurn, Next, ~overlapped'
  PROVE  ~overlapped /\ InTurn'
<1> USE NoRequestType DEF TypeOK, At
<1>1. ASSUME NEW r \in Requests, NEW op, NEW from, NEW c, NEW edit,
             Ask(r, op, from, c, edit)
      PROVE  ~overlapped /\ InTurn'
  <2>1. ~overlapped /\ \A q \in Requests \ {r} : req[q].pc = "idle"
    BY <1>1 DEF Ask
  <2>2. \A q \in Requests \ {r} : req'[q] = req[q]
    BY <1>1 DEF Ask
  <2>3. QED
    BY <2>1, <2>2 DEF InTurn
<1>2. ASSUME NEW r \in Requests, Step(r) \/ Fails(r)
      PROVE  UNCHANGED overlapped
             /\ \A q \in Requests : At(q, "idle") => At(q, "idle")'
  <2>1. CASE \E q \in Requests \ {r} : BreakDeadlock(r, q)
    BY <2>1 DEF BreakDeadlock, End
  <2>2. CASE ~ \E q \in Requests \ {r} : BreakDeadlock(r, q)
    <3>1. UNCHANGED overlapped /\ ~At(r, "idle")
      BY <1>2, <2>2 DEF Step, Fails, Guard, Load, Flush, Find, Delete,
         CommitEdit, EditConflicts, Settle, Insert, Copy, Approve, Push,
         Refresh
    <3>2. \A q \in Requests \ {r} : req'[q] = req[q]
      BY <1>2, <2>2 DEF Step, Fails, Guard, Load, Flush, Find, Delete,
         CommitEdit, EditConflicts, Settle, Insert, Copy, Approve, Push,
         Refresh, GoTo, End
    <3>3. QED
      BY <3>1, <3>2
  <2>3. QED
    BY <2>1, <2>2
<1>3. CASE \E r \in Requests : FromWeb(r) \/ FromCard(r) \/ FromCommand(r)
  BY <1>1, <1>3 DEF FromWeb, FromCard, FromCommand
<1>4. CASE \E r \in Requests : Step(r) \/ Fails(r)
  BY <1>2, <1>4 DEF InTurn
<1>5. CASE \E c \in Candidates : ShowCard(c)
  BY <1>5 DEF ShowCard, InTurn
<1>6. QED
  BY <1>3, <1>4, <1>5 DEF Next
-----------------------------------------------------------------------------
(* Each commit leaves the tables sound: an edit... *)
LEMMA SoundEdit ==
  ASSUME TypeOK, Tables, NEW r \in Requests, Fresh(r), CommitEdit(r)
  PROVE  /\ \A c \in Candidates : Sound(c)'
         /\ row'[Cand(r)].status = "edited"
<1>1. PICK c \in Candidates : c = Cand(r)
  BY DEF TypeOK, Request, Cand
<1> DEFINE old == row[c]
           new == [status |-> "edited", title |-> NewTitle(r),
                   due |-> NewDue(r), missing |-> NewMissing(r),
                   people |-> IF ReplacesPeople(r) THEN NewPeople(r)
                              ELSE old.people]
<1>2. req[r].loaded = old
  BY <1>1 DEF Fresh, Holding, CommitEdit, At
<1>3. ReplacesPeople(r) => PeopleLeft(r) = {}
  BY DEF Fresh, KnowsPeople, CommitEdit, At, PeopleLeft
<1>4. Committed(c, new)
  BY <1>1, <1>2, <1>3 DEF CommitEdit, Written
<1>5. row' = [row EXCEPT ![c] = new]
      /\ versions' = [versions EXCEPT ![c] = @ \cup {VersionOf(new)}]
  BY <1>4 DEF Committed
<1>6. row'[c] = new /\ VersionOf(new) \in versions'[c]
  BY <1>5 DEF TypeOK
<1>7. \A d \in Candidates \ {c} : row'[d] = row[d] /\ versions'[d] = versions[d]
  BY <1>5 DEF TypeOK
<1>8. new.people = {} => "assignee" \in new.missing
  <2>1. CASE ReplacesPeople(r)
    BY <2>1 DEF NewMissing
  <2>2. CASE ~ReplacesPeople(r)
    BY <1>2, <2>2 DEF NewMissing, Tables, Sound
  <2>3. QED
    BY <2>1, <2>2
<1>9. \A p, q \in new.people : p.primary /\ q.primary => p = q
  <2>1. CASE ReplacesPeople(r)
    BY <2>1 DEF NewPeople
  <2>2. CASE ~ReplacesPeople(r)
    BY <2>2 DEF Tables, Sound
  <2>3. QED
    BY <2>1, <2>2
<1>10. row'[c].status = "edited"
  BY <1>6
<1> HIDE DEF old, new
<1>11. Sound(c)'
  BY <1>6, <1>8, <1>9 DEF Sound
<1>12. \A d \in Candidates \ {c} : Sound(d)'
  BY <1>7 DEF Sound, Tables
<1>13. QED
  BY <1>1, <1>10, <1>11, <1>12

(* ...a rejection, a mark as duplicate or an approval, which change the    *)
(* status only.                                                            *)
LEMMA SoundStatus ==
  ASSUME TypeOK, Tables, NEW c \in Candidates, NEW to,
         Committed(c, [row[c] EXCEPT !.status = to])
  PROVE  /\ \A d \in Candidates : Sound(d)'
         /\ row'[c].status = to
<1> DEFINE new == [row[c] EXCEPT !.status = to]
<1>1. row[c] \in Row
  BY DEF TypeOK
<1>2. /\ new.status = to
      /\ new.people = row[c].people
      /\ new.missing = row[c].missing
      /\ new.title = row[c].title
  BY <1>1 DEF Row
<1> HIDE DEF new
<1>3. row' = [row EXCEPT ![c] = new]
      /\ versions' = [versions EXCEPT ![c] = @ \cup {VersionOf(new)}]
  BY DEF Committed, new
<1>4. row'[c] = new /\ VersionOf(new) \in versions'[c]
  BY <1>3 DEF TypeOK
<1>5. \A d \in Candidates \ {c} : row'[d] = row[d] /\ versions'[d] = versions[d]
  BY <1>3 DEF TypeOK
<1>6. Sound(c)'
  BY <1>2, <1>4 DEF Sound, Tables
<1>7. \A d \in Candidates \ {c} : Sound(d)'
  BY <1>5 DEF Sound, Tables
<1>8. QED
  BY <1>2, <1>4, <1>6, <1>7

(* Versions are never forgotten, so work items stay sound. *)
LEMMA ItemsStaySound ==
  ASSUME TypeOK, Tables, NEW c \in Candidates, NEW new, Committed(c, new),
         UNCHANGED items
  PROVE  ItemsSound'
<1>1. \A d \in Candidates : versions[d] \subseteq versions'[d]
  BY DEF Committed, TypeOK
<1>2. \A i \in DOMAIN items : items[i].cand \in Candidates
  <2>1. \A item \in Item : item.cand \in Candidates
    BY DEF Item
  <2>2. QED
    BY <2>1 DEF TypeOK
<1>3. QED
  BY <1>1, <1>2 DEF ItemsSound, Tables

(* The audit entry of a commit tells the status it set. *)
LEMMA TrailStaysSound ==
  ASSUME TypeOK, Tables, NEW c \in Candidates, NEW new, Committed(c, new),
         NEW action, NEW item, Audited(c, action, item), new.status = action
  PROVE  TrailSound'
<1> DEFINE k == Len(trail) + 1
<1>1. /\ DOMAIN trail' = DOMAIN trail \cup {k}
      /\ trail'[k].cand = c /\ trail'[k].action = action
      /\ \A i \in DOMAIN trail : trail'[i] = trail[i] /\ i < k
      /\ k \notin DOMAIN trail
  BY DEF Audited, TypeOK
<1>2. row'[c].status = action
      /\ \A d \in Candidates \ {c} : row'[d] = row[d]
  BY DEF Committed, TypeOK
<1>3. \A i \in DOMAIN trail : trail[i].cand \in Candidates
  <2>1. \A entry \in Entry : entry.cand \in Candidates
    BY DEF Entry
  <2>2. QED
    BY <2>1 DEF TypeOK
<1> HIDE DEF k
<1>4. SUFFICES ASSUME NEW i \in DOMAIN trail', LastOf(i)'
               PROVE  row'[trail'[i].cand].status = trail'[i].action
  BY DEF TrailSound
<1>5. CASE i = k
  BY <1>1, <1>2, <1>5
<1>6. CASE i \in DOMAIN trail
  <2>1. trail[i].cand # c
    <3>1. trail'[k].cand = trail'[i].cand => k <= i
      BY <1>1, <1>4 DEF LastOf
    <3>2. ~(k <= i)
      BY <1>6 DEF TypeOK, k
    <3>3. QED
      BY <1>1, <1>6, <3>1, <3>2
  <2>2. LastOf(i)
    BY <1>1, <1>4, <1>6 DEF LastOf
  <2>3. QED
    BY <1>1, <1>2, <1>3, <1>6, <2>1, <2>2 DEF TrailSound, Tables
<1>7. QED
  BY <1>1, <1>5, <1>6

(* The work item of an approval is what the candidate is. *)
LEMMA ItemOfVersion ==
  ASSUME TypeOK, Tables, NEW r \in Requests, Fresh(r), Approve(r)
  PROVE  ItemsSound'
<1> DEFINE n == Len(items) + 1
<1>1. PICK c \in Candidates : c = Cand(r)
  BY DEF TypeOK, Request, Cand
<1>2. /\ req[r].loaded = row[c] /\ req[r].people = row[c].people
      /\ VersionOf(row[c]) \in versions[c]
  BY <1>1 DEF Fresh, Holding, KnowsPeople, Approve, At, Tables, Sound
<1>3. PICK item : /\ items' = Append(items, item)
                  /\ item = [cand |-> c, title |-> row[c].title,
                             people |-> Names(row[c].people)]
  BY <1>1, <1>2 DEF Approve
<1>4. /\ DOMAIN items' = DOMAIN items \cup {n}
      /\ items'[n] = item
      /\ \A i \in DOMAIN items : items'[i] = items[i]
  BY <1>3 DEF TypeOK
<1>5. \A d \in Candidates : versions[d] \subseteq versions'[d]
  BY DEF Approve, Committed, TypeOK
<1>6. \A i \in DOMAIN items : items[i].cand \in Candidates
  <2>1. \A i \in Item : i.cand \in Candidates
    BY DEF Item
  <2>2. QED
    BY <2>1 DEF TypeOK
<1>7. [title |-> item.title, people |-> item.people] \in versions'[c]
  BY <1>2, <1>3, <1>5 DEF VersionOf
<1> HIDE DEF n
<1>8. QED
  BY <1>3, <1>4, <1>5, <1>6, <1>7 DEF ItemsSound, Tables

(* A commit keeps what the tables say consistent. *)
LEMMA CommitsSound ==
  ASSUME TypeOK, Tables, NEW r \in Requests, Fresh(r),
         CommitEdit(r) \/ Settle(r) \/ Approve(r)
  PROVE  Tables'
<1>1. PICK c \in Candidates : c = Cand(r)
  BY DEF TypeOK, Request, Cand
<1>2. CASE CommitEdit(r)
  <2>1. PICK new : Committed(c, new) /\ Audited(c, "edited", 0)
    BY <1>1, <1>2 DEF CommitEdit
  <2>2. row'[c] = new
    BY <2>1 DEF Committed, TypeOK
  <2>3. UNCHANGED items
    BY <1>2 DEF CommitEdit
  <2>4. new.status = "edited" /\ \A d \in Candidates : Sound(d)'
    BY <1>1, <1>2, <2>2, SoundEdit
  <2>5. QED
    BY <2>1, <2>3, <2>4, ItemsStaySound, TrailStaysSound DEF Tables
<1>3. CASE Settle(r)
  <2>1. req[r].loaded.status = row[c].status
    BY <1>1, <1>3 DEF Settle, At, Fresh, Holding
  <2>2. PICK to : /\ Committed(c, [row[c] EXCEPT !.status = to])
                  /\ Audited(c, to, 0)
    BY <1>1, <1>3, <2>1 DEF Settle, Written
  <2>3. [row[c] EXCEPT !.status = to].status = to
    BY DEF TypeOK, Row
  <2>4. UNCHANGED items
    BY <1>3 DEF Settle
  <2>5. \A d \in Candidates : Sound(d)'
    BY <2>2, SoundStatus
  <2>6. QED
    BY <2>2, <2>3, <2>4, <2>5, ItemsStaySound, TrailStaysSound DEF Tables
<1>4. CASE Approve(r)
  <2>1. /\ Committed(c, [row[c] EXCEPT !.status = "approved"])
        /\ Audited(c, "approved", Len(items) + 1)
    BY <1>1, <1>4 DEF Approve
  <2>2. [row[c] EXCEPT !.status = "approved"].status = "approved"
    BY DEF TypeOK, Row
  <2>3. \A d \in Candidates : Sound(d)'
    BY <2>1, SoundStatus
  <2>4. TrailSound'
    BY <2>1, <2>2, TrailStaysSound
  <2>5. ItemsSound'
    BY <1>1, <1>4, <2>1, ItemOfVersion
  <2>6. QED
    BY <2>3, <2>4, <2>5 DEF Tables
<1>5. QED
  BY <1>2, <1>3, <1>4
-----------------------------------------------------------------------------
(* A request that holds nothing yet, or no more, is fresh.                 *)
LEMMA FreeIsFresh ==
  ASSUME NEW r \in Requests,
         req[r].pc \in {"idle", "guard", "load", "refresh", "push"}
  PROVE  Fresh(r)
BY DEF Fresh, Holding, KnowsPeople, At

(* What a request that ends leaves behind is fresh. *)
LEMMA EndsFresh ==
  ASSUME TypeOK, NEW r \in Requests, End(r)
  PROVE  Fresh(r)'
<1>1. req' = [req EXCEPT ![r] = NoRequest] /\ req \in [Requests -> Request]
  BY DEF End, TypeOK
<1>2. req'[r].pc = "idle"
  BY <1>1, NoRequestType
<1>3. QED
  BY <1>2 DEF Fresh, Holding, KnowsPeople, At

(* What a transaction does before it commits. *)
Inside(r) ==
  \/ Guard(r) \/ Load(r) \/ Flush(r) \/ Find(r) \/ Delete(r)
  \/ EditConflicts(r) \/ Insert(r) \/ Copy(r) \/ Push(r)
  \/ Refresh(r) \/ Fails(r)

LEMMA InsideOthers ==
  ASSUME TypeOK, NEW r \in Requests, Inside(r)
  PROVE  \A q \in Requests \ {r} : req'[q] = req[q]
BY DEF Inside, TypeOK, Guard, Load, Flush, Find, Delete, EditConflicts,
   Insert, Copy, Push, Refresh, Fails, GoTo, End

(* A step that only moves on leaves what a request asks for as it was. *)
LEMMA GoesTo ==
  ASSUME TypeOK, NEW r \in Requests, NEW pc \in Pc, GoTo(r, pc)
  PROVE  /\ req'[r].pc = pc
         /\ req'[r].loaded = req[r].loaded
         /\ req'[r].people = req[r].people
         /\ req'[r].cand = req[r].cand
<1>1. req \in [Requests -> Request] /\ req' = [req EXCEPT ![r].pc = pc]
  BY DEF TypeOK, GoTo
<1>2. req[r] \in Request
  BY <1>1
<1>3. req'[r] = [req[r] EXCEPT !.pc = pc]
  BY <1>1
<1>4. QED
  BY <1>2, <1>3 DEF Request

(* The row a transaction loads is the row there is. *)
LEMMA LoadedFresh ==
  ASSUME TypeOK, NEW r \in Requests, row' = row, Load(r)
  PROVE  Fresh(r)'
<1>1. req \in [Requests -> Request] /\ req[r] \in Request
  BY DEF TypeOK
<1>2. CASE row[Cand(r)].status = "approved"
  BY <1>2, EndsFresh DEF Load
<1>3. CASE row[Cand(r)].status # "approved"
  <2>1. PICK to \in {"insert", "flush", "write"} :
          /\ req' = [req EXCEPT ![r].loaded = row[Cand(r)], ![r].pc = to]
          /\ to = "write" => ~(req[r].op = "edit" /\ ReplacesPeople(r))
    BY <1>3 DEF Load
  <2>2. req'[r] = [req[r] EXCEPT !.loaded = row[Cand(r)], !.pc = to]
    BY <1>1, <2>1
  <2>3. /\ req'[r].loaded = row[Cand(r)] /\ req'[r].pc = to
        /\ req'[r].cand = req[r].cand /\ req'[r].op = req[r].op
        /\ req'[r].edit = req[r].edit
    BY <1>1, <2>2 DEF Request
  <2>4. ReplacesPeople(r)' = ReplacesPeople(r) /\ Cand(r)' = Cand(r)
    BY <2>3 DEF ReplacesPeople, Cand
  <2>5. ~KnowsPeople(r)'
    BY <2>1, <2>3, <2>4 DEF KnowsPeople, At
  <2>6. QED
    BY <1>3, <2>3, <2>4, <2>5 DEF Fresh
<1>4. QED
  BY <1>2, <1>3

(* The assignees a request finds, deletes or copies are those there are. *)
LEMMA PeopleFresh ==
  ASSUME TypeOK, NEW r \in Requests, Fresh(r), row' = row,
         Find(r) \/ Delete(r) \/ Copy(r)
  PROVE  Fresh(r)'
<1>1. req \in [Requests -> Request] /\ req[r] \in Request
  BY DEF TypeOK
<1>2. PICK to \in {"delete", "write", "approve"} :
        req' = [req EXCEPT ![r].pc = to, ![r].people = row[Cand(r)].people]
  <2>1. CASE Find(r)
    BY <2>1 DEF Find
  <2>2. CASE Delete(r)
    <3>1. req[r].people = row[Cand(r)].people
      BY <2>2 DEF Delete, Fresh, KnowsPeople, At
    <3>2. req[r].people \cap row[Cand(r)].people = row[Cand(r)].people
      BY <3>1
    <3>3. QED
      BY <2>2, <3>2 DEF Delete
  <2>3. CASE Copy(r)
    BY <2>3 DEF Copy
  <2>4. QED
    BY <2>1, <2>2, <2>3
<1>3. req'[r] = [req[r] EXCEPT !.pc = to, !.people = row[Cand(r)].people]
  BY <1>1, <1>2
<1>4. /\ req'[r].people = row[Cand(r)].people
      /\ req'[r].loaded = req[r].loaded /\ req'[r].cand = req[r].cand
  BY <1>1, <1>3 DEF Request
<1>5. Holding(r)
  BY DEF Find, Delete, Copy, At, Holding
<1>6. Cand(r)' = Cand(r)
  BY <1>4 DEF Cand
<1>7. QED
  BY <1>4, <1>5, <1>6 DEF Fresh

(* The steps of a transaction keep what it knows up to date. *)
LEMMA InsideFresh ==
  ASSUME TypeOK, NEW r \in Requests, Fresh(r), row' = row, Inside(r)
  PROVE  Fresh(r)'
<1>1. CASE Guard(r)
  <2>1. End(r) \/ GoTo(r, "load")
    BY <1>1 DEF Guard
  <2>2. ASSUME GoTo(r, "load") PROVE Fresh(r)'
    <3>1. req'[r].pc = "load"
      BY <2>2, GoesTo DEF Pc
    <3>2. QED
      BY <3>1 DEF Fresh, Holding, KnowsPeople, At
  <2>3. QED
    BY <2>1, <2>2, EndsFresh
<1>2. CASE Flush(r) \/ Insert(r)
  <2>1. End(r) \/ GoTo(r, "find") \/ GoTo(r, "copy")
    BY <1>2 DEF Flush, Insert
  <2>2. ASSUME GoTo(r, "find") \/ GoTo(r, "copy") PROVE Fresh(r)'
    <3>1. /\ req'[r].pc \in {"find", "copy"}
          /\ req'[r].loaded = req[r].loaded /\ req'[r].cand = req[r].cand
      BY <2>2, GoesTo DEF Pc
    <3>2. Holding(r) /\ ~KnowsPeople(r)' /\ Cand(r)' = Cand(r)
      BY <1>2, <3>1 DEF Flush, Insert, Holding, KnowsPeople, At, Cand
    <3>3. QED
      BY <3>1, <3>2 DEF Fresh
  <2>3. QED
    BY <2>1, <2>2, EndsFresh
<1>3. CASE EditConflicts(r) \/ Push(r) \/ Refresh(r) \/ Fails(r)
  BY <1>3, EndsFresh DEF EditConflicts, Push, Refresh, Fails
<1>4. QED
  BY <1>1, <1>2, <1>3, LoadedFresh, PeopleFresh DEF Inside

LEMMA StaysFresh ==
  ASSUME TypeOK, InTurn, \A r \in Requests : Fresh(r), Next
  PROVE  \A r \in Requests : Fresh(r)'
<1>1. ASSUME NEW q \in Requests, req'[q] = req[q], row' = row PROVE Fresh(q)'
  BY <1>1 DEF Fresh, Holding, KnowsPeople, At, Cand, ReplacesPeople
<1>2. ASSUME NEW q \in Requests,
             req'[q].pc \in {"idle", "guard", "load", "refresh", "push"}
      PROVE  Fresh(q)'
  BY <1>2 DEF Fresh, Holding, KnowsPeople, At
<1>3. ASSUME NEW r \in Requests, FromWeb(r) \/ FromCard(r) \/ FromCommand(r)
      PROVE  \A q \in Requests : Fresh(q)'
  <2>1. PICK op, from, c, edit : Ask(r, op, from, c, edit)
    BY <1>3 DEF FromWeb, FromCard, FromCommand
  <2>2. /\ row' = row
        /\ \A q \in Requests \ {r} : req'[q] = req[q]
        /\ req'[r].pc \in {"guard", "load"}
    BY <2>1, NoRequestType DEF Ask, TypeOK, NoRequest
  <2>3. QED
    BY <1>1, <1>2, <2>2
<1>4. ASSUME NEW r \in Requests, CommitEdit(r) \/ Settle(r) \/ Approve(r)
      PROVE  \A q \in Requests : Fresh(q)'
  <2>1. ~At(r, "idle")
    BY <1>4 DEF CommitEdit, Settle, Approve, At
  <2>2. \A q \in Requests \ {r} : req'[q].pc = "idle"
    BY <1>4, <2>1 DEF InTurn, At, CommitEdit, Settle, Approve, GoTo, End,
       TypeOK
  <2>3. req'[r].pc \in {"idle", "refresh", "push"}
    BY <1>4, NoRequestType
       DEF CommitEdit, Settle, Approve, GoTo, End, TypeOK, Request
  <2>4. QED
    BY <1>2, <2>2, <2>3
<1>5. ASSUME NEW r \in Requests, Inside(r) PROVE \A q \in Requests : Fresh(q)'
  <2>1. row' = row
    BY <1>5 DEF Inside, Guard, Load, Flush, Find, Delete, EditConflicts,
       Insert, Copy, Push, Refresh, Fails
  <2>2. Fresh(r)'
    BY <1>5, <2>1, InsideFresh
  <2>3. \A q \in Requests \ {r} : req'[q] = req[q]
    BY <1>5, InsideOthers
  <2>4. QED
    BY <1>1, <2>1, <2>2, <2>3
<1>6. ASSUME NEW r \in Requests, NEW q \in Requests, BreakDeadlock(r, q)
      PROVE  \A p \in Requests : Fresh(p)'
  <2>1. /\ row' = row
        /\ \A p \in Requests : req'[p] = req[p] \/ req'[p].pc = "idle"
    BY <1>6, NoRequestType DEF BreakDeadlock, End, TypeOK
  <2>2. QED
    BY <1>1, <1>2, <2>1
<1>7. CASE \E c \in Candidates : ShowCard(c)
  BY <1>1, <1>7 DEF ShowCard
<1>8. QED
  BY <1>3, <1>4, <1>5, <1>6, <1>7 DEF Next, Step, Inside

(* What is written is a commit's, or nothing. *)
LEMMA TablesStaySound ==
  ASSUME TypeOK, Tables, \A r \in Requests : Fresh(r), Next
  PROVE  Tables'
<1>1. CASE \E r \in Requests : CommitEdit(r) \/ Settle(r) \/ Approve(r)
  BY <1>1, CommitsSound
<1>2. CASE \A r \in Requests : ~CommitEdit(r) /\ ~Settle(r) /\ ~Approve(r)
  <2>1. UNCHANGED <<items, trail, row>>
    BY <1>2, OnlyCommitsWrite
  <2>2. versions' = versions
    BY <1>2 DEF Next, FromWeb, FromCard, FromCommand, Ask, Step, Fails,
       ShowCard, Guard, Load, Flush, Find, Delete, EditConflicts, Insert,
       Copy, Push, Refresh, BreakDeadlock
  <2>3. QED
    BY <2>1, <2>2 DEF Tables, Sound, ItemsSound, TrailSound, LastOf
<1>3. QED
  BY <1>1, <1>2

LEMMA TurnInit == Init => TurnInv
<1> SUFFICES ASSUME Init PROVE InTurn /\ (\A r \in Requests : Fresh(r)) /\ Tables
  BY DEF TurnInv
<1>1. \A r \in Requests : req[r].pc = "idle"
  BY NoRequestType DEF Init
<1>2. InTurn /\ \A r \in Requests : Fresh(r)
  BY <1>1, FreeIsFresh DEF InTurn, At
<1>3. \A c \in Candidates : Sound(c)
  BY ReviewAssumption DEF Init, Sound, Row
<1>4. DOMAIN items = {} /\ DOMAIN trail = {}
  BY DEF Init
<1>5. QED
  BY <1>2, <1>3, <1>4 DEF Tables, ItemsSound, TrailSound

LEMMA TurnStep == TypeOK /\ TurnInv /\ [Next]_vars => TurnInv'
<1> SUFFICES ASSUME TypeOK, TurnInv, [Next]_vars, ~overlapped'
             PROVE  (InTurn /\ (\A r \in Requests : Fresh(r)) /\ Tables)'
  BY DEF TurnInv
<1>1. CASE Next
  <2>1. ~overlapped
    BY <1>1, OverlapStays
  <2>2. InTurn /\ (\A r \in Requests : Fresh(r)) /\ Tables
    BY <2>1 DEF TurnInv
  <2>3. QED
    BY <1>1, <2>2, StillInTurn, StaysFresh, TablesStaySound
<1>2. CASE UNCHANGED vars
  BY <1>2 DEF TurnInv, InTurn, Fresh, Holding, KnowsPeople, At, Cand,
     ReplacesPeople, Tables, Sound, ItemsSound, TrailSound, LastOf
<1>3. QED
  BY <1>1, <1>2

(* Whatever came before, tables are sound until the first overlap. *)
LEMMA InTurnAlways == Spec => [](TypeOK /\ TurnInv)
<1>1. QED
  BY ReviewTypeCorrect, TurnInit, TurnStep, PTL DEF Spec

(* "keep the 'assignee' missing-field flag in sync", and nobody has two    *)
(* primary assignees (_set_candidate_assignees).                           *)
THEOREM AssigneesAgreeCorrect == Spec => []AssigneesAgree
<1>1. TypeOK /\ TurnInv => FlagInSync
  BY DEF TurnInv, FlagInSync, Tables, Sound
<1>2. TypeOK /\ TurnInv => OnePrimary
  BY DEF TurnInv, OnePrimary, Tables, Sound
<1>3. TypeOK /\ TurnInv => AssigneesAgree
  BY <1>1, <1>2 DEF AssigneesAgree
<1>4. QED
  BY <1>3, InTurnAlways, PTL

(* A work item is what its candidate was at one time. *)
THEOREM ItemIsSnapshotCorrect == Spec => []ItemIsSnapshot
<1>1. TypeOK /\ TurnInv => ItemIsSnapshot
  BY DEF TurnInv, ItemIsSnapshot, Tables, ItemsSound
<1>2. QED
  BY <1>1, InTurnAlways, PTL

(* The audit trail ends with the status of each candidate. *)
THEOREM TrailTellsStatusCorrect == Spec => []TrailTellsStatus
<1>1. TypeOK /\ TurnInv => TrailTellsStatus
  BY DEF TurnInv, TrailTellsStatus, Tables, TrailSound, LastOf
<1>2. QED
  BY <1>1, InTurnAlways, PTL

(* "Approved candidates are immutable", until requests overlap. *)
THEOREM InTurnImmutableCorrect == Spec => InTurnImmutable
<1>1. TypeOK /\ TurnInv /\ [Next]_vars => [~overlapped' => Immutable]_vars
  <2> SUFFICES ASSUME TypeOK, TurnInv, Next, ~overlapped',
                      NEW c \in Candidates, row[c].status = "approved"
               PROVE  row'[c] = row[c]
    BY DEF Immutable
  <2>1. \A r \in Requests : Fresh(r)
    BY OverlapStays DEF TurnInv
  <2>2. \A r \in Requests : Holding(r) => Cand(r) # c
    BY <2>1 DEF Fresh
  <2>3. CASE \E r \in Requests : CommitEdit(r) \/ Settle(r) \/ Approve(r)
    BY <2>2, <2>3 DEF CommitEdit, Settle, Approve, At, Holding, Committed,
       TypeOK
  <2>4. CASE \A r \in Requests : ~CommitEdit(r) /\ ~Settle(r) /\ ~Approve(r)
    BY <2>4, OnlyCommitsWrite
  <2>5. QED
    BY <2>3, <2>4
<1>2. QED
  BY <1>1, InTurnAlways, PTL DEF Spec, InTurnImmutable
=============================================================================
