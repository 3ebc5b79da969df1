------------------------------ MODULE WorkItem ------------------------------
(***************************************************************************)
(* One work item after its approval: what admins and assignees do to it in *)
(* the drawer of the board page (web/app/board/page.tsx) and the API's     *)
(* transactions behind it (routers/work_items.py, routers/labels.py).      *)
(*                                                                         *)
(* Each drawer is a browser tab of its own and runs one function at a time *)
(* ("busy"); what the page runs beyond that (a Retry pressed while busy,   *)
(* Enter in the field of a new label, a function whose drawer was closed)  *)
(* is another drawer's.  The API serves its requests at Postgres' READ     *)
(* COMMITTED, as in Review: one action is one statement that others can    *)
(* get in front of, and the last flush of a transaction is one step with   *)
(* its commit.  Work items share no row but the vocabulary of labels, so   *)
(* one is modelled.                                                        *)
(***************************************************************************)
EXTENDS Integers, Sequences, FiniteSets

CONSTANTS
  Drawers,
  Assignees,    \* active people
  Role,         \* [Drawers -> {"admin"} \cup Assignees], who is logged in
  Columns,      \* the columns an edit sends
  Title,        \* the one that must not be left blank
  Values,       \* what they hold
  Blank,        \* null, and the empty field of a form
  Resent,       \* [Columns -> [Values -> Values]], what saveEdit sends for a
                \* value startEdit has put into the form: a due date's day only
  Statuses,
  Names,        \* names of labels
  Original,     \* [Columns -> Values], what the approval stored
  Promotions,   \* the assignee rows it may have stored
  MaxRequests,  \* bound: functions of drawers begun
  MaxNew        \* bound: after so many of them, only Retries begin and the
                \* user opens and closes nothing

Content == [Columns -> Values]

(* What a GET answered: the columns, and of which of their versions they   *)
(* are (for SaveKeepsRest; the code keeps no versions).                    *)
Copy == [columns : Content, of : [Columns -> Nat]]

(* work_item_assignees rows; by tells rows apart that say the same: it is  *)
(* the request that inserted the row, 0 for the approval.                  *)
Link == [who : Assignees, primary : BOOLEAN, by : 0..MaxRequests]

(* The list of assignees the drawer sends: nobody twice, the first is the  *)
(* primary one.                                                            *)
Drafts == {s \in UNION {[1..n -> Assignees] : n \in 0..Cardinality(Assignees)} :
             \A i, j \in DOMAIN s : s[i] = s[j] => i = j}

(* A list of assignee ids in the audit log: the first of them and all.     *)
Ids == [first : Assignees \cup {"nobody"}, all : SUBSET Assignees]

ASSUME WorkItemAssumption ==
  /\ Role \in [Drawers -> {"admin"} \cup Assignees]
  /\ Original \in Content
  /\ Title \in Columns
  /\ Blank \in Values
  /\ Resent \in [Columns -> [Values -> Values]]
  /\ \A c \in Columns : \A v \in Values :
       Resent[c][Resent[c][v]] = Resent[c][v]
  /\ Promotions \subseteq SUBSET Link
  /\ IsFiniteSet(Assignees)
  /\ \A rows \in Promotions : \A p, q \in rows :
       p.who = q.who \/ (p.primary /\ q.primary) => p = q
  /\ Statuses # {} /\ Names # {}
  /\ MaxRequests \in Nat
  /\ MaxNew \in Nat
  /\ {"admin", "nobody"} \cap Assignees = {}

VARIABLES
  content,    \* Content, the columns of the work_items row, status apart
  version,    \* [Columns -> Nat], how often each of them was changed
  status,
  people,     \* SUBSET Link
  labels,     \* SUBSET Names, the table of labels: names are unique
  tags,       \* SUBSET Names, work_item_labels
  trail,      \* audit_logs of the item, per action
  page,       \* [Drawers -> Page], what a drawer shows
  req,        \* [Drawers -> Request], the function a drawer runs
  retry,      \* [Drawers -> SUBSET Call], the Retry buttons of its toasts
  made,       \* functions begun so far
  overlapped, \* some function began while another ran
  abandoned   \* SUBSET Names, whose createAndAssign failed half-way

vars == <<content, version, status, people, labels, tags, trail, page, req,
          retry, made, overlapped, abandoned>>
rowVars == <<content, version, status, people, trail>>
labelVars == <<labels, tags>>
asked == <<made, overlapped>>
pageVars == <<page, retry>>

(* What a drawer shows: the columns, the catalog of labels it fetched,     *)
(* and, while its user edits, the form: what startEdit has put there, of   *)
(* which versions, and the columns the user typed into.                    *)
Page == [shown : Copy, catalog : SUBSET Names, editing : BOOLEAN,
         form : Copy, touched : SUBSET Columns]

Pc == {"idle", "load", "write",                      \* saveEdit
       "see", "move", "moved",                       \* changeStatus
       "snapshot", "find", "delete", "insert", "commit", \* saveAssignees
       "name", "create", "created",                  \* createAndAssign
       "exists", "tag",                              \* assignLabel
       "refetch"}

(* A function of the drawer with what it took from the page when it was    *)
(* called, which its Retry uses again: the form of saveEdit, the detail    *)
(* that changeStatus will display with the new status.                     *)
Call == [pc : {"idle", "load", "see", "snapshot", "name", "exists"},
         carries : Copy, touched : SUBSET Columns, to : Statuses,
         draft : Drafts, name : Names]

(* loaded, seen: what a transaction read first; gone: the rows it deletes; *)
(* put: how many of the draft it has inserted.                             *)
Request == [pc : Pc, nr : 0..MaxRequests, call : Call, loaded : Content,
            seen : Statuses, before : Ids, gone : SUBSET Link,
            put : 0..Cardinality(Assignees)]

(* With the assignees the approval stored, for TrailReplays. *)
Trail == [promoted : Ids,
          edited : Seq([before : Content, after : Content]),
          status_changed : Seq([before : Statuses, after : Statuses]),
          reassigned : Seq([before : Ids, after : Ids])]

NoIds == [first |-> "nobody", all |-> {}]

(* _assignee_ids_snapshot: primary first. *)
IdsOf(rows) ==
  LET first == IF \E p \in rows : p.primary THEN {p \in rows : p.primary}
               ELSE rows
  IN  IF rows = {} THEN NoIds
      ELSE [first |-> (CHOOSE p \in first : TRUE).who,
            all |-> {p.who : p \in rows}]

AnyStatus == CHOOSE s \in Statuses : TRUE

NoCopy == [columns |-> Original, of |-> [c \in Columns |-> 0]]

NoCall ==
  [pc |-> "idle", carries |-> NoCopy, touched |-> {}, to |-> AnyStatus,
   draft |-> <<>>, name |-> CHOOSE n \in Names : TRUE]

NoRequest ==
  [pc |-> "idle", nr |-> 0, call |-> NoCall, loaded |-> Original,
   seen |-> AnyStatus, before |-> NoIds, gone |-> {}, put |-> 0]

NoPage ==
  [shown |-> NoCopy, catalog |-> {}, editing |-> FALSE, form |-> NoCopy,
   touched |-> {}]

(* require_admin: what assignees send besides a status is refused. *)
Admin(d) == Role[d] = "admin"

Init ==
  /\ content = Original
  /\ version = [c \in Columns |-> 0]
  /\ status = AnyStatus
  /\ people \in Promotions
  /\ labels = {}
  /\ tags = {}
  /\ trail = [promoted |-> IdsOf(people), edited |-> <<>>,
              status_changed |-> <<>>, reassigned |-> <<>>]
  /\ page = [d \in Drawers |-> NoPage]
  /\ req = [d \in Drawers |-> NoRequest]
  /\ retry = [d \in Drawers |-> {}]
  /\ made = 0
  /\ overlapped = FALSE
  /\ abandoned = {}
-----------------------------------------------------------------------------
At(d, pc) == req[d].pc = pc
GoTo(d, pc) == req' = [req EXCEPT ![d].pc = pc]
End(d) == req' = [req EXCEPT ![d] = NoRequest]

(* The function throws: its toast has a Retry.  Kept are those that carry  *)
(* something from the page; the other calls its user may make anyhow.      *)
Error(d) ==
  /\ End(d)
  /\ retry' = IF req[d].call.pc \in {"load", "see"}
              THEN [retry EXCEPT ![d] = @ \cup {req[d].call}] ELSE retry

Fetched == [columns |-> content, of |-> version]

(* A card is clicked: the detail is fetched, and the catalog of labels.    *)
(* What an assignee's drawer shows plays no part in what it sends.         *)
Open(d) ==
  /\ At(d, "idle")
  /\ Admin(d)
  /\ made < MaxNew
  /\ page' = [page EXCEPT ![d] =
       [NoPage EXCEPT !.shown = Fetched, !.catalog = labels]]
  /\ retry' = [retry EXCEPT ![d] = {}]
  /\ UNCHANGED <<rowVars, labelVars, req, asked, abandoned>>

(* A function of the drawer sends its first request. *)
Begin(d, call) ==
  /\ At(d, "idle")
  /\ made < MaxRequests
  /\ made' = made + 1
  /\ overlapped' = (overlapped \/ \E q \in Drawers \ {d} : ~At(q, "idle"))
  /\ call \notin retry[d] => made < MaxNew
  /\ req' = [req EXCEPT ![d] =
       [NoRequest EXCEPT !.pc = call.pc, !.nr = made + 1, !.call = call]]
  /\ UNCHANGED <<rowVars, labelVars, abandoned>>

Typable(c) == {Resent[c][v] : v \in Values}

(* Mutant: startEdit forgets all fields but the title. *)
StartEditTitle(d) ==
  /\ Admin(d)
  /\ ~page[d].editing
  /\ made < MaxNew
  /\ page' = [page EXCEPT ![d].editing = TRUE, ![d].form =
       [page[d].shown EXCEPT !.columns = [c \in Columns |->
          IF c = Title THEN Resent[c][@[c]] ELSE Blank]]]
  /\ UNCHANGED <<rowVars, labelVars, req, retry, asked, abandoned>>

(* The Edit button, which is there while the drawer is busy too: startEdit *)
(* fills the form with what is shown, a due date with its day only.  (An   *)
(* assignee has the button too; the API refuses what he saves.)            *)
StartEdit(d) ==
  /\ Admin(d)
  /\ ~page[d].editing
  /\ made < MaxNew
  /\ page' = [page EXCEPT ![d].editing = TRUE, ![d].form =
       [page[d].shown EXCEPT !.columns =
          [c \in Columns |-> Resent[c][@[c]]]]]
  /\ UNCHANGED <<rowVars, labelVars, req, retry, asked, abandoned>>

NoForm(d) == [page[d] EXCEPT !.editing = FALSE, !.form = NoCopy, !.touched = {}]

CancelEdit(d) ==
  /\ At(d, "idle")
  /\ page[d].editing
  /\ made < MaxNew
  /\ page' = [page EXCEPT ![d] = NoForm(d)]
  /\ UNCHANGED <<rowVars, labelVars, req, retry, asked, abandoned>>

(* The user has typed into some fields; Save sends the whole form as it    *)
(* is, whatever the drawer shows by now.  Without a title Save is disabled.*)
SaveEdit(d) ==
  /\ Admin(d)
  /\ page[d].editing
  /\ \E new \in Content :
       LET typed == {c \in Columns : new[c] # page[d].form.columns[c]}
           form == [page[d].form EXCEPT !.columns = new]
           touched == page[d].touched \cup typed
       IN  /\ \A c \in typed : new[c] \in Typable(c)
           /\ new[Title] # Blank
           /\ page' = [page EXCEPT ![d].form = form, ![d].touched = touched]
           /\ Begin(d, [NoCall EXCEPT !.pc = "load", !.carries = form,
                                      !.touched = touched])
  /\ UNCHANGED retry

(* Any status but the one on display, which may be an old one. *)
ChangeStatus(d) ==
  /\ ~page[d].editing
  /\ \E to \in Statuses :
       Begin(d, [NoCall EXCEPT !.pc = "see", !.to = to,
                               !.carries = page[d].shown])
  /\ UNCHANGED pageVars

SaveAssignees(d) ==
  /\ Admin(d)
  /\ ~page[d].editing
  /\ \E draft \in Drafts :
       Begin(d, [NoCall EXCEPT !.pc = "snapshot", !.draft = draft])
  /\ UNCHANGED pageVars

CreateAndAssign(d) ==
  /\ Admin(d)
  /\ ~page[d].editing
  /\ \E name \in Names :
       Begin(d, [NoCall EXCEPT !.pc = "name", !.name = name])
  /\ UNCHANGED pageVars

AssignLabel(d) ==
  /\ Admin(d)
  /\ ~page[d].editing
  /\ \E name \in page[d].catalog :
       Begin(d, [NoCall EXCEPT !.pc = "exists", !.name = name])
  /\ UNCHANGED pageVars

(* The button on a toast calls the function that failed with what it had   *)
(* then, whatever the page shows by now; the toast goes.                   *)
Retry(d) ==
  /\ \E call \in retry[d] :
       /\ Begin(d, call)
       /\ retry' = [retry EXCEPT ![d] = @ \ {call}]
  /\ UNCHANGED page
-----------------------------------------------------------------------------
(* A column is written when its value differs from the loaded one. *)
Written(loaded, new, current) == IF new = loaded THEN current ELSE new

(* edit_work_item loads the item... *)
Load(d) ==
  /\ At(d, "load")
  /\ req' = [req EXCEPT ![d].pc = "write", ![d].loaded = content]
  /\ UNCHANGED <<rowVars, labelVars, pageVars, asked, abandoned>>

(* What a commit leaves in the columns, and their versions. *)
Set(new) ==
  /\ content' = new
  /\ version' = [c \in Columns |->
       IF new[c] = content[c] THEN version[c] ELSE version[c] + 1]

(* Mutant: the snapshot "before" is taken after the fields were set. *)
CommitEditLateSnapshot(d) ==
  LET loaded == req[d].loaded
      sent == req[d].call.carries.columns
  IN
  /\ At(d, "write")
  /\ Set([c \in Columns |-> Written(loaded[c], sent[c], content[c])])
  /\ trail' = [trail EXCEPT !.edited =
       Append(@, [before |-> sent, after |-> sent])]
  /\ GoTo(d, "refetch")
  /\ UNCHANGED <<status, people, labelVars, pageVars, asked, abandoned>>

(* ...and writes what differs; the audit entry has what it loaded and what *)
(* it set.                                                                 *)
CommitEdit(d) ==
  LET loaded == req[d].loaded
      sent == req[d].call.carries.columns
  IN
  /\ At(d, "write")
  /\ Set([c \in Columns |-> Written(loaded[c], sent[c], content[c])])
  /\ trail' = [trail EXCEPT !.edited =
       Append(@, [before |-> loaded, after |-> sent])]
  /\ GoTo(d, "refetch")
  /\ UNCHANGED <<status, people, labelVars, pageVars, asked, abandoned>>

(* _scope: an assignee sees the items that are assigned to him. *)
Visible(d) == Admin(d) \/ \E p \in people : p.who = Role[d]

(* change_status: _get_visible_or_404, in one statement... *)
See(d) ==
  /\ At(d, "see")
  /\ \/ /\ Visible(d)
        /\ req' = [req EXCEPT ![d].pc = "move", ![d].seen = status]
        /\ UNCHANGED retry
     \/ ~Visible(d) /\ Error(d)
  /\ UNCHANGED <<rowVars, labelVars, page, asked, abandoned>>

(* ...then the status, when it differs from the one seen. *)
CommitStatus(d) ==
  /\ At(d, "move")
  /\ status' = Written(req[d].seen, req[d].call.to, status)
  /\ trail' = [trail EXCEPT !.status_changed =
       Append(@, [before |-> req[d].seen, after |-> req[d].call.to])]
  /\ GoTo(d, "moved")
  /\ UNCHANGED <<content, version, people, labelVars, pageVars, asked,
                 abandoned>>

(* Mutant: the new status is displayed without the rest of the item. *)
MovedBare(d) ==
  /\ At(d, "moved")
  /\ page' = [page EXCEPT ![d].shown = [req[d].call.carries EXCEPT !.columns = <<>>]]
  /\ End(d)
  /\ UNCHANGED <<rowVars, labelVars, retry, asked, abandoned>>

(* changeStatus fetches nothing: it displays the detail of when it was     *)
(* called, with the new status.                                            *)
Moved(d) ==
  /\ At(d, "moved")
  /\ page' = [page EXCEPT ![d].shown = req[d].call.carries]
  /\ End(d)
  /\ UNCHANGED <<rowVars, labelVars, retry, asked, abandoned>>
-----------------------------------------------------------------------------
Listed(draft) ==
  IF draft = <<>> THEN NoIds
  ELSE [first |-> draft[1], all |-> {draft[i] : i \in DOMAIN draft}]

(* The row for the i-th of the draft; the first is the primary assignee. *)
NewRow(d, i) ==
  [who |-> req[d].call.draft[i], primary |-> (i = 1), by |-> req[d].nr]

NewRows(d) == {NewRow(d, i) : i \in 1..req[d].put}

(* A transaction that has deleted its rows keeps them, and those it has    *)
(* inserted, from others.                                                  *)
Holds(q) == req[q].pc \in {"insert", "commit"}

HoldsWho(q, who) ==
  /\ Holds(q)
  /\ \E p \in req[q].gone \cup NewRows(q) : p.who = who

NextWho(d) == req[d].call.draft[req[d].put + 1]

WaitsFor(d, q) ==
  \/ At(d, "delete") /\ Holds(q) /\ req[q].gone \cap req[d].gone # {}
  \/ At(d, "insert") /\ HoldsWho(q, NextWho(d))

Free(d) == \A q \in Drawers \ {d} : ~WaitsFor(d, q)

(* reassign_work_item: the ids for the audit log are read first... *)
Snapshot(d) ==
  /\ At(d, "snapshot")
  /\ req' = [req EXCEPT ![d].pc = "find", ![d].before = IdsOf(people)]
  /\ UNCHANGED <<rowVars, labelVars, pageVars, asked, abandoned>>

(* ...then the DELETE begins: it will delete the rows it sees... *)
Find(d) ==
  /\ At(d, "find")
  /\ req' = [req EXCEPT ![d].pc = "delete", ![d].gone = people]
  /\ UNCHANGED <<rowVars, labelVars, pageVars, asked, abandoned>>

(* ...and that no other transaction has deleted first. *)
Delete(d) ==
  /\ At(d, "delete")
  /\ Free(d)
  /\ req' = [req EXCEPT ![d].gone = @ \cap people,
       ![d].pc = IF req[d].call.draft = <<>> THEN "commit" ELSE "insert"]
  /\ UNCHANGED <<rowVars, labelVars, pageVars, asked, abandoned>>

Left(d) == people \ req[d].gone

Linked(d) == \E p \in Left(d) : p.who = NextWho(d)

PutNext(d) ==
  req' = [req EXCEPT ![d].put = @ + 1,
    ![d].pc = IF req[d].put + 1 = Len(req[d].call.draft) THEN "commit" ELSE @]

(* Mutant: no unique constraint. *)
InsertAnyway(d) ==
  /\ At(d, "insert")
  /\ PutNext(d)
  /\ UNCHANGED <<rowVars, labelVars, pageVars, asked, abandoned>>

(* Mutant: a conflict is tried again. *)
InsertAgain(d) ==
  /\ At(d, "insert")
  /\ Free(d)
  /\ ~Linked(d)
  /\ PutNext(d)
  /\ UNCHANGED <<rowVars, labelVars, pageVars, asked, abandoned>>

(* The rows are inserted one by one; uq_work_item_assignees_pair makes the *)
(* INSERT wait for a transaction that may yet decide whether somebody is   *)
(* linked, and fail when he is.                                            *)
Insert(d) ==
  /\ At(d, "insert")
  /\ Free(d)
  /\ \/ Linked(d) /\ Error(d)
     \/ ~Linked(d) /\ PutNext(d) /\ UNCHANGED retry
  /\ UNCHANGED <<rowVars, labelVars, page, asked, abandoned>>

CommitReassign(d) ==
  /\ At(d, "commit")
  /\ people' = Left(d) \cup NewRows(d)
  /\ trail' = [trail EXCEPT !.reassigned =
       Append(@, [before |-> req[d].before, after |-> Listed(req[d].call.draft)])]
  /\ GoTo(d, "refetch")
  /\ UNCHANGED <<content, version, status, labelVars, pageVars, asked,
                 abandoned>>

(* Postgres fails one of two transactions that wait for each other. *)
BreakDeadlock(d, q) ==
  /\ WaitsFor(d, q) /\ WaitsFor(q, d)
  /\ Error(d) \/ Error(q)
  /\ UNCHANGED <<rowVars, labelVars, page, asked, abandoned>>
-----------------------------------------------------------------------------
(* create_label: 409 when the name is taken... *)
FindName(d) ==
  /\ At(d, "name")
  /\ \/ req[d].call.name \in labels /\ Error(d)
     \/ req[d].call.name \notin labels /\ GoTo(d, "create") /\ UNCHANGED retry
  /\ UNCHANGED <<rowVars, labelVars, page, asked, abandoned>>

(* ...an error when somebody took it meanwhile: labels.name is unique. *)
Create(d) ==
  /\ At(d, "create")
  /\ \/ req[d].call.name \in labels /\ Error(d) /\ UNCHANGED labels
     \/ /\ req[d].call.name \notin labels
        /\ labels' = labels \cup {req[d].call.name}
        /\ GoTo(d, "created")
        /\ UNCHANGED retry
  /\ UNCHANGED <<rowVars, tags, page, asked, abandoned>>

(* createAndAssign puts the label on the page and assigns it. *)
Created(d) ==
  /\ At(d, "created")
  /\ page' = [page EXCEPT ![d].catalog = @ \cup {req[d].call.name}]
  /\ GoTo(d, "exists")
  /\ UNCHANGED <<rowVars, labelVars, retry, asked, abandoned>>

(* Mutant: the vocabulary is looked up instead of the item's labels. *)
FindTagAnywhere(d) ==
  /\ At(d, "exists")
  /\ IF req[d].call.name \in labels THEN GoTo(d, "refetch") ELSE GoTo(d, "tag")
  /\ UNCHANGED <<rowVars, labelVars, pageVars, asked, abandoned>>

(* assign_label: nothing is inserted for a label the item has... *)
FindTag(d) ==
  /\ At(d, "exists")
  /\ IF req[d].call.name \in tags THEN GoTo(d, "refetch") ELSE GoTo(d, "tag")
  /\ UNCHANGED <<rowVars, labelVars, pageVars, asked, abandoned>>

(* ...unless it got it meanwhile: uq_work_item_labels_pair. *)
Tag(d) ==
  /\ At(d, "tag")
  /\ \/ req[d].call.name \in tags /\ Error(d) /\ UNCHANGED tags
     \/ /\ req[d].call.name \notin tags
        /\ tags' = tags \cup {req[d].call.name}
        /\ GoTo(d, "refetch")
        /\ UNCHANGED retry
  /\ UNCHANGED <<rowVars, labels, page, asked, abandoned>>
-----------------------------------------------------------------------------
(* The page gets the item again; the form stays as it is, unless it was    *)
(* saveEdit that fetched.                                                  *)
Refetch(d) ==
  LET p == IF req[d].call.pc = "load" THEN NoForm(d) ELSE page[d] IN
  /\ At(d, "refetch")
  /\ page' = [page EXCEPT ![d] = [p EXCEPT !.shown = Fetched]]
  /\ End(d)
  /\ UNCHANGED <<rowVars, labelVars, retry, asked, abandoned>>

(* createAndAssign has made its label and not yet put it on the item. *)
HalfWay(d) == req[d].call.pc = "name" /\ req[d].pc \in {"created", "exists", "tag"}

(* An assignee deactivated meanwhile (422), a session that expired, an     *)
(* error, an answer that is lost: what was not committed is rolled back,   *)
(* and what would follow does not happen.                                  *)
Fails(d) ==
  /\ ~At(d, "idle")
  /\ Error(d)
  /\ abandoned' = IF HalfWay(d) THEN abandoned \cup {req[d].call.name}
                  ELSE abandoned
  /\ UNCHANGED <<rowVars, labelVars, page, asked>>

User(d) ==
  \/ Open(d)
  \/ StartEdit(d)
  \/ CancelEdit(d)
  \/ SaveEdit(d)
  \/ ChangeStatus(d)
  \/ SaveAssignees(d)
  \/ CreateAndAssign(d)
  \/ AssignLabel(d)
  \/ Retry(d)

Step(d) ==
  \/ Load(d) \/ CommitEdit(d)
  \/ See(d) \/ CommitStatus(d) \/ Moved(d)
  \/ Snapshot(d) \/ Find(d) \/ Delete(d) \/ Insert(d) \/ CommitReassign(d)
  \/ FindName(d) \/ Create(d) \/ Created(d)
  \/ FindTag(d) \/ Tag(d)
  \/ Refetch(d)
  \/ \E q \in Drawers \ {d} : BreakDeadlock(d, q)

Next == \E d \in Drawers : User(d) \/ Step(d) \/ Fails(d)

Spec == Init /\ [][Next]_vars

(* The server never rests while a request it has taken can go on. *)
FairSpec == Spec /\ WF_vars(\E d \in Drawers : Step(d))
-----------------------------------------------------------------------------
(* Types of all variables. *)
TypeOK ==
  /\ content \in Content
  /\ version \in [Columns -> Nat]
  /\ status \in Statuses
  /\ people \subseteq Link
  /\ labels \subseteq Names
  /\ tags \subseteq Names
  /\ trail \in Trail
  /\ page \in [Drawers -> Page]
  /\ req \in [Drawers -> Request]
  /\ retry \in [Drawers -> SUBSET Call]
  /\ made \in 0..MaxRequests
  /\ overlapped \in BOOLEAN
  /\ abandoned \subseteq Names

(* Nobody is linked twice, however the deletes and inserts of two          *)
(* reassignments interleave, and whichever of them is rolled back.         *)
LinkedOnce == \A p, q \in people : p.who = q.who => p = q

(* The audit log replays: per action, the first entry starts from what the *)
(* approval stored, each one from what the one before left, and the last   *)
(* one left what the item is now; unless requests overlapped, whose        *)
(* "before" is what they loaded.                                           *)
Replays(entries, first, now) ==
  IF entries = <<>> THEN now = first
  ELSE /\ entries[1].before = first
       /\ entries[Len(entries)].after = now
       /\ \A i \in 1..(Len(entries) - 1) :
            entries[i].after = entries[i + 1].before

TrailReplays ==
  ~overlapped =>
    /\ Replays(trail.edited, Original, content)
    /\ Replays(trail.status_changed, AnyStatus, status)
    /\ Replays(trail.reassigned, trail.promoted, IdsOf(people))

(* createAndAssign is two requests: a label that is on no item belongs to  *)
(* a drawer between the two, or is one whose createAndAssign failed there. *)
(* Two drawers that create the same label leave none behind.               *)
NoOrphanLabel ==
  (\A d \in Drawers : At(d, "idle")) => labels \ tags \subseteq abandoned

(* saveEdit sends every column of its form, the form is filled when it is  *)
(* opened, and a Retry sends the form of the call that failed: whatever    *)
(* the page displayed or fetched since, a column its user did not type is  *)
(* changed, but for the time of day of the due date, only if somebody had  *)
(* changed it after the GET whose answer filled the form.                  *)
SaveKeepsRest ==
  [][\A d \in Drawers : CommitEdit(d) =>
       \A c \in Columns \ req[d].call.touched :
         req[d].call.carries.of[c] = version[c] =>
           content'[c] = Resent[c][content[c]]]_vars

(* Every function of a drawer ends, and the drawers come to rest: no two   *)
(* reassignments wait for each other's rows for ever.                      *)
RequestsEnd == []<>(\A d \in Drawers : At(d, "idle"))
=============================================================================
