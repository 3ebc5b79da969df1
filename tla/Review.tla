------------------------------- MODULE Review -------------------------------
(***************************************************************************)
(* Review of candidates: an admin's requests from the web console and the  *)
(* bot, the API's transactions (routers/candidates.py, promotion.py), the  *)
(* cards the bot shows, and the webhook it calls after an approval.        *)
(*                                                                         *)
(* The API serves each request in a thread and a transaction of its own,   *)
(* at Postgres' READ COMMITTED: a statement sees what was committed when   *)
(* it began, rows changed stay locked until the commit, and SQLAlchemy's   *)
(* UPDATE names only the columns that differ from what was loaded.  One    *)
(* action is one statement that others can get in front of; the last flush *)
(* of a transaction is one step with its commit.                           *)
(***************************************************************************)
EXTENDS Integers, Sequences, FiniteSets

CONSTANTS
  Candidates,  \* candidate ids
  Requests,    \* the threads that serve requests
  Assignees,   \* active people
  Titles,      \* values of the fields an edit changes, the due date apart
  Created,     \* [Candidates -> Row], what the worker stored
  Unresolved,  \* candidates with a mention the worker could not resolve
  WebhookSet,  \* whether a webhook is configured
  MaxRequests, \* bound: requests made
  MaxRacing    \* bound: requests made, when some of them overlapped

CStatus == {"new", "needs_review", "edited", "approved", "rejected",
            "duplicate"}
Settled == {"approved", "rejected"}

(* candidate_assignees rows of one candidate; by tells rows apart that say *)
(* the same: it is the request that inserted the row, 0 for the worker.    *)
Link == [who : Assignees, primary : BOOLEAN, by : 0..MaxRequests]
People == SUBSET Link

(* What the rows say. *)
Named == [who : Assignees, primary : BOOLEAN]
Names(people) == {[who |-> p.who, primary |-> p.primary] : p \in people}

(* A candidate and its assignees; missing is its missing_fields flags. *)
Row == [status : CStatus, title : Titles, due : BOOLEAN, people : People,
        missing : SUBSET {"assignee", "due_date"}]

(* PATCH bodies: the web form sends every field, the bot's picker only the *)
(* assignee, its priority buttons and /title one field, /due the due date. *)
Forms == [title : Titles, due : {"set", "clear"},
          who : Assignees \cup {"nobody"}]
Picks == [title : {"omitted"}, due : {"omitted"}, who : Assignees]
Field == [title : Titles, due : {"omitted"}, who : {"omitted"}]
Due   == [title : {"omitted"}, due : {"set"}, who : {"omitted"}]
NoEdit == [title |-> "omitted", due |-> "omitted", who |-> "omitted"]
Edits == Forms \cup Picks \cup Field \cup Due \cup {NoEdit}

Ops == {"approve", "reject", "duplicate", "edit"}
Sources == {"web", "button", "command"}
Pc == {"idle", "guard", "load", "insert", "copy", "approve", "flush", "find",
       "delete", "write", "refresh", "push"}

(* A request: its number and origin, what it asks for, the row it loaded,  *)
(* and the assignee rows it copies or replaces.                            *)
Request == [pc : Pc, nr : 0..MaxRequests, op : Ops, from : Sources,
            cand : Candidates, edit : Edits, loaded : Row, people : People]

Item == [cand : Candidates, title : Titles, people : SUBSET Named]
Outcome == {"approved", "rejected", "duplicate", "edited"}
Entry == [cand : Candidates, action : Outcome, item : Nat]

ASSUME ReviewAssumption ==
  /\ Candidates # {}
  /\ Created \in [Candidates -> Row]
  /\ \A c \in Candidates :
       /\ Created[c].status \in {"new", "needs_review"}
       /\ Created[c].people = {} \/ c \in Unresolved
            => "assignee" \in Created[c].missing
       /\ \A p, q \in Created[c].people : p.primary /\ q.primary => p = q
  /\ Unresolved \subseteq Candidates
  /\ WebhookSet \in BOOLEAN
  /\ MaxRequests \in Nat
  /\ MaxRacing \in Nat
  /\ {"omitted", "nobody"} \cap (Titles \cup Assignees) = {}

VARIABLES
  row,       \* [Candidates -> Row], as committed
  items,     \* Seq(Item), work_items with their assignees; the index is the id
  trail,     \* Seq(Entry), audit_logs of review actions
  req,       \* [Requests -> Request]
  pushes,    \* [Candidates -> Nat], webhook calls
  offered,   \* [Candidates -> BOOLEAN], some card offers Approve
  versions,  \* [Candidates -> SUBSET Version], every (title, people) committed
  made,      \* requests made so far
  overlapped \* some request came while another was served

vars == <<row, items, trail, req, pushes, offered, versions, made,
          overlapped>>
dbVars == <<row, items, trail, versions>>
botVars == <<pushes, offered>>
asked == <<made, overlapped>>

Version == [title : Titles, people : SUBSET Named]
VersionOf(c) == [title |-> c.title, people |-> Names(c.people)]

NoRequest ==
  LET c == CHOOSE c \in Candidates : TRUE IN
    [pc |-> "idle", nr |-> 0, op |-> "edit", from |-> "web", cand |-> c,
     edit |-> NoEdit, loaded |-> Created[c], people |-> {}]

Init ==
  /\ row = Created
  /\ items = <<>>
  /\ trail = <<>>
  /\ req = [r \in Requests |-> NoRequest]
  /\ pushes = [c \in Candidates |-> 0]
  /\ offered = [c \in Candidates |-> FALSE]
  /\ versions = [c \in Candidates |-> {VersionOf(Created[c])}]
  /\ made = 0
  /\ overlapped = FALSE
-----------------------------------------------------------------------------
At(r, pc) == req[r].pc = pc
GoTo(r, pc) == req' = [req EXCEPT ![r].pc = pc]
End(r) == req' = [req EXCEPT ![r] = NoRequest]
Cand(r) == req[r].cand

(* build_keyboard: the card of c, rendered now, has an Approve button. *)
Ready(c) ==
  /\ row[c].status \in {"new", "edited", "needs_review"}
  /\ row[c].missing = {}
  /\ Cardinality(row[c].people) = 1
  /\ c \notin Unresolved

(* A request reaches the server, or the bot. *)
Ask(r, op, from, c, edit) ==
  /\ At(r, "idle")
  /\ made < MaxRequests
  /\ made' = made + 1
  /\ overlapped' = (overlapped \/ \E q \in Requests \ {r} : ~At(q, "idle"))
  /\ overlapped' => made < MaxRacing
  /\ req' = [req EXCEPT ![r] =
       [NoRequest EXCEPT !.nr = made + 1, !.op = op, !.from = from,
                         !.cand = c, !.edit = edit,
                         !.pc = IF from = "command" THEN "load" ELSE "guard"]]
  /\ UNCHANGED <<dbVars, botVars>>

(* The review page's buttons. *)
FromWeb(r) ==
  \E c \in Candidates :
    \/ \E op \in Ops \ {"edit"} : Ask(r, op, "web", c, NoEdit)
    \/ \E edit \in Forms : Ask(r, "edit", "web", c, edit)

(* dispatch_callback: a button under a card, perhaps an old card. *)
FromCard(r) ==
  \E c \in Candidates :
    \/ offered[c] /\ Ask(r, "approve", "button", c, NoEdit)
    \/ Ask(r, "reject", "button", c, NoEdit)
    \/ \E edit \in Picks \cup Field : Ask(r, "edit", "button", c, edit)

(* /title and /due. *)
FromCommand(r) ==
  \E c \in Candidates : \E edit \in Field \cup Due :
    Ask(r, "edit", "command", c, edit)

(* _guard re-fetches the candidate, in a transaction of its own; the web   *)
(* page fetched it when it was opened.  Neither acts on a settled one.     *)
Guard(r) ==
  /\ At(r, "guard")
  /\ IF row[Cand(r)].status \in Settled THEN End(r) ELSE GoTo(r, "load")
  /\ UNCHANGED <<dbVars, botVars, asked>>

Show(c) == offered' = [offered EXCEPT ![c] = @ \/ Ready(c)]

(* A card is sent: the worker's, the reply to /title and /due, or the one  *)
(* dispatch._open renders.                                                 *)
ShowCard(c) ==
  /\ Show(c)
  /\ UNCHANGED <<dbVars, req, pushes, asked>>
-----------------------------------------------------------------------------
(* What an edit makes of the row it loaded. *)
NewTitle(r) ==
  IF req[r].edit.title = "omitted" THEN req[r].loaded.title
  ELSE req[r].edit.title

NewDue(r) ==
  IF req[r].edit.due = "omitted" THEN req[r].loaded.due
  ELSE req[r].edit.due = "set"

(* Mutant: an omitted list of assignees is taken for an empty one. *)
ReplacesPeopleAlways(r) == TRUE

ReplacesPeople(r) == req[r].edit.who # "omitted"

NewPeople(r) ==
  IF req[r].edit.who = "nobody" THEN {}
  ELSE {[who |-> req[r].edit.who, primary |-> TRUE, by |-> req[r].nr]}

(* _set_candidate_assignees sets or drops the flag "assignee"; the edit    *)
(* then drops the flags of fields that have a value.                       *)
NewMissing(r) ==
  LET old == req[r].loaded.missing
      kept == IF ~ReplacesPeople(r) THEN old
              ELSE (old \ {"assignee"}) \cup
                   (IF NewPeople(r) = {} THEN {"assignee"} ELSE {})
  IN  IF NewDue(r) THEN kept \ {"due_date"} ELSE kept

(* A column is written when its value differs from the loaded one. *)
Written(loaded, new, current) == IF new = loaded THEN current ELSE new

ChangesFields(r) ==
  NewTitle(r) # req[r].loaded.title \/ NewDue(r) # req[r].loaded.due

ChangesRow(r) ==
  \/ req[r].op # "edit"
  \/ ChangesFields(r)
  \/ req[r].loaded.status # "edited"
  \/ NewMissing(r) # req[r].loaded.missing

(* Another transaction has updated the candidate and not committed yet. *)
HoldsRow(q) ==
  /\ req[q].pc \in {"find", "delete", "write"}
  /\ ReplacesPeople(q) /\ ChangesFields(q)

RowFree(r) == \A q \in Requests \ {r} : HoldsRow(q) => Cand(q) # Cand(r)

(* Another transaction has deleted one of the assignee rows. *)
HoldsPeople(q, r) ==
  /\ At(q, "write")
  /\ ReplacesPeople(q)
  /\ Cand(q) = Cand(r)
  /\ req[q].people \cap req[r].people # {}

PeopleFree(r) == \A q \in Requests \ {r} : ~HoldsPeople(q, r)
-----------------------------------------------------------------------------
(* Mutant: an approved candidate is not refused. *)
LoadUnchecked(r) ==
  /\ At(r, "load")
  /\ req' = [req EXCEPT ![r].loaded = row[Cand(r)],
       ![r].pc = CASE req[r].op = "approve" -> "insert"
                   [] req[r].op = "edit" /\ ReplacesPeople(r) -> "flush"
                   [] OTHER -> "write"]
  /\ UNCHANGED <<dbVars, botVars, asked>>

(* Mutant: "already approved" is taken for success by the bot. *)
LoadPushesAgain(r) ==
  /\ At(r, "load")
  /\ IF row[Cand(r)].status = "approved"
     THEN IF req[r].op = "approve" /\ req[r].from = "button"
          THEN GoTo(r, "push") ELSE End(r)
     ELSE req' = [req EXCEPT ![r].loaded = row[Cand(r)],
            ![r].pc = CASE req[r].op = "approve" -> "insert"
                        [] req[r].op = "edit" /\ ReplacesPeople(r) -> "flush"
                        [] OTHER -> "write"]
  /\ UNCHANGED <<dbVars, botVars, asked>>

(* _get_or_404, and the 409 for an approved candidate. *)
Load(r) ==
  /\ At(r, "load")
  /\ IF row[Cand(r)].status = "approved" THEN End(r)
     ELSE req' = [req EXCEPT ![r].loaded = row[Cand(r)],
            ![r].pc = CASE req[r].op = "approve" -> "insert"
                        [] req[r].op = "edit" /\ ReplacesPeople(r) -> "flush"
                        [] OTHER -> "write"]
  /\ UNCHANGED <<dbVars, botVars, asked>>

(* validate_active_assignee_ids or the DELETE flushes the fields set so    *)
(* far: an UPDATE that locks the candidate, unless nothing has changed.    *)
Flush(r) ==
  /\ At(r, "flush")
  /\ ChangesFields(r) => RowFree(r)
  /\ GoTo(r, "find")
  /\ UNCHANGED <<dbVars, botVars, asked>>

(* The DELETE of the assignee rows begins: it will delete those it sees... *)
Find(r) ==
  /\ At(r, "find")
  /\ req' = [req EXCEPT ![r].pc = "delete",
                        ![r].people = row[Cand(r)].people]
  /\ UNCHANGED <<dbVars, botVars, asked>>

(* Mutant: the primary assignee is not deleted. *)
DeleteOthers(r) ==
  /\ At(r, "delete")
  /\ PeopleFree(r)
  /\ req' = [req EXCEPT ![r].pc = "write",
       ![r].people = {p \in @ \cap row[Cand(r)].people : ~p.primary}]
  /\ UNCHANGED <<dbVars, botVars, asked>>

(* ...and that no other transaction has deleted first. *)
Delete(r) ==
  /\ At(r, "delete")
  /\ PeopleFree(r)
  /\ req' = [req EXCEPT ![r].pc = "write",
                        ![r].people = @ \cap row[Cand(r)].people]
  /\ UNCHANGED <<dbVars, botVars, asked>>

(* The new assignee is linked already: uq_candidate_assignees_pair. *)
PeopleLeft(r) == row[Cand(r)].people \ req[r].people

BreaksUnique(r) ==
  /\ ReplacesPeople(r)
  /\ \E p \in PeopleLeft(r) : \E q \in NewPeople(r) : p.who = q.who

Committed(c, new) ==
  /\ row' = [row EXCEPT ![c] = new]
  /\ versions' = [versions EXCEPT ![c] = @ \cup {VersionOf(new)}]

Audited(c, action, item) ==
  trail' = Append(trail, [cand |-> c, action |-> action, item |-> item])

(* Mutant: an edit leaves the status alone. *)
CommitEditKeepsStatus(r) ==
  LET c == Cand(r)
      old == req[r].loaded
  IN
  /\ At(r, "write")
  /\ req[r].op = "edit"
  /\ ChangesRow(r) => RowFree(r)
  /\ ~BreaksUnique(r)
  /\ Committed(c,
       [status |-> row[c].status,
        title |-> Written(old.title, NewTitle(r), row[c].title),
        due |-> Written(old.due, NewDue(r), row[c].due),
        missing |-> Written(old.missing, NewMissing(r), row[c].missing),
        people |-> IF ReplacesPeople(r) THEN PeopleLeft(r) \cup NewPeople(r)
                   ELSE row[c].people])
  /\ Audited(c, "edited", 0)
  /\ IF req[r].from = "button" THEN GoTo(r, "refresh") ELSE End(r)
  /\ UNCHANGED <<items, botVars, asked>>

(* edit_candidate flushes what is left and commits. *)
CommitEdit(r) ==
  LET c == Cand(r)
      old == req[r].loaded
  IN
  /\ At(r, "write")
  /\ req[r].op = "edit"
  /\ ChangesRow(r) => RowFree(r)
  /\ ~BreaksUnique(r)
  /\ Committed(c,
       [status |-> Written(old.status, "edited", row[c].status),
        title |-> Written(old.title, NewTitle(r), row[c].title),
        due |-> Written(old.due, NewDue(r), row[c].due),
        missing |-> Written(old.missing, NewMissing(r), row[c].missing),
        people |-> IF ReplacesPeople(r) THEN PeopleLeft(r) \cup NewPeople(r)
                   ELSE row[c].people])
  /\ Audited(c, "edited", 0)
  /\ IF req[r].from = "button" THEN GoTo(r, "refresh") ELSE End(r)
  /\ UNCHANGED <<items, botVars, asked>>

EditConflicts(r) ==
  /\ At(r, "write")
  /\ req[r].op = "edit"
  /\ BreaksUnique(r)
  /\ End(r)
  /\ UNCHANGED <<dbVars, botVars, asked>>

(* reject_candidate and mark_candidate_duplicate. *)
Settle(r) ==
  LET c == Cand(r)
      to == IF req[r].op = "reject" THEN "rejected" ELSE "duplicate"
  IN
  /\ At(r, "write")
  /\ req[r].op \in {"reject", "duplicate"}
  /\ RowFree(r)
  /\ Committed(c, [row[c] EXCEPT !.status =
                     Written(req[r].loaded.status, to, row[c].status)])
  /\ Audited(c, to, 0)
  /\ End(r)
  /\ UNCHANGED <<items, botVars, asked>>
-----------------------------------------------------------------------------
(* promotion.approve_candidate inserts the work item.  It waits for        *)
(* another approval that has inserted one and not committed yet, and fails *)
(* on uq_work_items_source_candidate when there is one.                    *)
Inserted(q, c) == req[q].pc \in {"copy", "approve"} /\ Cand(q) = c
HasItem(c) == \E i \in DOMAIN items : items[i].cand = c

(* Mutant: no unique constraint. *)
InsertAnyway(r) ==
  /\ At(r, "insert")
  /\ GoTo(r, "copy")
  /\ UNCHANGED <<dbVars, botVars, asked>>

(* Mutant: approvals of one candidate wait for each other from the start. *)
InsertInTurn(r) ==
  /\ At(r, "insert")
  /\ \A q \in Requests \ {r} : ~Inserted(q, Cand(r)) /\ ~At(q, "insert")
  /\ IF HasItem(Cand(r)) THEN End(r) ELSE GoTo(r, "copy")
  /\ UNCHANGED <<dbVars, botVars, asked>>

Insert(r) ==
  /\ At(r, "insert")
  /\ \A q \in Requests \ {r} : ~Inserted(q, Cand(r))
  /\ IF HasItem(Cand(r)) THEN End(r) ELSE GoTo(r, "copy")
  /\ UNCHANGED <<dbVars, botVars, asked>>

(* Mutant: the assignees are not copied. *)
CopyNobody(r) ==
  /\ At(r, "copy")
  /\ req' = [req EXCEPT ![r].pc = "approve", ![r].people = {}]
  /\ UNCHANGED <<dbVars, botVars, asked>>

(* It reads the assignees to copy, as committed by then. *)
Copy(r) ==
  /\ At(r, "copy")
  /\ req' = [req EXCEPT ![r].pc = "approve",
                        ![r].people = row[Cand(r)].people]
  /\ UNCHANGED <<dbVars, botVars, asked>>

(* approve_candidate commits.  The other fields are those it loaded. *)
Approve(r) ==
  LET c == Cand(r) IN
  /\ At(r, "approve")
  /\ RowFree(r)
  /\ items' = Append(items, [cand |-> c, title |-> req[r].loaded.title,
                             people |-> Names(req[r].people)])
  /\ Committed(c, [row[c] EXCEPT !.status = "approved"])
  /\ Audited(c, "approved", Len(items) + 1)
  /\ IF req[r].from = "button" THEN GoTo(r, "push") ELSE End(r)
  /\ UNCHANGED <<botVars, asked>>

(* handle_approve calls the webhook once the API has answered. *)
Push(r) ==
  /\ At(r, "push")
  /\ pushes' = IF WebhookSet THEN [pushes EXCEPT ![Cand(r)] = @ + 1]
               ELSE pushes
  /\ End(r)
  /\ UNCHANGED <<dbVars, offered, asked>>

(* handle_pick_assignee and handle_set_priority render the card again. *)
Refresh(r) ==
  /\ At(r, "refresh")
  /\ Show(Cand(r))
  /\ End(r)
  /\ UNCHANGED <<dbVars, pushes, asked>>

(* A deactivated assignee (422), an error or a crash: an open transaction  *)
(* is rolled back, and what would follow the commit does not happen.       *)
Fails(r) ==
  /\ ~At(r, "idle")
  /\ End(r)
  /\ UNCHANGED <<dbVars, botVars, asked>>

(* Two edits wait for each other's locks: Postgres fails one of them. *)
Deadlocked(r, q) ==
  /\ At(r, "delete") /\ HoldsRow(r) /\ HoldsPeople(q, r)
  /\ ChangesRow(q)

BreakDeadlock(r, q) ==
  /\ Deadlocked(r, q)
  /\ End(r) \/ End(q)
  /\ UNCHANGED <<dbVars, botVars, asked>>
-----------------------------------------------------------------------------
Step(r) ==
  \/ Guard(r)
  \/ Load(r)
  \/ Flush(r)
  \/ Find(r)
  \/ Delete(r)
  \/ CommitEdit(r)
  \/ EditConflicts(r)
  \/ Settle(r)
  \/ Insert(r)
  \/ Copy(r)
  \/ Approve(r)
  \/ Push(r)
  \/ Refresh(r)
  \/ \E q \in Requests \ {r} : BreakDeadlock(r, q)

Next ==
  \/ \E r \in Requests :
       \/ FromWeb(r)
       \/ FromCard(r)
       \/ FromCommand(r)
       \/ Step(r)
       \/ Fails(r)
  \/ \E c \in Candidates : ShowCard(c)

Spec == Init /\ [][Next]_vars

(* The server and the bot work off every request they have taken. *)
FairSpec == Spec /\ \A r \in Requests : WF_vars(Step(r))
-----------------------------------------------------------------------------
(* Types of all variables. *)
TypeOK ==
  /\ row \in [Candidates -> Row]
  /\ items \in Seq(Item)
  /\ trail \in Seq(Entry)
  /\ req \in [Requests -> Request]
  /\ pushes \in [Candidates -> Nat]
  /\ offered \in [Candidates -> BOOLEAN]
  /\ versions \in [Candidates -> SUBSET Version]
  /\ made \in 0..MaxRequests
  /\ overlapped \in BOOLEAN

(* However approvals race with each other and with edits, a candidate has  *)
(* at most one work item; each work item has exactly one audited approval, *)
(* of its candidate; and an approved candidate has a work item.            *)
Approvals == {i \in DOMAIN trail : trail[i].action = "approved"}

Traceable ==
  /\ \A i, j \in DOMAIN items : items[i].cand = items[j].cand => i = j
  /\ \A i, j \in Approvals : trail[i].item = trail[j].item => i = j
  /\ \A i \in Approvals : /\ trail[i].item \in DOMAIN items
                          /\ items[trail[i].item].cand = trail[i].cand
  /\ \A k \in DOMAIN items : \E i \in Approvals : trail[i].item = k
  /\ \A c \in Candidates : row[c].status = "approved" => HasItem(c)

(* The webhook is called at most once per candidate, and never for one     *)
(* that has no committed work item, whatever is tapped twice.              *)
PushedOnce ==
  \A c \in Candidates : pushes[c] <= 1 /\ (pushes[c] > 0 => HasItem(c))

(* Every request ends: no two wait for each other's locks for ever. *)
RequestsEnd == \A r \in Requests : ~At(r, "idle") ~> At(r, "idle")

(* candidates.py: "Approved candidates are immutable." *)
Immutable == \A c \in Candidates :
  row[c].status = "approved" => row'[c] = row[c]

ApprovedImmutable == [][Immutable]_vars

(* It holds as long as no request came while another was served: then no   *)
(* edit loads a candidate before its approval and writes it afterwards.    *)
InTurnImmutable == [][~overlapped' => Immutable]_vars

(* The other promises are kept by requests that are served in turn.        *)

(* _set_candidate_assignees: "keep the 'assignee' missing-field flag in    *)
(* sync": a candidate nobody is responsible for says so.                   *)
FlagInSync ==
  ~overlapped => \A c \in Candidates :
    row[c].people = {} => "assignee" \in row[c].missing

(* "Replace the candidate's responsible person(s) (first id = primary)":   *)
(* nobody has two primary assignees.                                       *)
OnePrimary ==
  ~overlapped => \A c \in Candidates : \A p, q \in row[c].people :
    p.primary /\ q.primary => p = q

(* What a candidate says of its assignees agrees.                          *)
AssigneesAgree == FlagInSync /\ OnePrimary

(* promotion.py: "Creates one WorkItem from the candidate snapshot": its   *)
(* title and assignees were the candidate's at one time.                   *)
ItemIsSnapshot ==
  ~overlapped => \A i \in DOMAIN items :
    [title |-> items[i].title, people |-> items[i].people]
      \in versions[items[i].cand]

(* The last audited action on a candidate tells its status.                *)
TrailTellsStatus ==
  ~overlapped => \A i \in DOMAIN trail :
    (\A j \in DOMAIN trail : trail[j].cand = trail[i].cand => j <= i)
      => row[trail[i].cand].status = trail[i].action

(* Decisions is what the screens rely on: however requests overlap, each   *)
(* commit changes the status of one candidate, an approval makes its work  *)
(* item in the same step and the first one of its candidate, and nothing   *)
(* ever takes a work item back.                                            *)
Abstract == INSTANCE Decisions
  WITH Candidates <- Candidates,
       status <- [c \in Candidates |-> row[c].status],
       tasks <- [i \in DOMAIN items |-> items[i].cand]

ImplementsDecisions == Abstract!DecisionsSpec
=============================================================================
