---------------------------- MODULE Registration ----------------------------
(***************************************************************************)
(* How a Telegram user becomes an admin: single-use codes in Redis, the    *)
(* rate limiter before them, and the requests of the bot's /link and /join *)
(* (routers/auth.py, telegram_link.py, invite.py), while admins edit the   *)
(* list of assignees (routers/assignees.py).                               *)
(*                                                                         *)
(* Requests are served by threads; one action is one Redis command or one  *)
(* SQL statement others can get in front of.                               *)
(***************************************************************************)
EXTENDS Integers, Sequences, FiniteSets

CONSTANTS
  TgIds,        \* Telegram users
  MaxCodes,     \* bound: codes issued
  Requests,     \* the threads that serve requests
  MaxAttempts,  \* RATE_LIMIT_MAX_ATTEMPTS (5)
  MaxRequests,  \* bound: requests made
  MaxEdits,     \* bound: changes by admins to the list of assignees
  MaxFailures,  \* bound: errors and crashes under a request
  NoTg          \* no Telegram id

ASSUME RegistrationAssumption ==
  /\ MaxAttempts \in Nat \ {0}
  /\ MaxCodes \in Nat \ {0}
  /\ MaxRequests \in Nat \ {0}
  /\ MaxEdits \in Nat
  /\ MaxFailures \in Nat
  /\ NoTg \notin TgIds
  /\ "ip" \notin TgIds

(* The counters of the rate limiter.  All requests come from the bot, so   *)
(* they share one client address.                                          *)
Keys == TgIds \cup {"ip"}

(* Users: the seeded admin has number 0 and a password, the others an      *)
(* address made of their Telegram id (mail); each is numbered by the       *)
(* request that created it.                                                *)
UserIds == 0..MaxRequests
User == [id : UserIds, mail : TgIds \cup {NoTg}]
Seeded == [id |-> 0, mail |-> NoTg]

(* Assignees: user is -1 for one without an account.                       *)
Nobody == -1
Person == [id : 1..(MaxRequests + MaxEdits), user : UserIds \cup {Nobody},
           tg : TgIds \cup {NoTg}]

(* Codes are numbered in the order in which they are issued; no code is     *)
(* issued twice.                                                           *)
Codes == 1..MaxCodes

(* A code is a link code of a user, an invite, or not in Redis.            *)
Code == [kind : {"link", "join", "none"}, user : UserIds]
NoCode == [kind |-> "none", user |-> 0]

Pc == {"idle", "count", "window", "take", "find", "insert", "commit", "write",
       "session"}

(* A request: who sends which code, the counters left to increment, what   *)
(* they said, and the user and the assignee it works on.                   *)
Request == [pc : Pc, nr : 0..MaxRequests, op : {"link", "join"},
            tg : TgIds \cup {NoTg},
            code : Codes, keys : Seq(Keys), ok : BOOLEAN, user : UserIds,
            person : Person]

VARIABLES
  users,     \* SUBSET User, committed
  people,    \* SUBSET Person, committed
  codes,     \* [Codes -> Code], tglink:{code} and invite:{code}
  issued,    \* codes issued so far
  count,     \* [Keys -> Nat], the counters, 0 for an absent key
  window,    \* [Keys -> BOOLEAN], the key has a time to live
  sessions,  \* SUBSET Session, session:{token}
  req,       \* [Requests -> Request]
  made,      \* requests so far
  edits,     \* changes by admins so far
  failures

vars == <<users, people, codes, issued, count, window, sessions, req, made,
          edits, failures>>
codeVars == <<codes, issued>>
limitVars == <<count, window>>
dbVars == <<users, people>>
bounds == <<made, edits, failures>>

(* A session, and the request and the code that it was given for.          *)
Session == [user : UserIds, nr : 0..MaxRequests, code : Codes]

NoPerson == [id |-> 1, user |-> Nobody, tg |-> NoTg]
NoRequest ==
  [pc |-> "idle", nr |-> 0, op |-> "link", tg |-> NoTg,
   code |-> 1, keys |-> <<>>, ok |-> TRUE, user |-> 0,
   person |-> NoPerson]

Init ==
  /\ users = {Seeded}
  /\ people = {}
  /\ codes = [c \in Codes |-> NoCode]
  /\ issued = 0
  /\ count = [k \in Keys |-> 0]
  /\ window = [k \in Keys |-> FALSE]
  /\ sessions = {}
  /\ req = [r \in Requests |-> NoRequest]
  /\ made = 0
  /\ edits = 0
  /\ failures = 0
-----------------------------------------------------------------------------
At(r, pc) == req[r].pc = pc
End(r) == req' = [req EXCEPT ![r] = NoRequest]

(* telegram_link_start and invite_start: an admin gets a new code.         *)
Issue(c, code) ==
  /\ c = issued + 1
  /\ issued' = c
  /\ codes' = [codes EXCEPT ![c] = code]
  /\ UNCHANGED <<dbVars, limitVars, sessions, req, bounds>>

IssueLink(c) == \E u \in users : Issue(c, [kind |-> "link", user |-> u.id])
IssueInvite(c) == Issue(c, [kind |-> "join", user |-> 0])

CodeExpires(c) ==
  /\ codes[c] # NoCode
  /\ codes' = [codes EXCEPT ![c] = NoCode]
  /\ UNCHANGED <<dbVars, issued, limitVars, sessions, req, bounds>>

(* A counter's key expires. *)
WindowCloses(k) ==
  /\ window[k]
  /\ count' = [count EXCEPT ![k] = 0]
  /\ window' = [window EXCEPT ![k] = FALSE]
  /\ UNCHANGED <<dbVars, codeVars, sessions, req, bounds>>

Edit == edits < MaxEdits /\ edits' = edits + 1
adminRest == <<users, codeVars, limitVars, sessions, req, made, failures>>

(* create_assignee: the web form and /addperson give no account.           *)
AddPerson ==
  /\ Edit
  /\ \E tg \in TgIds \cup {NoTg} :
       people' = people \cup {[id |-> MaxRequests + edits + 1,
                               user |-> Nobody, tg |-> tg]}
  /\ UNCHANGED adminRest

(* update_assignee: the form sends the Telegram id it shows or a new one.  *)
SaveForm ==
  /\ Edit
  /\ \E p \in people : \E tg \in TgIds \cup {NoTg} :
       people' = (people \ {p}) \cup {[p EXCEPT !.tg = tg]}
  /\ UNCHANGED adminRest

(* update_assignee with user_id: an account is attached to an assignee     *)
(* that has none (uq_assignees_user).                                      *)
Attach ==
  /\ Edit
  /\ \E p \in people, u \in users :
       /\ p.user = Nobody
       /\ \A q \in people : q.user # u.id
       /\ people' = (people \ {p}) \cup {[p EXCEPT !.user = u.id]}
  /\ UNCHANGED adminRest
-----------------------------------------------------------------------------
(* /link <code> and /join <code>: the code may be wrong or used.           *)
Ask(r, op, tg, c) ==
  /\ At(r, "idle")
  /\ made < MaxRequests
  /\ made' = made + 1
  /\ req' = [req EXCEPT ![r] =
       [NoRequest EXCEPT !.pc = "count", !.nr = made + 1, !.op = op, !.tg = tg,
                         !.code = c, !.keys = <<tg, "ip">>]]
  /\ UNCHANGED <<dbVars, codeVars, limitVars, sessions, edits, failures>>

(* What follows a counter: the next one, then the verdict of both.         *)
Counted(r, ok) ==
  IF Len(req[r].keys) > 1
  THEN req' = [req EXCEPT ![r].pc = "count", ![r].keys = Tail(@),
                          ![r].ok = ok]
  ELSE IF ok THEN req' = [req EXCEPT ![r].pc = "take", ![r].keys = <<>>]
  ELSE End(r)

Allowed(r) == req[r].ok /\ count[Head(req[r].keys)] < MaxAttempts

(* Mutant: the time to live is set by the attempt that trips the limit.    *)
CountWindowLate(r) ==
  LET k == Head(req[r].keys) IN
  /\ At(r, "count")
  /\ count' = [count EXCEPT ![k] = @ + 1]
  /\ IF count[k] = MaxAttempts
     THEN req' = [req EXCEPT ![r].pc = "window", ![r].ok = Allowed(r)]
     ELSE Counted(r, Allowed(r))
  /\ UNCHANGED <<dbVars, codeVars, window, sessions, bounds>>

(* Mutant: an attempt that is allowed is counted once more.                *)
CountTwice(r) ==
  LET k == Head(req[r].keys) IN
  /\ At(r, "count")
  /\ count' = [count EXCEPT ![k] = @ + 2]
  /\ IF count[k] = 0
     THEN req' = [req EXCEPT ![r].pc = "window", ![r].ok = Allowed(r)]
     ELSE Counted(r, Allowed(r))
  /\ UNCHANGED <<dbVars, codeVars, window, sessions, bounds>>

(* INCR; only the attempt that creates the key sets its time to live...    *)
Count(r) ==
  LET k == Head(req[r].keys) IN
  /\ At(r, "count")
  /\ count' = [count EXCEPT ![k] = @ + 1]
  /\ IF count[k] = 0
     THEN req' = [req EXCEPT ![r].pc = "window", ![r].ok = Allowed(r)]
     ELSE Counted(r, Allowed(r))
  /\ UNCHANGED <<dbVars, codeVars, window, sessions, bounds>>

(* ...with EXPIRE, a command of its own.                                   *)
OpenWindow(r) ==
  /\ At(r, "window")
  /\ window' = [window EXCEPT ![Head(req[r].keys)] = TRUE]
  /\ Counted(r, req[r].ok)
  /\ UNCHANGED <<dbVars, codeVars, count, sessions, bounds>>

(* Mutant: GET instead of GETDEL.                                          *)
TakeLeaves(r) ==
  LET code == codes[req[r].code] IN
  /\ At(r, "take")
  /\ IF code.kind = req[r].op
     THEN req' = [req EXCEPT ![r].pc = "find", ![r].user = code.user]
     ELSE End(r)
  /\ UNCHANGED <<dbVars, codeVars, limitVars, sessions, bounds>>

(* GETDEL: the code is gone, whatever happens to the request.              *)
Take(r) ==
  LET code == codes[req[r].code] IN
  /\ At(r, "take")
  /\ IF code.kind = req[r].op
     THEN /\ req' = [req EXCEPT ![r].pc = "find", ![r].user = code.user]
          /\ codes' = [codes EXCEPT ![req[r].code] = NoCode]
     ELSE End(r) /\ UNCHANGED codes
  /\ UNCHANGED <<dbVars, issued, limitVars, sessions, bounds>>

(* telegram_redeem looks for the assignee of the code's user.              *)
FindByUser(r) ==
  /\ At(r, "find")
  /\ req[r].op = "link"
  /\ IF \E p \in people : p.user = req[r].user
     THEN \E p \in people :
            /\ p.user = req[r].user
            /\ req' = [req EXCEPT ![r].pc = "write", ![r].person = p]
     ELSE End(r)
  /\ UNCHANGED <<dbVars, codeVars, limitVars, sessions, bounds>>

(* invite_redeem looks for the assignee with the Telegram id; two are an   *)
(* error.                                                                  *)
FindByTg(r) ==
  LET found == {p \in people : p.tg = req[r].tg} IN
  /\ At(r, "find")
  /\ req[r].op = "join"
  /\ \/ /\ Cardinality(found) > 1
        /\ End(r)
     \/ \E p \in found :
          /\ found = {p}
          /\ p.user # Nobody
          /\ req' = [req EXCEPT ![r].pc = "session", ![r].user = p.user]
     \/ /\ Cardinality(found) <= 1
        /\ \A p \in found : p.user = Nobody
        /\ req' = [req EXCEPT ![r].pc = "insert", ![r].user = req[r].nr]
  /\ UNCHANGED <<dbVars, codeVars, limitVars, sessions, bounds>>

(* The user is written first, under the unique address: the statement      *)
(* waits for an uncommitted one and fails on a committed one.              *)
Inserted(q, tg) == At(q, "commit") /\ req[q].tg = tg

(* Mutant: no unique constraint.                                           *)
InsertAnyway(r) ==
  /\ At(r, "insert")
  /\ req' = [req EXCEPT ![r].pc = "commit"]
  /\ UNCHANGED <<dbVars, codeVars, limitVars, sessions, bounds>>

(* Mutant: a session may be created before the commit.                     *)
InsertAndGo(r) ==
  /\ At(r, "insert")
  /\ \A q \in Requests \ {r} : ~Inserted(q, req[r].tg)
  /\ \/ req' = [req EXCEPT ![r].pc = "commit"]
     \/ req' = [req EXCEPT ![r].pc = "session"]
  /\ UNCHANGED <<dbVars, codeVars, limitVars, sessions, bounds>>

Insert(r) ==
  /\ At(r, "insert")
  /\ \A q \in Requests \ {r} : ~Inserted(q, req[r].tg)
  /\ IF \E u \in users : u.mail = req[r].tg THEN End(r)
     ELSE req' = [req EXCEPT ![r].pc = "commit"]
  /\ UNCHANGED <<dbVars, codeVars, limitVars, sessions, bounds>>

(* The assignee follows in the same transaction.                           *)
Commit(r) ==
  /\ At(r, "commit")
  /\ users' = users \cup {[id |-> req[r].user, mail |-> req[r].tg]}
  /\ people' = people \cup {[id |-> req[r].nr, user |-> req[r].user,
                             tg |-> req[r].tg]}
  /\ req' = [req EXCEPT ![r].pc = "session"]
  /\ UNCHANGED <<codeVars, limitVars, sessions, bounds>>

(* telegram_redeem writes the id of whoever sent the code; SQLAlchemy      *)
(* writes nothing when the row it loaded has it already.                   *)
Write(r) ==
  LET old == req[r].person IN
  /\ At(r, "write")
  /\ people' = {IF p.id = old.id /\ old.tg # req[r].tg
                THEN [p EXCEPT !.tg = req[r].tg] ELSE p : p \in people}
  /\ req' = [req EXCEPT ![r].pc = "session"]
  /\ UNCHANGED <<users, codeVars, limitVars, sessions, bounds>>

(* create_session, after the commit.                                       *)
CreateSession(r) ==
  /\ At(r, "session")
  /\ sessions' = sessions \cup {[user |-> req[r].user, nr |-> req[r].nr,
                                  code |-> req[r].code]}
  /\ End(r)
  /\ UNCHANGED <<dbVars, codeVars, limitVars, bounds>>

(* An error or a crash: an open transaction is undone, Redis is not.       *)
Fails(r) ==
  /\ failures < MaxFailures
  /\ failures' = failures + 1
  /\ ~At(r, "idle")
  /\ End(r)
  /\ UNCHANGED <<dbVars, codeVars, limitVars, sessions, made, edits>>
-----------------------------------------------------------------------------
Step(r) ==
  \/ Count(r)
  \/ OpenWindow(r)
  \/ Take(r)
  \/ FindByUser(r)
  \/ FindByTg(r)
  \/ Insert(r)
  \/ Commit(r)
  \/ Write(r)
  \/ CreateSession(r)

Next ==
  \/ \E c \in Codes : IssueLink(c) \/ IssueInvite(c) \/ CodeExpires(c)
  \/ \E k \in Keys : WindowCloses(k)
  \/ AddPerson
  \/ SaveForm
  \/ Attach
  \/ \E r \in Requests :
       \/ \E op \in {"link", "join"}, tg \in TgIds, c \in Codes :
            Ask(r, op, tg, c)
       \/ Step(r)
       \/ Fails(r)

Spec == Init /\ [][Next]_vars
-----------------------------------------------------------------------------
(* The types of the variables; no counter exceeds the requests made.       *)
TypeOK ==
  /\ users \subseteq User
  /\ people \subseteq Person
  /\ codes \in [Codes -> Code]
  /\ issued \in 0..MaxCodes
  /\ count \in [Keys -> 0..made]
  /\ window \in [Keys -> BOOLEAN]
  /\ sessions \subseteq Session
  /\ req \in [Requests -> Request]
  /\ made \in 0..MaxRequests
  /\ edits \in 0..MaxEdits
  /\ failures \in 0..MaxFailures

(* However many invites a Telegram user redeems, at once or after an admin *)
(* changed the assignee, there is one account for it, and every registered *)
(* account is attached to exactly one assignee (invite_redeem).            *)
OneAccount ==
  /\ \A u, v \in users : u.mail = v.mail => u = v
  /\ \A u \in users \ {Seeded} :
       Cardinality({p \in people : p.user = u.id}) = 1

(* A code logs in one request, whichever kind it is and however the        *)
(* requests that send it overlap, and is gone by then (redeem_link_code,   *)
(* redeem_invite_code).                                                    *)
SpentOnce ==
  \A s \in sessions :
    /\ s.code <= issued
    /\ codes[s.code] = NoCode
    /\ \A t \in sessions : t.code = s.code => t = s

(* A session belongs to a committed account that is attached to an         *)
(* assignee: nobody is logged in as a user a rollback has undone           *)
(* (telegram_redeem, invite_redeem).                                       *)
SessionsOwned ==
  \A s \in sessions : \E u \in users, p \in people :
    s.user = u.id /\ p.user = u.id

(* The request about to set the time to live of a counter that has none.  *)
Opens(r, k) == At(r, "window") /\ Head(req[r].keys) = k

Closed(k) == count[k] > 0 /\ ~window[k]

(* Counters that will never expire: k is locked out for ever once it is   *)
(* at the limit.                                                          *)
Stuck == {k \in Keys : Closed(k) /\ \A r \in Requests : ~Opens(r, k)}

(* However attempts at the same counters overlap and keys expire in        *)
(* between, one request at most is about to set a counter's time to live,  *)
(* and a counter gets stuck without one by an error or a crash between     *)
(* INCR and EXPIRE only, each of which costs one counter at most: the      *)
(* other attempts need not set it too (check_and_increment_rate_limit).    *)
WindowsHeld ==
  /\ \A k \in Keys, r, q \in Requests : Opens(r, k) /\ Opens(q, k) => r = q
  /\ Cardinality(Stuck) <= failures
=============================================================================
