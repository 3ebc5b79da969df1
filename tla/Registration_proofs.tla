------------------------- MODULE Registration_proofs -------------------------
(***************************************************************************)
(* Theorems about Registration, for any number of Telegram users, codes,   *)
(* threads, requests and changes by admins.                                *)
(***************************************************************************)
EXTENDS Registration, FiniteSetTheorems, TLAPS

(* A tuple of variables is always expanded. *)
USE DEF vars, codeVars, limitVars, dbVars, bounds, adminRest

Busy(r) == ~At(r, "idle")

(* TypeOK but for the bound of the counters. *)
Typed ==
  /\ users \subseteq User
  /\ people \subseteq Person
  /\ codes \in [Codes -> Code]
  /\ issued \in 0..MaxCodes
  /\ count \in [Keys -> Nat]
  /\ window \in [Keys -> BOOLEAN]
  /\ sessions \subseteq Session
  /\ req \in [Requests -> Request]
  /\ made \in 0..MaxRequests
  /\ edits \in 0..MaxEdits
  /\ failures \in 0..MaxFailures

(* A request is numbered when it is made, by a number of its own. *)
Numbered ==
  /\ \A r \in Requests :
       Busy(r) => req[r].nr \in 1..made /\ req[r].tg \in TgIds
  /\ \A r, q \in Requests :
       Busy(r) /\ Busy(q) /\ req[r].nr = req[q].nr => r = q

(* It has two counters to go, then one. *)
KeysLeft(r) ==
  req[r].pc \in {"count", "window"}
    => req[r].keys \in {<<req[r].tg, "ip">>, <<"ip">>}

Base == Typed /\ Numbered /\ \A r \in Requests : KeysLeft(r)
-----------------------------------------------------------------------------
LEMMA NoRequestType == NoRequest \in Request /\ NoRequest.pc = "idle"
<1>1. NoPerson \in Person
  BY RegistrationAssumption DEF NoPerson, Person
<1>2. 1 \in Codes /\ 0 \in UserIds /\ 0 \in 0..MaxRequests
  BY RegistrationAssumption DEF Codes, UserIds
<1>3. <<>> \in Seq(Keys)
  OBVIOUS
<1>4. QED
  BY <1>1, <1>2, <1>3 DEF NoRequest, Request, Pc

LEMMA BaseInitially == Init => Base
<1> SUFFICES ASSUME Init PROVE Base
  OBVIOUS
<1>1. Seeded \in User
  BY RegistrationAssumption DEF Seeded, User, UserIds
<1>2. NoCode \in Code
  BY RegistrationAssumption DEF NoCode, Code, UserIds
<1>3. Typed
  BY <1>1, <1>2, NoRequestType, RegistrationAssumption DEF Init, Typed
<1>4. \A r \in Requests : req[r].pc = "idle"
  BY NoRequestType DEF Init
<1>5. QED
  BY <1>3, <1>4 DEF Base, Numbered, KeysLeft, Busy, At

(* Steps that are no request's leave the requests alone. *)
Admins ==
  \/ \E c \in Codes : IssueLink(c) \/ IssueInvite(c) \/ CodeExpires(c)
  \/ \E k \in Keys : WindowCloses(k)
  \/ AddPerson \/ SaveForm \/ Attach

LEMMA AdminsType ==
  ASSUME Typed, Admins
  PROVE  Typed' /\ UNCHANGED <<req, users, sessions, made, failures>>
<1> USE DEF Typed
<1>1. CASE \E c \in Codes : IssueLink(c)
  BY <1>1 DEF IssueLink, Issue, Codes, Code, User
<1>2. CASE \E c \in Codes : IssueInvite(c)
  BY <1>2, RegistrationAssumption DEF IssueInvite, Issue, Codes, Code, UserIds
<1>3. CASE \E c \in Codes : CodeExpires(c)
  BY <1>3, RegistrationAssumption DEF CodeExpires, NoCode, Code, UserIds
<1>4. CASE \E k \in Keys : WindowCloses(k)
  BY <1>4 DEF WindowCloses
<1>5. CASE AddPerson
  <2>1. PICK tg \in TgIds \cup {NoTg} :
          people' = people \cup {[id |-> MaxRequests + edits + 1,
                                  user |-> Nobody, tg |-> tg]}
    BY <1>5 DEF AddPerson
  <2>2. MaxRequests + edits + 1 \in 1..(MaxRequests + MaxEdits)
    BY <1>5, RegistrationAssumption DEF AddPerson, Edit
  <2>3. people' \subseteq Person
    BY <2>1, <2>2 DEF Person
  <2>4. edits' \in 0..MaxEdits
    BY <1>5, RegistrationAssumption DEF AddPerson, Edit
  <2>5. QED
    BY <1>5, <2>3, <2>4 DEF AddPerson
<1>6. CASE SaveForm
  <2>1. people' \subseteq Person
    BY <1>6 DEF SaveForm, Person
  <2>2. edits' \in 0..MaxEdits
    BY <1>6, RegistrationAssumption DEF SaveForm, Edit
  <2>3. QED
    BY <1>6, <2>1, <2>2 DEF SaveForm
<1>7. CASE Attach
  <2>1. people' \subseteq Person
    BY <1>7 DEF Attach, Person, User
  <2>2. edits' \in 0..MaxEdits
    BY <1>7, RegistrationAssumption DEF Attach, Edit
  <2>3. QED
    BY <1>7, <2>1, <2>2 DEF Attach
<1>8. QED
  BY <1>1, <1>2, <1>3, <1>4, <1>5, <1>6, <1>7 DEF Admins

LEMMA AskType ==
  ASSUME Base, NEW r \in Requests, NEW op \in {"link", "join"},
         NEW tg \in TgIds, NEW c \in Codes, Ask(r, op, tg, c)
  PROVE  /\ Base'
         /\ made' = made + 1
         /\ \A q \in Requests \ {r} : req'[q] = req[q]
         /\ req'[r].pc = "count" /\ req'[r].nr = made + 1
         /\ req'[r].keys = <<tg, "ip">> /\ req'[r].tg = tg
<1> DEFINE new == [NoRequest EXCEPT !.pc = "count", !.nr = made + 1, !.op = op,
                                    !.tg = tg, !.code = c, !.keys = <<tg, "ip">>]
<1>1. made' = made + 1 /\ made' \in 0..MaxRequests
  BY RegistrationAssumption DEF Ask, Base, Typed
<1>2. <<tg, "ip">> \in Seq(Keys)
  BY DEF Keys
<1>3. /\ new \in Request /\ new.pc = "count" /\ new.nr = made + 1
      /\ new.tg = tg /\ new.keys = <<tg, "ip">>
  BY <1>1, <1>2, NoRequestType DEF Request, Pc
<1>4. req' = [req EXCEPT ![r] = new] /\ req \in [Requests -> Request]
  BY DEF Ask, Base, Typed
<1> HIDE DEF new
<1>5. req' \in [Requests -> Request] /\ req'[r] = new
  BY <1>3, <1>4
<1>6. \A q \in Requests \ {r} : req'[q] = req[q]
  BY <1>4
<1>7. Typed'
  BY <1>1, <1>5 DEF Ask, Base, Typed
<1>8. Numbered'
  <2>1. \A q \in Requests \ {r} : Busy(q)' <=> Busy(q)
    BY <1>6 DEF Busy, At
  <2>2. made \in Nat
    BY RegistrationAssumption DEF Base, Typed
  <2>3. QED
    BY <1>1, <1>3, <1>5, <1>6, <2>1, <2>2 DEF Base, Numbered
<1>9. \A q \in Requests : KeysLeft(q)'
  BY <1>3, <1>5, <1>6 DEF Base, KeysLeft
<1>10. QED
  BY <1>1, <1>3, <1>5, <1>6, <1>7, <1>8, <1>9 DEF Base

(* A step of a request changes that request only, which goes on under its  *)
(* number or ends.                                                         *)
GoesOn(r) ==
  /\ req' \in [Requests -> Request]
  /\ \A q \in Requests \ {r} : req'[q] = req[q]
  /\ \/ req'[r] = NoRequest
     \/ /\ req'[r].pc # "idle"
        /\ req'[r].nr = req[r].nr
        /\ req'[r].tg = req[r].tg
        /\ req'[r].code = req[r].code
        /\ req'[r].op = req[r].op

LEMMA Ends == ASSUME Typed, NEW r \in Requests, End(r) PROVE GoesOn(r)
BY NoRequestType DEF End, Typed, GoesOn

LEMMA CountedGoesOn ==
  ASSUME Base, NEW r \in Requests, NEW ok \in BOOLEAN, Counted(r, ok),
         req[r].pc \in {"count", "window"}
  PROVE  GoesOn(r) /\ KeysLeft(r)'
<1>1. req \in [Requests -> Request] /\ req[r] \in Request
  BY DEF Base, Typed
<1>2. req[r].keys \in {<<req[r].tg, "ip">>, <<"ip">>}
  BY DEF Base, KeysLeft
<1>3. CASE Len(req[r].keys) > 1
  <2>1. req' = [req EXCEPT ![r].pc = "count", ![r].keys = Tail(@), ![r].ok = ok]
    BY <1>3 DEF Counted
  <2>2. Tail(req[r].keys) = <<"ip">> /\ <<"ip">> \in Seq(Keys)
    <3>1. req[r].keys = <<req[r].tg, "ip">>
      <4>1. ASSUME req[r].keys = <<"ip">> PROVE FALSE
        <5>1. Len(req[r].keys) = 1
          BY <4>1
        <5>2. QED
          BY <1>3, <5>1
      <4>2. QED
        BY <1>2, <4>1
    <3>2. Tail(req[r].keys) = <<"ip">>
      <4>1. \A a, b : Tail(<<a, b>>) = <<b>>
        OBVIOUS
      <4>2. QED
        BY <3>1, <4>1
    <3>3. "ip" \in Keys
      BY DEF Keys
    <3>4. QED
      BY <3>2, <3>3
  <2>3. req'[r] = [req[r] EXCEPT !.pc = "count", !.keys = <<"ip">>, !.ok = ok]
    BY <1>1, <2>1, <2>2
  <2>4. req'[r] \in Request
    BY <1>1, <2>2, <2>3 DEF Request, Pc
  <2>5. /\ \A q \in Requests \ {r} : req'[q] = req[q]
        /\ req' \in [Requests -> Request]
    BY <1>1, <2>1, <2>4
  <2>6. QED
    BY <1>1, <2>3, <2>5 DEF GoesOn, KeysLeft, Request
<1>4. CASE ~(Len(req[r].keys) > 1) /\ ok
  <2>1. req' = [req EXCEPT ![r].pc = "take", ![r].keys = <<>>]
    BY <1>4 DEF Counted
  <2>2. req'[r] = [req[r] EXCEPT !.pc = "take", !.keys = <<>>]
    BY <1>1, <2>1
  <2>3. req'[r] \in Request
    <3>1. <<>> \in Seq(Keys) /\ "take" \in Pc
      BY DEF Pc
    <3>2. QED
      BY <1>1, <2>2, <3>1 DEF Request
  <2>4. /\ \A q \in Requests \ {r} : req'[q] = req[q]
        /\ req' \in [Requests -> Request]
    BY <1>1, <2>1, <2>3
  <2>5. QED
    BY <1>1, <2>2, <2>4 DEF GoesOn, KeysLeft, Request
<1>5. CASE ~(Len(req[r].keys) > 1) /\ ~ok
  <2>1. End(r)
    BY <1>5 DEF Counted
  <2>2. req'[r].pc = "idle"
    BY <1>1, <2>1, NoRequestType DEF End
  <2>3. QED
    BY <2>1, <2>2, Ends DEF Base, KeysLeft
<1>6. QED
  BY <1>3, <1>4, <1>5

(* A counting request goes on to count, to wait for the code, or ends.     *)
LEMMA CountsLeave ==
  ASSUME Base, NEW r \in Requests, Count(r) \/ OpenWindow(r)
  PROVE  req'[r].pc \in {"count", "window", "take", "idle"}
<1>1. req \in [Requests -> Request] /\ req[r] \in Request
  BY DEF Base, Typed
<1>2. ASSUME NEW ok, Counted(r, ok)
      PROVE  req'[r].pc \in {"count", "take", "idle"}
  <2>1. \/ req' = [req EXCEPT ![r].pc = "count", ![r].keys = Tail(@),
                              ![r].ok = ok]
        \/ req' = [req EXCEPT ![r].pc = "take", ![r].keys = <<>>]
        \/ req' = [req EXCEPT ![r] = NoRequest]
    BY <1>2 DEF Counted, End
  <2>2. QED
    BY <1>1, <2>1, NoRequestType DEF Request
<1>3. CASE Count(r) /\ count[Head(req[r].keys)] = 0
  BY <1>1, <1>3 DEF Count, Request
<1>4. CASE Count(r) /\ count[Head(req[r].keys)] # 0
  BY <1>2, <1>4 DEF Count
<1>5. CASE OpenWindow(r)
  BY <1>2, <1>5 DEF OpenWindow
<1>6. QED
  BY <1>3, <1>4, <1>5

(* What is left of Base when a request goes on. *)
LEMMA GoesOnBase ==
  ASSUME Base, NEW r \in Requests, Busy(r), GoesOn(r), KeysLeft(r)',
         Typed', made' = made
  PROVE  Base'
<1>1. \A q \in Requests \ {r} : (Busy(q)' <=> Busy(q)) /\ KeysLeft(q)'
  BY DEF GoesOn, Busy, At, Base, KeysLeft
<1>2. \/ ~Busy(r)'
      \/ req'[r].nr = req[r].nr /\ req'[r].tg = req[r].tg
  BY NoRequestType DEF GoesOn, Busy, At
<1>3. Numbered'
  BY <1>1, <1>2 DEF Base, Numbered, GoesOn
<1>4. QED
  BY <1>1, <1>3 DEF Base

LEMMA CountsType ==
  ASSUME Base, NEW r \in Requests, Count(r) \/ OpenWindow(r)
  PROVE  Base' /\ GoesOn(r)
<1> DEFINE k == Head(req[r].keys)
<1>1. req \in [Requests -> Request] /\ req[r] \in Request
  BY DEF Base, Typed
<1>2. k \in Keys /\ req[r].pc \in {"count", "window"}
  <2>1. req[r].pc \in {"count", "window"}
    BY DEF Count, OpenWindow, At
  <2>2. req[r].keys \in {<<req[r].tg, "ip">>, <<"ip">>} /\ req[r].tg \in TgIds
    BY <2>1 DEF Base, Numbered, KeysLeft, Busy, At
  <2>3. QED
    BY <2>1, <2>2 DEF Keys
<1>3. Busy(r)
  BY <1>2 DEF Busy, At
<1>4. CASE Count(r)
  <2>1. Allowed(r) \in BOOLEAN
    BY <1>1 DEF Allowed, Request
  <2>2. GoesOn(r) /\ KeysLeft(r)'
    <3>1. CASE count[k] = 0
      <4>1. req' = [req EXCEPT ![r].pc = "window", ![r].ok = Allowed(r)]
        BY <1>4, <3>1 DEF Count
      <4>2. req'[r] = [req[r] EXCEPT !.pc = "window", !.ok = Allowed(r)]
        BY <1>1, <4>1
      <4>3. req'[r] \in Request
        BY <1>1, <2>1, <4>2 DEF Request, Pc
      <4>4. /\ \A q \in Requests \ {r} : req'[q] = req[q]
            /\ req' \in [Requests -> Request]
        BY <1>1, <4>1, <4>3
      <4>5. QED
        BY <1>1, <1>2, <4>2, <4>4 DEF GoesOn, KeysLeft, Request, Base
    <3>2. CASE count[k] # 0
      BY <1>2, <1>4, <2>1, <3>2, CountedGoesOn DEF Count
    <3>3. QED
      BY <3>1, <3>2
  <2>3. Typed'
    BY <1>2, <1>4, <2>2 DEF Count, Base, Typed, GoesOn
  <2>4. QED
    BY <1>3, <1>4, <2>2, <2>3, GoesOnBase DEF Count
<1>5. CASE OpenWindow(r)
  <2>1. req[r].ok \in BOOLEAN
    BY <1>1 DEF Request
  <2>2. GoesOn(r) /\ KeysLeft(r)'
    BY <1>2, <1>5, <2>1, CountedGoesOn DEF OpenWindow
  <2>3. Typed'
    BY <1>2, <1>5, <2>2 DEF OpenWindow, Base, Typed, GoesOn
  <2>4. QED
    BY <1>3, <1>5, <2>2, <2>3, GoesOnBase DEF OpenWindow
<1>6. QED
  BY <1>4, <1>5

(* A step after the counters sets three fields of a request. *)
Becomes(r, pc, user, person) ==
  req' = [req EXCEPT ![r] = [req[r] EXCEPT !.pc = pc, !.user = user,
                                           !.person = person]]

LEMMA BecomesGoesOn ==
  ASSUME Typed, NEW r \in Requests, NEW pc \in Pc \ {"idle"},
         NEW user \in UserIds, NEW person \in Person,
         Becomes(r, pc, user, person)
  PROVE  /\ GoesOn(r)
         /\ req'[r].pc = pc /\ req'[r].user = user
         /\ req'[r].person = person
<1>1. req \in [Requests -> Request] /\ req[r] \in Request
  BY DEF Typed
<1>2. req'[r] = [req[r] EXCEPT !.pc = pc, !.user = user, !.person = person]
  BY <1>1 DEF Becomes
<1>3. req'[r] \in Request
  BY <1>1, <1>2 DEF Request
<1>4. /\ req' \in [Requests -> Request]
      /\ \A q \in Requests \ {r} : req'[q] = req[q]
  BY <1>1, <1>3 DEF Becomes
<1>5. QED
  BY <1>1, <1>2, <1>4 DEF GoesOn, Request

LEMMA TakeDoes ==
  ASSUME Typed, NEW r \in Requests, Take(r)
  PROVE  \/ End(r) /\ codes' = codes
         \/ /\ Becomes(r, "find", codes[req[r].code].user, req[r].person)
            /\ codes[req[r].code].kind = req[r].op
            /\ codes' = [codes EXCEPT ![req[r].code] = NoCode]
<1>1. req \in [Requests -> Request] /\ req[r] \in Request
  BY DEF Typed
<1>2. \A pc, user :
        [req EXCEPT ![r].pc = pc, ![r].user = user]
          = [req EXCEPT ![r] = [req[r] EXCEPT !.pc = pc, !.user = user,
                                              !.person = req[r].person]]
  BY <1>1 DEF Request
<1>3. CASE codes[req[r].code].kind = req[r].op
  <2>1. req' = [req EXCEPT ![r].pc = "find",
                           ![r].user = codes[req[r].code].user]
    BY <1>3 DEF Take
  <2>2. Becomes(r, "find", codes[req[r].code].user, req[r].person)
    BY <1>2, <2>1 DEF Becomes
  <2>3. QED
    BY <1>3, <2>2 DEF Take
<1>4. CASE codes[req[r].code].kind # req[r].op
  BY <1>4 DEF Take
<1>5. QED
  BY <1>3, <1>4

LEMMA FindDoes ==
  ASSUME Typed, NEW r \in Requests, FindByUser(r) \/ FindByTg(r)
  PROVE  \/ End(r)
         \/ \E p \in people :
              /\ p.user = req[r].user
              /\ req[r].op = "link"
              /\ Becomes(r, "write", req[r].user, p)
         \/ \E p \in people :
              /\ p.user # Nobody
              /\ Becomes(r, "session", p.user, req[r].person)
         \/ Becomes(r, "insert", req[r].nr, req[r].person)
<1>1. req \in [Requests -> Request] /\ req[r] \in Request
  BY DEF Typed
<1>2. \A pc, user :
        [req EXCEPT ![r].pc = pc, ![r].user = user]
          = [req EXCEPT ![r] = [req[r] EXCEPT !.pc = pc, !.user = user,
                                              !.person = req[r].person]]
  BY <1>1 DEF Request
<1>3. \A pc, person :
        [req EXCEPT ![r].pc = pc, ![r].person = person]
          = [req EXCEPT ![r] = [req[r] EXCEPT !.pc = pc, !.user = req[r].user,
                                              !.person = person]]
  BY <1>1 DEF Request
<1>4. CASE FindByUser(r)
  <2>1. CASE \E p \in people : p.user = req[r].user
    <3>1. PICK p \in people :
            /\ p.user = req[r].user
            /\ req' = [req EXCEPT ![r].pc = "write", ![r].person = p]
      BY <1>4, <2>1 DEF FindByUser
    <3>2. Becomes(r, "write", req[r].user, p)
      BY <1>3, <3>1 DEF Becomes
    <3>3. QED
      BY <1>4, <3>1, <3>2 DEF FindByUser
  <2>2. QED
    BY <1>4, <2>1 DEF FindByUser
<1>5. CASE FindByTg(r)
  <2>1. ASSUME NEW p \in people, p.user # Nobody,
               req' = [req EXCEPT ![r].pc = "session", ![r].user = p.user]
        PROVE  Becomes(r, "session", p.user, req[r].person)
    BY <1>2, <2>1 DEF Becomes
  <2>2. ASSUME req' = [req EXCEPT ![r].pc = "insert", ![r].user = req[r].nr]
        PROVE  Becomes(r, "insert", req[r].nr, req[r].person)
    BY <1>2, <2>2 DEF Becomes
  <2>3. \/ End(r)
        \/ \E p \in people :
             /\ p.user # Nobody
             /\ req' = [req EXCEPT ![r].pc = "session", ![r].user = p.user]
        \/ req' = [req EXCEPT ![r].pc = "insert", ![r].user = req[r].nr]
    BY <1>5 DEF FindByTg
  <2>4. QED
    BY <2>1, <2>2, <2>3
<1>6. QED
  BY <1>4, <1>5

LEMMA WriteDoes ==
  ASSUME Typed, NEW r \in Requests, Insert(r) \/ Commit(r) \/ Write(r)
  PROVE  \/ End(r) /\ Insert(r)
         \/ /\ Insert(r) /\ Becomes(r, "commit", req[r].user, req[r].person)
            /\ \A u \in users : u.mail # req[r].tg
         \/ /\ Commit(r) \/ Write(r)
            /\ Becomes(r, "session", req[r].user, req[r].person)
<1>1. req \in [Requests -> Request] /\ req[r] \in Request
  BY DEF Typed
<1>2. \A pc :
        [req EXCEPT ![r].pc = pc]
          = [req EXCEPT ![r] = [req[r] EXCEPT !.pc = pc, !.user = req[r].user,
                                              !.person = req[r].person]]
  BY <1>1 DEF Request
<1>3. QED
  BY <1>2 DEF Insert, Commit, Write, Becomes

(* The steps of a request after the counters. *)
Later(r) ==
  \/ Take(r) \/ FindByUser(r) \/ FindByTg(r) \/ Insert(r) \/ Commit(r)
  \/ Write(r) \/ CreateSession(r) \/ Fails(r)

LEMMA LaterGoesOn ==
  ASSUME Typed, NEW r \in Requests, Later(r)
  PROVE  /\ GoesOn(r)
         /\ req'[r].pc \notin {"count", "window"}
         /\ Busy(r) /\ made' = made
<1>1. req[r] \in Request /\ req \in [Requests -> Request]
  BY DEF Typed
<1>2. req[r].user \in UserIds /\ req[r].person \in Person
      /\ req[r].nr \in UserIds /\ req[r].code \in Codes
  BY <1>1 DEF Request, UserIds
<1>3. Busy(r) /\ made' = made
  BY DEF Later, Busy, At, Take, FindByUser, FindByTg, Insert, Commit, Write,
     CreateSession, Fails
<1>4. ASSUME End(r)
      PROVE  GoesOn(r) /\ req'[r].pc \notin {"count", "window"}
  <2>1. req'[r].pc = "idle"
    BY <1>1, <1>4, NoRequestType DEF End
  <2>2. QED
    BY <1>4, <2>1, Ends
<1>5. ASSUME NEW pc \in Pc \ {"idle", "count", "window"},
             NEW user \in UserIds, NEW person \in Person,
             Becomes(r, pc, user, person)
      PROVE  GoesOn(r) /\ req'[r].pc \notin {"count", "window"}
  BY <1>5, BecomesGoesOn
<1>6. CASE Take(r)
  <2>1. codes[req[r].code].user \in UserIds
    BY <1>2 DEF Typed, Code
  <2>2. QED
    BY <1>2, <1>3, <1>4, <1>5, <1>6, <2>1, TakeDoes DEF Pc
<1>7. CASE FindByUser(r) \/ FindByTg(r)
  <2>1. \A p \in people : p \in Person /\ (p.user # Nobody => p.user \in UserIds)
    BY DEF Typed, Person
  <2>2. QED
    BY <1>2, <1>3, <1>4, <1>5, <1>7, <2>1, FindDoes DEF Pc
<1>8. CASE Insert(r) \/ Commit(r) \/ Write(r)
  BY <1>2, <1>3, <1>4, <1>5, <1>8, WriteDoes DEF Pc
<1>9. CASE CreateSession(r) \/ Fails(r)
  BY <1>3, <1>4, <1>9 DEF CreateSession, Fails
<1>10. QED
  BY <1>6, <1>7, <1>8, <1>9 DEF Later

LEMMA LaterType ==
  ASSUME Base, NEW r \in Requests, Later(r)
  PROVE  Base'
<1>1. /\ GoesOn(r) /\ Busy(r) /\ made' = made
      /\ req'[r].pc \notin {"count", "window"}
  BY LaterGoesOn DEF Base
<1>2. req[r] \in Request /\ req' \in [Requests -> Request]
  BY <1>1 DEF Base, Typed, GoesOn
<1>3. Typed'
  <2>1. CASE Take(r)
    BY <1>1, <1>2, <2>1, RegistrationAssumption
       DEF Take, Base, Typed, NoCode, Code, UserIds
  <2>2. CASE FindByUser(r) \/ FindByTg(r) \/ Insert(r)
    BY <1>1, <1>2, <2>2 DEF FindByUser, FindByTg, Insert, Base, Typed
  <2>3. CASE Commit(r)
    <3>1. req[r].nr \in 1..made /\ req[r].tg \in TgIds /\ made \in 0..MaxRequests
      BY <1>1 DEF Base, Numbered, Typed
    <3>2. req[r].nr \in 1..(MaxRequests + MaxEdits)
      BY <3>1, RegistrationAssumption
    <3>3. [id |-> req[r].user, mail |-> req[r].tg] \in User
      BY <1>2, <3>1 DEF Request, User
    <3>4. [id |-> req[r].nr, user |-> req[r].user, tg |-> req[r].tg] \in Person
      BY <1>2, <3>1, <3>2 DEF Request, Person
    <3>5. QED
      BY <1>1, <1>2, <2>3, <3>3, <3>4 DEF Commit, Base, Typed
  <2>4. CASE Write(r)
    <3>1. \A p \in people : [p EXCEPT !.tg = req[r].tg] \in Person
      BY <1>2 DEF Base, Typed, Person, Request
    <3>2. people' \subseteq Person
      BY <2>4, <3>1 DEF Write, Base, Typed
    <3>3. QED
      BY <1>1, <1>2, <2>4, <3>2 DEF Write, Base, Typed
  <2>5. CASE CreateSession(r)
    <3>1. [user |-> req[r].user, nr |-> req[r].nr, code |-> req[r].code]
            \in Session
      BY <1>2 DEF Request, Session
    <3>2. QED
      BY <1>1, <1>2, <2>5, <3>1 DEF CreateSession, Base, Typed
  <2>6. CASE Fails(r)
    BY <1>1, <1>2, <2>6, RegistrationAssumption DEF Fails, Base, Typed
  <2>7. QED
    BY <2>1, <2>2, <2>3, <2>4, <2>5, <2>6 DEF Later
<1>4. KeysLeft(r)'
  BY <1>1 DEF KeysLeft
<1>5. QED
  BY <1>1, <1>3, <1>4, GoesOnBase

(* The steps of Next, as the lemmas below take them. *)
Asks(r) ==
  \E op \in {"link", "join"}, tg \in TgIds, c \in Codes : Ask(r, op, tg, c)

LEMMA NextSteps ==
  Next <=> \/ Admins
           \/ \E r \in Requests :
                Asks(r) \/ Count(r) \/ OpenWindow(r) \/ Later(r)
BY DEF Next, Admins, Asks, Step, Later

LEMMA BaseStep == Base /\ [Next]_vars => Base'
<1> SUFFICES ASSUME Base, [Next]_vars PROVE Base'
  OBVIOUS
<1>1. CASE Admins
  BY <1>1, AdminsType DEF Base, Numbered, KeysLeft, Busy, At
<1>2. ASSUME NEW r \in Requests, Asks(r) PROVE Base'
  BY <1>2, AskType DEF Asks
<1>3. ASSUME NEW r \in Requests, Count(r) \/ OpenWindow(r) PROVE Base'
  BY <1>3, CountsType
<1>4. ASSUME NEW r \in Requests, Later(r) PROVE Base'
  BY <1>4, LaterType
<1>5. CASE UNCHANGED vars
  BY <1>5 DEF Base, Typed, Numbered, KeysLeft, Busy, At
<1>6. QED
  BY <1>1, <1>2, <1>3, <1>4, <1>5, NextSteps

LEMMA BaseAlways == Spec => []Base
BY BaseInitially, BaseStep, PTL DEF Spec
-----------------------------------------------------------------------------
(* The counters a request has not incremented yet.                         *)
Owes(r, k) ==
  \/ /\ At(r, "count")
     /\ k = "ip" \/ (req[r].keys = <<req[r].tg, "ip">> /\ k = req[r].tg)
  \/ At(r, "window") /\ req[r].keys = <<req[r].tg, "ip">> /\ k = "ip"

Waiting(k) == {n \in 1..made : \E r \in Requests : Owes(r, k) /\ req[r].nr = n}

(* No request counts twice. *)
Counters == \A k \in Keys : count[k] + Cardinality(Waiting(k)) <= made

LEMMA BoundedSet ==
  ASSUME NEW n \in Nat, NEW S \in SUBSET (1..n)
  PROVE  IsFiniteSet(S) /\ Cardinality(S) \in Nat /\ Cardinality(S) <= n
<1>1. IsFiniteSet(1..n) /\ Cardinality(1..n) = n
  BY FS_Interval
<1>2. IsFiniteSet(S) /\ Cardinality(S) <= n
  BY <1>1, FS_Subset
<1>3. QED
  BY <1>2, FS_CardinalityType

LEMMA WaitingFinite ==
  ASSUME Typed, NEW k \in Keys
  PROVE  /\ IsFiniteSet(Waiting(k)) /\ Cardinality(Waiting(k)) \in Nat
         /\ Cardinality(Waiting(k)) <= made
         /\ made \in Nat /\ count[k] \in Nat
<1>1. made \in Nat /\ count[k] \in Nat
  BY RegistrationAssumption DEF Typed
<1>2. Waiting(k) \in SUBSET (1..made)
  BY DEF Waiting
<1>3. QED
  BY <1>1, <1>2, BoundedSet

(* A step after which nobody owes more. *)
LEMMA OwesNoMore ==
  ASSUME Typed, Typed', made' = made, NEW k \in Keys,
         \A r \in Requests :
           Owes(r, k)' => Owes(r, k) /\ req'[r].nr = req[r].nr
  PROVE  Cardinality(Waiting(k)') <= Cardinality(Waiting(k))
<1>1. Waiting(k)' \in SUBSET Waiting(k)
  BY DEF Waiting
<1>2. QED
  BY <1>1, WaitingFinite, FS_Subset

(* A request that has moved on owes no more than it did. *)
LEMMA GoesOnOwes ==
  ASSUME Base, NEW r \in Requests, GoesOn(r), NEW k \in Keys,
         Owes(r, k)' => Owes(r, k)
  PROVE  \A q \in Requests :
           Owes(q, k)' => Owes(q, k) /\ req'[q].nr = req[q].nr
<1>1. \A q \in Requests \ {r} : Owes(q, k)' => Owes(q, k)
  BY DEF GoesOn, Owes, At
<1>2. Owes(r, k)' => req'[r].nr = req[r].nr
  BY NoRequestType DEF GoesOn, Owes, At
<1>3. QED
  BY <1>1, <1>2 DEF GoesOn

(* Heads and tails of the two lists of counters. *)
LEMMA Lists ==
  /\ \A a, b : Head(<<a, b>>) = a /\ Len(<<a, b>>) = 2 /\ Tail(<<a, b>>) = <<b>>
  /\ \A b : Head(<<b>>) = b /\ Len(<<b>>) = 1
  /\ \A a, b, c : <<a, b>> # <<c>>
<1>1. \A a, b : Head(<<a, b>>) = a /\ Len(<<a, b>>) = 2 /\ Tail(<<a, b>>) = <<b>>
  OBVIOUS
<1>2. \A b : Head(<<b>>) = b /\ Len(<<b>>) = 1
  OBVIOUS
<1>3. QED
  BY <1>1, <1>2

(* After the first counter, the second one is left. *)
LEMMA CountedOwes ==
  ASSUME Base, NEW r \in Requests, NEW ok, Counted(r, ok),
         req[r].pc \in {"count", "window"}, NEW k \in Keys, Owes(r, k)'
  PROVE  req[r].keys = <<req[r].tg, "ip">> /\ k = "ip"
<1>1. /\ req \in [Requests -> Request] /\ req[r] \in Request
      /\ req[r].keys \in {<<req[r].tg, "ip">>, <<"ip">>}
  BY DEF Base, Typed, KeysLeft
<1>2. CASE req[r].keys = <<req[r].tg, "ip">>
  <2>1. Len(req[r].keys) > 1 /\ Tail(req[r].keys) = <<"ip">>
    BY <1>2, Lists
  <2>2. req' = [req EXCEPT ![r].pc = "count", ![r].keys = Tail(@), ![r].ok = ok]
    BY <2>1 DEF Counted
  <2>3. req'[r].pc = "count" /\ req'[r].keys = <<"ip">>
    BY <1>1, <2>1, <2>2 DEF Request
  <2>4. ~(req'[r].keys = <<req'[r].tg, "ip">>)
    BY <2>3, Lists
  <2>5. QED
    BY <1>2, <2>3, <2>4 DEF Owes, At
<1>3. CASE req[r].keys = <<"ip">>
  <2>1. ~(Len(req[r].keys) > 1)
    BY <1>3, Lists
  <2>2. \/ req' = [req EXCEPT ![r].pc = "take", ![r].keys = <<>>]
        \/ req' = [req EXCEPT ![r] = NoRequest]
    BY <2>1 DEF Counted, End
  <2>3. req'[r].pc \in {"take", "idle"}
    BY <1>1, <2>2, NoRequestType DEF Request
  <2>4. QED
    BY <2>3 DEF Owes, At
<1>4. QED
  BY <1>1, <1>2, <1>3

(* The step that increments a counter is the one that owed it. *)
LEMMA CountOwes ==
  ASSUME Base, NEW r \in Requests, Count(r),
         NEW head, head = Head(req[r].keys)
  PROVE  /\ head \in Keys /\ Owes(r, head) /\ ~Owes(r, head)'
         /\ \A k \in Keys : Owes(r, k)' => Owes(r, k)
<1>1. /\ req \in [Requests -> Request] /\ req[r] \in Request
      /\ At(r, "count") /\ req[r].tg \in TgIds
      /\ req[r].keys \in {<<req[r].tg, "ip">>, <<"ip">>}
  BY DEF Base, Typed, Numbered, KeysLeft, Busy, Count, At
<1>2. "ip" \in Keys /\ req[r].tg \in Keys /\ req[r].tg # "ip"
  BY <1>1, RegistrationAssumption DEF Keys
<1>3. \/ req[r].keys = <<req[r].tg, "ip">> /\ head = req[r].tg
      \/ req[r].keys = <<"ip">> /\ head = "ip"
  BY <1>1, Lists
<1>4. head \in Keys /\ Owes(r, head) /\ Owes(r, "ip")
  BY <1>1, <1>2, <1>3 DEF Owes
<1>5. ASSUME NEW k \in Keys, Owes(r, k)'
      PROVE  req[r].keys = <<req[r].tg, "ip">> /\ k = "ip"
  <2>1. CASE count[head] = 0
    <3>1. req' = [req EXCEPT ![r].pc = "window", ![r].ok = Allowed(r)]
      BY <2>1 DEF Count
    <3>2. /\ req'[r].pc = "window" /\ req'[r].keys = req[r].keys
          /\ req'[r].tg = req[r].tg
      BY <1>1, <3>1 DEF Request
    <3>3. QED
      BY <1>5, <3>2 DEF Owes, At
  <2>2. CASE count[head] # 0
    BY <1>1, <1>5, <2>2, CountedOwes DEF Count, At
  <2>3. QED
    BY <2>1, <2>2
<1>6. ~Owes(r, head)'
  <2>1. ASSUME Owes(r, head)' PROVE FALSE
    <3>1. req[r].keys = <<req[r].tg, "ip">> /\ head = "ip"
      BY <1>4, <1>5, <2>1
    <3>2. QED
      BY <1>2, <1>3, <3>1, Lists
  <2>2. QED
    BY <2>1
<1>7. QED
  BY <1>4, <1>5, <1>6

LEMMA WindowOwes ==
  ASSUME Base, NEW r \in Requests, OpenWindow(r), NEW k \in Keys, Owes(r, k)'
  PROVE  Owes(r, k)
<1>1. At(r, "window") /\ Counted(r, req[r].ok)
  BY DEF OpenWindow
<1>2. req[r].keys = <<req[r].tg, "ip">> /\ k = "ip"
  BY <1>1, CountedOwes DEF At
<1>3. QED
  BY <1>1, <1>2 DEF Owes

LEMMA CountersStep ==
  ASSUME Base, Base', Counters, Next
  PROVE  Counters'
<1> SUFFICES ASSUME NEW k \in Keys
             PROVE  count'[k] + Cardinality(Waiting(k)') <= made'
  BY DEF Counters
<1> DEFINE old == Cardinality(Waiting(k))
           new == Cardinality(Waiting(k)')
<1>1. old \in Nat /\ made \in Nat /\ count[k] \in Nat /\ old <= made
      /\ IsFiniteSet(Waiting(k))
  BY WaitingFinite DEF Base
<1>2. new \in Nat /\ made' \in Nat /\ count'[k] \in Nat /\ new <= made'
  <2>1. made' \in Nat /\ count'[k] \in Nat
    BY RegistrationAssumption DEF Base, Typed
  <2>2. Waiting(k)' \in SUBSET (1..made')
    BY DEF Waiting
  <2>3. QED
    BY <2>1, <2>2, BoundedSet
<1>3. count[k] + old <= made
  BY DEF Counters
<1> HIDE DEF old, new
<1>4. ASSUME made' = made, count'[k] \in {0, count[k]},
             \A q \in Requests :
               Owes(q, k)' => Owes(q, k) /\ req'[q].nr = req[q].nr
      PROVE  count'[k] + new <= made'
  <2>1. new <= old
    BY <1>4, OwesNoMore DEF old, new, Base
  <2>2. QED
    BY <1>1, <1>2, <1>3, <1>4, <2>1
<1>5. CASE Admins
  <2>1. req' = req /\ made' = made
    BY <1>5, AdminsType DEF Base
  <2>2. count'[k] \in {0, count[k]}
    <3>1. CASE \E j \in Keys : WindowCloses(j)
      <4>1. PICK j \in Keys : count' = [count EXCEPT ![j] = 0]
        BY <3>1 DEF WindowCloses
      <4>2. QED
        BY <4>1 DEF Base, Typed
    <3>2. CASE ~\E j \in Keys : WindowCloses(j)
      <4>1. count' = count
        BY <1>5, <3>2 DEF Admins, IssueLink, IssueInvite, Issue, CodeExpires,
           AddPerson, SaveForm, Attach
      <4>2. QED
        BY <4>1
    <3>3. QED
      BY <3>1, <3>2
  <2>3. \A q \in Requests :
          Owes(q, k)' => Owes(q, k) /\ req'[q].nr = req[q].nr
    BY <2>1 DEF Owes, At
  <2>4. QED
    BY <1>4, <2>1, <2>2, <2>3 DEF new
<1>6. ASSUME NEW r \in Requests, Asks(r) PROVE count'[k] + new <= made'
  <2>1. /\ made' = made + 1 /\ count' = count
        /\ \A q \in Requests \ {r} : req'[q] = req[q]
        /\ req'[r].nr = made + 1
    <3>1. PICK op \in {"link", "join"}, tg \in TgIds, c \in Codes :
            Ask(r, op, tg, c)
      BY <1>6 DEF Asks
    <3>2. count' = count
      BY <3>1 DEF Ask
    <3>3. QED
      BY <3>1, <3>2, AskType
  <2>2. \A q \in Requests \ {r} : Owes(q, k)' => Owes(q, k)
    BY <2>1 DEF Owes, At
  <2>3. Waiting(k)' \in SUBSET (Waiting(k) \cup {made + 1})
    BY <1>1, <2>1, <2>2 DEF Waiting
  <2>4. /\ IsFiniteSet(Waiting(k) \cup {made + 1})
        /\ Cardinality(Waiting(k) \cup {made + 1}) \in {old, old + 1}
    BY <1>1, FS_AddElement DEF old
  <2>5. new <= Cardinality(Waiting(k) \cup {made + 1})
    BY <2>3, <2>4, FS_Subset DEF new
  <2>6. QED
    BY <1>1, <1>2, <1>3, <2>1, <2>4, <2>5
<1>7. ASSUME NEW r \in Requests, Count(r) PROVE count'[k] + new <= made'
  <2>1. PICK head : head = Head(req[r].keys)
    OBVIOUS
  <2>2. /\ head \in Keys /\ Owes(r, head) /\ ~Owes(r, head)'
        /\ Owes(r, k)' => Owes(r, k)
    BY <1>7, <2>1, CountOwes
  <2>3. GoesOn(r) /\ made' = made /\ count' = [count EXCEPT ![head] = @ + 1]
    BY <1>7, <2>1, CountsType DEF Count
  <2>4. \A q \in Requests :
          Owes(q, k)' => Owes(q, k) /\ req'[q].nr = req[q].nr
    BY <2>2, <2>3, GoesOnOwes
  <2>5. CASE k # head
    BY <1>4, <2>3, <2>4, <2>5 DEF Base, Typed
  <2>6. CASE k = head
    <3>1. req[r].nr \in Waiting(k) /\ Busy(r)
      BY <2>2, <2>6 DEF Waiting, Base, Numbered, Owes, Busy, At
    <3>2. ASSUME NEW q \in Requests, Owes(q, k)' PROVE req'[q].nr # req[r].nr
      <4>1. q # r /\ Owes(q, k) /\ req'[q].nr = req[q].nr
        BY <2>2, <2>4, <2>6, <3>2
      <4>2. Busy(q)
        BY <4>1 DEF Owes, Busy, At
      <4>3. QED
        BY <3>1, <4>1, <4>2 DEF Base, Numbered
    <3>3. Waiting(k)' \in SUBSET (Waiting(k) \ {req[r].nr})
      BY <2>3, <2>4, <3>2 DEF Waiting
    <3>4. /\ IsFiniteSet(Waiting(k) \ {req[r].nr})
          /\ Cardinality(Waiting(k) \ {req[r].nr}) = old - 1
      BY <1>1, <3>1, FS_RemoveElement DEF old
    <3>5. new <= old - 1
      BY <3>3, <3>4, FS_Subset DEF new
    <3>6. count'[k] = count[k] + 1
      BY <2>3, <2>6 DEF Base, Typed
    <3>7. QED
      BY <1>1, <1>2, <1>3, <2>3, <3>5, <3>6
  <2>7. QED
    BY <2>5, <2>6
<1>8. ASSUME NEW r \in Requests, OpenWindow(r)
      PROVE  count'[k] + new <= made'
  <2>1. GoesOn(r) /\ made' = made /\ count' = count
    BY <1>8, CountsType DEF OpenWindow
  <2>2. \A q \in Requests :
          Owes(q, k)' => Owes(q, k) /\ req'[q].nr = req[q].nr
    BY <1>8, <2>1, WindowOwes, GoesOnOwes
  <2>3. QED
    BY <1>4, <2>1, <2>2
<1>9. ASSUME NEW r \in Requests, Later(r) PROVE count'[k] + new <= made'
  <2>1. /\ GoesOn(r) /\ made' = made
        /\ req'[r].pc \notin {"count", "window"}
    BY <1>9, LaterGoesOn DEF Base
  <2>2. count' = count
    BY <1>9 DEF Later, Take, FindByUser, FindByTg, Insert, Commit, Write,
       CreateSession, Fails
  <2>3. \A q \in Requests :
          Owes(q, k)' => Owes(q, k) /\ req'[q].nr = req[q].nr
    BY <2>1, GoesOnOwes DEF Owes, At
  <2>4. QED
    BY <1>4, <2>1, <2>2, <2>3
<1>10. QED
  BY <1>5, <1>6, <1>7, <1>8, <1>9, NextSteps DEF new

LEMMA CountersInitially == Init => Counters
<1> SUFFICES ASSUME Init, NEW k \in Keys
             PROVE  count[k] + Cardinality(Waiting(k)) <= made
  BY DEF Counters
<1>1. Waiting(k) = {}
  BY DEF Waiting, Init
<1>2. QED
  BY <1>1, FS_EmptySet DEF Init

(* All variables keep their types, and no counter of the rate limiter      *)
(* exceeds the number of requests (check_and_increment_rate_limit).        *)
THEOREM TypeCorrect == Spec => []TypeOK
<1>1. Init => Base /\ Counters
  BY BaseInitially, CountersInitially
<1>2. Base /\ Counters /\ [Next]_vars => (Base /\ Counters)'
  <2>1. Base /\ Counters /\ Next => (Base /\ Counters)'
    BY BaseStep, CountersStep
  <2>2. Base /\ Counters /\ UNCHANGED vars => (Base /\ Counters)'
    <3> SUFFICES ASSUME Base, Counters, UNCHANGED vars PROVE Counters'
      BY BaseStep
    <3>1. \A k \in Keys : Waiting(k)' = Waiting(k)
      BY DEF Waiting, Owes, At
    <3>2. QED
      BY <3>1 DEF Counters
  <2>3. QED
    BY <2>1, <2>2
<1>3. Base /\ Counters => TypeOK
  <2> SUFFICES ASSUME Base, Counters PROVE TypeOK
    OBVIOUS
  <2>1. \A k \in Keys : count[k] \in 0..made
    BY WaitingFinite DEF Base, Counters
  <2>2. count \in [Keys -> 0..made]
    BY <2>1 DEF Base, Typed
  <2>3. QED
    BY <2>2 DEF Base, Typed, TypeOK
<1>4. QED
  BY <1>1, <1>2, <1>3, PTL DEF Spec
-----------------------------------------------------------------------------
(* A request that has taken its code and not used it up.                   *)
HasCode(r) == req[r].pc \in {"find", "insert", "commit", "write", "session"}

SpentInv ==
  /\ \A c \in Codes : c > issued => codes[c] = NoCode
  /\ \A r \in Requests :
       HasCode(r) => /\ req[r].code <= issued
                     /\ codes[req[r].code] = NoCode
                     /\ \A s \in sessions : s.code # req[r].code
  /\ \A r, q \in Requests :
       HasCode(r) /\ HasCode(q) /\ req[r].code = req[q].code => r = q
  /\ SpentOnce

(* Most steps neither take a code nor use one up.                          *)
LEMMA SpentKept ==
  ASSUME Base, Base', SpentInv, sessions' = sessions, issued <= issued',
         \A c \in Codes : codes[c] = NoCode /\ c <= issued => codes'[c] = NoCode,
         \A c \in Codes : c > issued' => codes'[c] = NoCode,
         \A q \in Requests :
           HasCode(q)' => HasCode(q) /\ req'[q].code = req[q].code
  PROVE  SpentInv'
<1>1. issued \in Int /\ issued' \in Int /\ \A c \in Codes : c \in Int
  BY RegistrationAssumption DEF Base, Typed, Codes
<1>2. \A q \in Requests : req[q].code \in Codes
  BY DEF Base, Typed, Request
<1>3. \A s \in sessions : s.code \in Codes
  BY DEF Base, Typed, Session
<1>4. \A r \in Requests :
        HasCode(r)' => /\ req'[r].code <= issued'
                       /\ codes'[req'[r].code] = NoCode
                       /\ \A s \in sessions' : s.code # req'[r].code
  <2> SUFFICES ASSUME NEW r \in Requests, HasCode(r)'
               PROVE  /\ req'[r].code <= issued'
                      /\ codes'[req'[r].code] = NoCode
                      /\ \A s \in sessions' : s.code # req'[r].code
    OBVIOUS
  <2>1. PICK c \in Codes : c = req[r].code /\ c = req'[r].code
    BY <1>2
  <2>2. /\ c <= issued /\ codes[c] = NoCode
        /\ \A s \in sessions : s.code # c
    BY <2>1 DEF SpentInv
  <2>3. c <= issued' /\ codes'[c] = NoCode
    BY <1>1, <2>2
  <2>4. QED
    BY <2>1, <2>2, <2>3
<1>5. \A r, q \in Requests :
        HasCode(r)' /\ HasCode(q)' /\ req'[r].code = req'[q].code => r = q
  BY DEF SpentInv
<1>6. SpentOnce'
  <2>1. ASSUME NEW s \in sessions PROVE s.code <= issued' /\ codes'[s.code] = NoCode
    <3>1. s.code \in Codes /\ s.code <= issued /\ codes[s.code] = NoCode
      BY <1>3 DEF SpentInv, SpentOnce
    <3>2. QED
      BY <1>1, <3>1
  <2>2. QED
    BY <2>1 DEF SpentInv, SpentOnce
<1>7. QED
  BY <1>4, <1>5, <1>6 DEF SpentInv

LEMMA SpentByTake ==
  ASSUME Base, Base', SpentInv, NEW r \in Requests, Take(r)
  PROVE  SpentInv'
<1>1. /\ GoesOn(r) /\ issued' = issued /\ sessions' = sessions
      /\ issued \in Int /\ (\A c \in Codes : c \in Int)
      /\ req[r].code \in Codes
  <2>1. GoesOn(r)
    BY LaterGoesOn DEF Later, Base
  <2>2. issued' = issued /\ sessions' = sessions
    BY DEF Take
  <2>3. issued \in Int /\ \A c \in Codes : c \in Int
    BY RegistrationAssumption DEF Base, Typed, Codes
  <2>4. req[r].code \in Codes
    BY DEF Base, Typed, Request
  <2>5. QED
    BY <2>1, <2>2, <2>3, <2>4
<1>2. CASE End(r) /\ codes' = codes
  <2>1. ~HasCode(r)'
    BY <1>2, NoRequestType DEF End, HasCode, Base, Typed
  <2>2. \A q \in Requests :
          HasCode(q)' => HasCode(q) /\ req'[q].code = req[q].code
    BY <1>1, <2>1 DEF GoesOn, HasCode
  <2>3. QED
    BY <1>1, <1>2, <2>2, SpentKept DEF SpentInv
<1>3. CASE /\ Becomes(r, "find", codes[req[r].code].user, req[r].person)
           /\ codes[req[r].code].kind = req[r].op
           /\ codes' = [codes EXCEPT ![req[r].code] = NoCode]
  <2>1. PICK c \in Codes : c = req[r].code
    BY <1>1
  <2>2. codes[c] # NoCode
    <3>1. req[r].op \in {"link", "join"}
      BY DEF Base, Typed, Request
    <3>2. NoCode.kind = "none"
      BY DEF NoCode
    <3>3. QED
      BY <1>3, <2>1, <3>1, <3>2
  <2>3. /\ c <= issued
        /\ \A q \in Requests : HasCode(q) => req[q].code # c
        /\ \A s \in sessions : s.code # c
    BY <1>1, <2>2 DEF SpentInv, SpentOnce
  <2>4. req'[r].code = c
    BY <1>1, <1>3, <2>1 DEF Becomes, Base, Typed, Request
  <2>5. /\ codes'[c] = NoCode
        /\ \A d \in Codes : codes[d] = NoCode => codes'[d] = NoCode
    BY <1>3, <2>1 DEF Base, Typed
  <2>6. \A q \in Requests \ {r} :
          /\ req'[q] = req[q]
          /\ HasCode(q)' => HasCode(q)
          /\ req[q].code \in Codes
    BY <1>1 DEF GoesOn, HasCode, Base, Typed, Request
  <2>7. \A q \in Requests :
          HasCode(q)' => /\ req'[q].code <= issued'
                         /\ codes'[req'[q].code] = NoCode
                         /\ \A s \in sessions' : s.code # req'[q].code
    <3>1. ASSUME NEW q \in Requests \ {r}, HasCode(q)'
          PROVE  /\ req'[q].code <= issued'
                 /\ codes'[req'[q].code] = NoCode
                 /\ \A s \in sessions' : s.code # req'[q].code
      BY <1>1, <2>5, <2>6, <3>1 DEF SpentInv
    <3>2. /\ req'[r].code <= issued' /\ codes'[req'[r].code] = NoCode
          /\ \A s \in sessions' : s.code # req'[r].code
      BY <1>1, <2>3, <2>4, <2>5
    <3>3. QED
      BY <3>1, <3>2
  <2>8. \A p, q \in Requests :
          HasCode(p)' /\ HasCode(q)' /\ req'[p].code = req'[q].code => p = q
    BY <2>3, <2>4, <2>6 DEF SpentInv
  <2>9. SpentOnce'
    <3>1. \A s \in sessions : s.code \in Codes
      BY DEF Base, Typed, Session
    <3>2. QED
      BY <1>1, <2>5, <3>1 DEF SpentInv, SpentOnce
  <2>10. \A d \in Codes : d > issued' => codes'[d] = NoCode
    BY <1>1, <2>5 DEF SpentInv
  <2>11. QED
    BY <2>7, <2>8, <2>9, <2>10 DEF SpentInv
<1>4. QED
  BY <1>2, <1>3, TakeDoes DEF Base

LEMMA SpentBySession ==
  ASSUME Base, Base', SpentInv, NEW r \in Requests, CreateSession(r)
  PROVE  SpentInv'
<1>1. HasCode(r) /\ UNCHANGED <<codes, issued>>
  BY DEF CreateSession, HasCode, At
<1>2. PICK t : /\ t = [user |-> req[r].user, nr |-> req[r].nr,
                       code |-> req[r].code]
               /\ sessions' = sessions \cup {t}
  BY DEF CreateSession
<1>3. t.code = req[r].code
  BY <1>2
<1>4. /\ ~HasCode(r)'
      /\ \A q \in Requests \ {r} : req'[q] = req[q]
  BY NoRequestType DEF CreateSession, End, HasCode, Base, Typed
<1>5. \A q \in Requests :
        HasCode(q)' => q # r /\ HasCode(q) /\ req'[q].code = req[q].code
  BY <1>4 DEF HasCode
<1>6. \A q \in Requests :
        HasCode(q)' => /\ req'[q].code <= issued'
                       /\ codes'[req'[q].code] = NoCode
                       /\ \A s \in sessions' : s.code # req'[q].code
  BY <1>1, <1>2, <1>3, <1>5 DEF SpentInv
<1>7. SpentOnce'
  BY <1>1, <1>2, <1>3 DEF SpentInv, SpentOnce
<1>8. QED
  BY <1>1, <1>5, <1>6, <1>7 DEF SpentInv

LEMMA SpentStep ==
  ASSUME Base, Base', SpentInv, Next
  PROVE  SpentInv'
<1>1. issued \in Int /\ \A c \in Codes : c \in Int
  BY RegistrationAssumption DEF Base, Typed, Codes
<1>2. ASSUME UNCHANGED <<sessions, codes, issued>>,
             \A q \in Requests :
               HasCode(q)' => HasCode(q) /\ req'[q].code = req[q].code
      PROVE  SpentInv'
  <2>1. /\ sessions' = sessions /\ issued <= issued'
        /\ \A c \in Codes : codes[c] = NoCode /\ c <= issued => codes'[c] = NoCode
        /\ \A c \in Codes : c > issued' => codes'[c] = NoCode
    BY <1>1, <1>2 DEF SpentInv
  <2>2. QED
    BY <1>2, <2>1, SpentKept
<1>3. CASE Admins
  <2>1. req' = req /\ sessions' = sessions
    BY <1>3, AdminsType DEF Base
  <2>2. \A q \in Requests :
          HasCode(q)' => HasCode(q) /\ req'[q].code = req[q].code
    BY <2>1 DEF HasCode
  <2>3. ASSUME NEW c \in Codes, NEW code, Issue(c, code) PROVE SpentInv'
    <3>1. issued' = issued + 1 /\ c = issued + 1
          /\ \A d \in Codes : d # c => codes'[d] = codes[d]
      BY <2>3 DEF Issue, Base, Typed
    <3>2. /\ issued <= issued'
          /\ \A d \in Codes :
               codes[d] = NoCode /\ d <= issued => codes'[d] = NoCode
          /\ \A d \in Codes : d > issued' => codes'[d] = NoCode
      BY <1>1, <3>1 DEF SpentInv
    <3>3. QED
      BY <2>1, <2>2, <3>2, SpentKept
  <2>4. ASSUME NEW c \in Codes, CodeExpires(c) PROVE SpentInv'
    <3>1. /\ issued <= issued'
          /\ \A d \in Codes : codes[d] = NoCode => codes'[d] = NoCode
          /\ \A d \in Codes : d > issued' => codes'[d] = NoCode
      BY <1>1, <2>4 DEF CodeExpires, SpentInv, Base, Typed
    <3>2. QED
      BY <2>1, <2>2, <3>1, SpentKept
  <2>5. CASE (\E k \in Keys : WindowCloses(k)) \/ AddPerson \/ SaveForm \/ Attach
    <3>1. UNCHANGED <<codes, issued>>
      BY <2>5 DEF WindowCloses, AddPerson, SaveForm, Attach
    <3>2. QED
      BY <1>2, <2>1, <2>2, <3>1
  <2>6. QED
    BY <1>3, <2>3, <2>4, <2>5 DEF Admins, IssueLink, IssueInvite
<1>4. ASSUME NEW r \in Requests, Asks(r) PROVE SpentInv'
  <2>1. PICK op \in {"link", "join"}, tg \in TgIds, c \in Codes :
          Ask(r, op, tg, c)
    BY <1>4 DEF Asks
  <2>2. /\ UNCHANGED <<sessions, codes, issued>>
        /\ req'[r].pc = "count"
        /\ \A q \in Requests \ {r} : req'[q] = req[q]
    BY <2>1, AskType DEF Ask
  <2>3. QED
    BY <1>2, <2>2 DEF HasCode
<1>5. ASSUME NEW r \in Requests, Count(r) \/ OpenWindow(r) PROVE SpentInv'
  <2>1. GoesOn(r) /\ UNCHANGED <<sessions, codes, issued>>
    BY <1>5, CountsType DEF Count, OpenWindow
  <2>2. ~HasCode(r)'
    BY <1>5, CountsLeave DEF HasCode
  <2>3. QED
    BY <1>2, <2>1, <2>2 DEF GoesOn, HasCode
<1>6. ASSUME NEW r \in Requests, Later(r) PROVE SpentInv'
  <2>1. CASE Take(r)
    BY <2>1, SpentByTake
  <2>2. CASE CreateSession(r)
    BY <2>2, SpentBySession
  <2>3. CASE ~Take(r) /\ ~CreateSession(r)
    <3>1. UNCHANGED <<sessions, codes, issued>>
      BY <1>6, <2>3 DEF Later, FindByUser, FindByTg, Insert, Commit, Write,
         Fails
    <3>2. GoesOn(r)
      BY <1>6, LaterGoesOn DEF Base
    <3>3. HasCode(r)' => HasCode(r)
      <4>1. CASE Fails(r)
        BY <4>1, NoRequestType DEF Fails, End, HasCode, Base, Typed
      <4>2. CASE ~Fails(r)
        BY <1>6, <2>3, <4>2 DEF Later, FindByUser, FindByTg, Insert, Commit,
           Write, HasCode, At
      <4>3. QED
        BY <4>1, <4>2
    <3>4. HasCode(r)' => req'[r].code = req[r].code
      BY <3>2, NoRequestType DEF GoesOn, HasCode
    <3>5. QED
      BY <1>2, <3>1, <3>2, <3>3, <3>4 DEF GoesOn, HasCode
  <2>4. QED
    BY <2>1, <2>2, <2>3
<1>7. QED
  BY <1>3, <1>4, <1>5, <1>6, NextSteps

(* A code logs in one request, whichever kind it is and however the        *)
(* requests that send it overlap (redeem_link_code, redeem_invite_code).   *)
THEOREM SpentOnceCorrect == Spec => []SpentOnce
<1>1. Init => SpentInv
  BY NoRequestType DEF Init, SpentInv, SpentOnce, HasCode
<1>2. Base /\ Base' /\ SpentInv /\ [Next]_vars => SpentInv'
  <2>1. Base /\ Base' /\ SpentInv /\ Next => SpentInv'
    BY SpentStep
  <2>2. SpentInv /\ UNCHANGED vars => SpentInv'
    BY DEF SpentInv, SpentOnce, HasCode
  <2>3. QED
    BY <2>1, <2>2
<1>3. SpentInv => SpentOnce
  BY DEF SpentInv
<1>4. QED
  BY <1>1, <1>2, <1>3, BaseAlways, PTL DEF Spec
-----------------------------------------------------------------------------
Account(id) == \E u \in users : u.id = id
Owned(id) == Account(id) /\ \E p \in people : p.user = id
NoMail(tg) == \A u \in users : u.mail # tg

(* What the tables say of accounts; no account is numbered by a request    *)
(* that is yet to be made.                                                 *)
AccountsSound ==
  /\ \A p \in people : p.user # Nobody => Account(p.user)
  /\ \A p, q \in people : p.user # Nobody /\ p.user = q.user => p = q
  /\ \A u \in users \ {Seeded} : \E p \in people : p.user = u.id
  /\ \A u, v \in users : u.id = v.id \/ u.mail = v.mail => u = v
  /\ \A u \in users : u.id <= made
  /\ \A s \in sessions : Owned(s.user)

(* Until it commits, a request has no account of its number, nor has       *)
(* anybody one of its address when it is about to; afterwards it works     *)
(* for an account that is attached to an assignee.                         *)
Before == {"count", "window", "take", "find", "insert", "commit"}

Sound(r) ==
  /\ req[r].pc \in Before => ~Account(req[r].nr)
  /\ req[r].pc \in {"insert", "commit"} => req[r].user = req[r].nr
  /\ req[r].pc = "commit" => NoMail(req[r].tg)
  /\ req[r].pc \in {"write", "session"} => Owned(req[r].user)

OneCommits ==
  \A r, q \in Requests :
    At(r, "commit") /\ At(q, "commit") /\ req[r].tg = req[q].tg => r = q

AccountInv == AccountsSound /\ (\A r \in Requests : Sound(r)) /\ OneCommits
-----------------------------------------------------------------------------
LEMMA AccountInitially == Init => AccountInv
<1> SUFFICES ASSUME Init PROVE AccountInv
  OBVIOUS
<1>1. \A r \in Requests : req[r].pc = "idle"
  BY NoRequestType DEF Init
<1>2. (\A r \in Requests : Sound(r)) /\ OneCommits
  BY <1>1 DEF Sound, Before, OneCommits, At
<1>3. AccountsSound
  BY DEF Init, AccountsSound, Seeded
<1>4. QED
  BY <1>2, <1>3 DEF AccountInv

(* A request that goes on while the tables stay as they are. *)
LEMMA RequestAlone ==
  ASSUME Base, AccountInv, UNCHANGED <<users, people>>, made' = made,
         NEW r \in Requests, GoesOn(r), Sound(r)',
         At(r, "commit")' =>
           \A q \in Requests \ {r} : ~(At(q, "commit") /\ req[q].tg = req[r].tg),
         \A s \in sessions' : s \in sessions \/ Owned(s.user)
  PROVE  AccountInv'
<1>1. \A q \in Requests \ {r} : Sound(q)'
  BY DEF GoesOn, AccountInv, Sound, Account, Owned, NoMail
<1>2. AccountsSound'
  BY DEF AccountInv, AccountsSound, Account, Owned
<1>3. OneCommits'
  <2>1. At(r, "commit")' => req'[r].tg = req[r].tg
    BY NoRequestType DEF GoesOn, At
  <2>2. QED
    BY <2>1 DEF GoesOn, AccountInv, OneCommits, At
<1>4. QED
  BY <1>1, <1>2, <1>3 DEF AccountInv

(* Changes of people that leave every account its assignee.                *)
LEMMA PeopleChange ==
  ASSUME Base, AccountInv, UNCHANGED <<users, sessions, made>>,
         \A p \in people' : p.user # Nobody => Account(p.user),
         \A p \in people :
           p.user # Nobody => \E q \in people' : q.user = p.user,
         \A p, q \in people' : p.user # Nobody /\ p.user = q.user => p = q
  PROVE  AccountsSound' /\ \A id \in UserIds : Owned(id) => Owned(id)'
<1>1. \A id \in UserIds : id # Nobody
  BY DEF UserIds, Nobody
<1>2. \A id \in UserIds : Owned(id) => Owned(id)'
  BY <1>1 DEF Owned, Account
<1>3. /\ \A u \in users : u.id \in UserIds
      /\ \A s \in sessions : s.user \in UserIds
  BY DEF Base, Typed, User, Session
<1>4. \A u \in users' \ {Seeded} : \E p \in people' : p.user = u.id
  <2> SUFFICES ASSUME NEW u \in users \ {Seeded}
               PROVE  \E p \in people' : p.user = u.id
    OBVIOUS
  <2>1. PICK p \in people : p.user = u.id
    BY DEF AccountInv, AccountsSound
  <2>2. p.user # Nobody
    BY <1>1, <1>3, <2>1
  <2>3. QED
    BY <2>1, <2>2
<1>5. \A s \in sessions' : Owned(s.user)'
  BY <1>2, <1>3 DEF AccountInv, AccountsSound
<1>6. /\ \A p \in people' : p.user # Nobody => Account(p.user)'
      /\ \A u, v \in users' : u.id = v.id \/ u.mail = v.mail => u = v
      /\ \A u \in users' : u.id <= made'
  BY DEF AccountInv, AccountsSound, Account
<1>7. QED
  BY <1>2, <1>4, <1>5, <1>6 DEF AccountsSound

LEMMA AdminsAccounts ==
  ASSUME Base, AccountInv, Admins
  PROVE  AccountInv'
<1>1. UNCHANGED <<req, users, sessions, made>>
  BY AdminsType DEF Base
<1>2. ASSUME AccountsSound' /\ \A id \in UserIds : Owned(id) => Owned(id)'
      PROVE  AccountInv'
  <2>1. \A r \in Requests : req[r].user \in UserIds
    BY DEF Base, Typed, Request
  <2>2. \A r \in Requests : Sound(r)'
    BY <1>1, <1>2, <2>1 DEF AccountInv, Sound, Account, NoMail
  <2>3. OneCommits'
    BY <1>1 DEF AccountInv, OneCommits, At
  <2>4. QED
    BY <1>2, <2>2, <2>3 DEF AccountInv
<1>3. /\ \A p \in people : p.user # Nobody => Account(p.user)
      /\ \A p, q \in people : p.user # Nobody /\ p.user = q.user => p = q
  BY DEF AccountInv, AccountsSound
<1>4. CASE people' = people
  BY <1>1, <1>2, <1>3, <1>4, PeopleChange
<1>5. CASE AddPerson
  <2>1. PICK new : new.user = Nobody /\ people' = people \cup {new}
    <3>1. PICK tg : people' = people \cup {[id |-> MaxRequests + edits + 1,
                                            user |-> Nobody, tg |-> tg]}
      BY <1>5 DEF AddPerson
    <3>2. QED
      BY <3>1
  <2>2. QED
    BY <1>1, <1>2, <1>3, <2>1, PeopleChange
<1>6. CASE SaveForm
  <2>1. PICK p \in people, new \in people' :
          /\ new.user = p.user
          /\ people' = (people \ {p}) \cup {new}
    <3>1. PICK p \in people, tg \in TgIds \cup {NoTg} :
            people' = (people \ {p}) \cup {[p EXCEPT !.tg = tg]}
      BY <1>6 DEF SaveForm
    <3>2. [p EXCEPT !.tg = tg].user = p.user
      BY DEF Base, Typed, Person
    <3>3. QED
      BY <3>1, <3>2
  <2>2. \A q \in people' : q.user # Nobody => Account(q.user)
    BY <1>3, <2>1
  <2>3. \A q \in people :
          q.user # Nobody => \E t \in people' : t.user = q.user
    BY <2>1
  <2>4. \A q, t \in people' : q.user # Nobody /\ q.user = t.user => q = t
    BY <1>3, <2>1
  <2>5. QED
    BY <1>1, <1>2, <2>2, <2>3, <2>4, PeopleChange
<1>7. CASE Attach
  <2>1. PICK p \in people, u \in users, new \in people' :
          /\ p.user = Nobody
          /\ \A q \in people : q.user # u.id
          /\ new.user = u.id
          /\ people' = (people \ {p}) \cup {new}
    <3>1. PICK p \in people, u \in users :
            /\ p.user = Nobody
            /\ \A q \in people : q.user # u.id
            /\ people' = (people \ {p}) \cup {[p EXCEPT !.user = u.id]}
      BY <1>7 DEF Attach
    <3>2. [p EXCEPT !.user = u.id].user = u.id
      BY DEF Base, Typed, Person
    <3>3. QED
      BY <3>1, <3>2
  <2>2. \A q \in people' : q.user # Nobody => Account(q.user)
    BY <1>3, <2>1 DEF Account
  <2>3. \A q \in people :
          q.user # Nobody => \E t \in people' : t.user = q.user
    BY <2>1
  <2>4. \A q, t \in people' : q.user # Nobody /\ q.user = t.user => q = t
    BY <1>3, <2>1
  <2>5. QED
    BY <1>1, <1>2, <2>2, <2>3, <2>4, PeopleChange
<1>8. CASE \/ \E c \in Codes : IssueLink(c) \/ IssueInvite(c) \/ CodeExpires(c)
           \/ \E k \in Keys : WindowCloses(k)
  <2>1. people' = people
    BY <1>8 DEF IssueLink, IssueInvite, Issue, CodeExpires, WindowCloses
  <2>2. QED
    BY <1>4, <2>1
<1>9. QED
  BY <1>5, <1>6, <1>7, <1>8 DEF Admins

LEMMA AskAccounts ==
  ASSUME Base, AccountInv, NEW r \in Requests, Asks(r)
  PROVE  AccountInv'
<1>1. PICK op \in {"link", "join"}, tg \in TgIds, c \in Codes :
        Ask(r, op, tg, c)
  BY DEF Asks
<1>2. /\ made' = made + 1
      /\ \A q \in Requests \ {r} : req'[q] = req[q]
      /\ req'[r].pc = "count" /\ req'[r].nr = made + 1
  BY <1>1, AskType
<1>3. UNCHANGED <<users, people, sessions>>
  BY <1>1 DEF Ask
<1>4. made \in Int /\ \A u \in users : u.id \in Int
  BY RegistrationAssumption DEF Base, Typed, User, UserIds
<1>5. \A u \in users : u.id <= made
  BY DEF AccountInv, AccountsSound
<1>6. ~Account(made + 1)' /\ \A u \in users' : u.id <= made'
  BY <1>2, <1>3, <1>4, <1>5 DEF Account
<1>7. Sound(r)'
  BY <1>2, <1>3, <1>4, <1>5 DEF Sound, Account
<1>8. \A q \in Requests \ {r} : Sound(q)'
  BY <1>2, <1>3 DEF AccountInv, Sound, Account, Owned, NoMail
<1>9. OneCommits'
  BY <1>2 DEF AccountInv, OneCommits, At
<1>10. AccountsSound'
  BY <1>3, <1>6 DEF AccountInv, AccountsSound, Account, Owned
<1>11. QED
  BY <1>7, <1>8, <1>9, <1>10 DEF AccountInv

LEMMA CountAccounts ==
  ASSUME Base, AccountInv, NEW r \in Requests, Count(r) \/ OpenWindow(r)
  PROVE  AccountInv'
<1>1. /\ GoesOn(r) /\ req'[r].pc \in {"count", "window", "take", "idle"}
      /\ UNCHANGED <<users, people, sessions, made>>
      /\ req[r].pc \in Before
  BY CountsType, CountsLeave DEF Count, OpenWindow, At, Before
<1>2. Sound(r)'
  BY <1>1, NoRequestType DEF GoesOn, AccountInv, Sound, Before, Account
<1>3. QED
  BY <1>1, <1>2, RequestAlone DEF At

(* The steps of a request that leave the accounts alone. *)
LEMMA QuietAccounts ==
  ASSUME Base, AccountInv, NEW r \in Requests, Later(r),
         ~Commit(r), ~Write(r)
  PROVE  AccountInv'
<1>1. GoesOn(r) /\ made' = made
  BY LaterGoesOn DEF Base
<1>2. UNCHANGED <<users, people>>
  BY DEF Later, Take, FindByUser, FindByTg, Insert, CreateSession, Fails
<1>3. /\ req \in [Requests -> Request] /\ req[r] \in Request
      /\ req[r].user \in UserIds /\ req[r].person \in Person
      /\ req[r].nr \in UserIds /\ Sound(r)
      /\ \A id \in UserIds : id # Nobody
  BY DEF Base, Typed, Request, UserIds, Nobody, AccountInv
<1>4. ASSUME End(r) PROVE Sound(r)' /\ ~At(r, "commit")'
  <2>1. req'[r].pc = "idle"
    BY <1>3, <1>4, NoRequestType DEF End
  <2>2. QED
    BY <2>1 DEF Sound, Before, At
<1>5. ASSUME sessions' = sessions, Sound(r)', ~At(r, "commit")'
      PROVE  AccountInv'
  BY <1>1, <1>2, <1>5, RequestAlone
<1>6. CASE Take(r)
  <2>1. req[r].pc \in Before /\ sessions' = sessions
    BY <1>6 DEF Take, At, Before
  <2>2. CASE End(r)
    BY <1>4, <1>5, <2>1, <2>2
  <2>3. CASE Becomes(r, "find", codes[req[r].code].user, req[r].person)
    <3>1. codes[req[r].code].user \in UserIds
      BY <1>3 DEF Base, Typed, Code, Request
    <3>2. req'[r].pc = "find" /\ req'[r].nr = req[r].nr
      BY <1>3, <2>3 DEF Becomes, Request
    <3>3. Sound(r)' /\ ~At(r, "commit")'
      BY <1>2, <1>3, <2>1, <3>2 DEF Sound, Before, Account, At
    <3>4. QED
      BY <1>5, <2>1, <3>3
  <2>4. QED
    BY <1>6, <2>2, <2>3, TakeDoes DEF Base
<1>7. CASE FindByUser(r) \/ FindByTg(r)
  <2>1. req[r].pc \in Before /\ sessions' = sessions
    BY <1>7 DEF FindByUser, FindByTg, At, Before
  <2>2. CASE End(r)
    BY <1>4, <1>5, <2>1, <2>2
  <2>3. ASSUME NEW p \in people, p.user # Nobody,
               NEW pc \in {"write", "session"}, NEW person \in Person,
               Becomes(r, pc, p.user, person)
        PROVE  AccountInv'
    <3>1. p.user \in UserIds
      BY <2>3 DEF Base, Typed, Person
    <3>2. req'[r].pc = pc /\ req'[r].user = p.user
      BY <2>3, <3>1, BecomesGoesOn DEF Base, Pc
    <3>3. Owned(p.user)
      BY <2>3 DEF AccountInv, AccountsSound, Owned
    <3>4. Sound(r)' /\ ~At(r, "commit")'
      BY <1>2, <3>2, <3>3 DEF Sound, Before, Owned, Account, At
    <3>5. QED
      BY <1>5, <2>1, <3>4
  <2>4. CASE \E p \in people :
               p.user = req[r].user /\ Becomes(r, "write", req[r].user, p)
    <3>1. \A p \in people : p \in Person
      BY DEF Base, Typed
    <3>2. QED
      BY <1>3, <2>3, <2>4, <3>1
  <2>5. CASE \E p \in people :
               p.user # Nobody /\ Becomes(r, "session", p.user, req[r].person)
    BY <1>3, <2>3, <2>5
  <2>6. CASE Becomes(r, "insert", req[r].nr, req[r].person)
    <3>1. /\ req'[r].pc = "insert" /\ req'[r].nr = req[r].nr
          /\ req'[r].user = req[r].nr
      BY <1>3, <2>6 DEF Becomes, Request
    <3>2. Sound(r)' /\ ~At(r, "commit")'
      BY <1>2, <1>3, <2>1, <3>1 DEF Sound, Before, Account, At
    <3>3. QED
      BY <1>5, <2>1, <3>2
  <2>7. QED
    BY <1>7, <2>2, <2>4, <2>5, <2>6, FindDoes DEF Base
<1>8. CASE Insert(r)
  <2>1. /\ req[r].pc \in Before /\ req[r].pc = "insert"
        /\ sessions' = sessions
    BY <1>8 DEF Insert, At, Before
  <2>2. CASE End(r)
    BY <1>4, <1>5, <2>1, <2>2
  <2>3. CASE /\ Becomes(r, "commit", req[r].user, req[r].person)
             /\ \A u \in users : u.mail # req[r].tg
    <3>1. /\ req'[r].pc = "commit" /\ req'[r].nr = req[r].nr
          /\ req'[r].user = req[r].user /\ req'[r].tg = req[r].tg
      BY <1>3, <2>3 DEF Becomes, Request
    <3>2. Sound(r)'
      BY <1>2, <1>3, <2>1, <2>3, <3>1 DEF Sound, Before, Account, NoMail
    <3>3. \A q \in Requests \ {r} : ~(At(q, "commit") /\ req[q].tg = req[r].tg)
      BY <1>8 DEF Insert, Inserted
    <3>4. QED
      BY <1>1, <1>2, <2>1, <3>2, <3>3, RequestAlone
  <2>4. QED
    BY <1>8, <2>2, <2>3, WriteDoes DEF Base, Insert, Commit, Write, At
<1>9. CASE CreateSession(r)
  <2>1. End(r) /\ req[r].pc = "session"
    BY <1>9 DEF CreateSession, At
  <2>2. \A s \in sessions' : s \in sessions \/ s.user = req[r].user
    BY <1>9 DEF CreateSession
  <2>3. Owned(req[r].user)
    BY <1>3, <2>1 DEF Sound
  <2>4. QED
    BY <1>1, <1>2, <1>4, <2>1, <2>2, <2>3, RequestAlone
<1>10. CASE Fails(r)
  BY <1>4, <1>5, <1>10 DEF Fails
<1>11. QED
  BY <1>6, <1>7, <1>8, <1>9, <1>10 DEF Later

LEMMA WriteAccounts ==
  ASSUME Base, AccountInv, NEW r \in Requests, Write(r)
  PROVE  AccountInv'
<1>1. GoesOn(r) /\ UNCHANGED <<users, sessions, made>>
  BY LaterGoesOn DEF Later, Base, Write
<1>2. /\ req'[r].pc = "session" /\ req'[r].user = req[r].user
      /\ Owned(req[r].user) /\ req[r].user \in UserIds
  <2>1. req \in [Requests -> Request] /\ req[r] \in Request
    BY DEF Base, Typed
  <2>2. req' = [req EXCEPT ![r].pc = "session"] /\ req[r].pc = "write"
    BY DEF Write, At
  <2>3. QED
    BY <2>1, <2>2 DEF Request, AccountInv, Sound
<1>3. PICK f \in [people -> Person] :
        /\ \A p \in people : f[p].user = p.user
        /\ people' = {f[p] : p \in people}
  <2> DEFINE f == [p \in people |->
                    IF p.id = req[r].person.id /\ req[r].person.tg # req[r].tg
                    THEN [p EXCEPT !.tg = req[r].tg] ELSE p]
  <2>1. \A p \in people : p \in Person /\ req[r].tg \in TgIds \cup {NoTg}
    BY DEF Base, Typed, Request
  <2>2. \A p \in people : f[p] \in Person /\ f[p].user = p.user
    BY <2>1 DEF Person
  <2>3. people' = {f[p] : p \in people}
    BY DEF Write
  <2>4. f \in [people -> Person]
    BY <2>2
  <2> HIDE DEF f
  <2>5. QED
    BY <2>2, <2>3, <2>4
<1>4. /\ \A p \in people : p.user # Nobody => Account(p.user)
      /\ \A p, q \in people : p.user # Nobody /\ p.user = q.user => p = q
  BY DEF AccountInv, AccountsSound
<1>5. AccountsSound' /\ \A id \in UserIds : Owned(id) => Owned(id)'
  <2>1. \A q \in people' : q.user # Nobody => Account(q.user)
    BY <1>3, <1>4
  <2>2. \A q \in people :
          q.user # Nobody => \E t \in people' : t.user = q.user
    BY <1>3
  <2>3. \A q, t \in people' : q.user # Nobody /\ q.user = t.user => q = t
    BY <1>3, <1>4
  <2>4. QED
    BY <1>1, <2>1, <2>2, <2>3, PeopleChange
<1>6. \A q \in Requests : req[q].user \in UserIds
  BY DEF Base, Typed, Request
<1>7. Sound(r)'
  BY <1>2, <1>5 DEF Sound, Before
<1>8. \A q \in Requests \ {r} : Sound(q)'
  BY <1>1, <1>5, <1>6 DEF GoesOn, AccountInv, Sound, Account, NoMail
<1>9. OneCommits'
  BY <1>1, <1>2 DEF GoesOn, AccountInv, OneCommits, At
<1>10. QED
  BY <1>5, <1>7, <1>8, <1>9 DEF AccountInv

LEMMA CommitAccounts ==
  ASSUME Base, AccountInv, NEW r \in Requests, Commit(r)
  PROVE  AccountInv'
<1>1. GoesOn(r) /\ UNCHANGED <<sessions, made>>
  BY LaterGoesOn DEF Later, Base, Commit
<1>2. PICK nr, tg : nr = req[r].nr /\ tg = req[r].tg
  OBVIOUS
<1>3. /\ nr = req[r].user /\ ~Account(nr) /\ NoMail(tg)
      /\ nr \in 1..made /\ tg \in TgIds /\ Busy(r) /\ At(r, "commit")
  BY <1>2 DEF Commit, At, Busy, Base, Numbered, AccountInv, Sound, Before
<1>4. PICK u, p :
        /\ u.id = nr /\ u.mail = tg /\ p.user = nr
        /\ users' = users \cup {u} /\ people' = people \cup {p}
  <2>1. PICK u, p :
          /\ u = [id |-> req[r].user, mail |-> req[r].tg]
          /\ p = [id |-> req[r].nr, user |-> req[r].user, tg |-> req[r].tg]
          /\ users' = users \cup {u} /\ people' = people \cup {p}
    BY DEF Commit
  <2>2. QED
    BY <1>2, <1>3, <2>1
<1>5. /\ req'[r].pc = "session" /\ req'[r].user = nr
  <2>1. req \in [Requests -> Request] /\ req[r] \in Request
    BY DEF Base, Typed
  <2>2. req' = [req EXCEPT ![r].pc = "session"]
    BY DEF Commit
  <2>3. QED
    BY <1>3, <2>1, <2>2 DEF Request
<1>6. \A id : (Account(id) => Account(id)') /\ (Owned(id) => Owned(id)')
  BY <1>4 DEF Account, Owned
<1>7. \A q \in Requests \ {r} :
        /\ Busy(q) => req[q].nr # nr
        /\ At(q, "commit") => req[q].tg # tg
  BY <1>2, <1>3 DEF Base, Numbered, AccountInv, OneCommits
<1>8. \A id : id # nr => (Account(id)' => Account(id))
  BY <1>4 DEF Account
<1>9. \A q \in Requests \ {r} : Sound(q)'
  <2> SUFFICES ASSUME NEW q \in Requests \ {r} PROVE Sound(q)'
    OBVIOUS
  <2>1. req'[q] = req[q] /\ Sound(q)
    BY <1>1 DEF GoesOn, AccountInv
  <2>2. req[q].pc \in Before => ~Account(req[q].nr)'
    BY <1>7, <1>8, <2>1 DEF Sound, Before, Busy, At
  <2>3. req[q].pc = "commit" => NoMail(req[q].tg)'
    BY <1>4, <1>7, <2>1 DEF Sound, NoMail, At
  <2>4. QED
    BY <1>6, <2>1, <2>2, <2>3 DEF Sound
<1>10. Sound(r)'
  <2>1. Owned(nr)'
    BY <1>4 DEF Owned, Account
  <2>2. QED
    BY <1>5, <2>1 DEF Sound, Before
<1>11. OneCommits'
  BY <1>1, <1>5 DEF GoesOn, AccountInv, OneCommits, At
<1>12. AccountsSound'
  <2>1. \A q \in people : q.user # Nobody => Account(q.user) /\ q.user # nr
    BY <1>3 DEF AccountInv, AccountsSound
  <2>2. \A q \in people' : q.user # Nobody => Account(q.user)'
    BY <1>4, <1>6, <2>1 DEF Account
  <2>3. nr # Nobody
    BY <1>3 DEF Nobody
  <2>4. \A q, t \in people' : q.user # Nobody /\ q.user = t.user => q = t
    BY <1>4, <2>1, <2>3 DEF AccountInv, AccountsSound
  <2>5. \A v \in users' \ {Seeded} : \E q \in people' : q.user = v.id
    BY <1>4 DEF AccountInv, AccountsSound
  <2>6. \A v \in users : v.id # nr /\ v.mail # tg
    BY <1>3 DEF Account, NoMail
  <2>7. \A v, w \in users' : v.id = w.id \/ v.mail = w.mail => v = w
    BY <1>4, <2>6 DEF AccountInv, AccountsSound
  <2>8. \A v \in users' : v.id <= made'
    BY <1>1, <1>3, <1>4 DEF AccountInv, AccountsSound
  <2>9. \A s \in sessions' : Owned(s.user)'
    BY <1>1, <1>6 DEF AccountInv, AccountsSound
  <2>10. QED
    BY <2>2, <2>4, <2>5, <2>7, <2>8, <2>9 DEF AccountsSound
<1>13. QED
  BY <1>9, <1>10, <1>11, <1>12 DEF AccountInv

LEMMA AccountStep == Base /\ AccountInv /\ [Next]_vars => AccountInv'
<1> SUFFICES ASSUME Base, AccountInv, [Next]_vars PROVE AccountInv'
  OBVIOUS
<1>1. CASE UNCHANGED vars
  BY <1>1 DEF AccountInv, AccountsSound, Sound, OneCommits, Account, Owned,
     NoMail, At
<1>2. CASE Next
  BY <1>2, NextSteps, AdminsAccounts, AskAccounts, CountAccounts,
     QuietAccounts, WriteAccounts, CommitAccounts
<1>3. QED
  BY <1>1, <1>2

LEMMA AccountAlways == Spec => [](Base /\ AccountInv)
BY AccountInitially, AccountStep, BaseInitially, BaseStep, PTL DEF Spec

(* However many invites a Telegram user redeems, there is one account for  *)
(* it, attached to exactly one assignee (invite_redeem).                   *)
THEOREM OneAccountCorrect == Spec => []OneAccount
<1>1. Base /\ AccountInv => OneAccount
  <2> SUFFICES ASSUME Base, AccountInv,
                      NEW u \in users \ {Seeded}
               PROVE  Cardinality({p \in people : p.user = u.id}) = 1
    BY DEF OneAccount, AccountInv, AccountsSound
  <2>1. PICK p \in people : p.user = u.id
    BY DEF AccountInv, AccountsSound
  <2>2. u.id # Nobody
    BY DEF Base, Typed, User, UserIds, Nobody
  <2>3. {q \in people : q.user = u.id} = {p}
    BY <2>1, <2>2 DEF AccountInv, AccountsSound
  <2>4. QED
    BY <2>3, FS_Singleton
<1>2. QED
  BY <1>1, AccountAlways, PTL

(* Nobody is logged in as a user a rollback has undone, or who is no       *)
(* assignee (telegram_redeem, invite_redeem).                              *)
THEOREM SessionsOwnedCorrect == Spec => []SessionsOwned
<1>1. AccountInv => SessionsOwned
  BY DEF AccountInv, AccountsSound, Owned, Account, SessionsOwned
<1>2. QED
  BY <1>1, AccountAlways, PTL
-----------------------------------------------------------------------------
(* WindowsHeld, strengthened: who is about to set a counter's time to live *)
(* has a counter without one.                                              *)
WindowInv ==
  /\ \A k \in Keys, r \in Requests : Opens(r, k) => Closed(k)
  /\ \A k \in Keys, r, q \in Requests : Opens(r, k) /\ Opens(q, k) => r = q
  /\ \A k \in Keys : window[k] => count[k] > 0
  /\ IsFiniteSet(Stuck) /\ Cardinality(Stuck) <= failures

(* Steps after which no counter is stuck that was not stuck before. *)
LEMMA StuckNoMore ==
  ASSUME Base, WindowInv, failures' = failures, Stuck' \subseteq Stuck
  PROVE  IsFiniteSet(Stuck') /\ Cardinality(Stuck') <= failures'
<1>1. /\ IsFiniteSet(Stuck') /\ Cardinality(Stuck') <= Cardinality(Stuck)
      /\ Cardinality(Stuck') \in Nat /\ Cardinality(Stuck) \in Nat
  BY FS_Subset, FS_CardinalityType DEF WindowInv
<1>2. QED
  BY <1>1 DEF WindowInv, Base, Typed

LEMMA WindowInitially == Init => WindowInv
<1> SUFFICES ASSUME Init PROVE WindowInv
  OBVIOUS
<1>1. /\ \A k \in Keys : ~Closed(k) /\ ~window[k]
      /\ \A r \in Requests, k \in Keys : ~Opens(r, k)
  BY NoRequestType DEF Init, Opens, Closed, At
<1>2. Stuck = {}
  BY <1>1 DEF Stuck
<1>3. QED
  BY <1>1, <1>2, FS_EmptySet DEF WindowInv, Init

(* Who has counted is not about to set a time to live. *)
LEMMA CountedLeaves ==
  ASSUME Base, NEW r \in Requests, NEW ok, Counted(r, ok)
  PROVE  ~At(r, "window")'
<1>1. req \in [Requests -> Request] /\ req[r] \in Request
  BY DEF Base, Typed
<1>2. \/ req' = [req EXCEPT ![r].pc = "count", ![r].keys = Tail(@),
                            ![r].ok = ok]
      \/ req' = [req EXCEPT ![r].pc = "take", ![r].keys = <<>>]
      \/ req' = [req EXCEPT ![r] = NoRequest]
  BY DEF Counted, End
<1>3. QED
  BY <1>1, <1>2, NoRequestType DEF Request, At

(* Steps that have nothing to do with the counters. *)
LEMMA WindowsAlone ==
  ASSUME Base, WindowInv, UNCHANGED <<count, window, failures>>,
         \A r \in Requests, k \in Keys : Opens(r, k)' <=> Opens(r, k)
  PROVE  WindowInv'
<1>1. \A k \in Keys : Closed(k)' <=> Closed(k)
  BY DEF Closed
<1>2. Stuck' \subseteq Stuck
  BY <1>1 DEF Stuck
<1>3. QED
  BY <1>1, <1>2, StuckNoMore DEF WindowInv

(* The counter a failing request was about to open is the only one that   *)
(* gets stuck.                                                             *)
LEMMA FailsWindows ==
  ASSUME Base, WindowInv, NEW r \in Requests, Fails(r)
  PROVE  WindowInv'
<1> DEFINE head == Head(req[r].keys)
<1>1. /\ UNCHANGED <<count, window>> /\ failures' = failures + 1
      /\ req \in [Requests -> Request] /\ req' = [req EXCEPT ![r] = NoRequest]
      /\ failures \in Nat
  BY DEF Fails, End, Base, Typed
<1>2. /\ \A k \in Keys : ~Opens(r, k)'
      /\ \A q \in Requests \ {r}, k \in Keys : Opens(q, k)' <=> Opens(q, k)
      /\ \A k \in Keys : Closed(k)' <=> Closed(k)
  BY <1>1, NoRequestType DEF Opens, Closed, At
<1>3. \A k \in Keys : Opens(r, k) => k = head
  BY DEF Opens
<1> HIDE DEF head
<1>4. Stuck' \subseteq Stuck \cup {head}
  BY <1>2, <1>3 DEF Stuck
<1>5. /\ IsFiniteSet(Stuck \cup {head})
      /\ Cardinality(Stuck \cup {head}) <= Cardinality(Stuck) + 1
  <2>1. Cardinality(Stuck) \in Nat
    BY FS_CardinalityType DEF WindowInv
  <2>2. /\ IsFiniteSet(Stuck \cup {head})
        /\ \/ Cardinality(Stuck \cup {head}) = Cardinality(Stuck)
           \/ Cardinality(Stuck \cup {head}) = Cardinality(Stuck) + 1
    BY FS_AddElement DEF WindowInv
  <2>3. QED
    BY <2>1, <2>2
<1>6. /\ IsFiniteSet(Stuck')
      /\ Cardinality(Stuck') <= Cardinality(Stuck \cup {head})
  BY <1>4, <1>5, FS_Subset
<1>7. Cardinality(Stuck') <= failures'
  <2>1. /\ Cardinality(Stuck) \in Nat /\ Cardinality(Stuck') \in Nat
        /\ Cardinality(Stuck \cup {head}) \in Nat
    BY <1>5, <1>6, FS_CardinalityType DEF WindowInv
  <2>2. QED
    BY <1>1, <1>5, <1>6, <2>1 DEF WindowInv
<1>8. QED
  BY <1>1, <1>2, <1>6, <1>7 DEF WindowInv

LEMMA LaterWindows ==
  ASSUME Base, WindowInv, NEW r \in Requests, Later(r)
  PROVE  WindowInv'
<1>1. CASE Fails(r)
  BY <1>1, FailsWindows
<1>2. CASE ~Fails(r)
  <2>1. /\ UNCHANGED <<count, window, failures>>
        /\ ~At(r, "window")
    BY <1>2 DEF Later, Take, FindByUser, FindByTg, Insert, Commit, Write,
       CreateSession, At
  <2>2. GoesOn(r) /\ ~At(r, "window")'
    BY LaterGoesOn DEF Base, At
  <2>3. \A q \in Requests, k \in Keys : Opens(q, k)' <=> Opens(q, k)
    BY <2>1, <2>2 DEF GoesOn, Opens, At
  <2>4. QED
    BY <2>1, <2>3, WindowsAlone
<1>3. QED
  BY <1>1, <1>2

LEMMA AskWindows ==
  ASSUME Base, WindowInv, NEW r \in Requests, Asks(r)
  PROVE  WindowInv'
<1>1. PICK op \in {"link", "join"}, tg \in TgIds, c \in Codes :
        Ask(r, op, tg, c)
  BY DEF Asks
<1>2. /\ ~At(r, "window") /\ UNCHANGED <<count, window, failures>>
  BY <1>1 DEF Ask, At
<1>3. ~At(r, "window")' /\ \A q \in Requests \ {r} : req'[q] = req[q]
  BY <1>1, AskType DEF At
<1>4. \A q \in Requests, k \in Keys : Opens(q, k)' <=> Opens(q, k)
  BY <1>2, <1>3 DEF Opens, At
<1>5. QED
  BY <1>2, <1>4, WindowsAlone

LEMMA AdminsWindows ==
  ASSUME Base, WindowInv, Admins
  PROVE  WindowInv'
<1>1. UNCHANGED <<req, failures>>
  BY AdminsType DEF Base
<1>2. \A q \in Requests, k \in Keys : Opens(q, k)' <=> Opens(q, k)
  BY <1>1 DEF Opens, At
<1>3. CASE \E k \in Keys : WindowCloses(k)
  <2>1. PICK c \in Keys : WindowCloses(c)
    BY <1>3
  <2>2. /\ window[c] /\ ~window'[c] /\ count'[c] = 0
        /\ \A k \in Keys \ {c} : window'[k] = window[k] /\ count'[k] = count[k]
    BY <2>1 DEF WindowCloses, Base, Typed
  <2>3. /\ ~Closed(c)'
        /\ \A k \in Keys \ {c} : Closed(k)' <=> Closed(k)
    BY <2>2 DEF Closed
  <2>4. \A q \in Requests : ~Opens(q, c)
    BY <2>2 DEF WindowInv, Closed
  <2>5. Stuck' \subseteq Stuck
    BY <1>2, <2>3 DEF Stuck
  <2>6. QED
    BY <1>1, <1>2, <2>2, <2>3, <2>4, <2>5, StuckNoMore DEF WindowInv
<1>4. CASE UNCHANGED <<count, window>>
  BY <1>1, <1>2, <1>4, WindowsAlone
<1>5. QED
  BY <1>3, <1>4 DEF Admins, IssueLink, IssueInvite, Issue, CodeExpires,
     AddPerson, SaveForm, Attach

(* The request that creates a counter is the one that will open its        *)
(* window.                                                                 *)
LEMMA CountWindows ==
  ASSUME Base, WindowInv, NEW r \in Requests, Count(r)
  PROVE  WindowInv'
<1> DEFINE head == Head(req[r].keys)
<1>1. /\ head \in Keys /\ At(r, "count") /\ GoesOn(r)
      /\ req \in [Requests -> Request] /\ req[r] \in Request
  BY CountOwes, CountsType DEF Count, Base, Typed
<1>2. /\ UNCHANGED <<window, failures>>
      /\ count'[head] = count[head] + 1 /\ count[head] \in Nat
      /\ \A k \in Keys \ {head} : count'[k] = count[k]
  BY <1>1 DEF Count, Base, Typed
<1>3. \A q \in Requests \ {r}, k \in Keys : Opens(q, k)' <=> Opens(q, k)
  BY <1>1 DEF GoesOn, Opens, At
<1>4. \A k \in Keys : ~Opens(r, k)
  BY <1>1 DEF Opens, At
<1>5. CASE count[head] = 0
  <2>1. req' = [req EXCEPT ![r].pc = "window", ![r].ok = Allowed(r)]
    BY <1>5 DEF Count
  <2>2. req'[r].pc = "window" /\ req'[r].keys = req[r].keys
    BY <1>1, <2>1 DEF Request
  <2>3. \A k \in Keys : Opens(r, k)' <=> k = head
    BY <2>2 DEF Opens, At
  <2>4. ~window[head] /\ \A q \in Requests : ~Opens(q, head)
    BY <1>1, <1>2, <1>5 DEF WindowInv, Closed
  <2> HIDE DEF head
  <2>5. \A k \in Keys : Closed(k)' <=> Closed(k) \/ k = head
    BY <1>1, <1>2, <2>4 DEF Closed
  <2>6. Stuck' \subseteq Stuck
    BY <1>1, <1>3, <2>3, <2>5, <1>4 DEF Stuck
  <2>7. QED
    BY <1>1, <1>2, <1>3, <1>4, <2>3, <2>4, <2>5, <2>6, StuckNoMore
       DEF WindowInv
<1>6. CASE count[head] # 0
  <2>1. Counted(r, Allowed(r))
    BY <1>6 DEF Count
  <2>2. \A k \in Keys : ~Opens(r, k)'
    BY <1>1, <2>1, CountedLeaves DEF Opens, At
  <2> HIDE DEF head
  <2>3. \A k \in Keys : Closed(k)' <=> Closed(k)
    BY <1>1, <1>2, <1>6 DEF Closed
  <2>4. Stuck' \subseteq Stuck
    BY <1>3, <1>4, <2>2, <2>3 DEF Stuck
  <2>5. QED
    BY <1>1, <1>2, <1>3, <1>4, <2>2, <2>3, <2>4, <1>6, StuckNoMore
       DEF WindowInv
<1>7. QED
  BY <1>5, <1>6

LEMMA OpenWindows ==
  ASSUME Base, WindowInv, NEW r \in Requests, OpenWindow(r)
  PROVE  WindowInv'
<1> DEFINE head == Head(req[r].keys)
<1>1. /\ At(r, "window") /\ GoesOn(r) /\ UNCHANGED <<count, failures>>
      /\ req \in [Requests -> Request] /\ req[r] \in Request
      /\ req[r].keys \in {<<req[r].tg, "ip">>, <<"ip">>}
      /\ req[r].tg \in TgIds
  BY CountsType DEF OpenWindow, Base, Typed, Numbered, KeysLeft, Busy, At
<1>2. head \in Keys
  BY <1>1, Lists DEF Keys
<1>3. /\ window'[head]
      /\ \A k \in Keys \ {head} : window'[k] = window[k]
  BY <1>2 DEF OpenWindow, Base, Typed
<1>4. \A q \in Requests \ {r}, k \in Keys : Opens(q, k)' <=> Opens(q, k)
  BY <1>1 DEF GoesOn, Opens, At
<1>5. \A k \in Keys : (Opens(r, k) <=> k = head) /\ ~Opens(r, k)'
  BY <1>1, CountedLeaves DEF OpenWindow, Opens, At
<1> HIDE DEF head
<1>6. \A k \in Keys : /\ Closed(k)' <=> Closed(k) /\ k # head
                      /\ k = head => Closed(k)
  BY <1>1, <1>2, <1>3, <1>5 DEF WindowInv, Closed
<1>7. Stuck' \subseteq Stuck
  BY <1>2, <1>4, <1>5, <1>6 DEF Stuck
<1>8. \A q \in Requests \ {r} : ~Opens(q, head)
  BY <1>2, <1>5 DEF WindowInv
<1>9. \A k \in Keys : window'[k] => count'[k] > 0
  BY <1>1, <1>2, <1>3, <1>6 DEF WindowInv, Closed
<1>10. QED
  BY <1>1, <1>2, <1>4, <1>5, <1>6, <1>7, <1>8, <1>9, StuckNoMore
     DEF WindowInv

LEMMA WindowStep == Base /\ WindowInv /\ [Next]_vars => WindowInv'
<1> SUFFICES ASSUME Base, WindowInv, [Next]_vars PROVE WindowInv'
  OBVIOUS
<1>1. CASE UNCHANGED vars
  BY <1>1, WindowsAlone DEF vars, bounds, Opens, At
<1>2. CASE Next
  BY <1>2, NextSteps, AdminsWindows, AskWindows, CountWindows, OpenWindows,
     LaterWindows
<1>3. QED
  BY <1>1, <1>2

LEMMA WindowAlways == Spec => []WindowInv
BY WindowInitially, WindowStep, BaseInitially, BaseStep, PTL DEF Spec

(* However attempts overlap, an error or a crash between INCR and EXPIRE   *)
(* leaves one counter at most without a time to live, and nothing else     *)
(* does (check_and_increment_rate_limit).                                  *)
THEOREM WindowsHeldCorrect == Spec => []WindowsHeld
<1>1. WindowInv => WindowsHeld
  BY DEF WindowInv, WindowsHeld
<1>2. QED
  BY <1>1, WindowAlways, PTL
=============================================================================
