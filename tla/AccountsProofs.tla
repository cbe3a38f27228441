--------------------------- MODULE AccountsProofs ---------------------------
(***************************************************************************)
(* Theorems about Accounts: whom sessions speak for, when they end, and    *)
(* that an administrator remains; for any names, tables and numbers of     *)
(* requests at a time, and any bounds.                                     *)
(***************************************************************************)
EXTENDS Accounts, FiniteSetTheorems, TLAPS

USE BoundAssumption, NameAssumption

(* The records that stand for nothing have their types. *)
LEMMA NothingTypes == NoRow \in Row /\ NoSession \in Session /\ Idle \in Request
  BY DEF NoRow, Row, NoSession, Session, Idle, Request

(* Deleting sessions leaves sessions. *)
LEMMA WithoutType ==
    ASSUME TypeOK, NEW dead
    PROVE  Without(dead) \in [Tokens -> Session]
  BY NothingTypes DEF Without, TypeOK

(* Going on and being answered keep the type of the requests. *)
LEMMA RequestTypes ==
    ASSUME TypeOK, NEW w \in Workers
    PROVE  /\ Answer(w) => req' \in [Workers -> Request]
           /\ \A pc \in {"idle", "insert", "open", "user", "target", "count", "remove",
                         "purge", "logout", "password", "revoke", "approve", "role"} :
                 Goto(w, pc) => req' \in [Workers -> Request]
  <1>1. Answer(w) => req' \in [Workers -> Request]
    BY NothingTypes DEF Answer, TypeOK
  <1>2. ASSUME NEW pc \in {"idle", "insert", "open", "user", "target", "count", "remove",
                         "purge", "logout", "password", "revoke", "approve", "role"},
               Goto(w, pc)
        PROVE  req' \in [Workers -> Request]
    <2>1. [req[w] EXCEPT !.pc = pc] \in Request
      BY DEF TypeOK, Request
    <2>2. QED
      BY <1>2, <2>1 DEF Goto, TypeOK
  <1>3. QED
    BY <1>1, <1>2

(* A request is sent on to a step that exists. *)
LEMMA FirstStepType ==
    ASSUME NEW op \in Ops
    PROVE  FirstStep(op) \in {"target", "remove", "logout", "password", "approve", "role"}
  BY DEF FirstStep, Ops, AdminOps

-----------------------------------------------------------------------------
(* Types *)

LEMMA Zero == 0 \in 0..MaxRequests /\ 0 \in 0..MaxFailures
  OBVIOUS

LEMMA TypeInit == Init => TypeOK
  <1> SUFFICES ASSUME Init PROVE TypeOK
    OBVIOUS
  <1>1. PICK d \in Database : user = d.user /\ lastId = d.lastId
                             /\ session = d.session /\ lastToken = d.lastToken
    BY DatabaseAssumption DEF Init
  <1>2. user \in [Ids -> Row] /\ lastId \in 0..MaxUsers
        /\ session \in [Tokens -> Session] /\ lastToken \in 0..MaxTokens
    BY <1>1 DEF Database
  <1>3. req \in [Workers -> Request]
    BY NothingTypes DEF Init
  <1>4. requests = 0 /\ failures = 0 /\ unguarded = FALSE
    BY DEF Init
  <1>5. QED
    BY <1>2, <1>3, <1>4, Zero DEF TypeOK

LEMMA TypeStep == TypeOK /\ RequestInv /\ [Next]_vars => TypeOK'
  <1> SUFFICES ASSUME TypeOK, RequestInv, [Next]_vars PROVE TypeOK'
    OBVIOUS
  <1> USE DEF tables
  <1>1. ASSUME NEW w \in Workers, NEW r \in Request, Enter(w, r), UNCHANGED <<tables, failures, unguarded>>
        PROVE  TypeOK'
    BY <1>1 DEF Enter, TypeOK
  <1>2. ASSUME NEW w \in Workers, NEW n \in Names, NEW mode, Register(w, n, mode) PROVE TypeOK'
    <2> DEFINE first == \A i \in Ids : ~Present(i)
               app == first \/ mode # "approval"
    <2>1. first \in BOOLEAN /\ app \in BOOLEAN
      OBVIOUS
    <2> HIDE DEF first, app
    <2>2. [Idle EXCEPT !.pc = "insert", !.name = n, !.admin = first, !.approved = app] \in Request
      BY <2>1, NothingTypes DEF Request
    <2>3. QED
      BY <1>1, <1>2, <2>2 DEF Register, first, app
  <1>3. ASSUME NEW w \in Workers, NEW i \in Ids, Login(w, i) PROVE TypeOK'
    <2>1. [Idle EXCEPT !.pc = "open", !.me = i, !.name = user[i].name, !.ver = user[i].pw] \in Request
      BY NothingTypes DEF Request, TypeOK, Row
    <2>2. QED
      BY <1>1, <1>3, <2>1 DEF Login
  <1>4. ASSUME NEW w \in Workers, NEW t \in Tokens, NEW op \in Ops, NEW i \in Ids,
               Authenticate(w, t, op, i)
        PROVE  TypeOK'
    <2> DEFINE target == CASE op = "leave" -> session[t].user
                           [] op \in AdminOps -> i
                           [] OTHER -> NoId
               token == IF op \in {"leave", "logout"} THEN t ELSE 0
    <2>1. session[t].user \in Ids \cup {NoId} /\ target \in Ids \cup {NoId}
      BY DEF TypeOK, Session
    <2>2. token \in 0..MaxTokens
      BY DEF Tokens
    <2> HIDE DEF target, token
    <2>3. [Idle EXCEPT !.pc = "user", !.op = op, !.me = session[t].user, !.token = token,
                       !.target = target] \in Request
      BY <2>1, <2>2, NothingTypes DEF Request
    <2>4. QED
      BY <1>1, <1>4, <2>3 DEF Authenticate, target, token
  <1>5. ASSUME NEW w \in Workers, Insert(w) PROVE TypeOK'
    <2>1. [state |-> IF req[w].approved THEN "approved" ELSE "pending",
           name |-> req[w].name, admin |-> req[w].admin, pw |-> 0] \in Row
      BY DEF TypeOK, Request, Row
    <2>2. user' \in [Ids -> Row] /\ lastId' \in 0..MaxUsers
      BY <1>5, <2>1 DEF Insert, TypeOK, Ids
    <2>3. QED
      BY <1>5, <2>2, RequestTypes DEF Insert, TypeOK
  <1>6. ASSUME NEW w \in Workers, OpenSession(w) PROVE TypeOK'
    <2> DEFINE late == ~(Present(req[w].me) /\ user[req[w].me].pw = req[w].ver)
    <2>1. late \in BOOLEAN /\ req[w] \in Request
      BY DEF TypeOK
    <2> HIDE DEF late
    <2>2. [user |-> req[w].me, expired |-> FALSE, name |-> req[w].name, ver |-> req[w].ver,
           late |-> late] \in Session
      BY <2>1 DEF Request, Session
    <2>3. lastToken' \in Tokens
      BY <1>6 DEF OpenSession, TypeOK, Tokens
    <2>4. session' \in [Tokens -> Session]
      BY <1>6, <2>2, <2>3 DEF OpenSession, TypeOK, late
    <2>5. QED
      BY <1>6, <2>3, <2>4, RequestTypes DEF OpenSession, TypeOK, Tokens
  <1>7. ASSUME NEW w \in Workers, LoadUser(w) PROVE TypeOK'
    <2>1. req' \in [Workers -> Request]
      <3>1. CASE Answer(w)
        BY <3>1, RequestTypes
      <3>2. CASE Goto(w, FirstStep(req[w].op))
        <4>1. CASE req[w].op \in Ops
          BY <3>2, <4>1, FirstStepType, RequestTypes
        <4>2. CASE req[w].op \notin Ops
          <5>1. FALSE
            BY <1>7, <4>2 DEF LoadUser, RequestInv, Fits
          <5>2. QED
            BY <5>1
        <4>3. QED
          BY <4>1, <4>2
      <3>3. QED
        BY <1>7, <3>1, <3>2 DEF LoadUser
    <2>2. unguarded' \in BOOLEAN
      BY <1>7 DEF LoadUser, TypeOK
    <2>3. QED
      BY <1>7, <2>1, <2>2 DEF LoadUser, TypeOK
  <1>8. ASSUME NEW w \in Workers, FindTarget(w) \/ CountAdmins(w) PROVE TypeOK'
    <2>1. req' \in [Workers -> Request]
      BY <1>8, RequestTypes DEF FindTarget, CountAdmins
    <2>2. QED
      BY <1>8, <2>1 DEF FindTarget, CountAdmins, TypeOK
  <1>9. ASSUME NEW w \in Workers, Remove(w) PROVE TypeOK'
    <2>1. req' \in [Workers -> Request]
      BY <1>9, RequestTypes DEF Remove
    <2>2. user' \in [Ids -> Row] /\ unguarded' \in BOOLEAN
      BY <1>9, NothingTypes DEF Remove, TypeOK
    <2>3. QED
      BY <1>9, <2>1, <2>2 DEF Remove, TypeOK
  <1>10. ASSUME NEW w \in Workers, Purge(w) \/ Logout(w) \/ Revoke(w) PROVE TypeOK'
    <2>1. req' \in [Workers -> Request]
      BY <1>10, RequestTypes DEF Purge, Logout, Revoke
    <2>2. session' \in [Tokens -> Session]
      BY <1>10, WithoutType DEF Purge, Logout, Revoke
    <2>3. QED
      BY <1>10, <2>1, <2>2 DEF Purge, Logout, Revoke, TypeOK
  <1>11. ASSUME NEW w \in Workers, ChangePassword(w) \/ Approve(w) \/ SetRole(w) PROVE TypeOK'
    <2>1. req' \in [Workers -> Request]
      BY <1>11, RequestTypes DEF ChangePassword, Approve, SetRole
    <2>2. user' \in [Ids -> Row]
      <3>1. ASSUME NEW i \in Ids, NEW b \in BOOLEAN
            PROVE  /\ [user[i] EXCEPT !.pw = user[i].pw + 1] \in Row
                   /\ [user[i] EXCEPT !.state = "approved"] \in Row
                   /\ [user[i] EXCEPT !.admin = b] \in Row
        <4>1. user[i] \in Row
          BY DEF TypeOK
        <4>2. QED
          BY <4>1 DEF Row
      <3>2. (req[w].op = "promote") \in BOOLEAN
        OBVIOUS
      <3>3. CASE ChangePassword(w)
        <4>1. req[w].me \in Ids
          BY <3>3 DEF ChangePassword, RequestInv, Fits, TypeOK, Request
        <4>2. CASE user' = [user EXCEPT ![req[w].me] =
                              [user[req[w].me] EXCEPT !.pw = user[req[w].me].pw + 1]]
          BY <3>1, <4>1, <4>2 DEF TypeOK
        <4>3. QED
          BY <3>3, <4>2 DEF ChangePassword, TypeOK
      <3>4. CASE Approve(w)
        BY <3>1, <3>4 DEF Approve, TypeOK
      <3>5. CASE SetRole(w)
        BY <3>1, <3>2, <3>5 DEF SetRole, TypeOK
      <3>6. QED
        BY <1>11, <3>3, <3>4, <3>5
    <2>3. unguarded' \in BOOLEAN
      BY <1>11 DEF ChangePassword, Approve, SetRole, TypeOK
    <2>4. QED
      BY <1>11, <2>1, <2>2, <2>3 DEF ChangePassword, Approve, SetRole, TypeOK
  <1>12. ASSUME NEW t \in Tokens, Expire(t) PROVE TypeOK'
    <2>1. [session[t] EXCEPT !.expired = TRUE] \in Session
      BY DEF TypeOK, Session
    <2>2. QED
      BY <1>12, <2>1 DEF Expire, TypeOK
  <1>13. CASE Janitor
    BY <1>13, WithoutType DEF Janitor, TypeOK
  <1>14. ASSUME NEW some \in SUBSET Workers, Fail(some) PROVE TypeOK'
    BY <1>14, NothingTypes DEF Fail, TypeOK
  <1>15. CASE UNCHANGED vars
    BY <1>15 DEF vars, TypeOK
  <1>16. QED
    BY <1>2, <1>3, <1>4, <1>5, <1>6, <1>7, <1>8, <1>9, <1>10, <1>11, <1>12, <1>13, <1>14, <1>15
    DEF Next, Step
-----------------------------------------------------------------------------
(* What steps do to requests, rows and sessions *)

(* Two states of a request that differ in the place at most. *)
SameFields(r, q) ==
    /\ r.op = q.op /\ r.me = q.me /\ r.target = q.target /\ r.token = q.token
    /\ r.name = q.name /\ r.ver = q.ver /\ r.admin = q.admin /\ r.approved = q.approved

(* A request is answered, goes on, or enters; the others stay. *)
LEMMA Moves ==
    ASSUME TypeOK, NEW w \in Workers
    PROVE  /\ Answer(w) => req'[w] = Idle /\ \A v \in Workers : v # w => req'[v] = req[v]
           /\ \A pc : Goto(w, pc) => /\ req'[w].pc = pc /\ SameFields(req'[w], req[w])
                                    /\ \A v \in Workers : v # w => req'[v] = req[v]
           /\ \A r : Enter(w, r) => /\ req'[w] = r /\ req[w].pc = "idle"
                                   /\ \A v \in Workers : v # w => req'[v] = req[v]
  <1>1. req[w] \in Request /\ req \in [Workers -> Request]
    BY DEF TypeOK
  <1>2. ASSUME NEW pc, Goto(w, pc)
        PROVE  /\ req'[w].pc = pc /\ SameFields(req'[w], req[w])
               /\ \A v \in Workers : v # w => req'[v] = req[v]
    <2>1. req'[w] = [req[w] EXCEPT !.pc = pc]
      BY <1>1, <1>2 DEF Goto
    <2>2. QED
      BY <1>1, <1>2, <2>1 DEF Goto, SameFields, Request
  <1>3. QED
    BY <1>1, <1>2 DEF Answer, Enter

(* A row keeps its account, is gone, or is that of a new account.          *)
SameAccount(i) ==
    user'[i].name = user[i].name /\ (user[i].state = "approved" => user'[i].state = "approved")
Kept(i) == Present(i) /\ user'[i].state # "absent" /\ SameAccount(i)
Gone(i) == user'[i] = NoRow
New(i) == ~Present(i) /\ lastId < i /\ i = lastId' /\ user'[i].state # "absent"

LEMMA Rows ==
    ASSUME TypeOK, NumbersInv, RequestInv, [Next]_vars, NEW i \in Ids
    PROVE  /\ lastId <= lastId'
           /\ Kept(i) \/ Gone(i) \/ New(i)
  <1> USE DEF tables
  <1>0. /\ lastId \in Nat /\ user \in [Ids -> Row] /\ i \in Nat /\ user[i] \in Row
        /\ Present(i) => i <= lastId
    BY DEF TypeOK, Ids, NumbersInv
  <1>1. ASSUME UNCHANGED lastId, user'[i] = user[i] PROVE lastId <= lastId' /\ (Kept(i) \/ Gone(i))
    <2>1. CASE Present(i)
      BY <1>0, <1>1, <2>1 DEF Present, Kept, SameAccount
    <2>2. CASE ~Present(i)
      BY <1>0, <1>1, <2>2 DEF Gone, NumbersInv
    <2>3. QED
      BY <2>1, <2>2
  <1>2. ASSUME NEW w \in Workers, Insert(w)
        PROVE  lastId <= lastId' /\ (Kept(i) \/ Gone(i) \/ New(i))
    <2> DEFINE row == [state |-> IF req[w].approved THEN "approved" ELSE "pending",
                       name |-> req[w].name, admin |-> req[w].admin, pw |-> 0]
    <2>1. CASE UNCHANGED <<user, lastId>>
      BY <1>1, <2>1
    <2>2. row.state # "absent"
      OBVIOUS
    <2> HIDE DEF row
    <2>3. CASE lastId' = lastId + 1 /\ lastId' \in Ids /\ user' = [user EXCEPT ![lastId'] = row]
      <3>1. CASE i = lastId'
        BY <1>0, <2>2, <2>3, <3>1 DEF New
      <3>2. CASE i # lastId'
        <4>1. user'[i] = user[i] /\ lastId <= lastId'
          BY <1>0, <2>3, <3>2
        <4>2. CASE Present(i)
          BY <4>1, <4>2 DEF Present, Kept, SameAccount
        <4>3. CASE ~Present(i)
          BY <4>1, <4>3 DEF Gone, NumbersInv
        <4>4. QED
          BY <4>1, <4>2, <4>3
      <3>3. QED
        BY <3>1, <3>2, <1>0, <2>3
    <2>4. QED
      BY <1>2, <2>1, <2>3 DEF Insert, NewId, row
  <1>3. ASSUME NEW w \in Workers, Remove(w)
        PROVE  lastId <= lastId' /\ (Kept(i) \/ Gone(i))
    <2>1. CASE UNCHANGED <<user, lastId>>
      BY <1>1, <2>1
    <2>2. CASE UNCHANGED lastId /\ user' = [user EXCEPT ![req[w].target] = NoRow]
      <3>1. CASE i = req[w].target
        BY <1>0, <2>2, <3>1 DEF Gone
      <3>2. CASE i # req[w].target
        BY <1>0, <1>1, <2>2, <3>2
      <3>3. QED
        BY <3>1, <3>2
    <2>3. QED
      BY <1>3, <2>1, <2>2 DEF Remove
  <1>4. ASSUME NEW w \in Workers, ChangePassword(w) \/ Approve(w) \/ SetRole(w)
        PROVE  lastId <= lastId' /\ (Kept(i) \/ Gone(i))
    <2>1. ASSUME NEW j \in Ids, Present(j), NEW row, user' = [user EXCEPT ![j] = row],
                 row.name = user[j].name, row.state \in {user[j].state, "approved"},
                 UNCHANGED lastId
          PROVE  lastId <= lastId' /\ (Kept(i) \/ Gone(i))
      <3>1. CASE i = j
        BY <1>0, <2>1, <3>1 DEF Present, Kept, SameAccount
      <3>2. CASE i # j
        BY <1>0, <1>1, <2>1, <3>2
      <3>3. QED
        BY <3>1, <3>2
    <2>2. ASSUME NEW j \in Ids
          PROVE  user[j] \in [state : {"absent", "pending", "approved"}, name : Names \cup {NoName},
                              admin : BOOLEAN, pw : Nat]
      BY DEF TypeOK, Row
    <2>3. CASE ChangePassword(w)
      <3>1. req[w].me \in Ids
        BY <2>3 DEF ChangePassword, RequestInv, Fits, TypeOK, Request
      <3>2. CASE Present(req[w].me)
        <4> DEFINE row == [user[req[w].me] EXCEPT !.pw = @ + 1]
        <4>1. row.name = user[req[w].me].name /\ row.state = user[req[w].me].state
          BY <2>2, <3>1
        <4>2. user' = [user EXCEPT ![req[w].me] = row] /\ UNCHANGED lastId
          BY <2>3, <3>2 DEF ChangePassword
        <4> HIDE DEF row
        <4>3. QED
          BY <2>1, <3>1, <3>2, <4>1, <4>2
      <3>3. QED
        BY <1>1, <2>3, <3>2 DEF ChangePassword
    <2>4. CASE Approve(w)
      <3>1. req[w].target \in Ids
        BY <2>4 DEF Approve, RequestInv, Fits, TypeOK, Request
      <3>2. CASE Present(req[w].target)
        <4> DEFINE row == [user[req[w].target] EXCEPT !.state = "approved"]
        <4>1. row.name = user[req[w].target].name /\ row.state = "approved"
          BY <2>2, <3>1
        <4>2. user' = [user EXCEPT ![req[w].target] = row] /\ UNCHANGED lastId
          BY <2>4, <3>2 DEF Approve
        <4> HIDE DEF row
        <4>3. QED
          BY <2>1, <3>1, <3>2, <4>1, <4>2
      <3>3. QED
        BY <1>1, <2>4, <3>2 DEF Approve
    <2>5. CASE SetRole(w)
      <3>1. req[w].target \in Ids
        BY <2>5 DEF SetRole, RequestInv, Fits, TypeOK, Request
      <3>2. CASE Present(req[w].target)
        <4> DEFINE row == [user[req[w].target] EXCEPT !.admin = (req[w].op = "promote")]
        <4>1. row.name = user[req[w].target].name /\ row.state = user[req[w].target].state
          BY <2>2, <3>1
        <4>2. user' = [user EXCEPT ![req[w].target] = row] /\ UNCHANGED lastId
          BY <2>5, <3>2 DEF SetRole
        <4> HIDE DEF row
        <4>3. QED
          BY <2>1, <3>1, <3>2, <4>1, <4>2
      <3>3. QED
        BY <1>1, <2>5, <3>2 DEF SetRole
    <2>6. QED
      BY <1>4, <2>3, <2>4, <2>5
  <1>5. ASSUME UNCHANGED <<user, lastId>> PROVE lastId <= lastId' /\ (Kept(i) \/ Gone(i))
    BY <1>1, <1>5
  <1>6. QED
    BY <1>2, <1>3, <1>4, <1>5
    DEF Next, Step, Register, Login, Authenticate, OpenSession, LoadUser, FindTarget,
        CountAdmins, Purge, Logout, Revoke, Expire, Janitor, Fail, vars

(* A session that is there was there before, or is the one that a login    *)
(* has just opened.                                                        *)
SameSession(t) ==
    /\ session'[t].user = session[t].user /\ session'[t].name = session[t].name
    /\ session'[t].ver = session[t].ver /\ session'[t].late = session[t].late

Opened(t, w) ==
    LET s == session'[t]
    IN  /\ req[w].pc = "open" /\ UNCHANGED user /\ t = lastToken'
        /\ s.user = req[w].me /\ s.name = req[w].name /\ s.ver = req[w].ver
        /\ s.late = ~(Present(s.user) /\ user[s.user].pw = s.ver)

LEMMA Sessions ==
    ASSUME TypeOK, TypeOK', [Next]_vars, NEW t \in Tokens, Live(t)'
    PROVE  /\ lastToken <= lastToken'
           /\ \/ Live(t) /\ SameSession(t)
              \/ \E w \in Workers : Opened(t, w)
  <1> USE DEF tables
  <1>0. session \in [Tokens -> Session] /\ lastToken \in Nat
    BY DEF TypeOK
  <1>1. ASSUME NEW w \in Workers, OpenSession(w)
        PROVE  lastToken <= lastToken' /\ ((Live(t) /\ SameSession(t)) \/ Opened(t, w))
    BY <1>0, <1>1 DEF OpenSession, Opened, SameSession, Live
  <1>2. ASSUME NEW dead, session' = Without(dead), UNCHANGED lastToken
        PROVE  lastToken <= lastToken' /\ Live(t) /\ SameSession(t)
    <2>1. session'[t] = IF t \in dead THEN NoSession ELSE session[t]
      BY <1>2 DEF Without
    <2>2. session'[t] = session[t]
      BY <2>1 DEF NoSession, Live
    <2>3. QED
      BY <1>0, <1>2, <2>2 DEF Live, SameSession
  <1>3. ASSUME NEW x \in Tokens, Expire(x)
        PROVE  lastToken <= lastToken' /\ Live(t) /\ SameSession(t)
    <2>1. session'[t] = session[t] \/ session'[t] = [session[t] EXCEPT !.expired = TRUE]
      BY <1>0, <1>3 DEF Expire
    <2>2. session[t] \in Session
      BY <1>0
    <2>3. QED
      BY <1>0, <1>3, <2>1, <2>2 DEF Expire, Live, SameSession, Session
  <1>4. CASE UNCHANGED <<session, lastToken>>
    BY <1>0, <1>4 DEF Live, SameSession
  <1>5. QED
    BY <1>1, <1>2, <1>3, <1>4
    DEF Next, Step, Register, Login, Authenticate, Insert, LoadUser, FindTarget, CountAdmins,
        Remove, Purge, Logout, ChangePassword, Revoke, Approve, SetRole, Janitor, Fail, vars

(* Where a request is after a step: where it was, at the end, further on,  *)
(* or at its beginning.                                                    *)
EntersNew(q) ==
    /\ q.pc = "insert" /\ q.me = NoId
    /\ UNCHANGED tables /\ (~q.admin => \E i \in Ids : Present(i))
EntersLogin(q) ==
    UNCHANGED tables /\ q.pc = "open" /\ \E i \in Ids : MayLogin(i) /\ q.me = i /\ q.name = user[i].name
EntersAs(q) ==
    q.pc = "user" /\ \E t \in Tokens : Live(t) /\ q.me = session[t].user
Advances(r, q) == q.pc \notin {"insert", "open", "user"} /\ SameFields(q, r)

LEMMA Requests ==
    ASSUME TypeOK, RequestInv, [Next]_vars, NEW w \in Workers
    PROVE  \/ req'[w] = req[w] \/ req'[w] = Idle \/ Advances(req[w], req'[w])
           \/ EntersNew(req'[w])
           \/ EntersLogin(req'[w]) \/ EntersAs(req'[w])
  <1> DEFINE Goal == \/ req'[w] = req[w] \/ req'[w] = Idle \/ Advances(req[w], req'[w])
                     \/ EntersNew(req'[w])
                     \/ EntersLogin(req'[w]) \/ EntersAs(req'[w])
  <1>1. ASSUME NEW v \in Workers, Answer(v) PROVE Goal
    BY <1>1, Moves
  <1>2. ASSUME NEW v \in Workers, NEW pc, pc \notin {"insert", "open", "user"}, Goto(v, pc) PROVE Goal
    BY <1>2, Moves DEF Advances
  <1>3. ASSUME NEW v \in Workers, NEW n, NEW mode, Register(v, n, mode) PROVE Goal
    <2> DEFINE first == \A i \in Ids : ~Present(i)
               r == [Idle EXCEPT !.pc = "insert", !.name = n, !.admin = first,
                                 !.approved = first \/ mode # "approval"]
    <2>1. r.pc = "insert" /\ r.me = NoId /\ r.admin = first
      BY DEF Idle
    <2> HIDE DEF r
    <2>2. Enter(v, r) /\ UNCHANGED tables
      BY <1>3 DEF Register, r
    <2>3. QED
      BY <2>1, <2>2, Moves DEF EntersNew
  <1>4. ASSUME NEW v \in Workers, NEW i \in Ids, Login(v, i) PROVE Goal
    <2> DEFINE r == [Idle EXCEPT !.pc = "open", !.me = i, !.name = user[i].name, !.ver = user[i].pw]
    <2>1. r.pc = "open" /\ r.me = i /\ r.name = user[i].name
      BY DEF Idle
    <2> HIDE DEF r
    <2>2. Enter(v, r)
      BY <1>4 DEF Login, r
    <2>3. QED
      BY <1>4, <2>1, <2>2, Moves DEF Login, EntersLogin
  <1>5. ASSUME NEW v \in Workers, NEW t \in Tokens, NEW op \in Ops, NEW i \in Ids, Authenticate(v, t, op, i)
        PROVE  Goal
    <2>1. PICK r : Enter(v, r) /\ r.pc = "user" /\ r.me = session[t].user
      <3> DEFINE target == CASE op = "leave" -> session[t].user
                             [] op \in AdminOps -> i
                             [] OTHER -> NoId
                 token == IF op \in {"leave", "logout"} THEN t ELSE 0
                 q == [Idle EXCEPT !.pc = "user", !.op = op, !.me = session[t].user, !.token = token,
                                   !.target = target]
      <3>1. q.pc = "user" /\ q.me = session[t].user
        BY DEF Idle
      <3>2. Enter(v, q)
        BY <1>5 DEF Authenticate
      <3> HIDE DEF q
      <3>3. QED
        BY <3>1, <3>2
    <2>2. QED
      BY <1>5, <2>1, Moves DEF Authenticate, EntersAs
  <1>6. ASSUME NEW v \in Workers, LoadUser(v) PROVE Goal
    <2>1. FirstStep(req[v].op) \notin {"insert", "open", "user"}
      BY <1>6, FirstStepType DEF LoadUser, RequestInv, Fits
    <2>2. QED
      BY <1>1, <1>2, <1>6, <2>1 DEF LoadUser
  <1>7. ASSUME NEW v \in Workers,
               \/ Insert(v) \/ OpenSession(v) \/ Logout(v) \/ Revoke(v) \/ Approve(v) \/ SetRole(v)
        PROVE  Goal
    BY <1>1, <1>7 DEF Insert, OpenSession, Logout, Revoke, Approve, SetRole
  <1>8. ASSUME NEW v \in Workers,
               \/ FindTarget(v) \/ CountAdmins(v) \/ Remove(v) \/ Purge(v) \/ ChangePassword(v)
        PROVE  Goal
    <2>1. ASSUME NEW pc \in {"count", "remove", "purge", "logout", "revoke"}, Goto(v, pc) PROVE Goal
      BY <1>2, <2>1
    <2>2. Answer(v) \/ \E pc \in {"count", "remove", "purge", "logout", "revoke"} : Goto(v, pc)
      BY <1>8 DEF FindTarget, CountAdmins, Remove, Purge, ChangePassword
    <2>3. QED
      BY <1>1, <2>1, <2>2
  <1>9. ASSUME NEW some \in SUBSET Workers, Fail(some) PROVE Goal
    BY <1>9 DEF Fail
  <1>10. CASE UNCHANGED req
    BY <1>10
  <1>11. QED
    BY <1>3, <1>4, <1>5, <1>6, <1>7, <1>8, <1>9, <1>10 DEF Next, Step, Expire, Janitor, vars

-----------------------------------------------------------------------------
(* Numbers and owners *)

LEMMA NumbersGrow == TypeOK /\ [Next]_vars => lastId <= lastId'
  <1> SUFFICES ASSUME TypeOK, [Next]_vars PROVE lastId <= lastId'
    OBVIOUS
  <1>1. ASSUME NEW w \in Workers, Insert(w) PROVE lastId <= lastId'
    BY <1>1 DEF Insert, NewId, TypeOK
  <1>2. (\E w \in Workers : Insert(w)) \/ lastId' = lastId
    BY DEF Next, Step, Register, Login, Authenticate, OpenSession, LoadUser,
      FindTarget, CountAdmins, Remove, Purge, Logout, ChangePassword, Revoke, Approve, SetRole,
      Expire, Janitor, Fail, vars, tables
  <1>3. QED
    BY <1>1, <1>2 DEF TypeOK

LEMMA NumbersStep ==
    TypeOK /\ TypeOK' /\ RequestInv /\ NumbersInv /\ [Next]_vars => NumbersInv'
  <1> SUFFICES ASSUME TypeOK, TypeOK', RequestInv, NumbersInv, [Next]_vars PROVE NumbersInv'
    OBVIOUS
  <1>0. lastId \in Nat /\ lastId' \in Nat /\ lastToken \in Nat /\ lastToken' \in Nat
    BY DEF TypeOK
  <1>1. ASSUME NEW i \in Ids
        PROVE  IF user'[i].state # "absent" THEN i <= lastId' ELSE user'[i] = NoRow
    <2>1. lastId <= lastId' /\ (Kept(i) \/ Gone(i) \/ New(i))
      BY Rows
    <2>2. i \in Nat /\ (Present(i) => i <= lastId)
      BY DEF NumbersInv, Ids
    <2>3. QED
      BY <1>0, <2>1, <2>2 DEF Kept, Gone, New, NoRow
  <1>2. lastId <= lastId'
    BY NumbersGrow
  <1>3. ASSUME NEW t \in Tokens, Live(t)' PROVE t <= lastToken' /\ session'[t].user <= lastId'
    <2>1. lastToken <= lastToken' /\ ((Live(t) /\ SameSession(t)) \/ \E w \in Workers : Opened(t, w))
      BY <1>3, Sessions
    <2>2. t \in Nat /\ session[t].user \in Nat /\ \A w \in Workers : req[w].me \in Nat
      BY DEF TypeOK, Tokens, Session, Request, Ids, NoId
    <2>3. CASE Live(t) /\ SameSession(t)
      BY <1>0, <1>2, <2>1, <2>2, <2>3 DEF NumbersInv, SameSession
    <2>4. CASE \E w \in Workers : Opened(t, w)
      BY <1>0, <1>2, <2>1, <2>2, <2>4 DEF NumbersInv, Opened
    <2>5. QED
      BY <2>1, <2>3, <2>4
  <1>4. ASSUME NEW w \in Workers PROVE req'[w].me <= lastId'
    <2>1. req[w].me \in Nat /\ req[w].me <= lastId /\ Idle.me = 0
      BY DEF TypeOK, Request, Ids, NoId, NumbersInv, Idle
    <2>2. CASE req'[w] = req[w] \/ req'[w] = Idle \/ Advances(req[w], req'[w]) \/ EntersNew(req'[w])
      BY <1>0, <1>2, <2>1, <2>2 DEF Advances, SameFields, EntersNew, NoId
    <2>3. CASE EntersLogin(req'[w])
      <3>1. PICK i \in Ids : MayLogin(i) /\ req'[w].me = i
        BY <2>3 DEF EntersLogin
      <3>2. i <= lastId
        BY <3>1 DEF MayLogin, Present, NumbersInv
      <3>3. QED
        BY <1>0, <1>2, <3>1, <3>2 DEF Ids
    <2>4. CASE EntersAs(req'[w])
      <3>1. PICK t \in Tokens : Live(t) /\ req'[w].me = session[t].user
        BY <2>4 DEF EntersAs
      <3>2. session[t].user <= lastId /\ session[t].user \in Nat
        BY <3>1 DEF NumbersInv, TypeOK, Session, Ids, NoId
      <3>3. QED
        BY <1>0, <1>2, <3>1, <3>2
    <2>5. QED
      BY <2>2, <2>3, <2>4, Requests
  <1>5. QED
    BY <1>1, <1>3, <1>4 DEF NumbersInv, Present, Live

(* Who is entitled stays so: no other account ever has this id. *)
LEMMA StaysEntitled ==
    ASSUME TypeOK, RequestInv, NumbersInv, [Next]_vars, NEW i \in Ids, NEW n,
           i <= lastId, Entitled(i, n)
    PROVE  user'[i].state # "absent" => user'[i].name = n /\ user'[i].state = "approved"
  <1>1. Kept(i) \/ Gone(i)
    <2>1. ~New(i)
      BY DEF New, TypeOK, Ids
    <2>2. QED
      BY <2>1, Rows
  <1>2. CASE Kept(i)
    BY <1>2 DEF Kept, SameAccount, Entitled
  <1>3. CASE Gone(i)
    BY <1>3 DEF Gone, NoRow
  <1>4. QED
    BY <1>1, <1>2, <1>3

LEMMA OwnerStep ==
    TypeOK /\ TypeOK' /\ RequestInv /\ NumbersInv /\ OwnerInv /\ [Next]_vars => OwnerInv'
  <1> SUFFICES ASSUME TypeOK, TypeOK', RequestInv, NumbersInv, OwnerInv, [Next]_vars PROVE OwnerInv'
    OBVIOUS
  <1>1. ASSUME NEW t \in Tokens, Live(t)' PROVE Entitled(session[t].user, session[t].name)'
    <2>1. CASE Live(t) /\ SameSession(t)
      <3>1. /\ session[t].user \in Ids /\ session[t].user <= lastId
            /\ Entitled(session[t].user, session[t].name)
        BY <2>1 DEF TypeOK, Session, Live, NumbersInv, OwnerInv
      <3>2. user'[session[t].user].state # "absent"
            => user'[session[t].user].name = session[t].name
               /\ user'[session[t].user].state = "approved"
        BY <3>1, StaysEntitled
      <3>3. QED
        BY <2>1, <3>2 DEF SameSession, Entitled, Present
    <2>2. CASE \E w \in Workers : Opened(t, w)
      BY <2>2 DEF Opened, OwnerInv, Entitled, Present
    <2>3. QED
      BY <1>1, <2>1, <2>2, Sessions
  <1>2. ASSUME NEW w \in Workers, req'[w].pc = "open"
        PROVE  req'[w].me # NoId /\ Entitled(req[w].me, req[w].name)'
    <2>1. CASE req'[w] = req[w]
      <3>1. /\ req[w].me \in Ids /\ req[w].me # NoId /\ req[w].me <= lastId
            /\ Entitled(req[w].me, req[w].name)
        BY <1>2, <2>1 DEF TypeOK, Request, NumbersInv, OwnerInv
      <3>2. user'[req[w].me].state # "absent"
            => user'[req[w].me].name = req[w].name /\ user'[req[w].me].state = "approved"
        BY <3>1, StaysEntitled
      <3>3. QED
        BY <2>1, <3>1, <3>2 DEF Entitled, Present
    <2>2. CASE EntersLogin(req'[w])
      BY <2>2 DEF EntersLogin, MayLogin, Entitled, Present, Ids, NoId, tables
    <2>3. QED
      <3>1. Idle.pc # "open"
        BY DEF Idle
      <3>2. QED
        BY <1>2, <2>1, <2>2, <3>1, Requests DEF Advances, EntersNew, EntersAs
  <1>3. QED
    BY <1>1, <1>2 DEF OwnerInv, Live

-----------------------------------------------------------------------------
(* Requests *)

LEMMA RequestStep == TypeOK /\ RequestInv /\ [Next]_vars => RequestInv'
  <1> SUFFICES ASSUME TypeOK, RequestInv, [Next]_vars, NEW w \in Workers PROVE Fits(req'[w])
    BY DEF RequestInv
  <1> USE DEF Fits
  <1>0. Fits(Idle) /\ Fits(req[w])
    BY DEF Idle, RequestInv
  <1>1. ASSUME NEW v \in Workers, Answer(v) PROVE Fits(req'[w])
    BY <1>0, <1>1, Moves
  <1>2. ASSUME NEW v \in Workers, NEW r, Fits(r), Enter(v, r) PROVE Fits(req'[w])
    <2>1. req'[w] = req[w] \/ req'[w] = r
      BY <1>2, Moves
    <2>2. QED
      BY <1>0, <1>2, <2>1
  <1>3. ASSUME NEW v \in Workers, NEW pc, Goto(v, pc),
               \A q : q.pc = pc /\ SameFields(q, req[v]) => Fits(q)
        PROVE  Fits(req'[w])
    <2>1. req'[w] = req[w] \/ (req'[w].pc = pc /\ SameFields(req'[w], req[v]))
      BY <1>3, Moves
    <2>2. QED
      BY <1>0, <1>3, <2>1
  <1>4. ASSUME NEW v \in Workers, NEW n, NEW mode, Register(v, n, mode) PROVE Fits(req'[w])
    <2> DEFINE first == \A i \in Ids : ~Present(i)
               r == [Idle EXCEPT !.pc = "insert", !.name = n, !.admin = first,
                                 !.approved = first \/ mode # "approval"]
    <2>1. Fits(r)
      BY DEF Idle
    <2> HIDE DEF r
    <2>2. Enter(v, r)
      BY <1>4 DEF Register, r
    <2>3. QED
      BY <1>2, <2>1, <2>2
  <1>5. ASSUME NEW v \in Workers, NEW i \in Ids, Login(v, i) PROVE Fits(req'[w])
    <2> DEFINE r == [Idle EXCEPT !.pc = "open", !.me = i, !.name = user[i].name, !.ver = user[i].pw]
    <2>1. Fits(r)
      BY DEF Idle
    <2> HIDE DEF r
    <2>2. Enter(v, r)
      BY <1>5 DEF Login, r
    <2>3. QED
      BY <1>2, <2>1, <2>2
  <1>6. ASSUME NEW v \in Workers, NEW t \in Tokens, NEW op \in Ops, NEW i \in Ids, Authenticate(v, t, op, i)
        PROVE  Fits(req'[w])
    <2> DEFINE target == CASE op = "leave" -> session[t].user
                           [] op \in AdminOps -> i
                           [] OTHER -> NoId
               token == IF op \in {"leave", "logout"} THEN t ELSE 0
               q == [Idle EXCEPT !.pc = "user", !.op = op, !.me = session[t].user, !.token = token,
                                 !.target = target]
    <2>1. /\ op \in AdminOps => target # NoId
          /\ op = "leave" => target = session[t].user
      BY DEF AdminOps, Ids, NoId
    <2>2. session[t].user # NoId
      BY <1>6 DEF Authenticate, Live
    <2> HIDE DEF target, token
    <2>3. q.pc = "user" /\ q.op = op /\ q.me = session[t].user /\ q.target = target
      BY DEF Idle
    <2>4. Fits(q)
      BY <2>1, <2>2, <2>3
    <2>5. Enter(v, q)
      BY <1>6 DEF Authenticate, target, token
    <2> HIDE DEF q
    <2>6. QED
      BY <1>2, <2>4, <2>5
  <1>7. ASSUME NEW v \in Workers, LoadUser(v) PROVE Fits(req'[w])
    <2>1. req[v].pc = "user" /\ req[v].op \in Ops /\ req[v].me # NoId
          /\ (req[v].op \in AdminOps => req[v].target # NoId)
          /\ (req[v].op = "leave" => req[v].target = req[v].me)
      BY <1>7 DEF LoadUser, RequestInv
    <2>2. \A q : q.pc = FirstStep(req[v].op) /\ SameFields(q, req[v]) => Fits(q)
      BY <2>1 DEF FirstStep, SameFields, Ops, AdminOps
    <2>3. QED
      BY <1>1, <1>3, <1>7, <2>2 DEF LoadUser
  <1>8. ASSUME NEW v \in Workers,
               \/ FindTarget(v) \/ CountAdmins(v) \/ Remove(v) \/ Purge(v) \/ ChangePassword(v)
        PROVE  Fits(req'[w])
    <2>1. Fits(req[v])
      BY DEF RequestInv
    <2>2. ASSUME NEW pc \in {"count", "remove"}, req[v].pc \in {"target", "count"}, Goto(v, pc)
          PROVE  Fits(req'[w])
      <3>1. \A q : q.pc = pc /\ SameFields(q, req[v]) => Fits(q)
        BY <2>1, <2>2 DEF SameFields
      <3>2. QED
        BY <1>3, <2>2, <3>1
    <2>3. ASSUME req[v].pc = "remove", Goto(v, "purge") PROVE Fits(req'[w])
      <3>1. \A q : q.pc = "purge" /\ SameFields(q, req[v]) => Fits(q)
        BY <2>1, <2>3 DEF SameFields
      <3>2. QED
        BY <1>3, <2>3, <3>1
    <2>4. ASSUME Goto(v, "logout") PROVE Fits(req'[w])
      BY <1>3, <2>4
    <2>5. ASSUME req[v].pc = "password", Goto(v, "revoke") PROVE Fits(req'[w])
      <3>1. \A q : q.pc = "revoke" /\ SameFields(q, req[v]) => Fits(q)
        BY <2>1, <2>5 DEF SameFields
      <3>2. QED
        BY <1>3, <2>5, <3>1
    <2>6. \/ Answer(v) \/ Goto(v, "logout")
          \/ req[v].pc \in {"target", "count"} /\ (Goto(v, "count") \/ Goto(v, "remove"))
          \/ req[v].pc = "remove" /\ Goto(v, "purge")
          \/ req[v].pc = "password" /\ Goto(v, "revoke")
      BY <1>8 DEF FindTarget, CountAdmins, Remove, Purge, ChangePassword
    <2>7. QED
      BY <1>1, <2>2, <2>3, <2>4, <2>5, <2>6
  <1>9. ASSUME NEW v \in Workers,
               \/ Insert(v) \/ OpenSession(v) \/ Logout(v) \/ Revoke(v) \/ Approve(v) \/ SetRole(v)
        PROVE  Fits(req'[w])
    BY <1>1, <1>9 DEF Insert, OpenSession, Logout, Revoke, Approve, SetRole
  <1>10. ASSUME NEW some \in SUBSET Workers, Fail(some) PROVE Fits(req'[w])
    <2>1. req'[w] = Idle \/ req'[w] = req[w]
      BY <1>10 DEF Fail
    <2>2. QED
      BY <1>0, <2>1
  <1>11. ASSUME UNCHANGED req PROVE Fits(req'[w])
    BY <1>0, <1>11
  <1>12. QED
    BY <1>4, <1>5, <1>6, <1>7, <1>8, <1>9, <1>10, <1>11 DEF Next, Step, Expire, Janitor, vars

-----------------------------------------------------------------------------
(* The end of sessions *)

(* While nothing fails, what ends the sessions of an account goes on until *)
(* they are gone.                                                          *)
EndingThen(i) == \E w \in Workers : \/ req'[w].pc = "revoke" /\ req'[w].me = i
                                    \/ req'[w].pc = "purge" /\ req'[w].target = i

LEMMA PasswordStep ==
    ASSUME TypeOK, RequestInv, NumbersInv, [Next]_vars, NEW i \in Ids, Present(i)
    PROVE  \/ user'[i].state # "absent" /\ user'[i].pw = user[i].pw
           \/ EndingThen(i)
  <1> DEFINE Goal == (user'[i].state # "absent" /\ user'[i].pw = user[i].pw) \/ EndingThen(i)
  <1>0. user \in [Ids -> Row] /\ i \in Nat /\ lastId \in Nat /\ i <= lastId
        /\ \A j \in Ids : user[j] \in [state : {"absent", "pending", "approved"},
                                       name : Names \cup {NoName}, admin : BOOLEAN, pw : Nat]
    BY DEF TypeOK, NumbersInv, Ids, Row
  <1>1. CASE user'[i] = user[i]
    BY <1>1 DEF Present
  <1>2. ASSUME NEW w \in Workers, Insert(w) PROVE Goal
    <2>1. UNCHANGED user \/ \E row : user' = [user EXCEPT ![lastId + 1] = row]
      BY <1>2 DEF Insert, NewId
    <2>2. user'[i] = user[i]
      BY <1>0, <2>1
    <2>3. QED
      BY <1>1, <2>2
  <1>3. ASSUME NEW w \in Workers, Remove(w) PROVE Goal
    <2>1. CASE i # req[w].target
      BY <1>0, <1>1, <1>3, <2>1 DEF Remove
    <2>2. CASE i = req[w].target
      BY <1>3, <2>2, Moves DEF Remove, EndingThen, SameFields
    <2>3. QED
      BY <2>1, <2>2
  <1>4. ASSUME NEW w \in Workers, ChangePassword(w) PROVE Goal
    <2>1. CASE i # req[w].me
      BY <1>0, <1>1, <1>4, <2>1 DEF ChangePassword
    <2>2. CASE i = req[w].me
      BY <1>4, <2>2, Moves DEF ChangePassword, EndingThen, SameFields
    <2>3. QED
      BY <2>1, <2>2
  <1>5. ASSUME NEW w \in Workers, Approve(w) \/ SetRole(w) PROVE Goal
    <2>1. \/ user'[i] = user[i]
          \/ user'[i] = [user[i] EXCEPT !.state = "approved"]
          \/ user'[i] = [user[i] EXCEPT !.admin = (req[w].op = "promote")]
      BY <1>0, <1>5 DEF Approve, SetRole
    <2>2. QED
      BY <1>0, <2>1 DEF Present
  <1>6. ASSUME UNCHANGED user PROVE Goal
    BY <1>1, <1>6
  <1>7. QED
    BY <1>2, <1>3, <1>4, <1>5, <1>6
    DEF Next, Step, Register, Login, Authenticate, OpenSession, LoadUser, FindTarget,
        CountAdmins, Purge, Logout, Revoke, Expire, Janitor, Fail, vars, tables

LEMMA EndingStep ==
    ASSUME TypeOK, [Next]_vars, NEW i \in Ids, Ending(i), NEW t \in Tokens, session'[t].user = i
    PROVE  EndingThen(i) \/ failures' = failures + 1
  <1>1. PICK w \in Workers : \/ req[w].pc = "revoke" /\ req[w].me = i
                             \/ req[w].pc = "purge" /\ req[w].target = i
    BY DEF Ending
  <1>2. ASSUME req'[w] = req[w] PROVE EndingThen(i)
    BY <1>1, <1>2 DEF EndingThen
  <1>3. ASSUME session' = Without(SessionsOf(i)) PROVE FALSE
    BY <1>3 DEF Without, SessionsOf, NoSession, NoId, Ids
  <1>4. ASSUME NEW v \in Workers, Step(v) PROVE EndingThen(i)
    <2>1. CASE v = w
      BY <1>1, <1>3, <1>4, <2>1
      DEF Step, Insert, OpenSession, LoadUser, FindTarget, CountAdmins, Remove, Purge, Logout,
          ChangePassword, Revoke, Approve, SetRole
    <2>2. CASE v # w
      <3>1. Answer(v) \/ \E pc : Goto(v, pc)
        BY <1>4
        DEF Step, Insert, OpenSession, LoadUser, FindTarget, CountAdmins, Remove, Purge, Logout,
            ChangePassword, Revoke, Approve, SetRole
      <3>2. req'[w] = req[w]
        BY <2>2, <3>1, Moves
      <3>3. QED
        BY <1>2, <3>2
    <2>3. QED
      BY <2>1, <2>2
  <1>5. ASSUME NEW v \in Workers, NEW r, Enter(v, r) PROVE EndingThen(i)
    <2>1. v # w
      BY <1>1, <1>5 DEF Enter
    <2>2. req'[w] = req[w]
      BY <1>5, <2>1, Moves
    <2>3. QED
      BY <1>2, <2>2
  <1>6. QED
    BY <1>2, <1>4, <1>5
    DEF Next, Register, Login, Authenticate, Expire, Janitor, Fail, vars

LEMMA CurrentStep ==
    TypeOK /\ TypeOK' /\ RequestInv /\ NumbersInv /\ SessionsCurrent /\ [Next]_vars => SessionsCurrent'
  <1> SUFFICES ASSUME TypeOK, TypeOK', RequestInv, NumbersInv, SessionsCurrent, [Next]_vars,
                      failures' = 0, NEW t \in Tokens, Live(t)'
               PROVE  \/ session'[t].late
                      \/ user'[session'[t].user].state # "absent"
                         /\ user'[session'[t].user].pw = session'[t].ver
                      \/ EndingThen(session'[t].user)
    BY DEF SessionsCurrent, Present, Ending, EndingThen
  <1>1. failures = 0 /\ failures' # failures + 1
    <2>1. failures' = failures \/ failures' = failures + 1
      BY DEF Next, Step, Register, Login, Authenticate, Insert, OpenSession, LoadUser,
        FindTarget, CountAdmins, Remove, Purge, Logout, ChangePassword, Revoke, Approve, SetRole,
        Expire, Janitor, Fail, vars
    <2>2. QED
      BY <2>1 DEF TypeOK
  <1>2. CASE \E w \in Workers : Opened(t, w)
    BY <1>2 DEF Opened, Present
  <1>3. CASE Live(t) /\ SameSession(t)
    <2>1. /\ session[t].user \in Ids /\ session'[t].user = session[t].user
          /\ session'[t].ver = session[t].ver /\ session'[t].late = session[t].late
      BY <1>3 DEF SameSession, Live, TypeOK, Session
    <2>2. \/ session[t].late \/ Ending(session[t].user)
          \/ Present(session[t].user) /\ user[session[t].user].pw = session[t].ver
      BY <1>1, <1>3 DEF SessionsCurrent
    <2>3. CASE Ending(session[t].user)
      BY <1>1, <2>1, <2>3, EndingStep
    <2>4. CASE Present(session[t].user) /\ user[session[t].user].pw = session[t].ver
      BY <2>1, <2>4, PasswordStep
    <2>5. QED
      BY <2>1, <2>2, <2>3, <2>4
  <1>4. QED
    BY <1>2, <1>3, Sessions

-----------------------------------------------------------------------------
(* Administrators *)

AdminThen(a) == user'[a].state # "absent" /\ user'[a].admin
DeletingThen(v) == req'[v].op \in {"delete", "leave"} /\ req'[v].pc \in {"target", "count", "remove"}

LEMMA AdminsSubset == Admins \subseteq Ids /\ \A a \in Ids : a \in Admins <=> Present(a) /\ user[a].admin
  BY DEF Admins

(* Two administrators at least, or one that is not i. *)
LEMMA AnotherAdmin ==
    ASSUME NEW i, i \in Admins, ~(Cardinality(Admins) <= 1)
    PROVE  \E a \in Admins : a # i
  <1> SUFFICES ASSUME Admins \subseteq {i} PROVE FALSE
    OBVIOUS
  <1>1. Admins = {i}
    OBVIOUS
  <1>2. Cardinality({i}) = 1
    BY FS_Singleton
  <1>3. QED
    BY <1>1, <1>2

(* Administrators remain, except one that a deletion removes. *)
LEMMA AdminsRemain ==
    ASSUME TypeOK, RequestInv, NumbersInv, [Next]_vars, ~unguarded', NEW a \in Admins
    PROVE  \/ AdminThen(a)
           \/ \E w \in Workers : Remove(w) /\ InDeletion(w) /\ a = req[w].target
  <1>0. /\ a \in Ids /\ Present(a) /\ user[a].admin /\ a \in Nat /\ lastId \in Nat /\ a <= lastId
        /\ user \in [Ids -> Row] /\ unguarded' = FALSE
        /\ \A j \in Ids : user[j] \in [state : {"absent", "pending", "approved"},
                                       name : Names \cup {NoName}, admin : BOOLEAN, pw : Nat]
    BY AdminsSubset DEF TypeOK, NumbersInv, Ids, Row
  <1>1. ASSUME user'[a] = user[a] PROVE AdminThen(a)
    BY <1>0, <1>1 DEF Present, AdminThen
  <1>2. ASSUME NEW w \in Workers, Insert(w) PROVE AdminThen(a)
    <2>1. UNCHANGED user \/ \E row : user' = [user EXCEPT ![lastId + 1] = row]
      BY <1>2 DEF Insert, NewId
    <2>2. user'[a] = user[a]
      BY <1>0, <2>1
    <2>3. QED
      BY <1>1, <2>2
  <1>3. ASSUME NEW w \in Workers, Remove(w)
        PROVE  AdminThen(a) \/ (InDeletion(w) /\ a = req[w].target)
    <2>1. CASE a # req[w].target
      BY <1>0, <1>1, <1>3, <2>1 DEF Remove
    <2>2. CASE a = req[w].target
      <3>1. req[w].op \in {"delete", "leave", "reject"} /\ req[w].pc = "remove"
        BY <1>3 DEF Remove, RequestInv, Fits
      <3>2. req[w].op # "reject"
        BY <1>0, <1>3, <2>2 DEF Remove
      <3>3. QED
        BY <2>2, <3>1, <3>2 DEF InDeletion
    <2>3. QED
      BY <2>1, <2>2
  <1>4. ASSUME NEW w \in Workers, ChangePassword(w) \/ Approve(w) PROVE AdminThen(a)
    <2>1. \/ user'[a] = user[a]
          \/ user'[a] = [user[a] EXCEPT !.state = "approved"]
          \/ user'[a] = [user[a] EXCEPT !.pw = user[a].pw + 1]
      BY <1>0, <1>4 DEF ChangePassword, Approve
    <2>2. QED
      BY <1>0, <2>1 DEF Present, AdminThen
  <1>5. ASSUME NEW w \in Workers, SetRole(w) PROVE AdminThen(a)
    <2>1. CASE a # req[w].target
      BY <1>0, <1>1, <1>5, <2>1 DEF SetRole
    <2>2. CASE a = req[w].target
      <3>1. req[w].op = "promote"
        BY <1>0, <1>5, <2>2 DEF SetRole
      <3>2. user' = [user EXCEPT ![a].admin = TRUE]
        BY <1>0, <1>5, <2>2, <3>1 DEF SetRole
      <3>3. user'[a] = [user[a] EXCEPT !.admin = TRUE]
        BY <1>0, <3>2
      <3>4. QED
        BY <1>0, <3>3 DEF Present, AdminThen
    <2>3. QED
      BY <2>1, <2>2
  <1>6. ASSUME UNCHANGED user PROVE AdminThen(a)
    BY <1>1, <1>6
  <1>7. QED
    BY <1>2, <1>3, <1>4, <1>5, <1>6
    DEF Next, Step, Register, Login, Authenticate, OpenSession, LoadUser, FindTarget,
        CountAdmins, Purge, Logout, Revoke, Expire, Janitor, Fail, vars, tables

(* A deletion that is under way stays where it is, or makes its next step. *)
Begins(v) ==
    /\ LoadUser(v) /\ req[v].op \in {"delete", "leave"} /\ \A u \in Workers : ~InDeletion(u)
    /\ req'[v].pc = "target" /\ (req'[v].op = "delete" => req'[v].me \in Ids /\ AdminThen(req'[v].me))
    /\ \A u \in Workers : u # v => req'[u] = req[u]
GoesOn(v) ==
    /\ InDeletion(v) /\ SameFields(req'[v], req[v]) /\ UNCHANGED user
    /\ req'[v].pc = "remove" =>
          \/ Present(req[v].target) /\ ~user[req[v].target].admin
          \/ ~Refused(req[v])

LEMMA Deletions ==
    ASSUME TypeOK, RequestInv, [Next]_vars, ~unguarded', NEW v \in Workers, DeletingThen(v)
    PROVE  (req'[v] = req[v] /\ InDeletion(v)) \/ Begins(v) \/ GoesOn(v)
  <1> DEFINE Goal == (req'[v] = req[v] /\ InDeletion(v)) \/ Begins(v) \/ GoesOn(v)
  <1>0. Idle.pc = "idle" /\ (unguarded' = FALSE)
    BY DEF Idle
  <1>1. ASSUME req'[v] = req[v] PROVE Goal
    BY <1>1 DEF DeletingThen, InDeletion
  <1>2. ASSUME NEW w \in Workers, v # w, \/ Answer(w)
                                         \/ \E pc : Goto(w, pc)
                                         \/ \E r : Enter(w, r)
        PROVE  Goal
    <2>1. req'[v] = req[v]
      BY <1>2, Moves
    <2>2. QED
      BY <1>1, <2>1
  <1>3. ASSUME Answer(v) PROVE FALSE
    BY <1>0, <1>3, Moves DEF DeletingThen
  <1>4. ASSUME NEW pc, pc \notin {"target", "count", "remove"}, Goto(v, pc) PROVE FALSE
    BY <1>4, Moves DEF DeletingThen
  <1>5. ASSUME NEW r, r.pc \notin {"target", "count", "remove"}, Enter(v, r) PROVE FALSE
    BY <1>5, Moves DEF DeletingThen
  <1>6. ASSUME NEW w \in Workers, NEW n, NEW mode, Register(w, n, mode) PROVE Goal
    <2>1. \E r : r.pc = "insert" /\ Enter(w, r)
      BY <1>6 DEF Register, Idle
    <2>2. QED
      BY <1>2, <1>5, <2>1
  <1>7. ASSUME NEW w \in Workers, NEW i \in Ids, Login(w, i) PROVE Goal
    <2>1. \E r : r.pc = "open" /\ Enter(w, r)
      BY <1>7 DEF Login, Idle
    <2>2. QED
      BY <1>2, <1>5, <2>1
  <1>8. ASSUME NEW w \in Workers, NEW t \in Tokens, NEW op \in Ops, NEW i \in Ids, Authenticate(w, t, op, i)
        PROVE  Goal
    <2>1. \E r : r.pc = "user" /\ Enter(w, r)
      BY <1>8 DEF Authenticate, Idle
    <2>2. QED
      BY <1>2, <1>5, <2>1
  <1>9. CASE LoadUser(v)
    <2>1. CASE req[v].op \in {"delete", "leave"} /\ Goto(v, FirstStep(req[v].op))
      <3>1. FirstStep(req[v].op) = "target" /\ req[v].op \in Ops /\ req[v].me \in Ids
        BY <1>9, <2>1 DEF FirstStep, LoadUser, RequestInv, Fits, TypeOK, Request
      <3>2. /\ req'[v].pc = "target" /\ SameFields(req'[v], req[v])
            /\ \A u \in Workers : u # v => req'[u] = req[u]
        BY <2>1, <3>1, Moves
      <3>3. \A u \in Workers : ~InDeletion(u)
        BY <1>0, <1>3, <1>9, <2>1 DEF LoadUser
      <3>4. req[v].op = "delete" => user'[req[v].me].state # "absent" /\ user'[req[v].me].admin
        BY <1>9, <2>1, Moves, <1>3 DEF LoadUser, AdminOps, tables
      <3>5. QED
        BY <1>9, <2>1, <3>1, <3>2, <3>3, <3>4 DEF Begins, SameFields, AdminThen
    <2>2. CASE req[v].op \notin {"delete", "leave"} /\ Goto(v, FirstStep(req[v].op))
      <3>1. SameFields(req'[v], req[v])
        BY <2>2, Moves
      <3>2. QED
        BY <2>2, <3>1 DEF SameFields, DeletingThen
    <2>3. QED
      BY <1>3, <1>9, <2>1, <2>2 DEF LoadUser
  <1>10. CASE FindTarget(v) \/ CountAdmins(v)
    <2>1. InDeletion(v) /\ UNCHANGED user
      BY <1>10 DEF FindTarget, CountAdmins, InDeletion, RequestInv, Fits, tables
    <2>2. CASE Goto(v, "count")
      BY <2>1, <2>2, Moves DEF GoesOn
    <2>3. CASE /\ Goto(v, "remove")
               /\ \/ Present(req[v].target) /\ ~user[req[v].target].admin
                  \/ ~Refused(req[v])
      BY <2>1, <2>3, Moves DEF GoesOn
    <2>4. QED
      BY <1>3, <1>10, <2>2, <2>3 DEF FindTarget, CountAdmins
  <1>11. CASE \/ Insert(v) \/ OpenSession(v) \/ Remove(v) \/ Purge(v) \/ Logout(v)
              \/ ChangePassword(v) \/ Revoke(v) \/ Approve(v) \/ SetRole(v)
    BY <1>3, <1>4, <1>11
    DEF Insert, OpenSession, Remove, Purge, Logout, ChangePassword, Revoke, Approve, SetRole
  <1>12. ASSUME NEW w \in Workers, Step(w), w # v PROVE Goal
    <2>1. Answer(w) \/ \E pc : Goto(w, pc)
      BY <1>12
      DEF Step, Insert, OpenSession, LoadUser, FindTarget, CountAdmins, Remove, Purge, Logout,
          ChangePassword, Revoke, Approve, SetRole
    <2>2. QED
      BY <1>2, <1>12, <2>1
  <1>13. ASSUME NEW some \in SUBSET Workers, Fail(some) PROVE Goal
    <2>1. req'[v] = Idle \/ req'[v] = req[v]
      BY <1>13 DEF Fail
    <2>2. QED
      BY <1>0, <1>1, <2>1 DEF DeletingThen
  <1>14. ASSUME UNCHANGED req PROVE Goal
    BY <1>1, <1>14
  <1>15. ASSUME Step(v) PROVE Goal
    BY <1>9, <1>10, <1>11, <1>15 DEF Step
  <1>16. QED
    BY <1>6, <1>7, <1>8, <1>12, <1>13, <1>14, <1>15 DEF Next, Expire, Janitor, vars

LEMMA AdminStep ==
    TypeOK /\ TypeOK' /\ RequestInv /\ NumbersInv /\ AdminInv /\ [Next]_vars => AdminInv'
  <1> SUFFICES ASSUME TypeOK, TypeOK', RequestInv, NumbersInv, AdminInv, [Next]_vars, ~unguarded'
               PROVE  /\ lastId' > 0 => \E a \in Ids : AdminThen(a)
                      /\ \A w \in Workers : req'[w].pc = "insert" /\ ~req'[w].admin => lastId' > 0
                      /\ \A v, w \in Workers : DeletingThen(v) /\ DeletingThen(w) => v = w
                      /\ \A w \in Workers : DeletingThen(w) =>
                            /\ req'[w].op = "delete" => req'[w].me \in Ids /\ AdminThen(req'[w].me)
                            /\ req'[w].pc = "remove" => \E a \in Ids : AdminThen(a) /\ a # req'[w].target
    BY DEF AdminInv, AdminThen, DeletingThen, InDeletion, Admins, Present
  <1>0. lastId \in Nat /\ lastId' \in Nat /\ lastId <= lastId'
    BY NumbersGrow DEF TypeOK
  <1>1. ~unguarded
    BY DEF Next, Step, Register, Login, Authenticate, Insert, OpenSession, LoadUser, FindTarget,
      CountAdmins, Remove, Purge, Logout, ChangePassword, Revoke, Approve, SetRole, Expire, Janitor,
      Fail, vars
  <1>2. /\ lastId > 0 => Admins # {}
        /\ \A w \in Workers : req[w].pc = "insert" /\ ~req[w].admin => lastId > 0
        /\ \A v, w \in Workers : InDeletion(v) /\ InDeletion(w) => v = w
        /\ \A w \in Workers : InDeletion(w) =>
              /\ req[w].op = "delete" => req[w].me \in Admins
              /\ req[w].pc = "remove" => \E a \in Admins : a # req[w].target
    BY <1>1 DEF AdminInv
  <1>3. lastId' > 0 => \E a \in Ids : AdminThen(a)
    <2>1. CASE lastId > 0
      <3>1. PICK a \in Admins : TRUE
        BY <1>2, <2>1
      <3>2. ASSUME NEW w \in Workers, Remove(w), InDeletion(w)
            PROVE  \E b \in Ids : AdminThen(b)
        <4>1. PICK b \in Admins : b # req[w].target
          BY <1>2, <3>2 DEF Remove
        <4>2. ~ \E v \in Workers : Remove(v) /\ InDeletion(v) /\ b = req[v].target
          BY <1>2, <3>2, <4>1
        <4>3. AdminThen(b) /\ b \in Ids
          BY <4>2, AdminsRemain, AdminsSubset
        <4>4. QED
          BY <4>3
      <3>3. CASE AdminThen(a)
        BY <3>3, AdminsSubset
      <3>4. QED
        BY <3>2, <3>3, AdminsRemain
    <2>2. CASE lastId = 0 /\ lastId' > 0
      <3>0. lastId' # lastId
        BY <2>2
      <3>1. PICK w \in Workers : Insert(w)
        BY <3>0 DEF Next, Step, Register, Login, Authenticate, OpenSession, LoadUser,
          FindTarget, CountAdmins, Remove, Purge, Logout, ChangePassword, Revoke, Approve, SetRole,
          Expire, Janitor, Fail, vars, tables
      <3>2. req[w].admin
        BY <1>2, <2>2, <3>0, <3>1 DEF Insert
      <3> DEFINE row == [state |-> IF req[w].approved THEN "approved" ELSE "pending",
                         name |-> req[w].name, admin |-> req[w].admin, pw |-> 0]
      <3>3. row.state # "absent" /\ row.admin
        BY <3>2
      <3> HIDE DEF row
      <3>4. lastId' \in Ids /\ user' = [user EXCEPT ![lastId'] = row]
        BY <3>0, <3>1 DEF Insert, NewId, row
      <3>5. AdminThen(lastId')
        BY <3>3, <3>4 DEF TypeOK, AdminThen
      <3>6. QED
        BY <3>4, <3>5
    <2>3. QED
      BY <1>0, <2>1, <2>2
  <1>4. ASSUME NEW w \in Workers, req'[w].pc = "insert", ~req'[w].admin PROVE lastId' > 0
    <2>1. CASE req'[w] = req[w]
      BY <1>0, <1>2, <1>4, <2>1
    <2>2. CASE EntersNew(req'[w])
      <3>1. PICK i \in Ids : Present(i)
        BY <1>4, <2>2 DEF EntersNew
      <3>2. i <= lastId /\ i > 0 /\ i \in Nat
        BY <3>1 DEF NumbersInv, Ids
      <3>3. QED
        BY <1>0, <3>2
    <2>3. Idle.pc # "insert"
      BY DEF Idle
    <2>4. QED
      BY <1>4, <2>1, <2>2, <2>3, Requests DEF Advances, EntersLogin, EntersAs
  <1>5. ASSUME NEW v \in Workers, NEW w \in Workers, DeletingThen(v), DeletingThen(w) PROVE v = w
    <2>1. CASE Begins(v)
      BY <1>5, <2>1, Deletions DEF Begins, DeletingThen, InDeletion
    <2>2. CASE Begins(w)
      BY <1>5, <2>2, Deletions DEF Begins, DeletingThen, InDeletion
    <2>3. CASE InDeletion(v) /\ InDeletion(w)
      BY <1>2, <2>3
    <2>4. QED
      BY <1>5, <2>1, <2>2, <2>3, Deletions DEF GoesOn
  <1>6. ASSUME NEW w \in Workers, DeletingThen(w)
        PROVE  /\ req'[w].op = "delete" => req'[w].me \in Ids /\ AdminThen(req'[w].me)
               /\ req'[w].pc = "remove" => \E a \in Ids : AdminThen(a) /\ a # req'[w].target
    <2>1. CASE Begins(w)
      BY <2>1 DEF Begins
    <2>2. ASSUME InDeletion(w), NEW a \in Admins PROVE AdminThen(a) /\ a \in Ids
      <3>1. ASSUME NEW v \in Workers, Remove(v), InDeletion(v) PROVE FALSE
        <4>1. v = w
          BY <1>2, <2>2, <3>1
        <4>2. Goto(w, "purge") \/ Answer(w)
          BY <3>1, <4>1 DEF Remove
        <4>3. QED
          BY <1>6, <4>2, Moves DEF DeletingThen, Idle
      <3>2. QED
        BY <3>1, AdminsRemain, AdminsSubset
    <2>3. CASE req'[w] = req[w] /\ InDeletion(w)
      BY <1>2, <2>2, <2>3
    <2>4. CASE GoesOn(w)
      <3>1. InDeletion(w) /\ SameFields(req'[w], req[w])
        BY <2>4 DEF GoesOn
      <3>2. req'[w].op = "delete" => req'[w].me \in Ids /\ AdminThen(req'[w].me)
        BY <1>2, <2>2, <3>1 DEF SameFields
      <3>3. ASSUME req'[w].pc = "remove" PROVE \E a \in Admins : a # req[w].target
        <4>1. CASE Present(req[w].target) /\ ~user[req[w].target].admin
          <5>1. req[w].target \in Ids
            BY <3>1 DEF InDeletion, RequestInv, Fits, TypeOK, Request
          <5>2. lastId > 0
            BY <1>0, <4>1, <5>1 DEF NumbersInv, Ids
          <5>3. QED
            BY <1>2, <4>1, <5>2, AdminsSubset
        <4>2. CASE req[w].target # req[w].me
          <5>1. req[w].op = "delete"
            BY <3>1, <4>2 DEF InDeletion, RequestInv, Fits
          <5>2. QED
            BY <1>2, <3>1, <4>2, <5>1
        <4>3. CASE ~(Cardinality(Admins) <= 1)
          <5>1. Admins # {}
            BY <4>3, FS_EmptySet
          <5>2. QED
            BY <4>3, <5>1, AnotherAdmin
        <4>4. QED
          BY <2>4, <3>3, <4>1, <4>2, <4>3 DEF GoesOn, Refused
      <3>4. QED
        BY <2>2, <3>1, <3>2, <3>3 DEF SameFields
    <2>5. QED
      BY <1>6, <2>1, <2>3, <2>4, Deletions
  <1>7. QED
    BY <1>3, <1>4, <1>5, <1>6

-----------------------------------------------------------------------------
(* The theorems *)

LEMMA InvInit == Init => IInv
  <1> SUFFICES ASSUME Init PROVE IInv
    OBVIOUS
  <1>1. PICK d \in Databases : user = d.user /\ lastId = d.lastId
                              /\ session = d.session /\ lastToken = d.lastToken
    BY DEF Init
  <1>2. TypeOK
    BY TypeInit
  <1>3. Sound(d) /\ \A w \in Workers : req[w] = Idle
    BY <1>1, DatabaseAssumption DEF Init
  <1>4. NumbersInv
    BY <1>1, <1>2, <1>3 DEF NumbersInv, Sound, Present, Live, TypeOK, Idle, NoId, Ids
  <1>5. OwnerInv
    BY <1>1, <1>3 DEF OwnerInv, Sound, Present, Live, Entitled, Idle
  <1>6. RequestInv
    BY <1>3 DEF RequestInv, Fits, Idle
  <1>7. SessionsCurrent
    BY <1>1, <1>3 DEF SessionsCurrent, Sound, Present, Live
  <1>8. AdminInv
    <2>1. lastId > 0 => Admins # {}
      BY <1>1, <1>3 DEF Sound, Admins, Present
    <2>2. \A w \in Workers : req[w].pc # "insert" /\ ~InDeletion(w)
      BY <1>3 DEF Idle, InDeletion
    <2>3. QED
      BY <2>1, <2>2 DEF AdminInv
  <1>9. QED
    BY <1>2, <1>4, <1>5, <1>6, <1>7, <1>8 DEF IInv

LEMMA InvStep == IInv /\ [Next]_vars => IInv'
  <1> SUFFICES ASSUME IInv, [Next]_vars PROVE IInv'
    OBVIOUS
  <1>1. TypeOK /\ NumbersInv /\ OwnerInv /\ RequestInv /\ SessionsCurrent /\ AdminInv
    BY DEF IInv
  <1>2. TypeOK'
    BY <1>1, TypeStep
  <1>3. QED
    BY <1>1, <1>2, NumbersStep, OwnerStep, RequestStep, CurrentStep, AdminStep DEF IInv

(* The invariant holds in every behaviour. *)
THEOREM Invariance == Spec => []IInv
  BY InvInit, InvStep, PTL DEF Spec

(* Every variable has its type. *)
THEOREM TypeCorrect == Spec => []TypeOK
  <1>1. IInv => TypeOK
    BY DEF IInv
  <1>2. QED
    BY <1>1, Invariance, PTL

(* A session never speaks for another account than that of its login,      *)
(* whatever accounts are deleted and registered in between.                *)
THEOREM SessionsKeepOwner == Spec => []SessionOfOwner
  <1>1. IInv => SessionOfOwner
    BY DEF IInv, OwnerInv, Entitled, SessionOfOwner
  <1>2. QED
    BY <1>1, Invariance, PTL

(* A changed password or a deletion ends the sessions opened before.       *)
THEOREM SessionsEnd == Spec => []SessionsCurrent
  <1>1. IInv => SessionsCurrent
    BY DEF IInv
  <1>2. QED
    BY <1>1, Invariance, PTL

(* Deletions one at a time leave an administrator, as long as none is      *)
(* demoted or rejected.                                                    *)
THEOREM AdministratorRemains == Spec => []AdminRemains
  <1>1. IInv => AdminRemains
    BY DEF IInv, AdminInv, AdminRemains
  <1>2. QED
    BY <1>1, Invariance, PTL

=============================================================================
