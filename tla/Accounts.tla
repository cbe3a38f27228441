------------------------------ MODULE Accounts ------------------------------
(***************************************************************************)
(* Users and sessions: internal/auth over the tables of internal/store,    *)
(* with the handlers of internal/web that change them.  The database has   *)
(* one connection, so that each SQL statement is a step; a request makes   *)
(* several, and other requests theirs in between.                          *)
(*                                                                         *)
(* Data: a password is the number of times it has been changed; who logs   *)
(* in or changes it types the one that the row read shows.  Requests that  *)
(* are refused at their first statement change nothing and are left out,   *)
(* and so are the limits on failed logins and the audit log.               *)
(***************************************************************************)
EXTENDS Naturals, FiniteSets

CONSTANTS
    Names, Workers,       \* usernames; requests in progress at a time
    MaxUsers, MaxTokens, MaxRequests, MaxFailures,  \* bounds: of a behaviour
    NoName,
    Databases             \* what the process may find when it starts

Ids == 1..MaxUsers
Tokens == 1..MaxTokens
NoId == 0

Row == [state : {"absent", "pending", "approved"}, name : Names \cup {NoName},
        admin : BOOLEAN, pw : Nat]
NoRow == [state |-> "absent", name |-> NoName, admin |-> FALSE, pw |-> 0]

(* name, ver, late: history, who logged in with which password, and        *)
(* whether the account had changed since the login looked at it.           *)
Session == [user : Ids \cup {NoId}, expired : BOOLEAN,
            name : Names \cup {NoName}, ver : Nat, late : BOOLEAN]
NoSession == [user |-> NoId, expired |-> FALSE, name |-> NoName, ver |-> 0, late |-> FALSE]

Database == [user : [Ids -> Row], session : [Tokens -> Session],
             lastId : 0..MaxUsers, lastToken : 0..MaxTokens]

(* The tables are as earlier processes left them: numbers are given out in *)
(* order, names are unique, sessions belong to approved owners of accounts *)
(* and are up to date, and there is an administrator.                      *)
Sound(d) ==
    /\ \A i \in Ids : IF d.user[i].state = "absent" THEN d.user[i] = NoRow ELSE i <= d.lastId
    /\ \A i, j \in Ids : d.user[i].state # "absent" /\ d.user[j].state # "absent"
                         /\ d.user[i].name = d.user[j].name => i = j
    /\ \A t \in Tokens : d.session[t].user # NoId =>
          LET row == d.user[d.session[t].user]
          IN  /\ t <= d.lastToken /\ d.session[t].user <= d.lastId /\ row.state = "approved"
              /\ row.name = d.session[t].name /\ row.pw = d.session[t].ver
    /\ d.lastId > 0 => \E i \in Ids : d.user[i].state # "absent" /\ d.user[i].admin

ASSUME BoundAssumption ==
    MaxUsers \in Nat /\ MaxTokens \in Nat /\ MaxRequests \in Nat /\ MaxFailures \in Nat
ASSUME NameAssumption == NoName \notin Names
ASSUME DatabaseAssumption == Databases \subseteq Database /\ \A d \in Databases : Sound(d)

VARIABLES
    user, lastId,        \* the table users and its sequence
    session, lastToken,  \* the table sessions
    req,                 \* the requests in progress
    requests, failures,
    unguarded   \* history: an administrator was demoted or rejected, or two deletions overlapped

tables == <<user, lastId, session, lastToken>>
vars == <<tables, req, requests, failures, unguarded>>

AdminOps == {"delete", "reject", "approve", "promote", "demote"}
Ops == AdminOps \cup {"leave", "logout", "password"}

Request == [pc : {"idle", "insert", "open", "user", "target", "count", "remove", "purge",
                  "logout", "password", "revoke", "approve", "role"},
            op : Ops \cup {"none"}, me : Ids \cup {NoId}, target : Ids \cup {NoId},
            token : 0..MaxTokens, name : Names \cup {NoName}, ver : Nat,
            admin : BOOLEAN, approved : BOOLEAN]
Idle == [pc |-> "idle", op |-> "none", me |-> NoId, target |-> NoId, token |-> 0,
         name |-> NoName, ver |-> 0, admin |-> FALSE, approved |-> FALSE]

(* Every variable has its type. *)
TypeOK ==
    /\ user \in [Ids -> Row] /\ lastId \in 0..MaxUsers
    /\ session \in [Tokens -> Session] /\ lastToken \in 0..MaxTokens
    /\ req \in [Workers -> Request]
    /\ requests \in 0..MaxRequests /\ failures \in 0..MaxFailures /\ unguarded \in BOOLEAN

-----------------------------------------------------------------------------
(* Helpers *)

Present(i) == user[i].state # "absent"
Admins == {i \in Ids : Present(i) /\ user[i].admin}
Live(t) == session[t].user # NoId

(* A plausible bug: ids without AUTOINCREMENT, one more than the largest. *)
ReusedId == LET free == {i \in Ids : \A j \in Ids : Present(j) => j < i}
            IN  IF free = {} THEN MaxUsers + 1 ELSE CHOOSE i \in free : \A j \in free : i <= j

(* AUTOINCREMENT: an id is never given out again. *)
NewId == lastId + 1

(* A plausible bug: a login looks at the password only. *)
PasswordMatches(i) == Present(i)

(* Who may log in. *)
MayLogin(i) == user[i].state = "approved"

(* A plausible bug: the count of the administrators is off by one. *)
RefusedAtNone(r) == Cardinality(Admins) < 1 /\ r.target = r.me

(* DeleteUser: the last administrator must not delete itself. *)
Refused(r) == Cardinality(Admins) <= 1 /\ r.target = r.me

Without(dead) == [t \in Tokens |-> IF t \in dead THEN NoSession ELSE session[t]]
SessionsOf(i) == {t \in Tokens : session[t].user = i}

(* A request enters, goes on, and is answered. *)
Enter(w, r) ==
    /\ req[w].pc = "idle" /\ requests < MaxRequests
    /\ requests' = requests + 1
    /\ req' = [req EXCEPT ![w] = r]
Goto(w, pc) == req' = [req EXCEPT ![w].pc = pc]
Answer(w) == req' = [req EXCEPT ![w] = Idle]

-----------------------------------------------------------------------------
(* Registration *)

(* The count of the users: the first one becomes administrator; while      *)
(* registration is closed, others are refused.                             *)
Register(w, n, mode) ==
    LET first == \A i \in Ids : ~Present(i)
    IN  /\ first \/ mode # "closed"
        /\ Enter(w, [Idle EXCEPT !.pc = "insert", !.name = n, !.admin = first,
                                 !.approved = first \/ mode # "approval"])
        /\ UNCHANGED <<tables, failures, unguarded>>

(* CreateUser; a name that is taken is refused by the table. *)
Insert(w) ==
    /\ req[w].pc = "insert"
    /\ IF \E i \in Ids : Present(i) /\ user[i].name = req[w].name
       THEN UNCHANGED <<user, lastId>>
       ELSE /\ NewId \in Ids
            /\ lastId' = NewId
            /\ user' = [user EXCEPT ![NewId] =
                          [state |-> IF req[w].approved THEN "approved" ELSE "pending",
                           name |-> req[w].name, admin |-> req[w].admin, pw |-> 0]]
    /\ Answer(w)
    /\ UNCHANGED <<session, lastToken, requests, failures, unguarded>>

-----------------------------------------------------------------------------
(* Login *)

(* GetUserByName finds i; the password typed is right and i approved. *)
Login(w, i) ==
    /\ MayLogin(i)
    /\ Enter(w, [Idle EXCEPT !.pc = "open", !.me = i, !.name = user[i].name,
                             !.ver = user[i].pw])
    /\ UNCHANGED <<tables, failures, unguarded>>

(* CreateSession, after the comparison of the password; nothing is looked  *)
(* at again.                                                               *)
OpenSession(w) ==
    LET r == req[w]
    IN  /\ r.pc = "open" /\ lastToken < MaxTokens
        /\ lastToken' = lastToken + 1
        /\ session' = [session EXCEPT ![lastToken'] =
                         [user |-> r.me, expired |-> FALSE, name |-> r.name, ver |-> r.ver,
                          late |-> ~(Present(r.me) /\ user[r.me].pw = r.ver)]]
        /\ Answer(w)
        /\ UNCHANGED <<user, lastId, requests, failures, unguarded>>

-----------------------------------------------------------------------------
(* Requests of somebody who is logged in *)

(* Auth: the session is read, and has not expired. *)
Authenticate(w, t, op, i) ==
    /\ Live(t) /\ ~session[t].expired
    /\ LET me == session[t].user
       IN  Enter(w, [Idle EXCEPT !.pc = "user", !.op = op, !.me = me,
                                 !.token = IF op \in {"leave", "logout"} THEN t ELSE 0,
                                 !.target = CASE op = "leave" -> me
                                              [] op \in AdminOps -> i
                                              [] OTHER -> NoId])
    /\ UNCHANGED <<tables, failures, unguarded>>

FirstStep(op) ==
    CASE op \in {"delete", "leave"} -> "target"
      [] op = "reject" -> "remove"
      [] op \in {"promote", "demote"} -> "role"
      [] OTHER -> op

InDeletion(w) == req[w].op \in {"delete", "leave"} /\ req[w].pc \in {"target", "count", "remove"}

(* Auth, and requireAdmin where the route has it: the account is read. *)
LoadUser(w) ==
    LET r == req[w]
    IN  /\ r.pc = "user"
        /\ IF user[r.me].state = "approved" /\ (r.op \in AdminOps => user[r.me].admin)
           THEN /\ Goto(w, FirstStep(r.op))
                /\ unguarded' = (unguarded \/ (r.op \in {"delete", "leave"}
                                               /\ \E v \in Workers : InDeletion(v)))
           ELSE Answer(w) /\ UNCHANGED unguarded
        /\ UNCHANGED <<tables, requests, failures>>

(* DeleteUser: the target is read. *)
FindTarget(w) ==
    /\ req[w].pc = "target"
    /\ IF ~Present(req[w].target) THEN Answer(w)
       ELSE Goto(w, IF user[req[w].target].admin THEN "count" ELSE "remove")
    /\ UNCHANGED <<tables, requests, failures, unguarded>>

(* An administrator: all users are read, and counted. *)
CountAdmins(w) ==
    /\ req[w].pc = "count"
    /\ IF Refused(req[w]) THEN Answer(w) ELSE Goto(w, "remove")
    /\ UNCHANGED <<tables, requests, failures, unguarded>>

(* The row is deleted, for a deletion or a rejection ... *)
Remove(w) ==
    LET r == req[w]
    IN  /\ r.pc = "remove"
        /\ IF Present(r.target)
           THEN /\ user' = [user EXCEPT ![r.target] = NoRow]
                /\ Goto(w, "purge")
                /\ unguarded' = (unguarded \/ (r.op = "reject" /\ user[r.target].admin))
           ELSE Answer(w) /\ UNCHANGED <<user, unguarded>>
        /\ UNCHANGED <<lastId, session, lastToken, requests, failures>>

(* ... and then its sessions. *)
Purge(w) ==
    /\ req[w].pc = "purge"
    /\ session' = Without(SessionsOf(req[w].target))
    /\ IF req[w].op = "leave" THEN Goto(w, "logout") ELSE Answer(w)
    /\ UNCHANGED <<user, lastId, lastToken, requests, failures, unguarded>>

(* Logout: the session of the request is deleted. *)
Logout(w) ==
    /\ req[w].pc = "logout"
    /\ session' = Without({req[w].token})
    /\ Answer(w)
    /\ UNCHANGED <<user, lastId, lastToken, requests, failures, unguarded>>

(* handleChangePassword: the new hash is stored ... *)
ChangePassword(w) ==
    LET i == req[w].me
    IN  /\ req[w].pc = "password"
        /\ IF Present(i)
           THEN user' = [user EXCEPT ![i].pw = @ + 1] /\ Goto(w, "revoke")
           ELSE Answer(w) /\ UNCHANGED user
        /\ UNCHANGED <<lastId, session, lastToken, requests, failures, unguarded>>

(* A plausible bug: only the session of the request is revoked. *)
RevokeOwn(w) ==
    /\ req[w].pc = "revoke"
    /\ session' = Without({req[w].token})
    /\ Answer(w)
    /\ UNCHANGED <<user, lastId, lastToken, requests, failures, unguarded>>

(* ... and then all sessions are revoked. *)
Revoke(w) ==
    /\ req[w].pc = "revoke"
    /\ session' = Without(SessionsOf(req[w].me))
    /\ Answer(w)
    /\ UNCHANGED <<user, lastId, lastToken, requests, failures, unguarded>>

(* ApproveUser: an UPDATE, which may meet no row. *)
Approve(w) ==
    LET i == req[w].target
    IN  /\ req[w].pc = "approve"
        /\ user' = IF Present(i) THEN [user EXCEPT ![i].state = "approved"] ELSE user
        /\ Answer(w)
        /\ UNCHANGED <<lastId, session, lastToken, requests, failures, unguarded>>

(* SetRole: likewise, without any guard. *)
SetRole(w) ==
    LET i == req[w].target
        promote == req[w].op = "promote"
    IN  /\ req[w].pc = "role"
        /\ user' = IF Present(i) THEN [user EXCEPT ![i].admin = promote] ELSE user
        /\ unguarded' = (unguarded \/ (user[i].admin /\ ~promote))
        /\ Answer(w)
        /\ UNCHANGED <<lastId, session, lastToken, requests, failures>>

-----------------------------------------------------------------------------
(* Time and failures *)

Expire(t) ==
    /\ Live(t) /\ ~session[t].expired
    /\ session' = [session EXCEPT ![t].expired = TRUE]
    /\ UNCHANGED <<user, lastId, lastToken, req, requests, failures, unguarded>>

(* The hourly DeleteExpiredSessions. *)
Janitor ==
    /\ session' = Without({t \in Tokens : session[t].expired})
    /\ UNCHANGED <<user, lastId, lastToken, req, requests, failures, unguarded>>

(* The next statement of each of these requests fails, or the process ends *)
(* before it: what has been written stays.                                 *)
Fail(some) ==
    /\ failures < MaxFailures
    /\ failures' = failures + 1
    /\ \A w \in some : req[w].pc # "idle"
    /\ req' = [w \in Workers |-> IF w \in some THEN Idle ELSE req[w]]
    /\ UNCHANGED <<tables, requests, unguarded>>

-----------------------------------------------------------------------------
Init ==
    /\ \E d \in Databases : /\ user = d.user /\ lastId = d.lastId
                            /\ session = d.session /\ lastToken = d.lastToken
    /\ req = [w \in Workers |-> Idle]
    /\ requests = 0 /\ failures = 0 /\ unguarded = FALSE

Step(w) ==
    \/ Insert(w) \/ OpenSession(w) \/ LoadUser(w) \/ FindTarget(w) \/ CountAdmins(w)
    \/ Remove(w) \/ Purge(w) \/ Logout(w) \/ ChangePassword(w) \/ Revoke(w)
    \/ Approve(w) \/ SetRole(w)

Next ==
    \/ \E w \in Workers :
          \/ \E n \in Names, mode \in {"open", "approval", "closed"} : Register(w, n, mode)
          \/ \E i \in Ids : Login(w, i)
          \/ \E t \in Tokens, op \in Ops, i \in Ids : Authenticate(w, t, op, i)
          \/ Step(w)
    \/ \E t \in Tokens : Expire(t)
    \/ Janitor
    \/ \E some \in SUBSET Workers : some # {} /\ Fail(some)

Spec == Init /\ [][Next]_vars

-----------------------------------------------------------------------------
(* Properties *)

(* A session only ever speaks for the account that it was opened for, even *)
(* one that was opened while the account was being deleted, and whatever   *)
(* accounts are registered later.                                          *)
SessionOfOwner ==
    \A t \in Tokens : Live(t) /\ Present(session[t].user)
        => user[session[t].user].name = session[t].name

(* Changing the password or deleting the account ends every session that   *)
(* was opened before, at the latest with the request itself; a login that  *)
(* was under way meanwhile may still open one.                             *)
Ending(i) == \E w \in Workers : \/ req[w].pc = "revoke" /\ req[w].me = i
                                \/ req[w].pc = "purge" /\ req[w].target = i
SessionsCurrent ==
    failures = 0 => \A t \in Tokens : Live(t) =>
        LET s == session[t]
        IN  s.late \/ (Present(s.user) /\ user[s.user].pw = s.ver) \/ Ending(s.user)

(* There is always an administrator, unless one was demoted or rejected,   *)
(* which nothing guards, or deletions overlapped.                          *)
AdminRemains == lastId > 0 /\ ~unguarded => Admins # {}

-----------------------------------------------------------------------------
(* The inductive invariant *)

(* Numbers are given out in order; a row that is gone is empty. *)
NumbersInv ==
    /\ \A i \in Ids : IF Present(i) THEN i <= lastId ELSE user[i] = NoRow
    /\ \A t \in Tokens : Live(t) => t <= lastToken /\ session[t].user <= lastId
    /\ \A w \in Workers : req[w].me <= lastId

(* Sessions, and those about to be opened, are of approved owners. *)
Entitled(i, n) == Present(i) => user[i].name = n /\ user[i].state = "approved"
OwnerInv ==
    /\ \A t \in Tokens : Live(t) => Entitled(session[t].user, session[t].name)
    /\ \A w \in Workers : req[w].pc = "open" => req[w].me # NoId /\ Entitled(req[w].me, req[w].name)

(* Where a request can be depends on what it is for. *)
Fits(r) ==
    /\ r.pc = "user" => r.op \in Ops
    /\ r.pc \in {"user", "password", "revoke"} => r.me # NoId
    /\ r.pc \in {"target", "count"} => r.op \in {"delete", "leave"}
    /\ r.pc \in {"remove", "purge"} => r.op \in {"delete", "leave", "reject"}
    /\ r.pc \in {"target", "count", "remove", "purge", "approve", "role"} => r.target # NoId
    /\ r.pc \in {"user", "target", "count", "remove"} =>
          /\ r.op \in AdminOps => r.target # NoId
          /\ r.op = "leave" => r.target = r.me
RequestInv == \A w \in Workers : Fits(req[w])

(* While nothing unguarded has happened: one deletion at a time, by an     *)
(* administrator or of oneself; once it is past the guard, an              *)
(* administrator other than its target is there to stay.                   *)
AdminInv ==
    ~unguarded =>
        /\ lastId > 0 => Admins # {}
        /\ \A w \in Workers : req[w].pc = "insert" /\ ~req[w].admin => lastId > 0
        /\ \A v, w \in Workers : InDeletion(v) /\ InDeletion(w) => v = w
        /\ \A w \in Workers : InDeletion(w) =>
              /\ req[w].op = "delete" => req[w].me \in Admins
              /\ req[w].pc = "remove" => \E a \in Admins : a # req[w].target

(* The inductive invariant of the proofs. *)
IInv == TypeOK /\ NumbersInv /\ OwnerInv /\ RequestInv /\ SessionsCurrent /\ AdminInv
=============================================================================
