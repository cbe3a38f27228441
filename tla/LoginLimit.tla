----------------------------- MODULE LoginLimit -----------------------------
(***************************************************************************)
(* The limits on failed logins: LoginWithClient of internal/auth over the  *)
(* table login_limits of internal/store.  Failures are counted for the     *)
(* account and for the address of the client; too many of them lock either *)
(* for a while.  The database has one connection, so that each statement,  *)
(* and each transaction, is a step; logins overlap in between, and time    *)
(* passes.                                                                 *)
(*                                                                         *)
(* Data: time goes in units; whether a password is right is decided when   *)
(* it is compared.  The account behind a name, its approval and the        *)
(* session that a login opens are those of Accounts.                       *)
(***************************************************************************)
EXTENDS Integers, Sequences

CONSTANTS
    Accounts, Clients,   \* keys "account:..." and "ip:..."
    NoClient,            \* the key of a caller without an address
    Workers,             \* logins in progress at a time
    AccountFails, ClientFails, Lock, Window,  \* the configuration
    Retention,           \* how long the hourly cleanup keeps a row
    Delay,               \* the longest wait for the connection
    MaxTime, MaxLogins   \* bounds: of a behaviour

Keys == Accounts \cup Clients
Fails(k) == IF k \in Accounts THEN AccountFails ELSE ClientFails

ASSUME KeyAssumption == Accounts \cap Clients = {} /\ NoClient \notin Keys
ASSUME ConfigAssumption == {AccountFails, ClientFails, Lock, Window} \subseteq Nat \ {0}
(* By default, a quarter of an hour and seconds against a day. *)
ASSUME TimeAssumption == Retention \in Nat /\ Delay \in Nat /\ Window + Delay <= Retention
ASSUME BoundAssumption == MaxTime \in Nat /\ MaxLogins \in Nat

VARIABLES
    now,
    limit,   \* the table login_limits
    pc, job, \* the logins in progress
    logins,
    counted  \* history: the failures counted for each key, since its last success

vars == <<now, limit, pc, job, logins, counted>>

Never == -1
Row == [failures : Nat, until : Nat \cup {Never}, last : Nat \cup {Never}]
NoRow == [failures |-> 0, until |-> Never, last |-> Never]
Failure == [at : Nat, locked : BOOLEAN]
NoJob == [account |-> NoClient, client |-> NoClient, at |-> 0]

(* Every variable has its type. *)
TypeOK ==
    /\ now \in 0..MaxTime /\ logins \in 0..MaxLogins
    /\ limit \in [Keys -> Row]
    /\ pc \in [Workers -> {"idle", "account", "client", "compare", "clock", "count",
                           "clock2", "count2", "clear", "clear2"}]
    /\ job \in [Workers -> [account : Accounts \cup {NoClient},
                            client : Clients \cup {NoClient}, at : Nat]]
    /\ counted \in [Keys -> Seq(Failure)]

-----------------------------------------------------------------------------
(* Helpers *)

Locked(k, t) == limit[k].until > t

(* A plausible bug: the end of a lock does not start the count again. *)
FailuresInWindow(row, t) == IF t - row.last > Window THEN 0 ELSE row.failures

(* The failures that still matter at time t. *)
FailuresBefore(row, t) ==
    IF (row.until # Never /\ row.until <= t) \/ (row.last # Never /\ t - row.last > Window)
    THEN 0 ELSE row.failures

(* A plausible bug: one failure too many is allowed. *)
LockedByOneMore(k, n) == n > Fails(k)

(* Whether the n-th failure locks. *)
LockedBy(k, n) == n >= Fails(k)

(* A plausible bug: a failure that comes late extends the lock. *)
CountsAlways(k, t) == TRUE

(* A failure under a lock is not counted. *)
Counts(k, t) == ~Locked(k, t)

Goto(w, label) == pc' = [pc EXCEPT ![w] = label] /\ UNCHANGED job
Answer(w) == pc' = [pc EXCEPT ![w] = "idle"] /\ job' = [job EXCEPT ![w] = NoJob]

-----------------------------------------------------------------------------
(* Steps of a login *)

Login(w, a, c) ==
    /\ pc[w] = "idle" /\ logins < MaxLogins
    /\ logins' = logins + 1
    /\ pc' = [pc EXCEPT ![w] = "account"]
    /\ job' = [job EXCEPT ![w] = [account |-> a, client |-> c, at |-> 0]]
    /\ UNCHANGED <<now, limit, counted>>

(* isLoginLimited: the account, and then the address if there is one. *)
CheckAccount(w) ==
    /\ pc[w] = "account"
    /\ IF Locked(job[w].account, now) THEN Answer(w)
       ELSE Goto(w, IF job[w].client = NoClient THEN "compare" ELSE "client")
    /\ UNCHANGED <<now, limit, logins, counted>>

CheckClient(w) ==
    /\ pc[w] = "client"
    /\ IF Locked(job[w].client, now) THEN Answer(w) ELSE Goto(w, "compare")
    /\ UNCHANGED <<now, limit, logins, counted>>

(* GetUserByName, and the comparison of the password. *)
Compare(w, right) ==
    /\ pc[w] = "compare"
    /\ Goto(w, IF right THEN "clear" ELSE "clock")
    /\ UNCHANGED <<now, limit, logins, counted>>

(* RegisterLoginFailure takes the time, and then waits for the connection. *)
ReadClock(w) ==
    /\ pc[w] \in {"clock", "clock2"}
    /\ job' = [job EXCEPT ![w].at = now]
    /\ pc' = [pc EXCEPT ![w] = IF @ = "clock" THEN "count" ELSE "count2"]
    /\ UNCHANGED <<now, limit, logins, counted>>

(* Its transaction for key k. *)
CountFor(w, k) ==
    LET t == job[w].at
        n == FailuresBefore(limit[k], t) + 1
    IN  IF Counts(k, t)
        THEN /\ limit' = [limit EXCEPT ![k] =
                            [failures |-> n, last |-> t,
                             until |-> IF LockedBy(k, n) THEN t + Lock ELSE Never]]
             /\ counted' = [counted EXCEPT ![k] = Append(@, [at |-> t, locked |-> LockedBy(k, n)])]
        ELSE UNCHANGED <<limit, counted>>

(* The account first, and then the address if there is one. *)
CountAccount(w) ==
    /\ pc[w] = "count"
    /\ CountFor(w, job[w].account)
    /\ IF job[w].client = NoClient THEN Answer(w) ELSE Goto(w, "clock2")
    /\ UNCHANGED <<now, logins>>

CountClient(w) ==
    /\ pc[w] = "count2"
    /\ CountFor(w, job[w].client)
    /\ Answer(w)
    /\ UNCHANGED <<now, logins>>

(* ClearLoginLimit for key k, after a right password. *)
Clear(k) ==
    /\ limit' = [limit EXCEPT ![k] = NoRow]
    /\ counted' = [counted EXCEPT ![k] = <<>>]

ClearAccount(w) ==
    /\ pc[w] = "clear"
    /\ Clear(job[w].account)
    /\ IF job[w].client = NoClient THEN Answer(w) ELSE Goto(w, "clear2")
    /\ UNCHANGED <<now, logins>>

ClearClient(w) ==
    /\ pc[w] = "clear2"
    /\ Clear(job[w].client)
    /\ Answer(w)
    /\ UNCHANGED <<now, logins>>

(* A statement fails, or the process ends: the login ends without an       *)
(* answer, or with an error, and the rows stay.                            *)
Fail(w) ==
    /\ pc[w] # "idle"
    /\ Answer(w)
    /\ UNCHANGED <<now, limit, logins, counted>>

-----------------------------------------------------------------------------
(* Time *)

(* Nobody waits longer for the connection than Delay. *)
Tick ==
    /\ now < MaxTime /\ now' = now + 1
    /\ \A w \in Workers : pc[w] \in {"count", "count2"} => now' <= job[w].at + Delay
    /\ UNCHANGED <<limit, pc, job, logins, counted>>

(* A plausible bug: the cleanup looks at the locks only. *)
OutlivedLock(row) == row.until < now

(* The rows that the hourly cleanup deletes. *)
Outlived(row) == row.until < now /\ row.last < now - Retention

(* DeleteExpiredLoginLimits *)
Janitor ==
    /\ limit' = [k \in Keys |-> IF Outlived(limit[k]) THEN NoRow ELSE limit[k]]
    /\ UNCHANGED <<now, pc, job, logins, counted>>

-----------------------------------------------------------------------------
Init ==
    /\ now = 0 /\ logins = 0
    /\ limit = [k \in Keys |-> NoRow]
    /\ pc = [w \in Workers |-> "idle"] /\ job = [w \in Workers |-> NoJob]
    /\ counted = [k \in Keys |-> <<>>]

Step(w) ==
    \/ CheckAccount(w) \/ CheckClient(w) \/ \E right \in BOOLEAN : Compare(w, right)
    \/ ReadClock(w) \/ CountAccount(w) \/ CountClient(w) \/ ClearAccount(w) \/ ClearClient(w)

Next ==
    \/ \E w \in Workers :
          \/ \E a \in Accounts, c \in Clients \cup {NoClient} : Login(w, a, c)
          \/ Step(w) \/ Fail(w)
    \/ Tick \/ Janitor

Spec == Init /\ [][Next]_vars

-----------------------------------------------------------------------------
(* Properties *)

(* The failures from..n of s follow one another closely. *)
Close(s, from, n) == \A m \in from..(n - 1) : s[m + 1].at - s[m].at <= Window

(* The first of so many failures that the n-th may lock. *)
First(k, n) == n - Fails(k) + 1

Deserved(k, s) ==
    \A n \in DOMAIN s : s[n].locked =>
        /\ First(k, n) >= 1 /\ Close(s, First(k, n), n)
        /\ \A m \in First(k, n)..(n - 1) : ~s[m].locked

(* A lock is deserved: it takes the full number of failures, each within   *)
(* the window of the one before, none of which has locked already.         *)
LockDeserved == \A k \in Keys : Deserved(k, counted[k])

Comes(k, s) ==
    \A n \in DOMAIN s : First(k, n) >= 1 /\ Close(s, First(k, n), n)
        => \E m \in First(k, n)..n : s[m].locked

(* A lock does not fail to come: among so many failures, each within the   *)
(* window of the one before, one has locked, although rows are forgotten   *)
(* in between and the failures are counted by requests that overlap.       *)
LockComes == \A k \in Keys : Comes(k, counted[k])

(* Failures that were under way when a lock came neither extend nor        *)
(* shorten it; only a login that had been let in before ends it early.     *)
LetIn(k) == \E w \in Workers : \/ pc[w] = "clear" /\ k = job[w].account
                               \/ pc[w] = "clear2" /\ k = job[w].client
LockKept ==
    [][\A k \in Keys : Locked(k, now) =>
          limit'[k].until = limit[k].until \/ (limit'[k] = NoRow /\ LetIn(k))]_vars

-----------------------------------------------------------------------------
(* The inductive invariant *)

(* Nobody acts on a time that is too old, or yet to come. *)
TimeInv ==
    /\ \A w \in Workers : pc[w] \in {"count", "count2"} => job[w].at \in (now - Delay)..now
    /\ \A k \in Keys : \A n \in DOMAIN counted[k] : counted[k][n].at <= now

(* A row stands for the last run of the failures s ... *)
StandsFor(k, row, s) ==
    LET n == Len(s)
        f == row.failures
    IN  /\ f \in 1..Fails(k) /\ f <= n /\ row.last = s[n].at
        /\ (s[n].locked <=> f = Fails(k))
        /\ row.until = IF s[n].locked THEN row.last + Lock ELSE Never
        /\ Close(s, n - f + 1, n) /\ \A m \in (n - f + 1)..(n - 1) : ~s[m].locked
        /\ n > f => s[n - f].locked \/ s[n - f + 1].at - s[n - f].at > Window

(* ... and no row for failures that are too old for a run to go on. *)
Forgotten(s) == s = <<>> \/ s[Len(s)].at < now - Retention

RowInv == \A k \in Keys : IF limit[k] = NoRow THEN Forgotten(counted[k])
                          ELSE StandsFor(k, limit[k], counted[k])

IInv == TypeOK /\ TimeInv /\ RowInv /\ LockDeserved /\ LockComes
=============================================================================
