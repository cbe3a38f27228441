-------------------------- MODULE LoginLimitProofs --------------------------
(***************************************************************************)
(* Theorems about LoginLimit: locks are deserved, come, and are kept; for  *)
(* any keys, configuration and number of logins at a time, and any bounds. *)
(***************************************************************************)
EXTENDS LoginLimit, TLAPS

(* The numbers of the configuration. *)
LEMMA Numbers ==
    /\ Window \in Nat \ {0} /\ Lock \in Nat \ {0}
    /\ Retention \in Nat /\ Delay \in Nat /\ Window + Delay <= Retention
    /\ \A k \in Keys : Fails(k) \in Nat \ {0}
  BY ConfigAssumption, TimeAssumption DEF Fails

-----------------------------------------------------------------------------
(* What one more failure does to a run *)

LEMMA OneMore ==
    ASSUME NEW s \in Seq(Failure), NEW e \in Failure
    PROVE  /\ Append(s, e) \in Seq(Failure) /\ Len(Append(s, e)) = Len(s) + 1
           /\ Append(s, e)[Len(s) + 1] = e
           /\ \A m \in 1..Len(s) : Append(s, e)[m] = s[m] /\ s[m] \in Failure
  OBVIOUS

(* A failure after the end of the last run begins a new one. *)
LEMMA NewRun ==
    ASSUME NEW k \in Keys, NEW s \in Seq(Failure), NEW t \in Nat,
           s = <<>> \/ s[Len(s)].locked \/ t - s[Len(s)].at > Window,
           Deserved(k, s), Comes(k, s),
           NEW j \in Nat, j = 1, NEW row \in Row, row.failures = j, row.last = t,
           row.until = IF LockedBy(k, j) THEN t + Lock ELSE Never,
           NEW e \in Failure, e.at = t, e.locked <=> LockedBy(k, j)
    PROVE  StandsFor(k, row, Append(s, e))
  <1> DEFINE z == Append(s, e)
  <1>1. e \in Failure /\ e.at = t /\ (e.locked <=> 1 >= Fails(k))
    BY DEF LockedBy
  <1>2. z \in Seq(Failure) /\ Len(z) = Len(s) + 1 /\ z[Len(s) + 1] = e
        /\ \A m \in 1..Len(s) : z[m] = s[m] /\ s[m] \in Failure
    BY <1>1, OneMore
  <1> HIDE DEF z
  <1>3. Len(s) \in Nat /\ Fails(k) \in Nat \ {0} /\ Lock \in Nat
    BY Numbers
  <1>4. Len(z) > 1 => z[Len(z) - 1].locked \/ z[Len(z)].at - z[Len(z) - 1].at > Window
    <2> SUFFICES ASSUME Len(s) > 0 PROVE s[Len(s)].locked \/ e.at - s[Len(s)].at > Window
      BY <1>2, <1>3
    <2>1. s # <<>>
      OBVIOUS
    <2>2. QED
      BY <1>1, <2>1
  <1>5. StandsFor(k, row, z)
    <2>1. 1 \in 1..Fails(k) /\ 1 <= Len(z) /\ row.last = z[Len(z)].at
      BY <1>1, <1>2, <1>3
    <2>2. z[Len(z)].locked <=> 1 = Fails(k)
      BY <1>1, <1>2, <1>3
    <2>3. row.until = IF z[Len(z)].locked THEN row.last + Lock ELSE Never
      BY <1>1, <1>2 DEF LockedBy
    <2>4. Close(z, Len(z) - 1 + 1, Len(z)) /\ \A m \in (Len(z) - 1 + 1)..(Len(z) - 1) : ~z[m].locked
      BY <1>2, <1>3 DEF Close
    <2>5. QED
      BY <1>2, <1>3, <1>4, <2>1, <2>2, <2>3, <2>4 DEF StandsFor
  <1>6. QED
    BY <1>5 DEF z

(* One within the window of the last one, which has not locked, makes the  *)
(* run longer.                                                             *)
LEMMA LongerRun ==
    ASSUME NEW k \in Keys, NEW s \in Seq(Failure), NEW t \in Nat, NEW old \in Row,
           StandsFor(k, old, s), ~s[Len(s)].locked, t - s[Len(s)].at <= Window,
           NEW j \in Nat, j = old.failures + 1, NEW row \in Row, row.failures = j, row.last = t,
           row.until = IF LockedBy(k, j) THEN t + Lock ELSE Never,
           NEW e \in Failure, e.at = t, e.locked <=> LockedBy(k, j)
    PROVE  StandsFor(k, row, Append(s, e))
  <1> DEFINE f == old.failures
             n == Len(s)
             z == Append(s, e)
  <1>1. e \in Failure /\ e.at = t /\ (e.locked <=> f + 1 >= Fails(k))
    BY DEF LockedBy
  <1>2. z \in Seq(Failure) /\ Len(z) = n + 1 /\ z[n + 1] = e
        /\ \A m \in 1..n : z[m] = s[m] /\ s[m] \in Failure
    BY <1>1, OneMore
  <1> HIDE DEF z
  <1>3. /\ n \in Nat /\ f \in Nat /\ f >= 1 /\ f < Fails(k) /\ f <= n /\ Fails(k) \in Nat /\ Lock \in Nat
        /\ Close(s, n - f + 1, n) /\ (\A m \in (n - f + 1)..(n - 1) : ~s[m].locked)
        /\ (n > f => s[n - f].locked \/ s[n - f + 1].at - s[n - f].at > Window)
    <2>1. n \in Nat /\ f \in 1..Fails(k) /\ f <= n /\ Fails(k) \in Nat \ {0} /\ Lock \in Nat
      BY Numbers DEF StandsFor
    <2>2. (s[n].locked <=> f = Fails(k)) /\ ~s[n].locked
      BY DEF StandsFor
    <2>3. /\ Close(s, n - f + 1, n) /\ (\A m \in (n - f + 1)..(n - 1) : ~s[m].locked)
          /\ (n > f => s[n - f].locked \/ s[n - f + 1].at - s[n - f].at > Window)
      BY DEF StandsFor
    <2> HIDE DEF f, n
    <2>4. f \in Nat /\ f >= 1 /\ f < Fails(k) /\ Fails(k) \in Nat
      BY <2>1, <2>2
    <2>5. QED
      BY <2>1, <2>3, <2>4, Zenon
  <1> HIDE DEF n
  <1>4. f + 1 \in 1..Fails(k) /\ f + 1 <= n + 1 /\ row.last = z[n + 1].at
        /\ (z[n + 1].locked <=> f + 1 = Fails(k))
        /\ row.until = IF z[n + 1].locked THEN row.last + Lock ELSE Never
    <2>1. z[n + 1] = e /\ row.last = t /\ row.until = IF LockedBy(k, j) THEN t + Lock ELSE Never
      BY <1>2
    <2>2. LockedBy(k, j) <=> f + 1 >= Fails(k)
      BY DEF LockedBy
    <2> HIDE DEF f
    <2>3. f + 1 \in 1..Fails(k) /\ f + 1 <= n + 1 /\ (f + 1 >= Fails(k) <=> f + 1 = Fails(k))
      BY <1>3
    <2>4. QED
      BY <1>1, <2>1, <2>2, <2>3
  <1> HIDE DEF f
  <1>5. Close(z, n - f + 1, n + 1)
    <2> SUFFICES ASSUME NEW m \in (n - f + 1)..n PROVE z[m + 1].at - z[m].at <= Window
      BY <1>3 DEF Close
    <2>1. CASE m = n
      BY <1>1, <1>2, <1>3, <2>1 DEF n
    <2>2. CASE m < n
      <3>1. m \in (n - f + 1)..(n - 1) /\ m \in 1..n /\ m + 1 \in 1..n
        BY <1>3, <2>2
      <3>2. s[m + 1].at - s[m].at <= Window
        BY <1>3, <3>1 DEF Close
      <3>3. QED
        BY <1>2, <3>1, <3>2
    <2>3. QED
      BY <1>3, <2>1, <2>2
  <1>6. \A m \in (n - f + 1)..n : ~z[m].locked
    <2> SUFFICES ASSUME NEW m \in (n - f + 1)..n PROVE ~z[m].locked
      OBVIOUS
    <2>1. z[m] = s[m]
      BY <1>2, <1>3
    <2>2. CASE m = n
      BY <2>1, <2>2 DEF n
    <2>3. CASE m \in (n - f + 1)..(n - 1)
      BY <1>3, <2>1, <2>3
    <2>4. QED
      BY <1>3, <2>2, <2>3
  <1>7. n > f => z[n - f].locked \/ z[n - f + 1].at - z[n - f].at > Window
    <2> SUFFICES ASSUME n > f PROVE z[n - f].locked \/ z[n - f + 1].at - z[n - f].at > Window
      OBVIOUS
    <2>1. n - f \in 1..n /\ n - f + 1 \in 1..n
      BY <1>3
    <2>2. z[n - f] = s[n - f] /\ z[n - f + 1] = s[n - f + 1]
      BY <1>2, <2>1
    <2>3. QED
      BY <1>3, <2>2
  <1>8. StandsFor(k, row, z)
    <2>1. row.failures = f + 1 /\ Len(z) = n + 1
      BY <1>2 DEF f
    <2>2. (n + 1) - (f + 1) + 1 = n - f + 1 /\ (n + 1) - 1 = n /\ (n + 1) - (f + 1) = n - f
      BY <1>3
    <2>3. n + 1 > f + 1 => n > f
      BY <1>3
    <2>4. QED
      BY <1>4, <1>5, <1>6, <1>7, <2>1, <2>2, <2>3 DEF StandsFor
  <1>9. QED
    BY <1>8 DEF z, f

(* Whoever stands for a run deserves its lock, and does not miss it. *)
LEMMA RunsLock ==
    ASSUME NEW k \in Keys, NEW s \in Seq(Failure), NEW e \in Failure,
           Deserved(k, s), Comes(k, s), NEW row \in Row, StandsFor(k, row, Append(s, e))
    PROVE  Deserved(k, Append(s, e)) /\ Comes(k, Append(s, e))
  <1> DEFINE z == Append(s, e)
             n == Len(s)
             f == row.failures
  <1>1. z \in Seq(Failure) /\ Len(z) = n + 1
        /\ \A m \in 1..n : z[m] = s[m] /\ s[m] \in Failure
    BY OneMore
  <1>2. StandsFor(k, row, z)
    OBVIOUS
  <1> HIDE DEF z
  <1>3. n \in Nat /\ Fails(k) \in Nat \ {0} /\ f \in 1..Fails(k) /\ f <= n + 1
        /\ DOMAIN s = 1..n /\ DOMAIN z = 1..(n + 1)
    BY <1>1, <1>2, Numbers DEF StandsFor
  <1>4. /\ (z[n + 1].locked <=> f = Fails(k)) /\ Close(z, n + 1 - f + 1, n + 1)
        /\ (\A m \in (n + 1 - f + 1)..(n + 1 - 1) : ~z[m].locked)
        /\ (n + 1 > f => z[n + 1 - f].locked \/ z[n + 1 - f + 1].at - z[n + 1 - f].at > Window)
    <2>1. /\ (z[Len(z)].locked <=> f = Fails(k)) /\ Close(z, Len(z) - f + 1, Len(z))
          /\ (\A m \in (Len(z) - f + 1)..(Len(z) - 1) : ~z[m].locked)
          /\ (Len(z) > f => z[Len(z) - f].locked \/ z[Len(z) - f + 1].at - z[Len(z) - f].at > Window)
      BY <1>2, Zenon DEF StandsFor
    <2>2. Len(z) = n + 1
      BY <1>1
    <2> HIDE DEF n, f
    <2>3. QED
      BY ONLY <2>1, <2>2, <1>3
  <1> HIDE DEF n, f
  <1>5. ASSUME NEW j \in 1..n, First(k, j) >= 1
        PROVE  Close(z, First(k, j), j) <=> Close(s, First(k, j), j)
    <2>1. \A m \in First(k, j)..(j - 1) : z[m] = s[m] /\ z[m + 1] = s[m + 1]
      BY <1>1, <1>3, <1>5 DEF First
    <2>2. QED
      BY <2>1 DEF Close
  <1>6. Deserved(k, z)
    <2> SUFFICES ASSUME NEW j \in 1..(n + 1), z[j].locked
                 PROVE  /\ First(k, j) >= 1 /\ Close(z, First(k, j), j)
                        /\ \A m \in First(k, j)..(j - 1) : ~z[m].locked
      BY <1>3 DEF Deserved
    <2>1. CASE j = n + 1
      <3>0. z[n + 1].locked
        BY <2>1
      <3>1. f = Fails(k) /\ First(k, j) = n + 1 - f + 1
        BY <1>3, <1>4, <2>1, <3>0 DEF First
      <3>2. QED
        BY <1>3, <1>4, <2>1, <3>1
    <2>2. CASE j \in 1..n
      <3>1. /\ First(k, j) >= 1 /\ Close(s, First(k, j), j)
            /\ \A m \in First(k, j)..(j - 1) : ~s[m].locked
        BY <1>1, <1>3, <2>2 DEF Deserved
      <3>2. \A m \in First(k, j)..(j - 1) : z[m] = s[m]
        BY <1>1, <1>3, <2>2, <3>1 DEF First
      <3>3. QED
        BY <1>5, <2>2, <3>1, <3>2
    <2>3. QED
      BY <1>3, <2>1, <2>2
  <1>7. Comes(k, z)
    <2> SUFFICES ASSUME NEW j \in 1..(n + 1), First(k, j) >= 1, Close(z, First(k, j), j)
                 PROVE  \E m \in First(k, j)..j : z[m].locked
      BY <1>3 DEF Comes
    <2>1. CASE j = n + 1 /\ f = Fails(k)
      <3>1. j \in First(k, j)..j
        BY <1>3, <2>1 DEF First
      <3>2. QED
        BY <1>4, <2>1, <3>1
    <2>2. CASE j = n + 1 /\ f # Fails(k)
      <3>1. n + 1 - f \in First(k, j)..(j - 1) /\ n + 1 > f
        BY <1>3, <2>2 DEF First
      <3>2. z[n + 1 - f + 1].at - z[n + 1 - f].at <= Window
        BY <3>1 DEF Close
      <3>3. ~(z[n + 1 - f + 1].at - z[n + 1 - f].at > Window)
        <4>1. n + 1 - f \in 1..n /\ n + 1 - f + 1 \in 1..(n + 1)
          BY <1>3, <3>1
        <4>2. \A m \in 1..(n + 1) : z[m] \in Failure
          BY <1>1, <1>3
        <4>3. \A m \in 1..(n + 1) : z[m].at \in Nat
          BY <4>2 DEF Failure
        <4>4. z[n + 1 - f].at \in Nat /\ z[n + 1 - f + 1].at \in Nat
          <5>1. n + 1 - f \in 1..(n + 1) /\ n + 1 - f + 1 \in 1..(n + 1)
            BY <1>3, <4>1
          <5>2. QED
            BY <4>3, <5>1, Zenon
        <4>5. QED
          BY <3>2, <4>4, Numbers
      <3>4. z[n + 1 - f].locked
        BY <1>4, <3>1, <3>3
      <3>5. n + 1 - f \in First(k, j)..j
        BY <1>3, <3>1, <2>2 DEF First
      <3>6. QED
        BY <3>4, <3>5
    <2>3. CASE j \in 1..n
      <3>1. PICK m \in First(k, j)..j : s[m].locked
        BY <1>3, <1>5, <2>3 DEF Comes
      <3>2. z[m] = s[m]
        BY <1>1, <1>3, <2>3 DEF First
      <3>3. QED
        BY <3>1, <3>2
    <2>4. QED
      BY <1>3, <2>1, <2>2, <2>3
  <1>8. QED
    BY <1>6, <1>7 DEF z

-----------------------------------------------------------------------------
(* Steps *)

(* What the row of key k and its failures have to do with each other. *)
KeyInv(k) ==
    /\ IF limit[k] = NoRow THEN Forgotten(counted[k]) ELSE StandsFor(k, limit[k], counted[k])
    /\ Deserved(k, counted[k]) /\ Comes(k, counted[k])

LEMMA Parts == IInv <=> TypeOK /\ TimeInv /\ \A k \in Keys : KeyInv(k)
  BY DEF IInv, RowInv, LockDeserved, LockComes, KeyInv

(* The row that a failure writes. *)
LEMMA Written ==
    ASSUME TypeOK, NEW k \in Keys, NEW t \in Nat
    PROVE  /\ FailuresBefore(limit[k], t) \in Nat
           /\ [failures |-> FailuresBefore(limit[k], t) + 1, last |-> t,
               until |-> IF LockedBy(k, FailuresBefore(limit[k], t) + 1) THEN t + Lock ELSE Never]
                 \in Row
           /\ [at |-> t, locked |-> LockedBy(k, FailuresBefore(limit[k], t) + 1)] \in Failure
  <1>1. FailuresBefore(limit[k], t) \in Nat
    BY DEF TypeOK, Row, FailuresBefore
  <1>2. LockedBy(k, FailuresBefore(limit[k], t) + 1) \in BOOLEAN
    BY DEF LockedBy
  <1>3. t + Lock \in Nat
    BY Numbers
  <1>4. QED
    BY <1>1, <1>2, <1>3 DEF Row, Failure

LEMMA CountTypes ==
    ASSUME TypeOK, NEW w \in Workers, NEW k, CountFor(w, k)
    PROVE  limit' \in [Keys -> Row] /\ counted' \in [Keys -> Seq(Failure)]
  <1>1. job[w].at \in Nat
    BY DEF TypeOK
  <1>2. CASE Counts(k, job[w].at)
    <2> DEFINE row == [failures |-> FailuresBefore(limit[k], job[w].at) + 1, last |-> job[w].at,
                       until |-> IF LockedBy(k, FailuresBefore(limit[k], job[w].at) + 1)
                                 THEN job[w].at + Lock ELSE Never]
               e == [at |-> job[w].at,
                     locked |-> LockedBy(k, FailuresBefore(limit[k], job[w].at) + 1)]
    <2>1. limit' = [limit EXCEPT ![k] = row] /\ counted' = [counted EXCEPT ![k] = Append(@, e)]
      BY <1>2 DEF CountFor
    <2>2. k \in Keys => row \in Row /\ e \in Failure
      BY <1>1, Written
    <2> HIDE DEF row, e
    <2>3. limit \in [Keys -> Row] /\ counted \in [Keys -> Seq(Failure)]
      BY DEF TypeOK
    <2>4. limit' \in [Keys -> Row]
      BY <2>1, <2>2, <2>3
    <2>5. \A i \in Keys : e \in Failure => Append(counted[i], e) \in Seq(Failure)
      BY <2>3
    <2>6. counted' \in [Keys -> Seq(Failure)]
      BY <2>1, <2>2, <2>3, <2>5
    <2>7. QED
      BY <2>4, <2>6
  <1>3. CASE ~Counts(k, job[w].at)
    BY <1>3 DEF CountFor, TypeOK
  <1>4. QED
    BY <1>2, <1>3

(* The types of the logins in progress. *)
Labels == {"idle", "account", "client", "compare", "clock", "count",
           "clock2", "count2", "clear", "clear2"}
JobsOK ==
    /\ pc \in [Workers -> Labels]
    /\ job \in [Workers -> [account : Accounts \cup {NoClient},
                            client : Clients \cup {NoClient}, at : Nat]]

LEMMA Moves ==
    ASSUME JobsOK, NEW w \in Workers
    PROVE  /\ Answer(w) => JobsOK'
           /\ \A label \in Labels : Goto(w, label) => JobsOK'
  <1>1. NoJob \in [account : Accounts \cup {NoClient}, client : Clients \cup {NoClient}, at : Nat]
    BY DEF NoJob
  <1>2. Answer(w) => JobsOK'
    BY <1>1 DEF JobsOK, Answer, Labels
  <1>3. \A label \in Labels : Goto(w, label) => JobsOK'
    BY DEF JobsOK, Goto
  <1>4. QED
    BY <1>2, <1>3

LEMMA TypeStep == TypeOK /\ [Next]_vars => TypeOK'
  <1> SUFFICES ASSUME TypeOK, [Next]_vars PROVE TypeOK'
    OBVIOUS
  <1>0. JobsOK
    BY DEF TypeOK, JobsOK, Labels
  <1>1. ASSUME NEW w \in Workers, NEW a \in Accounts, NEW c \in Clients \cup {NoClient}, Login(w, a, c)
        PROVE  TypeOK'
    BY <1>1, BoundAssumption DEF Login, TypeOK
  <1>2. ASSUME NEW w \in Workers, CheckAccount(w) \/ CheckClient(w) \/ Fail(w)
        PROVE  TypeOK'
    <2>1. JobsOK'
      BY <1>0, <1>2, Moves DEF CheckAccount, CheckClient, Fail, Labels
    <2>2. QED
      BY <1>2, <2>1 DEF CheckAccount, CheckClient, Fail, TypeOK, JobsOK, Labels
  <1>3. ASSUME NEW w \in Workers, NEW right \in BOOLEAN, Compare(w, right) PROVE TypeOK'
    BY <1>3 DEF Compare, Goto, TypeOK
  <1>4. ASSUME NEW w \in Workers, ReadClock(w) PROVE TypeOK'
    <2>1. now \in Nat
      BY DEF TypeOK
    <2>2. job' \in [Workers -> [account : Accounts \cup {NoClient},
                                client : Clients \cup {NoClient}, at : Nat]]
      BY <1>4, <2>1 DEF ReadClock, TypeOK
    <2>3. QED
      BY <1>4, <2>2 DEF ReadClock, TypeOK
  <1>5. ASSUME NEW w \in Workers, CountAccount(w) \/ CountClient(w) PROVE TypeOK'
    <2>1. limit' \in [Keys -> Row] /\ counted' \in [Keys -> Seq(Failure)]
      BY <1>5, CountTypes DEF CountAccount, CountClient
    <2>2. JobsOK'
      BY <1>0, <1>5, Moves DEF CountAccount, CountClient, Labels
    <2>3. QED
      BY <1>5, <2>1, <2>2 DEF CountAccount, CountClient, TypeOK, JobsOK, Labels
  <1>6. ASSUME NEW w \in Workers, ClearAccount(w) \/ ClearClient(w) PROVE TypeOK'
    <2>1. NoRow \in Row /\ <<>> \in Seq(Failure)
      BY DEF NoRow, Row
    <2>2. limit' \in [Keys -> Row] /\ counted' \in [Keys -> Seq(Failure)]
      BY <1>6, <2>1 DEF ClearAccount, ClearClient, Clear, TypeOK
    <2>3. JobsOK'
      BY <1>0, <1>6, Moves DEF ClearAccount, ClearClient, Labels
    <2>4. QED
      BY <1>6, <2>2, <2>3 DEF ClearAccount, ClearClient, TypeOK, JobsOK, Labels
  <1>7. CASE Tick
    BY <1>7, BoundAssumption DEF Tick, TypeOK
  <1>8. CASE Janitor
    <2>1. NoRow \in Row
      BY DEF NoRow, Row
    <2>2. QED
      BY <1>8, <2>1 DEF Janitor, TypeOK
  <1>9. CASE UNCHANGED vars
    BY <1>9 DEF vars, TypeOK
  <1>10. QED
    BY <1>1, <1>2, <1>3, <1>4, <1>5, <1>6, <1>7, <1>8, <1>9 DEF Next, Step

(* What a transaction leaves behind for a key: nothing new, or one failure *)
(* more.                                                                   *)
LEMMA CountsOne ==
    ASSUME TypeOK, NEW w \in Workers, NEW k, CountFor(w, k), NEW i \in Keys
    PROVE  \/ limit'[i] = limit[i] /\ counted'[i] = counted[i]
           \/ /\ i = k /\ Counts(i, job[w].at)
              /\ LET n == FailuresBefore(limit[i], job[w].at) + 1
                 IN  /\ limit'[i] = [failures |-> n, last |-> job[w].at,
                                     until |-> IF LockedBy(i, n) THEN job[w].at + Lock ELSE Never]
                     /\ counted'[i] = Append(counted[i], [at |-> job[w].at, locked |-> LockedBy(i, n)])
  <1>1. limit \in [Keys -> Row] /\ counted \in [Keys -> Seq(Failure)]
    BY DEF TypeOK
  <1>2. CASE i = k /\ Counts(k, job[w].at)
    BY <1>1, <1>2 DEF CountFor
  <1>3. CASE i # k /\ Counts(k, job[w].at)
    BY <1>1, <1>3 DEF CountFor
  <1>4. CASE ~Counts(k, job[w].at)
    BY <1>4 DEF CountFor
  <1>5. QED
    BY <1>2, <1>3, <1>4

LEMMA TimeStep == TypeOK /\ TimeInv /\ [Next]_vars => TimeInv'
  <1> SUFFICES ASSUME TypeOK, TimeInv, [Next]_vars PROVE TimeInv'
    OBVIOUS
  <1> DEFINE Fresh == \A w \in Workers : pc[w] \in {"count", "count2"} => job[w].at \in (now - Delay)..now
             Past == \A k \in Keys : \A n \in DOMAIN counted[k] : counted[k][n].at <= now
  <1>0. now \in Nat /\ Delay \in Nat /\ now - Delay \in Int
    BY Numbers DEF TypeOK
  <1>1. ASSUME NEW w \in Workers, NEW a \in Accounts, NEW c \in Clients \cup {NoClient}, Login(w, a, c)
        PROVE  TimeInv'
    BY <1>1 DEF Login, TypeOK, TimeInv
  <1>2. ASSUME NEW w \in Workers, CheckAccount(w) \/ CheckClient(w) \/ Fail(w)
        PROVE  TimeInv'
    <2>1. now' = now /\ counted' = counted
      BY <1>2 DEF CheckAccount, CheckClient, Fail
    <2>2. \A v \in Workers : pc'[v] \in {"count", "count2"} => pc'[v] = pc[v] /\ job'[v] = job[v]
      BY <1>2 DEF CheckAccount, CheckClient, Fail, Answer, Goto, TypeOK
    <2>3. QED
      BY <2>1, <2>2 DEF TimeInv
  <1>3. ASSUME NEW w \in Workers, NEW right \in BOOLEAN, Compare(w, right) PROVE TimeInv'
    BY <1>3 DEF Compare, Goto, TypeOK, TimeInv
  <1>4. ASSUME NEW w \in Workers, ReadClock(w) PROVE TimeInv'
    <2>1. now \in (now - Delay)..now
      BY <1>0
    <2>2. job'[w].at = now /\ \A v \in Workers : v # w => job'[v] = job[v] /\ pc'[v] = pc[v]
      BY <1>4 DEF ReadClock, TypeOK
    <2>3. QED
      BY <1>4, <2>1, <2>2 DEF ReadClock, TimeInv
  <1>5. ASSUME NEW w \in Workers, NEW k, pc[w] \in {"count", "count2"}, CountFor(w, k), now' = now
        PROVE  Past'
    <2>1. SUFFICES ASSUME NEW i \in Keys, NEW n \in DOMAIN counted'[i]
                   PROVE  counted'[i][n].at <= now
      BY <1>5
    <2>2. counted[i] \in Seq(Failure) /\ job[w].at \in Nat /\ job[w].at <= now
      BY <1>0, <1>5 DEF TypeOK, TimeInv
    <2>3. CASE counted'[i] = counted[i]
      BY <2>1, <2>3 DEF TimeInv
    <2>4. CASE counted'[i] # counted[i]
      <3> DEFINE e == [at |-> job[w].at,
                       locked |-> LockedBy(i, FailuresBefore(limit[i], job[w].at) + 1)]
      <3>1. counted'[i] = Append(counted[i], e)
        BY <1>5, <2>4, CountsOne
      <3>2. e \in Failure /\ e.at = job[w].at
        BY <2>2, Written
      <3> HIDE DEF e
      <3>3. n \in 1..(Len(counted[i]) + 1)
        BY <2>1, <2>2, <3>1, <3>2, OneMore
      <3>4. CASE n = Len(counted[i]) + 1
        BY <2>2, <3>1, <3>2, <3>4, OneMore
      <3>5. CASE n \in 1..Len(counted[i])
        <4>1. n \in DOMAIN counted[i] /\ counted'[i][n] = counted[i][n]
          BY <2>2, <3>1, <3>2, <3>5, OneMore
        <4>2. QED
          BY <4>1 DEF TimeInv
      <3>6. QED
        BY <2>2, <3>3, <3>4, <3>5
    <2>5. QED
      BY <2>3, <2>4
  <1>6. ASSUME NEW w \in Workers, CountAccount(w) \/ CountClient(w) PROVE TimeInv'
    <2>1. Past'
      BY <1>5, <1>6 DEF CountAccount, CountClient
    <2>2. Fresh'
      BY <1>6 DEF CountAccount, CountClient, Answer, Goto, TypeOK, TimeInv
    <2>3. QED
      BY <2>1, <2>2 DEF TimeInv
  <1>7. ASSUME NEW w \in Workers, ClearAccount(w) \/ ClearClient(w) PROVE TimeInv'
    <2>1. \A k \in Keys : counted'[k] = counted[k] \/ counted'[k] = <<>>
      BY <1>7 DEF ClearAccount, ClearClient, Clear, TypeOK
    <2>2. now' = now
      BY <1>7 DEF ClearAccount, ClearClient
    <2>3. Past'
      BY <2>1, <2>2 DEF TimeInv
    <2>4. Fresh'
      BY <1>7 DEF ClearAccount, ClearClient, Answer, Goto, TypeOK, TimeInv
    <2>5. QED
      BY <2>3, <2>4 DEF TimeInv
  <1>8. CASE Tick
    <2>1. ASSUME NEW w \in Workers, pc[w] \in {"count", "count2"}
          PROVE  job[w].at \in (now' - Delay)..now'
      BY <1>0, <1>8, <2>1 DEF Tick, TypeOK, TimeInv
    <2>2. ASSUME NEW k \in Keys, NEW n \in DOMAIN counted[k] PROVE counted[k][n].at <= now'
      <3>1. counted[k][n].at \in Nat /\ counted[k][n].at <= now
        <4>1. counted[k] \in Seq(Failure)
          BY DEF TypeOK
        <4>2. counted[k][n] \in Failure
          BY <4>1
        <4>3. QED
          BY <4>2 DEF TimeInv, Failure
      <3>2. QED
        BY <1>0, <1>8, <3>1 DEF Tick
    <2>3. QED
      BY <1>8, <2>1, <2>2 DEF Tick, TimeInv
  <1>9. CASE Janitor \/ UNCHANGED vars
    BY <1>9 DEF Janitor, vars, TimeInv
  <1>10. QED
    BY <1>1, <1>2, <1>3, <1>4, <1>6, <1>7, <1>8, <1>9 DEF Next, Step

(* A failure that is counted keeps the row and the failures together. *)
LEMMA CountOne ==
    ASSUME IInv, NEW k \in Keys, NEW t \in Nat, t >= now - Delay, Counts(k, t),
           NEW n \in Nat, n = FailuresBefore(limit[k], t) + 1,
           NEW row \in Row, row.failures = n, row.last = t,
           row.until = IF LockedBy(k, n) THEN t + Lock ELSE Never,
           NEW e \in Failure, e.at = t, e.locked <=> LockedBy(k, n)
    PROVE  /\ row # NoRow /\ StandsFor(k, row, Append(counted[k], e))
           /\ Deserved(k, Append(counted[k], e)) /\ Comes(k, Append(counted[k], e))
  <1> DEFINE s == counted[k]
             old == limit[k]
  <1>1. TypeOK /\ TimeInv /\ KeyInv(k)
    BY Parts
  <1>2. old \in Row /\ s \in Seq(Failure) /\ now \in Nat /\ Len(s) \in Nat
    BY <1>1 DEF TypeOK
  <1>3. FailuresBefore(old, t) \in Nat
    BY <1>1, Written
  <1>5. Deserved(k, s) /\ Comes(k, s)
    BY <1>1 DEF KeyInv
  <1>6. old # NoRow => /\ StandsFor(k, old, s) /\ old.failures >= 1 /\ Len(s) \in DOMAIN s
                       /\ old.last = s[Len(s)].at /\ s[Len(s)] \in Failure
                       /\ (old.until # Never <=> s[Len(s)].locked)
    <2> SUFFICES ASSUME old # NoRow
                 PROVE  /\ StandsFor(k, old, s) /\ old.failures >= 1 /\ Len(s) \in DOMAIN s
                        /\ old.last = s[Len(s)].at /\ s[Len(s)] \in Failure
                        /\ (old.until # Never <=> s[Len(s)].locked)
      OBVIOUS
    <2>1. StandsFor(k, old, s)
      BY <1>1 DEF KeyInv
    <2>2. old.failures \in 1..Fails(k) /\ old.failures <= Len(s) /\ old.last = s[Len(s)].at
          /\ old.until = IF s[Len(s)].locked THEN old.last + Lock ELSE Never
      BY <2>1 DEF StandsFor
    <2>3. old.failures >= 1 /\ Len(s) \in DOMAIN s
      BY <1>2, <2>2, Numbers
    <2>4. s[Len(s)] \in Failure
      BY <1>2, <2>3
    <2>5. old.last \in Nat
      BY <2>2, <2>4 DEF Failure
    <2>6. old.until # Never <=> s[Len(s)].locked
      BY <2>2, <2>5, Numbers DEF Never
    <2>7. QED
      BY <2>1, <2>2, <2>3, <2>4, <2>6
  <1>7. ASSUME FailuresBefore(old, t) = 0 PROVE StandsFor(k, row, Append(s, e))
    <2>1. s = <<>> \/ s[Len(s)].locked \/ t - s[Len(s)].at > Window
      <3>1. CASE old = NoRow
        <4>1. s = <<>> \/ s[Len(s)].at < now - Retention
          BY <1>1, <3>1 DEF KeyInv, Forgotten
        <4>2. s # <<>> => s[Len(s)].at \in Nat
          <5>1. s # <<>> => Len(s) \in DOMAIN s
            BY <1>2
          <5>2. s # <<>> => s[Len(s)] \in Failure
            BY <1>2, <5>1
          <5>3. QED
            BY <5>2 DEF Failure
        <4>3. QED
          BY <1>2, <4>1, <4>2, Numbers
      <3>2. CASE old # NoRow
        <4>1. old.until # Never \/ t - old.last > Window
          BY <1>6, <1>7, <3>2 DEF FailuresBefore
        <4>2. QED
          BY <1>6, <3>2, <4>1
      <3>3. QED
        BY <3>1, <3>2
    <2>2. n = 1
      BY <1>7
    <2>3. QED
      BY <1>2, <1>5, <2>1, <2>2, NewRun
  <1>8. ASSUME FailuresBefore(old, t) # 0 PROVE StandsFor(k, row, Append(s, e))
    <2>1. FailuresBefore(old, t) = old.failures /\ old # NoRow
      BY <1>8 DEF FailuresBefore, NoRow
    <2>2. ~s[Len(s)].locked
      <3>1. ~(old.until # Never /\ old.until <= t) /\ ~(old.until > t)
        BY <1>8 DEF FailuresBefore, Counts, Locked
      <3>2. old.until \in Nat \cup {Never}
        BY <1>2 DEF Row
      <3>3. old.until = Never
        BY <3>1, <3>2 DEF Never
      <3>4. QED
        BY <1>6, <2>1, <3>3
    <2>3. t - s[Len(s)].at <= Window
      <3>1. old.last \in Nat /\ old.last = s[Len(s)].at
        BY <1>6, <2>1 DEF Failure
      <3>2. ~(old.last # Never /\ t - old.last > Window)
        BY <1>8 DEF FailuresBefore
      <3>3. QED
        BY <3>1, <3>2, Numbers DEF Never
    <2>4. n = old.failures + 1
      BY <2>1
    <2>5. StandsFor(k, old, s)
      BY <1>6, <2>1
    <2>6. QED
      BY <1>2, <2>2, <2>3, <2>4, <2>5, LongerRun
  <1>9. StandsFor(k, row, Append(s, e))
    BY <1>7, <1>8
  <1>10. row # NoRow
    BY <1>3 DEF NoRow
  <1>11. QED
    BY <1>2, <1>5, <1>9, <1>10, RunsLock

LEMMA CountKeeps ==
    ASSUME IInv, NEW w \in Workers, pc[w] \in {"count", "count2"}, NEW k, CountFor(w, k), now' = now
    PROVE  \A i \in Keys : KeyInv(i)'
  <1> SUFFICES ASSUME NEW i \in Keys PROVE KeyInv(i)'
    OBVIOUS
  <1>1. TypeOK /\ TimeInv /\ KeyInv(i)
    BY Parts
  <1>2. job[w].at \in Nat /\ job[w].at >= now - Delay
    BY <1>1 DEF TypeOK, TimeInv
  <1>3. CASE limit'[i] = limit[i] /\ counted'[i] = counted[i]
    BY <1>1, <1>3 DEF KeyInv, Forgotten
  <1>4. CASE ~(limit'[i] = limit[i] /\ counted'[i] = counted[i])
    <2> DEFINE n == FailuresBefore(limit[i], job[w].at) + 1
               e == [at |-> job[w].at, locked |-> LockedBy(i, n)]
               row == [failures |-> n, last |-> job[w].at,
                       until |-> IF LockedBy(i, n) THEN job[w].at + Lock ELSE Never]
    <2>1. Counts(i, job[w].at) /\ limit'[i] = row /\ counted'[i] = Append(counted[i], e)
      BY <1>1, <1>4, CountsOne
    <2>2. row \in Row /\ e \in Failure /\ n \in Nat
      BY <1>1, <1>2, Written
    <2>3. /\ n = FailuresBefore(limit[i], job[w].at) + 1 /\ row.failures = n /\ row.last = job[w].at
          /\ row.until = IF LockedBy(i, n) THEN job[w].at + Lock ELSE Never
          /\ e.at = job[w].at /\ (e.locked <=> LockedBy(i, n))
      OBVIOUS
    <2> HIDE DEF n, e, row
    <2>4. row # NoRow /\ StandsFor(i, row, Append(counted[i], e))
          /\ Deserved(i, Append(counted[i], e)) /\ Comes(i, Append(counted[i], e))
      BY <1>2, <2>1, <2>2, <2>3, CountOne
    <2>5. QED
      BY <2>1, <2>4 DEF KeyInv
  <1>5. QED
    BY <1>3, <1>4

LEMMA RowStep == IInv /\ [Next]_vars => \A k \in Keys : KeyInv(k)'
  <1> SUFFICES ASSUME IInv, [Next]_vars, NEW k \in Keys PROVE KeyInv(k)'
    OBVIOUS
  <1>1. TypeOK /\ TimeInv /\ KeyInv(k)
    BY Parts
  <1>2. CASE UNCHANGED <<now, limit, counted>>
    BY <1>1, <1>2 DEF KeyInv, Forgotten
  <1>3. ASSUME NEW w \in Workers, CountAccount(w) \/ CountClient(w) PROVE KeyInv(k)'
    BY <1>3, CountKeeps DEF CountAccount, CountClient
  <1>4. ASSUME limit'[k] = NoRow, counted'[k] = <<>> PROVE KeyInv(k)'
    BY <1>4 DEF KeyInv, Forgotten, Deserved, Comes
  <1>5. ASSUME NEW w \in Workers, ClearAccount(w) \/ ClearClient(w) PROVE KeyInv(k)'
    <2>1. now' = now /\ \/ limit'[k] = limit[k] /\ counted'[k] = counted[k]
                        \/ limit'[k] = NoRow /\ counted'[k] = <<>>
      BY <1>1, <1>5 DEF ClearAccount, ClearClient, Clear, TypeOK
    <2>2. QED
      BY <1>1, <1>4, <2>1 DEF KeyInv, Forgotten
  <1>6. counted[k] # <<>> => counted[k][Len(counted[k])].at \in Nat
    <2>1. counted[k] \in Seq(Failure)
      BY <1>1 DEF TypeOK
    <2>2. counted[k] # <<>> => Len(counted[k]) \in DOMAIN counted[k]
      BY <2>1
    <2>3. counted[k] # <<>> => counted[k][Len(counted[k])] \in Failure
      BY <2>1, <2>2
    <2>4. QED
      BY <2>3 DEF Failure
  <1>7. CASE Tick
    <2>1. now \in Nat /\ now' = now + 1 /\ limit' = limit /\ counted' = counted
      BY <1>1, <1>7 DEF Tick, TypeOK
    <2>2. Forgotten(counted[k]) => Forgotten(counted[k])'
      BY <1>6, <2>1, Numbers DEF Forgotten
    <2>3. QED
      BY <1>1, <2>1, <2>2 DEF KeyInv
  <1>8. CASE Janitor
    <2>1. now' = now /\ counted' = counted
          /\ limit'[k] = IF Outlived(limit[k]) THEN NoRow ELSE limit[k]
      BY <1>8 DEF Janitor
    <2>2. CASE ~Outlived(limit[k]) \/ limit[k] = NoRow
      BY <1>1, <2>1, <2>2 DEF KeyInv, Forgotten
    <2>3. CASE Outlived(limit[k]) /\ limit[k] # NoRow
      <3>1. limit[k].last = counted[k][Len(counted[k])].at
        BY <1>1, <2>3 DEF KeyInv, StandsFor
      <3>2. Forgotten(counted[k])
        BY <2>3, <3>1 DEF Outlived, Forgotten
      <3>3. QED
        BY <1>1, <2>1, <2>3, <3>2 DEF KeyInv, Forgotten
    <2>4. QED
      BY <2>2, <2>3
  <1>9. QED
    BY <1>2, <1>3, <1>5, <1>7, <1>8
       DEF Next, Step, vars, Login, CheckAccount, CheckClient, Compare, ReadClock, Fail

-----------------------------------------------------------------------------
(* The theorems *)

LEMMA Initial == Init => IInv
  <1> SUFFICES ASSUME Init PROVE IInv
    OBVIOUS
  <1>1. NoRow \in Row /\ <<>> \in Seq(Failure)
    BY DEF NoRow, Row
  <1>2. TypeOK
    BY <1>1, BoundAssumption DEF Init, TypeOK, NoJob
  <1>3. TimeInv
    BY DEF Init, TimeInv
  <1>4. \A k \in Keys : KeyInv(k)
    BY DEF Init, KeyInv, Forgotten, Deserved, Comes
  <1>5. QED
    BY <1>2, <1>3, <1>4, Parts

LEMMA Inductive == IInv /\ [Next]_vars => IInv'
  <1> SUFFICES ASSUME IInv, [Next]_vars PROVE IInv'
    OBVIOUS
  <1>1. TypeOK' /\ TimeInv'
    BY TypeStep, TimeStep DEF IInv
  <1>2. (\A k \in Keys : KeyInv(k))'
    BY RowStep
  <1>3. (TypeOK /\ TimeInv /\ \A k \in Keys : KeyInv(k))' => IInv'
    BY Parts DEF IInv, RowInv, LockDeserved, LockComes, KeyInv
  <1>4. QED
    BY <1>1, <1>2, <1>3

(* The inductive invariant always holds: a row stands for the last run of  *)
(* failures, and no row for failures too old for the run to go on.         *)
THEOREM Invariance == Spec => []IInv
  <1>1. QED
    BY Initial, Inductive, PTL DEF Spec

(* Every variable has its type. *)
THEOREM TypeCorrect == Spec => []TypeOK
  <1>1. IInv => TypeOK
    BY DEF IInv
  <1>2. QED
    BY <1>1, Invariance, PTL

(* Every lock took the full number of close failures (the counting in      *)
(* RegisterLoginFailure).                                                  *)
THEOREM LocksDeserved == Spec => []LockDeserved
  <1>1. IInv => LockDeserved
    BY DEF IInv
  <1>2. QED
    BY <1>1, Invariance, PTL

(* So many close failures have brought a lock, with rows deleted by        *)
(* DeleteExpiredLoginLimits in between.                                    *)
THEOREM LocksCome == Spec => []LockComes
  <1>1. IInv => LockComes
    BY DEF IInv
  <1>2. QED
    BY <1>1, Invariance, PTL

(* Failures under way neither extend nor shorten a lock: they find it, as  *)
(* they took the time before.                                              *)
THEOREM LocksKept == Spec => LockKept
  <1> DEFINE Kept == \A k \in Keys : Locked(k, now) =>
                        limit'[k].until = limit[k].until \/ (limit'[k] = NoRow /\ LetIn(k))
  <1>1. ASSUME IInv, [Next]_vars PROVE Kept
    <2> SUFFICES ASSUME NEW k \in Keys, limit[k].until > now
                 PROVE  limit'[k].until = limit[k].until \/ (limit'[k] = NoRow /\ LetIn(k))
      BY DEF Locked
    <2>1. TypeOK /\ TimeInv /\ now \in Nat /\ limit[k].until \in Nat \cup {Never}
      BY <1>1 DEF IInv, TypeOK, Row
    <2>2. ASSUME NEW w \in Workers, CountAccount(w) \/ CountClient(w) PROVE limit'[k] = limit[k]
      <3>1. job[w].at \in Nat /\ job[w].at <= now
        BY <2>1, <2>2 DEF CountAccount, CountClient, TypeOK, TimeInv
      <3>2. ~Counts(k, job[w].at)
        BY <2>1, <3>1 DEF Counts, Locked, Never
      <3>3. QED
        BY <2>1, <2>2, <3>2, CountsOne DEF CountAccount, CountClient
    <2>3. ASSUME NEW w \in Workers, ClearAccount(w) \/ ClearClient(w)
          PROVE  limit'[k] = limit[k] \/ (limit'[k] = NoRow /\ LetIn(k))
      BY <2>1, <2>3 DEF ClearAccount, ClearClient, Clear, TypeOK, LetIn
    <2>4. CASE Janitor
      <3>1. ~Outlived(limit[k])
        BY <2>1 DEF Outlived, Never
      <3>2. QED
        BY <2>4, <3>1 DEF Janitor
    <2>5. CASE UNCHANGED limit
      BY <2>5
    <2>6. QED
      BY <1>1, <2>2, <2>3, <2>4, <2>5
         DEF Next, Step, vars, Login, CheckAccount, CheckClient, Compare, ReadClock, Fail, Tick
  <1>2. QED
    BY <1>1, Invariance, PTL DEF Spec, LockKept
=============================================================================
