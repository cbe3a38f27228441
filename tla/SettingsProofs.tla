--------------------------- MODULE SettingsProofs ---------------------------
(***************************************************************************)
(* Theorems about Settings: what a restart brings back, that the migration *)
(* of secrets never changes one, and that concurrent requests do not undo  *)
(* each other; for any fields, values and requests and for any bounds.     *)
(***************************************************************************)
EXTENDS Settings, TLAPS

USE FieldAssumption, ValueAssumption, ActorAssumption

(* Configurations derived from configurations. *)
LEMMA DerivedConfigs ==
    ASSUME NEW c \in Configs
    PROVE  Normalised(c) \in Configs /\ Saved(c) \in File /\ Nothing \in Configs
  BY DEF Normalised, Saved, File, Configs, Fields, Nothing

(* The candidate of an update is a configuration. *)
LEMMA CandidateType ==
    ASSUME TypeOK, NEW a \in Actors
    PROVE  Applied(a, Base(a)) \in Configs
  BY DEF Applied, Base, TypeOK, Actor, Configs, Fields

(* Being idle is a state of an actor. *)
LEMMA IdleType == Idle \in Actor
  BY RequestAssumption DEF Idle, Actor, Untouched, Nothing, Configs, Fields

(* Requests are what a request may be. *)
LEMMA ChangesType == Changes \subseteq [Fields -> Values \cup {Empty, Keep}]
  BY RequestAssumption DEF Changes

(* What both kinds of requests do. *)
LEMMA Requests ==
    ASSUME TypeOK, NEW s \in Savers,
           \/ \E r \in SaveRequests : Save(s, r)
           \/ \E r \in DetectRequests : Detect(s, r)
    PROVE  \E r \in Changes : Ask(s, r)
  <1>1. ASSUME NEW r \in SaveRequests, Save(s, r)
        PROVE  \E q \in Changes : Ask(s, q)
    <2>1. mem[Registration] \in Values \cup {Empty}
      BY DEF TypeOK, Configs, Fields
    <2>2. CASE r[Registration] # Keep
      BY <1>1, <2>2 DEF Save, Changes
    <2>3. CASE r[Registration] = Keep
      <3>1. [r EXCEPT ![Registration] = mem[Registration]] \in Changes
        BY <2>1, <2>3 DEF Changes
      <3>2. QED
        BY <1>1, <2>3, <3>1 DEF Save
    <2>4. QED
      BY <2>2, <2>3
  <1>2. QED
    BY <1>1 DEF Detect, Changes

(* The kinds of steps. *)
LEMMA Steps ==
    ASSUME TypeOK, [Next]_vars
    PROVE  \/ Start \/ CreateFile \/ FillFile \/ Crash \/ UNCHANGED vars
           \/ \E k \in Secrets : LoadSecret(k)
           \/ \E s \in Savers, r \in Changes : Ask(s, r)
           \/ \E a \in Actors : \/ Begin(a) \/ Persist(a) \/ Install(a) \/ Fail(a)
                                \/ \E k \in Secrets : Sync(a, k)
  BY Requests DEF Next

-----------------------------------------------------------------------------
(* Types *)

LEMMA TypeInit == Init => TypeOK
  BY IdleType, BoundAssumption
  DEF Init, TypeOK, File, Nothing, Configs, Fields

LEMMA TypeStep == TypeOK /\ [Next]_vars => TypeOK'
  <1> SUFFICES ASSUME TypeOK, [Next]_vars PROVE TypeOK'
    OBVIOUS
  <1> USE DEF TypeOK
  <1>1. ASSUME NEW c \in Configs, Load(c)
        PROVE  phase' = "loading" /\ mem' \in Configs /\ actor' \in [Actors -> Actor]
    <2>1. [Idle EXCEPT !.pc = "load", !.todo = Secrets] \in Actor
      BY IdleType DEF Actor
    <2>2. QED
      BY <1>1, <2>1, DerivedConfigs DEF Load
  <1>2. CASE Start
    <2>1. file.is \in Configs
      BY DEF File
    <2>2. QED
      BY <1>1, <1>2, <2>1 DEF Start
  <1>3. CASE CreateFile
    BY <1>3 DEF CreateFile, File
  <1>4. CASE FillFile
    <2>1. Nothing \in Configs
      BY DEF Nothing, Configs
    <2>2. QED
      BY <1>1, <1>4, <2>1 DEF FillFile, File
  <1>5. ASSUME NEW k \in Secrets, LoadSecret(k) PROVE TypeOK'
    <2>1. Found(k) \in Values \cup {Empty}
      BY DEF Found, Configs, Fields
    <2>2. Boot \in Actors /\ actor[Boot] \in Actor
      BY DEF Actors
    <2>3. [actor[Boot].req EXCEPT ![k] = Found(k)] \in [Fields -> Values \cup {Empty, Keep}]
      BY <2>1, <2>2 DEF Actor
    <2>4. actor' \in [Actors -> Actor]
      BY <1>5, <2>2, <2>3 DEF LoadSecret, Actor
    <2>5. QED
      BY <1>5, <2>1, <2>4 DEF LoadSecret
  <1>6. ASSUME NEW s \in Savers, NEW r \in Changes, Ask(s, r)
        PROVE  TypeOK'
    <2>1. [Idle EXCEPT !.pc = "begin", !.req = r, !.seen = mem] \in Actor
      BY IdleType, ChangesType DEF Actor
    <2>2. QED
      BY <1>6, <2>1, BoundAssumption DEF Ask, Actors
  <1>7. ASSUME NEW a \in Actors, Begin(a) PROVE TypeOK'
    <2>1. Applied(a, Base(a)) \in Configs /\ actor[a] \in Actor
      BY CandidateType
    <2>2. [actor[a] EXCEPT !.pc = "sync", !.cand = Applied(a, Base(a)), !.todo = Secrets] \in Actor
      BY <2>1 DEF Actor
    <2>3. QED
      BY <1>7, <2>2 DEF Begin
  <1>8. ASSUME NEW a \in Actors, Persist(a) PROVE TypeOK'
    <2>1. actor[a].cand \in Configs
      BY DEF Actor
    <2>2. actor' \in [Actors -> Actor]
      BY <1>8 DEF Persist, Actor
    <2>3. QED
      BY <1>8, <2>1, <2>2, DerivedConfigs DEF Persist
  <1>9. ASSUME NEW a \in Actors, Install(a) PROVE TypeOK'
    <2>1. actor[a].cand \in Configs
      BY DEF Actor
    <2>2. QED
      BY <1>9, <2>1, IdleType DEF Install
  <1>10. ASSUME Down
         PROVE  /\ phase' = "down" /\ writer' = NoOne /\ mem' \in Configs
                /\ actor' \in [Actors -> Actor]
    BY <1>10, IdleType, DerivedConfigs DEF Down
  <1>11. ASSUME NEW a \in Actors, Fail(a) PROVE TypeOK'
    BY <1>10, <1>11, IdleType, BoundAssumption DEF Fail, UnlockedAfter, AfterFailure
  <1>12. ASSUME NEW a \in Actors, NEW k \in Secrets, Sync(a, k) PROVE TypeOK'
    <2>1. Synced(k, actor[a].cand[k]) \in Values \cup {Empty}
      BY DEF Synced, Actor, Configs, Fields
    <2>2. actor' \in [Actors -> Actor]
      BY <1>12 DEF Sync, Actor
    <2>3. QED
      BY <1>12, <2>1, <2>2 DEF Sync
  <1>13. CASE Crash
    BY <1>10, <1>13, BoundAssumption DEF Crash
  <1>14. CASE UNCHANGED vars
    BY <1>14 DEF vars
  <1>15. QED
    BY <1>2, <1>3, <1>4, <1>5, <1>6, <1>7, <1>8, <1>9, <1>11, <1>12, <1>13, <1>14, Steps

-----------------------------------------------------------------------------
(* The lock, updates, file and memory *)

LEMMA CoreInit == Init => CoreInv
  <1> SUFFICES ASSUME Init PROVE CoreInv
    OBVIOUS
  <1>1. \A a \in Actors : actor[a].pc = "idle" /\ writer # a
    BY DEF Init, Idle
  <1>2. LockInv /\ UpdateInv /\ DiskInv
    BY <1>1 DEF Init, LockInv, UpdateInv, DiskInv, Actors
  <1>3. QED
    BY <1>2, TypeInit DEF CoreInv

(* A process that has ended leaves nothing to be said. *)
LEMMA DownInv ==
    ASSUME Down
    PROVE  LockInv' /\ UpdateInv' /\ DiskInv'
  <1>1. \A a \in Actors : actor'[a].pc = "idle" /\ writer' # a
    BY DEF Down, Idle
  <1>2. QED
    BY <1>1 DEF Down, LockInv, UpdateInv, DiskInv, Actors

(* The same while the file is read. *)
LEMMA LoadInv ==
    ASSUME TypeOK, LockInv, phase \in {"down", "creating"}, NEW c, Load(c), UNCHANGED writer
    PROVE  LockInv' /\ UpdateInv' /\ DiskInv'
  <1>1. \A a \in Actors : actor'[a].pc = (IF a = Boot THEN "load" ELSE "idle")
    BY DEF Load, Idle, LockInv, TypeOK, Actors, Actor
  <1>2. \A a \in Actors : writer' # a
    BY DEF LockInv, Actors
  <1>3. QED
    BY <1>1, <1>2 DEF Load, LockInv, UpdateInv, DiskInv, Actors

LEMMA CoreStep == CoreInv /\ [Next]_vars => CoreInv'
  <1> SUFFICES ASSUME CoreInv, [Next]_vars PROVE CoreInv'
    OBVIOUS
  <1> USE DEF CoreInv
  <1>0. TypeOK'
    BY TypeStep
  <1>1. SUFFICES LockInv' /\ UpdateInv' /\ DiskInv'
    BY <1>0
  <1>2. CASE Start
    BY <1>2, LoadInv DEF Start
  <1>3. CASE CreateFile
    BY <1>3 DEF CreateFile, LockInv, UpdateInv, DiskInv, Actors
  <1>4. CASE FillFile
    BY <1>4, LoadInv DEF FillFile
  <1>5. ASSUME NEW k \in Secrets, LoadSecret(k) PROVE LockInv' /\ UpdateInv' /\ DiskInv'
    <2>1. Boot \in Actors /\ actor[Boot] \in Actor /\ phase = "loading" /\ writer # Boot
      BY <1>5 DEF LoadSecret, LockInv, TypeOK, Actors
    <2>2. actor'[Boot].pc \in {"load", "begin"}
      BY <1>5, <2>1 DEF LoadSecret, TypeOK, Actor
    <2>3. \A s \in Savers : actor'[s] = actor[s] /\ actor[s].pc = "idle" /\ writer # s
      BY <1>5, <2>1 DEF LoadSecret, TypeOK, LockInv, Actors
    <2>4. LockInv'
      BY <1>5, <2>1, <2>2, <2>3 DEF LoadSecret, LockInv, Actors
    <2>5. \A a \in Actors : actor'[a].pc \notin {"sync", "install"}
      BY <2>2, <2>3 DEF Actors
    <2>6. UpdateInv'
      BY <2>5 DEF UpdateInv
    <2>7. DiskInv'
      BY <1>5, <2>1 DEF LoadSecret, DiskInv
    <2>8. QED
      BY <2>4, <2>6, <2>7
  <1>6. ASSUME NEW s \in Savers, NEW r, Ask(s, r)
        PROVE  LockInv' /\ UpdateInv' /\ DiskInv'
    <2>1. \A a \in Actors : IF a = s THEN actor'[a].pc = "begin" ELSE actor'[a] = actor[a]
      BY <1>6 DEF Ask, Idle, TypeOK, Actors
    <2>2. QED
      BY <1>6, <2>1 DEF Ask, LockInv, UpdateInv, DiskInv, Actors
  <1>7. ASSUME NEW a \in Actors, Begin(a) PROVE LockInv' /\ UpdateInv' /\ DiskInv'
    <2>1. \A b \in Actors :
             IF b = a THEN actor'[b].pc = "sync" /\ actor'[b].todo = Secrets
                      ELSE actor'[b] = actor[b] /\ actor[b].pc \notin {"sync", "install"}
      BY <1>7 DEF Begin, LockInv, TypeOK, Actor
    <2>2. QED
      BY <1>7, <2>1 DEF Begin, LockInv, UpdateInv, DiskInv, Actors
  <1>8. ASSUME NEW a \in Actors, NEW k \in Secrets, Sync(a, k)
        PROVE  LockInv' /\ UpdateInv' /\ DiskInv'
    <2>1. /\ \A b \in Actors : b # a => actor'[b] = actor[b]
                                        /\ actor[b].pc \notin {"sync", "install"}
          /\ actor'[a].pc = "sync" /\ actor'[a].cand = actor[a].cand
          /\ actor'[a].todo = actor[a].todo \ {k}
      BY <1>8 DEF Sync, LockInv, TypeOK, Actor
    <2>2. stored' = [stored EXCEPT ![k] = IF actor[a].cand[k] = Empty THEN @ ELSE actor[a].cand[k]]
      BY <1>8 DEF Sync, Synced, TypeOK
    <2>3. LockInv'
      BY <1>8, <2>1 DEF Sync, LockInv, Actors
    <2>4. UpdateInv'
      BY <1>8, <2>1, <2>2 DEF Sync, UpdateInv, TypeOK
    <2>5. ASSUME phase = "running" PROVE DiskInv'
      <3>1. a \in Savers
        BY <1>8, <2>5 DEF Sync, LockInv, Actors
      <3>2. \A s \in Savers : s # a => actor'[s] = actor[s]
                                       /\ actor[s].pc \notin {"sync", "install"}
        BY <2>1 DEF Actors
      <3>3. ASSUME failures = 0, NEW j \in Secrets
            PROVE  \/ mem[j] \in {Empty, stored'[j]}
                   \/ \E s \in Savers : actor'[s].pc \in {"sync", "install"} /\ j \notin actor'[s].todo
        <4>1. CASE j = k
          BY <2>1, <3>1, <4>1
        <4>2. CASE j # k
          BY <1>8, <2>1, <2>2, <2>5, <3>1, <3>2, <3>3, <4>2 DEF Sync, DiskInv, TypeOK
        <4>3. QED
          BY <4>1, <4>2
      <3>4. QED
        BY <1>8, <2>1, <2>5, <3>1, <3>2, <3>3 DEF Sync, DiskInv
    <2>6. QED
      BY <1>8, <2>3, <2>4, <2>5 DEF Sync, DiskInv
  <1>9. ASSUME NEW a \in Actors, Persist(a) PROVE LockInv' /\ UpdateInv' /\ DiskInv'
    <2>1. /\ \A b \in Actors : b # a => actor'[b] = actor[b]
                                        /\ actor[b].pc \notin {"sync", "install"}
          /\ actor'[a].pc = "install" /\ actor'[a].cand = actor[a].cand
          /\ actor'[a].todo = actor[a].todo /\ actor[a].todo = {} /\ actor[a].pc = "sync"
      BY <1>9 DEF Persist, LockInv, TypeOK, Actor
    <2>2. LockInv'
      BY <1>9, <2>1 DEF Persist, LockInv, Actors
    <2>3. UpdateInv'
      BY <1>9, <2>1 DEF Persist, UpdateInv
    <2>4. DiskInv'
      <3>1. SUFFICES ASSUME phase = "running" PROVE DiskInv'
        BY <1>9 DEF Persist, DiskInv
      <3>2. a \in Savers
        BY <1>9, <2>1, <3>1 DEF LockInv, Actors
      <3>3. \A k \in Secrets : file'.is[k] = Empty
        BY <1>9 DEF Persist, Saved, Fields
      <3>4. QED
        BY <1>9, <2>1, <3>2, <3>3 DEF Persist, Saved, DiskInv
    <2>5. QED
      BY <2>2, <2>3, <2>4
  <1>10. ASSUME NEW a \in Actors, Install(a) PROVE LockInv' /\ UpdateInv' /\ DiskInv'
    <2>1. /\ \A b \in Actors : b # a => actor'[b] = actor[b]
                                        /\ actor[b].pc \notin {"sync", "install"}
          /\ actor'[a].pc = "idle" /\ actor[a].pc = "install" /\ actor[a].todo = {}
      BY <1>10 DEF Install, LockInv, UpdateInv, TypeOK, Idle
    <2>2. LockInv'
      BY <1>10, <2>1 DEF Install, LockInv, Actors
    <2>3. UpdateInv'
      BY <1>10, <2>1 DEF Install, UpdateInv
    <2>4. DiskInv'
      <3>1. file = Saved(actor[a].cand)
            /\ \A k \in Secrets : actor[a].cand[k] # Empty => stored[k] = actor[a].cand[k]
        BY <1>10, <2>1 DEF UpdateInv
      <3>2. QED
        BY <1>10, <3>1 DEF Install, DiskInv, Saved, Fields
    <2>5. QED
      BY <2>2, <2>3, <2>4
  <1>11. ASSUME NEW a \in Actors, Fail(a) PROVE LockInv' /\ UpdateInv' /\ DiskInv'
    <2>1. CASE a = Boot
      BY <1>11, <2>1, DownInv DEF Fail
    <2>2. CASE a # Boot
      <3>1. /\ \A b \in Actors : b # a => actor'[b] = actor[b]
                                          /\ actor[b].pc \notin {"sync", "install"}
            /\ actor'[a].pc = "idle" /\ actor[a].pc = "sync" /\ writer' = NoOne /\ a \in Savers
        BY <1>11, <2>2 DEF Fail, UnlockedAfter, LockInv, TypeOK, Idle, Actors
      <3>2. LockInv'
        BY <1>11, <2>2, <3>1 DEF Fail, LockInv, Actors
      <3>3. UpdateInv'
        BY <1>11, <2>2, <3>1 DEF Fail, UpdateInv
      <3>4. failures' # 0
        BY <1>11, BoundAssumption DEF Fail, TypeOK
      <3>5. DiskInv'
        BY <1>11, <2>2, <3>1, <3>4 DEF Fail, AfterFailure, DiskInv, Actors
      <3>6. QED
        BY <3>2, <3>3, <3>5
    <2>3. QED
      BY <2>1, <2>2
  <1>12. CASE Crash
    BY <1>12, DownInv DEF Crash
  <1>13. CASE UNCHANGED vars
    BY <1>13 DEF vars, LockInv, UpdateInv, DiskInv
  <1>14. QED
    BY <1>2, <1>3, <1>4, <1>5, <1>6, <1>7, <1>8, <1>9, <1>10, <1>11, <1>12, <1>13, Steps

-----------------------------------------------------------------------------
(* The migration of secrets *)

(* While the server starts, nobody else is active. *)
LEMMA OnlyBoot ==
    ASSUME CoreInv, phase # "running"
    PROVE  \A s \in Savers : actor[s].pc = "idle" /\ writer # s
  BY DEF CoreInv, LockInv, Actors

LEMMA MigrationInit == Init => MigrationInv
  BY DEF Init, MigrationInv

LEMMA MigrationStep == CoreInv /\ MigrationInv /\ [Next]_vars => MigrationInv'
  <1> SUFFICES ASSUME CoreInv, MigrationInv, [Next]_vars PROVE MigrationInv'
    OBVIOUS
  <1> USE DEF Durable
  <1>t. TypeOK
    BY DEF CoreInv
  <1>b. Boot \in Actors /\ actor[Boot] \in Actor
    BY <1>t DEF TypeOK, Actors
  <1>1. ASSUME NEW c, Load(c), file'.is = c, file'.state = "whole", UNCHANGED stored
        PROVE  MigrationInv'
    <2>1. actor'[Boot].pc = "load" /\ actor'[Boot].todo = Secrets
      BY <1>1, <1>t, <1>b DEF Load, TypeOK, Idle
    <2>2. \A k \in Secrets : mem'[k] = c[k]
      BY <1>1 DEF Load, Normalised, Fields
    <2>3. phase' = "loading"
      BY <1>1 DEF Load
    <2>4. QED
      BY <1>1, <2>1, <2>2, <2>3 DEF MigrationInv
  <1>2. CASE Start
    BY <1>1, <1>2 DEF Start
  <1>3. CASE CreateFile
    BY <1>3, <1>t DEF CreateFile, MigrationInv, TypeOK, File
  <1>4. CASE FillFile
    BY <1>1, <1>4 DEF FillFile
  <1>5. ASSUME NEW k \in Secrets, LoadSecret(k) PROVE MigrationInv'
    <2>1. phase = "loading" /\ mem[k] = file.is[k]
      BY <1>5, <1>b DEF LoadSecret, CoreInv, LockInv, MigrationInv
    <2>2. Found(k) = Durable(k)
      BY <2>1 DEF Found
    <2>3. /\ stored' = [stored EXCEPT ![k] = Found(k)]
          /\ actor'[Boot].req = [actor[Boot].req EXCEPT ![k] = Found(k)]
          /\ actor'[Boot].todo = actor[Boot].todo \ {k}
          /\ actor'[Boot].pc \in {"load", "begin"} /\ actor[Boot].pc = "load"
          /\ actor'[Boot].pc = "begin" => actor[Boot].todo = {k}
      BY <1>5, <1>b, <1>t DEF LoadSecret, TypeOK, Actor
    <2>4. stored'[k] = actor'[Boot].req[k] /\ stored'[k] = Durable(k)'
      BY <1>5, <1>b, <1>t, <2>2, <2>3 DEF LoadSecret, TypeOK, Actor, Fields
    <2>5. \A j \in Secrets \ {k} :
             stored'[j] = stored[j] /\ actor'[Boot].req[j] = actor[Boot].req[j]
      BY <1>b, <1>t, <2>3 DEF TypeOK, Actor, Fields
    <2>6. QED
      BY <1>5, <2>1, <2>3, <2>4, <2>5 DEF LoadSecret, MigrationInv
  <1>6. ASSUME NEW s \in Savers, NEW r, Ask(s, r)
        PROVE  MigrationInv'
    BY <1>6 DEF Ask, MigrationInv
  <1>7. ASSUME NEW a \in Actors, Begin(a) PROVE MigrationInv'
    <2>1. CASE phase = "loading"
      <3>1. a = Boot
        BY <1>7, <2>1, OnlyBoot DEF Begin, Actors
      <3>2. \A k \in Secrets : actor[Boot].req[k] = stored[k] /\ stored[k] = Durable(k)
        BY <1>7, <2>1, <3>1 DEF Begin, MigrationInv
      <3>3. \A k \in Secrets : Applied(Boot, Base(Boot))[k] = stored[k]
        BY <3>2, <1>t DEF Applied, Fields, TypeOK
      <3>4. /\ actor'[Boot].pc = "sync" /\ actor'[Boot].req = actor[Boot].req
            /\ actor'[Boot].cand = Applied(Boot, Base(Boot)) /\ actor[Boot].pc = "begin"
        BY <1>7, <3>1, <1>b, <1>t DEF Begin, TypeOK, Actor
      <3>5. QED
        BY <1>7, <2>1, <3>2, <3>3, <3>4 DEF Begin, MigrationInv
    <2>2. CASE phase # "loading"
      BY <1>7, <2>2 DEF Begin, MigrationInv
    <2>3. QED
      BY <2>1, <2>2
  <1>8. ASSUME NEW a \in Actors, NEW k \in Secrets, Sync(a, k) PROVE MigrationInv'
    <2>1. CASE phase = "loading"
      <3>1. a = Boot
        BY <1>8, <2>1, OnlyBoot DEF Sync, Actors
      <3>2. actor[Boot].cand[k] = stored[k]
        BY <1>8, <2>1, <3>1 DEF Sync, MigrationInv
      <3>3. stored' = stored
        BY <1>8, <1>t, <3>1, <3>2 DEF Sync, Synced, TypeOK
      <3>4. /\ actor'[Boot].pc = "sync" /\ actor'[Boot].req = actor[Boot].req
            /\ actor'[Boot].cand = actor[Boot].cand /\ actor[Boot].pc = "sync"
        BY <1>8, <3>1, <1>b, <1>t DEF Sync, TypeOK, Actor
      <3>5. QED
        BY <1>8, <2>1, <3>3, <3>4 DEF Sync, MigrationInv
    <2>2. CASE phase # "loading"
      BY <1>8, <2>2 DEF Sync, MigrationInv
    <2>3. QED
      BY <2>1, <2>2
  <1>9. ASSUME NEW a \in Actors, Persist(a) PROVE MigrationInv'
    <2>1. file'.state = "whole" /\ \A k \in Secrets : file'.is[k] = Empty
      BY <1>9 DEF Persist, Saved, Fields
    <2>2. CASE phase = "loading"
      <3>1. a = Boot
        BY <1>9, <2>2, OnlyBoot DEF Persist, Actors
      <3>2. /\ actor'[Boot].pc = "install" /\ actor'[Boot].req = actor[Boot].req
            /\ actor'[Boot].cand = actor[Boot].cand /\ actor[Boot].pc = "sync"
        BY <1>9, <3>1, <1>b, <1>t DEF Persist, TypeOK, Actor
      <3>3. \A k \in Secrets : /\ stored[k] = actor[Boot].req[k]
                               /\ actor[Boot].cand[k] = stored[k]
        BY <2>2, <3>2 DEF MigrationInv
      <3>4. \A k \in Secrets : stored'[k] = stored[k] /\ Durable(k)' = stored[k]
        BY <1>9, <2>1 DEF Persist
      <3>5. phase' = "loading"
        BY <1>9, <2>2 DEF Persist
      <3>6. \A k \in Secrets : /\ stored'[k] = actor'[Boot].req[k] /\ stored'[k] = Durable(k)'
                               /\ actor'[Boot].cand[k] = stored'[k]
        BY <3>2, <3>3, <3>4
      <3>7. QED
        BY <2>1, <3>2, <3>5, <3>6 DEF MigrationInv
    <2>3. CASE phase # "loading"
      <3>1. phase = "running"
        BY <1>9, <2>3, OnlyBoot DEF Persist, Actors, CoreInv, LockInv
      <3>2. phase' = "running"
        BY <1>9, <3>1 DEF Persist
      <3>3. QED
        BY <2>1, <3>2 DEF MigrationInv
    <2>4. QED
      BY <2>2, <2>3
  <1>10. ASSUME NEW a \in Actors, Install(a) PROVE MigrationInv'
    BY <1>10 DEF Install, MigrationInv
  <1>11. ASSUME NEW a \in Actors, Fail(a) PROVE MigrationInv'
    <2>1. CASE a = Boot
      BY <1>11, <2>1 DEF Fail, Down, MigrationInv
    <2>2. CASE a # Boot
      <3>1. phase = "running"
        BY <1>11, <2>2, OnlyBoot DEF Fail, Actors
      <3>2. QED
        BY <1>11, <2>2, <3>1 DEF Fail, MigrationInv
    <2>3. QED
      BY <2>1, <2>2
  <1>12. CASE Crash
    BY <1>12 DEF Crash, Down, MigrationInv
  <1>13. CASE UNCHANGED vars
    BY <1>13 DEF vars, MigrationInv
  <1>14. QED
    BY <1>2, <1>3, <1>4, <1>5, <1>6, <1>7, <1>8, <1>9, <1>10, <1>11, <1>12, <1>13, Steps, <1>t

-----------------------------------------------------------------------------
(* What requests ask for *)

LEMMA RequestInit == Init => RequestInv
  BY DEF Init, RequestInv, Idle, Actors

(* A request that stays as it is, on a memory that stays as it is. *)
LEMMA RequestKept ==
    ASSUME RequestInv, UNCHANGED mem, NEW a \in Actors,
           actor'[a].req = actor[a].req,
           actor'[a].pc \in {"sync", "install"} =>
               /\ actor[a].pc \in {"sync", "install"}
               /\ actor'[a].cand = actor[a].cand
    PROVE  actor'[a].pc \in {"sync", "install"} => actor'[a].cand = Applied(a, mem)'
  BY DEF RequestInv, Applied

(* A candidate has what is in memory in each field that is not asked for;  *)
(* a start asks for no field of the file.                                  *)
LEMMA CandidateKeeps ==
    ASSUME RequestInv, NEW a \in Actors, actor[a].pc \in {"sync", "install"},
           NEW f \in Fields, actor[a].req[f] = Keep
    PROVE  actor[a].cand[f] = mem[f]
  BY DEF RequestInv, Applied

LEMMA StartKeepsPublic ==
    ASSUME RequestInv, phase = "loading", actor[Boot].pc \in {"sync", "install"}, NEW f \in Public
    PROVE  actor[Boot].cand[f] = mem[f]
  <1>1. actor[Boot].req[f] = Keep /\ f \in Fields /\ Boot \in Actors
    BY DEF RequestInv, Fields, Actors
  <1>2. QED
    BY <1>1, CandidateKeeps

LEMMA RequestStep == CoreInv /\ MigrationInv /\ RequestInv /\ [Next]_vars => RequestInv'
  <1> SUFFICES ASSUME CoreInv, MigrationInv, RequestInv, [Next]_vars PROVE RequestInv'
    OBVIOUS
  <1> DEFINE Asked(a) == a \in Savers /\ actor[a].pc # "idle" => actor[a].req \in Changes
             Ahead(a) == actor[a].pc \in {"sync", "install"} => actor[a].cand = Applied(a, mem)
             Below == phase = "loading" => \A f \in Public :
                         mem[f] = Normalised(file.is)[f] /\ actor[Boot].req[f] = Keep
  <1>r. RequestInv <=> (\A a \in Actors : Asked(a) /\ Ahead(a)) /\ Below
    BY DEF RequestInv, Actors
  <1>s. RequestInv' <=> (\A a \in Actors : Asked(a)' /\ Ahead(a)') /\ Below'
    BY DEF RequestInv, Actors
  <1>t. TypeOK /\ LockInv /\ Boot \in Actors /\ actor[Boot] \in Actor
    BY DEF CoreInv, TypeOK, Actors
  <1>i. ASSUME NEW a \in Actors, actor'[a].pc \in {"idle", "load", "begin"}
        PROVE  Ahead(a)'
    BY <1>i
  <1>u. ASSUME NEW a \in Actors, actor'[a] = actor[a],
               mem' = mem \/ actor[a].pc \notin {"sync", "install"}
        PROVE  Asked(a)' /\ Ahead(a)'
    <2>1. Asked(a) /\ Ahead(a)
      BY <1>r
    <2>2. Asked(a)'
      BY <1>u, <2>1
    <2>3. CASE mem' = mem
      BY <1>u, <2>1, <2>2, <2>3 DEF Applied
    <2>4. CASE mem' # mem
      BY <1>u, <2>2, <2>4
    <2>5. QED
      BY <2>3, <2>4
  <1>l. ASSUME NEW c, Load(c), file'.is = c, phase \in {"down", "creating"}
        PROVE  RequestInv'
    <2>1. /\ actor'[Boot].pc = "load" /\ actor'[Boot].req = Untouched
          /\ \A s \in Savers : actor'[s] = actor[s] /\ actor[s].pc = "idle"
      BY <1>l, <1>t DEF Load, TypeOK, Idle, LockInv, Actors
    <2>2. \A a \in Actors : Asked(a)' /\ Ahead(a)'
      BY <2>1 DEF Actors
    <2>3. Below'
      BY <1>l, <2>1 DEF Load, Untouched, Fields
    <2>4. QED
      BY <2>2, <2>3, <1>s
  <1>d. ASSUME Down PROVE RequestInv'
    BY <1>d DEF Down, RequestInv, Idle, Actors
  <1>2. CASE Start
    BY <1>2, <1>l DEF Start
  <1>3. CASE CreateFile
    BY <1>3, <1>r, <1>s, <1>u DEF CreateFile
  <1>4. CASE FillFile
    BY <1>4, <1>l DEF FillFile
  <1>5. ASSUME NEW k \in Secrets, LoadSecret(k) PROVE RequestInv'
    <2>1. /\ actor'[Boot].pc \in {"load", "begin"}
          /\ actor'[Boot].req = [actor[Boot].req EXCEPT ![k] = Found(k)]
          /\ \A s \in Savers : actor'[s] = actor[s]
      BY <1>5, <1>t DEF LoadSecret, TypeOK, Actor, Actors
    <2>2. \A a \in Actors : Asked(a)' /\ Ahead(a)'
      BY <1>5, <1>i, <1>u, <2>1 DEF Actors, LoadSecret
    <2>3. \A f \in Public : actor'[Boot].req[f] = actor[Boot].req[f]
      BY <1>t, <2>1 DEF Actor, Fields
    <2>4. Below'
      BY <1>5, <1>r, <2>3 DEF LoadSecret
    <2>5. QED
      BY <2>2, <2>4, <1>s
  <1>6. ASSUME NEW s \in Savers, NEW r \in Changes, Ask(s, r) PROVE RequestInv'
    <2>1. /\ actor'[s].pc = "begin" /\ actor'[s].req = r
          /\ \A a \in Actors \ {s} : actor'[a] = actor[a]
      BY <1>6, <1>t DEF Ask, TypeOK, Idle, Actors
    <2>2. \A a \in Actors : Asked(a)' /\ Ahead(a)'
      BY <1>6, <1>i, <1>u, <2>1 DEF Ask
    <2>3. Below'
      BY <1>6 DEF Ask
    <2>4. QED
      BY <2>2, <2>3, <1>s
  <1>7. ASSUME NEW a \in Actors, Begin(a) PROVE RequestInv'
    <2>1. /\ actor'[a].pc = "sync" /\ actor'[a].req = actor[a].req /\ actor[a].pc = "begin"
          /\ actor'[a].cand = Applied(a, mem) /\ mem' = mem
          /\ \A b \in Actors \ {a} : actor'[b] = actor[b]
      BY <1>7, <1>t DEF Begin, Base, TypeOK, Actor
    <2>2. Asked(a)' /\ Ahead(a)'
      BY <1>r, <2>1 DEF Applied
    <2>3. \A b \in Actors : Asked(b)' /\ Ahead(b)'
      BY <1>u, <2>1, <2>2
    <2>4. Below'
      BY <1>7, <1>r, <1>t, <2>1 DEF Begin
    <2>5. QED
      BY <2>3, <2>4, <1>s
  <1>8. ASSUME NEW a \in Actors, NEW k \in Secrets, Sync(a, k) PROVE RequestInv'
    <2>1. /\ actor'[a].pc = "sync" /\ actor'[a].req = actor[a].req /\ actor[a].pc = "sync"
          /\ actor'[a].cand = actor[a].cand /\ mem' = mem
          /\ \A b \in Actors \ {a} : actor'[b] = actor[b]
      BY <1>8, <1>t DEF Sync, TypeOK, Actor
    <2>2. Asked(a)' /\ Ahead(a)'
      BY <1>r, <2>1, RequestKept
    <2>3. \A b \in Actors : Asked(b)' /\ Ahead(b)'
      BY <1>u, <2>1, <2>2
    <2>4. Below'
      BY <1>8, <1>r, <1>t, <2>1 DEF Sync
    <2>5. QED
      BY <2>3, <2>4, <1>s
  <1>9. ASSUME NEW a \in Actors, Persist(a) PROVE RequestInv'
    <2>1. /\ actor'[a].pc = "install" /\ actor'[a].req = actor[a].req /\ actor[a].pc = "sync"
          /\ actor'[a].cand = actor[a].cand /\ mem' = mem
          /\ \A b \in Actors \ {a} : actor'[b] = actor[b]
      BY <1>9, <1>t DEF Persist, TypeOK, Actor
    <2>2. Asked(a)' /\ Ahead(a)'
      BY <1>r, <2>1, RequestKept
    <2>3. \A b \in Actors : Asked(b)' /\ Ahead(b)'
      BY <1>u, <2>1, <2>2
    <2>4. Below'
      <3>1. SUFFICES ASSUME phase = "loading", NEW f \in Public
                     PROVE  mem'[f] = Normalised(file'.is)[f] /\ actor'[Boot].req[f] = Keep
        BY <1>9 DEF Persist
      <3>2. a = Boot
        BY <2>1, <3>1, OnlyBoot DEF Actors
      <3>3. actor[Boot].cand[f] = mem[f]
        BY <2>1, <3>1, <3>2, StartKeepsPublic
      <3>4. mem[f] = Normalised(file.is)[f] /\ actor[Boot].req[f] = Keep
        BY <1>r, <3>1
      <3>5. Normalised(file'.is)[f] = mem[f]
        BY <1>9, <3>2, <3>3, <3>4 DEF Persist, Saved, Normalised, Fields
      <3>6. QED
        BY <2>1, <3>2, <3>4, <3>5
    <2>5. QED
      BY <2>3, <2>4, <1>s
  <1>10. ASSUME NEW a \in Actors, Install(a) PROVE RequestInv'
    <2>1. /\ actor'[a].pc = "idle"
          /\ \A b \in Actors \ {a} : actor'[b] = actor[b]
                                      /\ actor[b].pc \notin {"sync", "install"}
      BY <1>10, <1>t DEF Install, TypeOK, Idle, LockInv
    <2>2. \A b \in Actors : Asked(b)' /\ Ahead(b)'
      BY <1>i, <1>u, <2>1
    <2>3. Below'
      BY <1>10 DEF Install
    <2>4. QED
      BY <2>2, <2>3, <1>s
  <1>11. ASSUME NEW a \in Actors, Fail(a) PROVE RequestInv'
    <2>1. CASE a = Boot
      BY <1>11, <2>1, <1>d DEF Fail
    <2>2. CASE a # Boot
      <3>1. /\ actor'[a].pc = "idle" /\ mem' = mem /\ UNCHANGED <<file, phase>>
            /\ \A b \in Actors \ {a} : actor'[b] = actor[b]
        BY <1>11, <1>t, <2>2 DEF Fail, AfterFailure, TypeOK, Idle
      <3>2. \A b \in Actors : Asked(b)' /\ Ahead(b)'
        BY <1>i, <1>u, <3>1
      <3>3. Below'
        BY <1>r, <1>t, <2>2, <3>1
      <3>4. QED
        BY <3>2, <3>3, <1>s
    <2>3. QED
      BY <2>1, <2>2
  <1>12. CASE Crash
    BY <1>12, <1>d DEF Crash
  <1>13. CASE UNCHANGED vars
    BY <1>13 DEF vars, RequestInv, Applied, Normalised
  <1>14. QED
    BY <1>2, <1>3, <1>4, <1>5, <1>6, <1>7, <1>8, <1>9, <1>10, <1>11, <1>12, <1>13, Steps, <1>t

-----------------------------------------------------------------------------
(* Theorems *)

(* In every reachable state an update has written what it has ticked off,  *)
(* file and table hold what is in memory, and what a start has loaded is   *)
(* in the table.                                                           *)
THEOREM Invariance == Spec => []IInv
  <1>1. Init => IInv
    BY CoreInit, MigrationInit, RequestInit DEF IInv
  <1>2. IInv /\ [Next]_vars => IInv'
    BY CoreStep, MigrationStep, RequestStep DEF IInv
  <1>3. QED
    BY <1>1, <1>2, PTL DEF Spec

(* Every variable has its type. *)
THEOREM TypeCorrect == Spec => []TypeOK
  <1>1. IInv => TypeOK
    BY DEF IInv, CoreInv
  <1>2. QED
    BY <1>1, Invariance, PTL

(* Whenever the lock is free, a restart brings back each public setting as *)
(* applyDefaults leaves it, so every value that a start accepts, and each  *)
(* secret that has a value, as long as no update failed half-way.          *)
THEOREM RestartBringsBack == Spec => []RestartRestores
  <1>1. IInv => RestartRestores
    <2> SUFFICES ASSUME CoreInv, Quiet
                 PROVE  /\ \A f \in Public : Reloaded[f] = Normalised(mem)[f]
                        /\ failures = 0 => \A k \in Secrets :
                              mem[k] # Empty => Reloaded[k] = mem[k]
      BY DEF RestartRestores, IInv
    <2>1. /\ phase = "running"
          /\ \A s \in Savers : actor[s].pc \notin {"sync", "install"}
      BY DEF CoreInv, LockInv, Quiet, Actors
    <2>2. ASSUME failures = 0, NEW k \in Secrets, mem[k] # Empty
          PROVE  Reloaded[k] = mem[k]
      BY <2>1, <2>2 DEF CoreInv, DiskInv, Reloaded, Fields
    <2>3. ASSUME NEW f \in Public
          PROVE  Reloaded[f] = Normalised(mem)[f]
      BY <2>1, <2>3 DEF CoreInv, DiskInv, Reloaded, Normalised, Fields
    <2>4. QED
      BY <2>2, <2>3
  <1>2. QED
    BY <1>1, Invariance, PTL

(* The value that a secret is found to have, in the table or else in an    *)
(* old file, is the same before and after each step of a start.            *)
LEMMA StartStepKeeps ==
    ASSUME IInv, [Next]_vars, phase # "running", NEW k \in Secrets
    PROVE  Durable(k)' = Durable(k)
  <1> USE DEF Durable
  <1>t. CoreInv /\ TypeOK /\ MigrationInv /\ Boot \in Actors
    BY DEF IInv, CoreInv, Actors
  <1>1. ASSUME NEW a \in Actors, actor[a].pc \in {"begin", "sync", "install"}
        PROVE  a = Boot /\ phase = "loading"
    BY <1>1, <1>t, OnlyBoot DEF Actors, CoreInv, LockInv
  <1>2. CASE CreateFile
    BY <1>2, <1>t DEF CreateFile, TypeOK, File
  <1>3. CASE FillFile
    BY <1>3, <1>t DEF FillFile, MigrationInv, Nothing, Fields
  <1>4. ASSUME NEW j \in Secrets, LoadSecret(j) PROVE Durable(k)' = Durable(k)
    <2>1. mem[j] = file.is[j]
      BY <1>4, <1>t DEF LoadSecret, CoreInv, LockInv, MigrationInv
    <2>2. QED
      BY <1>4, <1>t, <2>1 DEF LoadSecret, Found, TypeOK
  <1>5. ASSUME NEW a \in Actors, NEW j \in Secrets, Sync(a, j) PROVE Durable(k)' = Durable(k)
    <2>1. a = Boot /\ phase = "loading"
      BY <1>1, <1>5 DEF Sync
    <2>2. actor[Boot].cand[j] = stored[j]
      BY <1>5, <1>t, <2>1 DEF Sync, MigrationInv
    <2>3. QED
      BY <1>5, <1>t, <2>1, <2>2 DEF Sync, Synced, TypeOK
  <1>6. ASSUME NEW a \in Actors, Persist(a) PROVE Durable(k)' = Durable(k)
    <2>1. a = Boot /\ phase = "loading"
      BY <1>1, <1>6 DEF Persist
    <2>2. stored[k] = Durable(k)
      BY <1>6, <1>t, <2>1 DEF Persist, MigrationInv
    <2>3. QED
      BY <1>6, <2>2 DEF Persist, Saved, Fields
  <1>7. QED
    BY <1>2, <1>3, <1>4, <1>5, <1>6, <1>t, Steps
    DEF Start, Ask, Begin, Install, Fail, Crash, vars

(* A start, however often it is cut off and repeated, changes no secret.   *)
THEOREM StartIsHarmless == Spec => StartKeepsSecrets
  <1>1. IInv /\ [Next]_vars =>
            [phase # "running" => \A k \in Secrets : Durable(k)' = Durable(k)]_vars
    BY StartStepKeeps
  <1>2. QED
    BY <1>1, Invariance, PTL DEF Spec, StartKeepsSecrets

(* Two requests at a time do not undo each other: a field that a request   *)
(* does not name keeps the value that others have given it meanwhile.      *)
THEOREM RequestsIndependent == Spec => UnnamedUnchanged
  <1>1. IInv /\ [Next]_vars =>
            [\A s \in Savers, f \in Fields \ {Registration} :
                Install(s) /\ actor[s].req[f] = Keep => mem'[f] = mem[f]]_vars
    <2>1. ASSUME IInv, NEW s \in Savers, NEW f \in Fields, Install(s), actor[s].req[f] = Keep
          PROVE  mem'[f] = mem[f]
      <3>1. actor[s].cand[f] = mem[f]
        BY <2>1, CandidateKeeps DEF IInv, Install, Actors
      <3>2. QED
        BY <2>1, <3>1 DEF Install
    <2>2. QED
      BY <2>1
  <1>2. QED
    BY <1>1, Invariance, PTL DEF Spec, UnnamedUnchanged

-----------------------------------------------------------------------------
(* Each request takes effect in one step *)

(* What a start finds: a secret, and another field. *)
LEMMA ReloadedFields ==
    /\ DOMAIN Reloaded = Fields
    /\ \A k \in Secrets : Reloaded[k] = Durable(k)
    /\ \A f \in Public : Reloaded[f] = Normalised(file.is)[f]
  BY DEF Reloaded, Durable, Normalised, Fields

(* The same after a step. *)
LEMMA ReloadedFieldsNext ==
    /\ DOMAIN Reloaded' = Fields
    /\ \A k \in Secrets : Reloaded'[k] = Durable(k)'
    /\ \A f \in Public : Reloaded'[f] = Normalised(file.is)[f]'
  BY DEF Reloaded, Durable, Normalised, Fields

LEMMA StoreStarts == Init => Store!StoreInit
  <1> SUFFICES ASSUME Init PROVE Store!StoreInit
    OBVIOUS
  <1>1. TypeOK
    BY TypeInit
  <1>2. Normalised(file.is) \in Configs
    BY <1>1, DerivedConfigs DEF TypeOK, File
  <1>3. Reloaded \in [Fields -> Values \cup {Empty}]
    BY <1>1, <1>2 DEF Reloaded, TypeOK, Configs, Fields
  <1>4. QED
    BY <1>3 DEF Init, Store!StoreInit, Shown, Nothing, Store!Nothing

(* Before the server is up, what a start would find does not change, and   *)
(* nobody is shown anything.                                               *)
LEMMA StartStutters ==
    ASSUME IInv, [Next]_vars, phase # "running"
    PROVE  Reloaded' = Reloaded
  <1>t. CoreInv /\ MigrationInv /\ RequestInv /\ TypeOK /\ Boot \in Actors
    BY DEF IInv, CoreInv, Actors
  <1>1. ASSUME NEW f \in Public PROVE Normalised(file.is)[f]' = Normalised(file.is)[f]
    <2>1. CASE UNCHANGED file
      BY <2>1 DEF Normalised
    <2>2. CASE CreateFile
      BY <2>2, <1>t DEF CreateFile, TypeOK, File, Normalised
    <2>3. CASE FillFile
      BY <2>3, <1>t DEF FillFile, MigrationInv, Normalised
    <2>4. ASSUME NEW a \in Actors, Persist(a)
          PROVE  Normalised(file.is)[f]' = Normalised(file.is)[f]
      <3>1. a = Boot /\ phase = "loading"
        BY <2>4, <1>t, OnlyBoot DEF Persist, Actors, CoreInv, LockInv
      <3>2. actor[Boot].cand[f] = mem[f] /\ mem[f] = Normalised(file.is)[f]
        BY <2>4, <1>t, <3>1, StartKeepsPublic DEF Persist, RequestInv
      <3>3. QED
        BY <2>4, <3>1, <3>2 DEF Persist, Saved, Normalised, Fields
    <2>5. QED
      BY <1>t, <2>1, <2>2, <2>3, <2>4, Steps
      DEF Start, LoadSecret, Ask, Begin, Sync, Install, Fail, Crash, vars
  <1>2. \A k \in Secrets : Durable(k)' = Durable(k)
    BY StartStepKeeps
  <1>3. \A f \in Fields : Reloaded'[f] = Reloaded[f]
    <2>1. ASSUME NEW f \in Public PROVE Reloaded'[f] = Reloaded[f]
      BY <1>1, ReloadedFields, ReloadedFieldsNext
    <2>2. ASSUME NEW k \in Secrets PROVE Reloaded'[k] = Reloaded[k]
      BY <1>2, ReloadedFields, ReloadedFieldsNext
    <2>3. QED
      BY <2>1, <2>2 DEF Fields
  <1>4. QED
    BY <1>3 DEF Reloaded

(* What readers find, by where the server and an update are. *)
LEMMA ShownCases ==
    ASSUME IInv
    PROVE  /\ phase # "running" => Shown = Nothing
           /\ phase = "running" /\ (\A s \in Savers : actor[s].pc # "install") => Shown = mem
           /\ \A s \in Savers : actor[s].pc = "install" => Shown = actor[s].cand
  <1>1. LockInv /\ writer \in Actors \cup {NoOne}
    BY DEF IInv, CoreInv, TypeOK
  <1>2. ASSUME phase = "running", \A s \in Savers : actor[s].pc # "install"
        PROVE  Shown = mem
    <2>1. writer # NoOne => writer \in Savers
      BY <1>1, <1>2 DEF LockInv, Actors
    <2>2. QED
      BY <1>2, <2>1 DEF Shown
  <1>3. ASSUME NEW s \in Savers, actor[s].pc = "install" PROVE Shown = actor[s].cand
    <2>1. phase = "running" /\ writer = s /\ writer # NoOne
      BY <1>1, <1>3 DEF LockInv, Actors
    <2>2. QED
      BY <1>3, <2>1 DEF Shown
  <1>4. QED
    BY <1>2, <1>3 DEF Shown

(* What a request that holds the lock will make of the configuration. *)
LEMMA AfterRequest ==
    ASSUME IInv, NEW s \in Savers, actor[s].pc = "sync"
    PROVE  /\ phase = "running" /\ actor[s].req \in Changes
           /\ Shown = mem
           /\ Store!After(actor[s].req) = actor[s].cand
  <1>1. LockInv /\ RequestInv /\ s \in Actors
    BY DEF IInv, CoreInv, Actors
  <1>2. phase = "running" /\ actor[s].req \in Changes
    BY <1>1 DEF LockInv, RequestInv
  <1>3. \A z \in Savers : actor[z].pc # "install"
    BY <1>1 DEF LockInv, Actors
  <1>4. Shown = mem
    BY <1>2, <1>3, ShownCases
  <1>5. actor[s].cand = Applied(s, mem)
    BY <1>1 DEF RequestInv
  <1>6. QED
    BY <1>2, <1>4, <1>5 DEF Applied, Store!After

(* What readers find after a step that changes neither the memory nor an   *)
(* update that is about to be installed.                                   *)
LEMMA ShownKept ==
    ASSUME IInv, IInv', UNCHANGED <<phase, mem>>,
           \A s \in Savers : (actor'[s].pc = "install" \/ actor[s].pc = "install")
                                => actor'[s] = actor[s]
    PROVE  Shown' = Shown
  <1>1. CASE phase # "running"
    BY <1>1 DEF Shown
  <1>2. CASE phase = "running" /\ \A s \in Savers : actor[s].pc # "install"
    <2>1. Shown = mem
      BY <1>2, ShownCases
    <2>2. \A s \in Savers : actor'[s].pc # "install"
      BY <1>2
    <2>3. writer' # NoOne => writer' \in Savers
      BY <1>2 DEF IInv, CoreInv, TypeOK, LockInv, Actors
    <2>4. QED
      BY <1>2, <2>1, <2>2, <2>3 DEF Shown
  <1>3. ASSUME NEW s \in Savers, actor[s].pc = "install" PROVE Shown' = Shown
    <2>1. Shown = actor[s].cand
      BY <1>3, ShownCases
    <2>2. actor'[s] = actor[s]
      BY <1>3
    <2>3. phase' = "running" /\ writer' = s /\ writer' # NoOne
      BY <1>3, <2>2 DEF IInv, CoreInv, LockInv, Actors
    <2>4. QED
      BY <1>3, <2>1, <2>2, <2>3 DEF Shown
  <1>4. QED
    BY <1>1, <1>2, <1>3

(* The last step of a start: the server works with what is kept. *)
LEMMA BootServes ==
    ASSUME IInv, Install(Boot)
    PROVE  Store!Serve
  <1> DEFINE cand == actor[Boot].cand
  <1>1. CoreInv /\ MigrationInv /\ RequestInv /\ Boot \in Actors
    BY DEF IInv, Actors
  <1>2. phase = "loading" /\ file = Saved(cand) /\ actor[Boot].todo = {} /\ cand \in Configs
    BY <1>1 DEF Install, CoreInv, LockInv, UpdateInv, TypeOK, Actor
  <1>3. Shown = Nothing /\ Shown' = cand
    BY <1>2 DEF Shown, Install
  <1>4. ASSUME NEW k \in Secrets PROVE Reloaded[k] = cand[k]
    <2>1. Reloaded[k] = Durable(k) /\ cand[k] = stored[k] /\ file.is[k] = Empty
      BY <1>1, <1>2, ReloadedFields DEF Install, MigrationInv, Saved, Fields
    <2>2. QED
      BY <2>1 DEF Durable
  <1>5. ASSUME NEW f \in Public PROVE Reloaded[f] = cand[f]
    <2>1. cand[f] = mem[f]
      BY <1>1, <1>2, StartKeepsPublic DEF Install
    <2>2. mem[f] = Normalised(file.is)[f]
      BY <1>1, <1>2 DEF RequestInv
    <2>3. QED
      BY <2>1, <2>2, ReloadedFields
  <1>6. Reloaded = cand
    <2>1. \A f \in Fields : Reloaded[f] = cand[f]
      BY <1>4, <1>5 DEF Fields
    <2>2. cand = [f \in Fields |-> cand[f]] /\ Reloaded = [f \in Fields |-> Reloaded[f]]
      BY <1>2 DEF Configs, Reloaded
    <2>3. QED
      BY <2>1, <2>2
  <1>7. Reloaded' = Reloaded
    BY DEF Install, Reloaded, Normalised
  <1>8. QED
    BY <1>2, <1>3, <1>6, <1>7 DEF Store!Serve, Install

(* Saving one secret: it is kept before the request has succeeded. *)
LEMMA SyncKeepsSecret ==
    ASSUME IInv, IInv', NEW s \in Savers, NEW k \in Secrets, Sync(s, k)
    PROVE  (\E r \in Changes : Store!KeepSecret(r, k)) \/ UNCHANGED Store!store
  <1> DEFINE cand == actor[s].cand
  <1>1. TypeOK /\ s \in Actors /\ actor[s] \in Actor
    BY DEF IInv, CoreInv, TypeOK, Actors
  <1>2. /\ phase = "running" /\ actor[s].req \in Changes
        /\ Store!After(actor[s].req) = cand
    BY AfterRequest DEF Sync
  <1>3. Shown' = Shown
    <2>1. \A z \in Savers : z # s => actor'[z] = actor[z]
      BY <1>1 DEF Sync, TypeOK, Actors
    <2>2. actor[s].pc = "sync" /\ actor'[s].pc = "sync"
      BY <1>1 DEF Sync, TypeOK, Actor
    <2>3. QED
      BY <2>1, <2>2, ShownKept DEF Sync
  <1>4. CASE cand[k] = Empty
    <2>1. stored' = stored
      BY <1>1, <1>4 DEF Sync, Synced, TypeOK
    <2>2. Reloaded' = Reloaded
      BY <2>1 DEF Sync, Reloaded, Normalised
    <2>3. QED
      BY <1>3, <2>2 DEF Sync, Store!store
  <1>5. CASE cand[k] # Empty
    <2>1. stored' = [stored EXCEPT ![k] = cand[k]]
      BY <1>5 DEF Sync, Synced
    <2>2. Reloaded' = [Reloaded EXCEPT ![k] = cand[k]]
      <3>1. \A f \in Fields : Reloaded'[f] = IF f = k THEN cand[k] ELSE Reloaded[f]
        BY <1>1, <1>5, <2>1 DEF Sync, Reloaded, Normalised, TypeOK, Fields
      <3>2. QED
        BY <3>1 DEF Reloaded, Fields
    <2>3. Store!KeepSecret(actor[s].req, k)
      BY <1>2, <1>3, <1>5, <2>2 DEF Sync, Store!KeepSecret
    <2>4. QED
      BY <1>2, <2>3
  <1>6. QED
    BY <1>4, <1>5

(* The rename of the file: the request takes effect. *)
LEMMA PersistChanges ==
    ASSUME IInv, IInv', NEW s \in Savers, Persist(s)
    PROVE  \E r \in Changes : Store!Change(r)
  <1> DEFINE cand == actor[s].cand
  <1>1. CoreInv /\ s \in Actors /\ actor[s] \in Actor /\ actor[s].pc = "sync" /\ actor[s].todo = {}
    BY DEF IInv, CoreInv, TypeOK, Actors, Persist
  <1>2. /\ phase = "running" /\ actor[s].req \in Changes
        /\ Store!After(actor[s].req) = cand
    BY <1>1, AfterRequest
  <1>3. actor'[s].pc = "install" /\ actor'[s].cand = cand
    BY <1>1 DEF Persist, CoreInv, TypeOK, Actor
  <1>4. Shown' = cand
    <2>1. writer' = s /\ writer' # NoOne /\ phase' = "running"
      BY <1>1, <1>2 DEF Persist, CoreInv, LockInv, Actors
    <2>2. QED
      BY <1>3, <2>1 DEF Shown
  <1>5. ASSUME NEW k \in Secrets
        PROVE  Reloaded'[k] = IF cand[k] # Empty THEN cand[k] ELSE Reloaded[k]
    <2>1. file.is[k] = Empty /\ (cand[k] # Empty => stored[k] = cand[k])
      BY <1>1, <1>2 DEF CoreInv, DiskInv, UpdateInv
    <2>2. file'.is[k] = Empty /\ stored' = stored
      BY DEF Persist, Saved, Fields
    <2>3. Reloaded[k] = Durable(k) /\ Reloaded'[k] = Durable(k)'
      BY ReloadedFields, ReloadedFieldsNext
    <2>4. QED
      BY <2>1, <2>2, <2>3 DEF Durable
  <1>6. ASSUME NEW f \in Public
        PROVE  Reloaded'[f] = IF cand[f] \in Refused[f] \cup {Empty} THEN Default[f] ELSE cand[f]
    <2>1. file'.is[f] = cand[f]
      BY DEF Persist, Saved, Fields
    <2>2. QED
      BY <2>1, ReloadedFieldsNext DEF Normalised, Fields
  <1>7. Reloaded' = Store!Remaining(cand)
    <2>1. \A f \in Fields : Reloaded'[f] = Store!Remaining(cand)[f]
      BY <1>5, <1>6 DEF Store!Remaining, Fields
    <2>2. QED
      BY <2>1 DEF Reloaded, Store!Remaining
  <1>8. Store!Change(actor[s].req)
    BY <1>2, <1>4, <1>7 DEF Store!Change, Persist
  <1>9. QED
    BY <1>2, <1>8

(* Every step is a step of the abstract configuration, or none. *)
LEMMA StepsAtOnce ==
    ASSUME IInv, IInv', [Next]_vars
    PROVE  [Store!StoreNext]_(Store!store)
  <1> USE DEF Store!store
  <1>t. TypeOK /\ LockInv /\ Boot \in Actors
    BY DEF IInv, CoreInv, Actors
  <1>1. CASE phase # "running"
    <2>1. Reloaded' = Reloaded
      BY <1>1, StartStutters
    <2>2. CASE phase' # "running"
      BY <1>1, <2>1, <2>2 DEF Shown
    <2>3. CASE phase' = "running"
      <3>1. \E a \in Actors : Install(a)
        BY <1>1, <2>3, <1>t, Steps
        DEF Start, CreateFile, FillFile, Load, LoadSecret, Ask, Begin, Sync, Persist, Fail, Down,
            Crash, vars
      <3>2. Install(Boot)
        BY <1>1, <3>1, OnlyBoot DEF Install, IInv, Actors
      <3>3. QED
        BY <3>2, BootServes DEF Store!StoreNext
    <2>4. QED
      BY <2>2, <2>3
  <1>2. ASSUME phase = "running", NEW s \in Savers, NEW r \in Changes, Ask(s, r)
        PROVE  UNCHANGED Store!store
    <2>1. \A z \in Savers : z # s => actor'[z] = actor[z]
      BY <1>2, <1>t DEF Ask, TypeOK, Actors
    <2>2. actor[s].pc = "idle" /\ actor'[s].pc = "begin"
      BY <1>2, <1>t DEF Ask, TypeOK, Idle, Actors
    <2>3. Shown' = Shown
      BY <1>2, <2>1, <2>2, ShownKept DEF Ask
    <2>4. QED
      BY <1>2, <2>3 DEF Ask, Reloaded, Normalised
  <1>3. ASSUME phase = "running", NEW a \in Actors, Begin(a)
        PROVE  UNCHANGED Store!store
    <2>1. \A z \in Savers : z # a => actor'[z] = actor[z]
      BY <1>3, <1>t DEF Begin, TypeOK, Actors
    <2>2. actor[a].pc = "begin" /\ actor'[a].pc = "sync"
      BY <1>3, <1>t DEF Begin, TypeOK, Actor
    <2>3. Shown' = Shown
      BY <1>3, <2>1, <2>2, ShownKept DEF Begin
    <2>4. QED
      BY <1>3, <2>3 DEF Begin, Reloaded, Normalised
  <1>4. ASSUME phase = "running", NEW a \in Actors, actor[a].pc \in {"load", "sync", "install"}
        PROVE  a \in Savers
    BY <1>4, <1>t DEF LockInv, Actors
  <1>5. ASSUME phase = "running", NEW a \in Actors, Install(a)
        PROVE  UNCHANGED Store!store
    <2>1. a \in Savers /\ actor[a].pc = "install"
      BY <1>4, <1>5 DEF Install
    <2>2. Shown = actor[a].cand
      BY <2>1, ShownCases
    <2>3. Shown' = actor[a].cand
      BY <1>5 DEF Install, Shown
    <2>4. QED
      BY <1>5, <2>2, <2>3 DEF Install, Reloaded, Normalised
  <1>6. ASSUME phase = "running", NEW a \in Actors, Fail(a)
        PROVE  UNCHANGED Store!store
    <2>1. a \in Savers /\ a # Boot
      BY <1>4, <1>6 DEF Fail
    <2>2. \A z \in Savers : z # a => actor'[z] = actor[z]
      BY <1>6, <2>1, <1>t DEF Fail, TypeOK, Actors
    <2>3. actor[a].pc # "install" /\ actor'[a].pc = "idle"
      BY <1>6, <2>1, <1>t DEF Fail, TypeOK, Idle
    <2>4. mem' = mem /\ phase' = phase
      BY <1>6, <2>1 DEF Fail, AfterFailure
    <2>5. Shown' = Shown
      BY <2>2, <2>3, <2>4, ShownKept
    <2>6. QED
      BY <1>6, <2>4, <2>5 DEF Fail, Reloaded, Normalised
  <1>7. ASSUME phase = "running", Crash PROVE Store!End
    <2>1. Shown' = Nothing /\ Reloaded' = Reloaded /\ phase' = "down"
      BY <1>7 DEF Crash, Down, Shown, Reloaded, Normalised
    <2>2. QED
      BY <1>7, <2>1 DEF Store!End, Store!Nothing, Nothing
  <1>8. CASE UNCHANGED vars
    BY <1>8 DEF vars, Shown, Reloaded, Normalised
  <1>9. ASSUME phase = "running", NEW a \in Actors, NEW k \in Secrets, Sync(a, k)
        PROVE  Store!StoreNext \/ UNCHANGED Store!store
    <2>1. a \in Savers
      BY <1>4, <1>9 DEF Sync
    <2>2. QED
      BY <1>9, <2>1, SyncKeepsSecret DEF Store!StoreNext
  <1>10. ASSUME phase = "running", NEW a \in Actors, Persist(a)
         PROVE  Store!StoreNext
    <2>1. a \in Savers
      BY <1>4, <1>10 DEF Persist
    <2>2. QED
      BY <1>10, <2>1, PersistChanges DEF Store!StoreNext
  <1>11. ASSUME phase = "running", NEW k \in Secrets PROVE ~LoadSecret(k)
    BY <1>11, <1>t DEF LoadSecret, LockInv
  <1>12. CASE phase = "running"
    BY <1>2, <1>3, <1>5, <1>6, <1>7, <1>8, <1>9, <1>10, <1>11, <1>12, <1>t, Steps
    DEF Start, CreateFile, FillFile, Store!StoreNext
  <1>13. QED
    BY <1>1, <1>12

(* Requests that overlap, fail or are cut off, and starts that are         *)
(* repeated, change the configuration as if each took effect in one step   *)
(* or in none: the manager implements ConfigStore.                         *)
THEOREM RequestsTakeEffectAtOnce == Spec => ActsAtOnce
  <1>1. Init => Store!StoreInit
    BY StoreStarts
  <1>2. IInv /\ IInv' /\ [Next]_vars => [Store!StoreNext]_(Store!store)
    BY StepsAtOnce
  <1>3. QED
    BY <1>1, <1>2, Invariance, PTL DEF Spec, ActsAtOnce, Store!StoreSpec
=============================================================================
