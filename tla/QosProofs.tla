----------------------------- MODULE QosProofs -----------------------------
(***************************************************************************)
(* Theorems about Qos, for any number of machines, interfaces and          *)
(* configurations and for any bounds.                                      *)
(***************************************************************************)
EXTENDS Qos, FiniteSetTheorems, TLAPS

(* A rate in whole kbit is a natural number. *)
LEMMA RateNat ==
    ASSUME NEW k \in Nat, NEW p \in Nat \ {0}
    PROVE  rateStr(k, p) \in Nat
  <1>1. k \div p \in Nat
    OBVIOUS
  <1>2. QED
    BY <1>1 DEF rateStr

(* Sets of machines are finite, so that they can be counted. *)
LEMMA CardNat ==
    ASSUME NEW S \in SUBSET Machines
    PROVE  Cardinality(S) \in Nat /\ (S # {} => Cardinality(S) # 0)
  <1>1. IsFiniteSet(S)
    BY MachineAssumption, FS_Subset
  <1>2. QED
    BY <1>1, FS_CardinalityType, FS_EmptySet

(* Only known machines get a class. *)
LEMMA NamesMachines == ASSUME NEW d \in Dirs PROVE Names(d) \in SUBSET Machines
  BY DEF Names

(* The rate of a machine that gets a class. *)
LEMMA RateType ==
    ASSUME TypeOK, NEW d \in Dirs, NEW m \in Names(d)
    PROVE  Rate(d, m) \in Nat
  <1>1. m \in Machines /\ Cardinality(Names(d)) \in Nat \ {0}
    BY CardNat, NamesMachines
  <1>2. rc.manual[d][m] \in Nat /\ rc.budget[d] \in Nat
    BY <1>1 DEF TypeOK, ControlTypeOK, Config
  <1>3. QED
    BY <1>1, <1>2, RateNat DEF Rate

USE DEF Class, NoClass, Empty, Nobody, Dirs, firstClassID

(* The initial states are well typed. *)
LEMMA TypeInit == Init => TypeOK
  <1> SUFFICES ASSUME Init PROVE TypeOK
    OBVIOUS
  <1> USE DEF Init, New
  <1>1. TcTypeOK
    BY DEF TcInit, TcTypeOK
  <1>2. ServiceTypeOK
    <2>1. age \in [Machines -> 0..Expired]
      BY BoundAssumption DEF Expired
    <2>2. lastErr \in BOOLEAN
      BY Zenon
    <2>3. QED
      BY <2>1, <2>2 DEF ServiceTypeOK
  <1>3. ControlTypeOK
    <2>1. fails \in 0..MaxFails /\ crashes \in 0..MaxCrashes
      BY BoundAssumption
    <2>2. watch \in BOOLEAN
      BY Zenon
    <2>3. cfg \in Config /\ rc \in Config
      BY ConfigAssumption
    <2>4. QED
      BY <2>1, <2>2, <2>3 DEF ControlTypeOK
  <1>4. RoundTypeOK
    BY DEF RoundTypeOK, Steps
  <1>5. QED
    BY <1>1, <1>2, <1>3, <1>4 DEF TypeOK

(* The parts of the state that a step leaves alone keep their types. *)
LEMMA TcTypeStep ==
    ASSUME TypeOK, UNCHANGED kernel
    PROVE  TcTypeOK'
  BY DEF TypeOK, TcTypeOK, kernel

(* The service's tables keep their types when a step does not write them. *)
LEMMA ServiceTypeStep ==
    ASSUME TypeOK, UNCHANGED <<iface, activity, table, lastErr>>
    PROVE  ServiceTypeOK'
  BY DEF TypeOK, ServiceTypeOK, activity, table

(* The locals of a round keep their types when a step does not write them. *)
LEMMA RoundTypeStep ==
    ASSUME TypeOK, UNCHANGED round
    PROVE  RoundTypeOK'
  BY DEF TypeOK, RoundTypeOK, round

(* ReadConfig (reconcile, qos.go:179-198) preserves the types. *)
LEMMA TypeReadConfig == ASSUME TypeOK, ReadConfig PROVE TypeOK'
  <1> USE DEF ReadConfig, TypeOK
  <1>1. ServiceTypeOK'
    BY DEF ServiceTypeOK, ControlTypeOK, Config, activity, table
  <1>2. ControlTypeOK'
    BY DEF ControlTypeOK, AfterConfig, bounds
  <1>3. QED
    BY <1>1, <1>2, TcTypeStep, RoundTypeStep

(* Sample (sample, updateActive) preserves the types; ages stay in the window. *)
LEMMA TypeSample == ASSUME TypeOK, Sample PROVE TypeOK'
  <1>1. PICK list \in [Machines -> {"absent", "offline", "idle", "busy"}],
             gap \in 1..MaxGap :
          /\ seen' = seen \cup {m \in Machines : list[m] # "absent"}
          /\ age' = [m \in Machines |-> updateActive(age[m], list[m], gap)]
          /\ active' = {m \in Machines : list[m] \in {"idle", "busy"} /\ age'[m] <= Hyst}
          /\ samples' = [m \in Machines |-> IF m \in active' THEN "active" ELSE list[m]]
    BY DEF Sample
  <1>2. \A m \in Machines : age'[m] \in 0..Expired
    BY <1>1, BoundAssumption DEF updateActive, Expired, TypeOK, ServiceTypeOK
  <1>3. \A m \in Machines : list[m] = "busy" => m \in active'
    BY <1>1, BoundAssumption DEF updateActive
  <1>4. samples' \in [Machines -> {"absent", "offline", "idle", "active"}]
    BY <1>1, <1>3
  <1>5. ServiceTypeOK'
    BY <1>1, <1>2, <1>4 DEF Sample, TypeOK, ServiceTypeOK, table
  <1>6. ControlTypeOK'
    BY DEF Sample, TypeOK, ControlTypeOK, bounds
  <1>7. QED
    BY <1>5, <1>6, TcTypeStep, RoundTypeStep DEF Sample, TypeOK

(* A failed sample preserves the types. *)
LEMMA TypeSampleFails == ASSUME TypeOK, SampleFails PROVE TypeOK'
  <1>1. lastErr' \in BOOLEAN
    BY Zenon DEF SampleFails
  <1>2. ServiceTypeOK'
    BY <1>1 DEF SampleFails, TypeOK, ServiceTypeOK, activity, table
  <1>3. ControlTypeOK'
    BY DEF SampleFails, TypeOK, ControlTypeOK, bounds
  <1>4. QED
    BY <1>2, <1>3, TcTypeStep, RoundTypeStep DEF SampleFails, TypeOK

(* A numbering of new names: each gets a number from next on, and every    *)
(* number of the range is taken.                                           *)
LEMMA NumberingsType ==
    ASSUME NEW S \in SUBSET Machines, NEW n \in Nat, NEW f \in Numberings(S, n)
    PROVE  /\ \A m \in S : f[m] \in Nat /\ f[m] >= n /\ f[m] < n + Cardinality(S)
           /\ \A i \in n .. (n + Cardinality(S) - 1) : \E m \in S : f[m] = i
  BY CardNat DEF Numberings

(* What ReconcileLock does to the ids. *)
LEMMA Numbering ==
    ASSUME TypeOK, ReconcileLock
    PROVE  /\ ids' \in [Machines -> Nat] /\ nextID' \in Nat /\ nextID' >= nextID
           /\ \A m \in Machines : ids'[m] = ids[m] \/ (ids[m] = 0 /\ ids'[m] >= nextID)
           /\ \A m \in Machines : ids'[m] = ids[m] \/ ids'[m] < nextID'
           /\ \A i \in nextID .. (nextID' - 1) : \E m \in Machines : ids'[m] = i
           /\ \A d \in Dirs : \A m \in Names(d) : nextID >= 1 => ids'[m] # 0
  <1> DEFINE newOut == {m \in Names("out") : ids[m] = 0}
             newIn  == {m \in Names("in") \ Names("out") : ids[m] = 0}
             next   == nextID + Cardinality(newOut)
  <1>1. PICK f \in Numberings(newOut, nextID), g \in Numberings(newIn, next) :
           /\ ids' = [m \in Machines |-> IF m \in newOut THEN f[m]
                                         ELSE IF m \in newIn THEN g[m] ELSE ids[m]]
           /\ nextID' = next + Cardinality(newIn)
    BY DEF ReconcileLock
  <1>2. newOut \in SUBSET Machines /\ newIn \in SUBSET Machines
    BY DEF Names
  <1>3. Cardinality(newOut) \in Nat /\ Cardinality(newIn) \in Nat
    BY <1>2, CardNat
  <1>4. nextID \in Nat /\ next \in Nat /\ ids \in [Machines -> Nat]
    BY <1>3 DEF TypeOK, ServiceTypeOK
  <1> HIDE DEF newOut, newIn, next
  <1>5. /\ \A m \in newOut : f[m] \in Nat /\ f[m] >= nextID
                               /\ f[m] < nextID + Cardinality(newOut)
        /\ \A i \in nextID .. (nextID + Cardinality(newOut) - 1) : \E m \in newOut : f[m] = i
    BY <1>2, <1>4, NumberingsType
  <1>6. /\ \A m \in newIn : g[m] \in Nat /\ g[m] >= next /\ g[m] < next + Cardinality(newIn)
        /\ \A i \in next .. (next + Cardinality(newIn) - 1) : \E m \in newIn : g[m] = i
    BY <1>2, <1>4, NumberingsType
  <1>7. next = nextID + Cardinality(newOut)
    BY DEF next
  <1>8. \A m \in newIn : m \notin newOut
    BY DEF newIn, newOut
  <1>9. ids' \in [Machines -> Nat] /\ nextID' \in Nat /\ nextID' >= nextID
    BY <1>1, <1>3, <1>4, <1>5, <1>6, <1>7
  <1>10. \A m \in newOut \cup newIn : ids[m] = 0
    BY DEF newOut, newIn
  <1>11. \A m \in Machines : ids'[m] = ids[m] \/ (ids[m] = 0 /\ ids'[m] >= nextID)
    BY <1>1, <1>3, <1>4, <1>5, <1>6, <1>7, <1>10
  <1>12. ASSUME NEW i \in nextID .. (nextID' - 1)
         PROVE  \E m \in Machines : ids'[m] = i
    <2>1. CASE i < next
      <3>1. PICK m \in newOut : f[m] = i
        BY <1>3, <1>4, <1>5, <1>7, <2>1
      <3>2. QED
        BY <1>1, <1>2, <3>1
    <2>2. CASE i >= next
      <3>1. PICK m \in newIn : g[m] = i
        BY <1>1, <1>3, <1>4, <1>6, <1>7, <2>2
      <3>2. QED
        BY <1>1, <1>2, <1>8, <3>1
    <2>3. QED
      BY <1>4, <2>1, <2>2
  <1>13. ASSUME NEW d \in Dirs, NEW m \in Names(d), nextID >= 1
         PROVE  ids'[m] # 0
    <2>1. m \in Machines
      BY NamesMachines
    <2>2. m \in newOut \/ m \in newIn \/ ids[m] # 0
      BY DEF newOut, newIn
    <2>3. QED
      BY <1>1, <1>3, <1>4, <1>5, <1>6, <1>7, <1>13, <2>1, <2>2
  <1>14. \A m \in Machines : ids'[m] = ids[m] \/ ids'[m] < nextID'
    BY <1>1, <1>3, <1>4, <1>5, <1>6, <1>7
  <1>15. QED
    BY <1>9, <1>11, <1>12, <1>13, <1>14

(* The numbering and planning of a round preserve the types. *)
LEMMA TypeReconcileLock == ASSUME TypeOK, ReconcileLock PROVE TypeOK'
  <1>1. ids' \in [Machines -> Nat] /\ nextID' \in Nat
    BY Numbering
  <1>2. lastErr' \in BOOLEAN
    BY Zenon DEF ReconcileLock
  <1>3. ServiceTypeOK'
    BY <1>1, <1>2 DEF ReconcileLock, TypeOK, ServiceTypeOK
  <1>4. ControlTypeOK'
    BY DEF ReconcileLock, TypeOK, ControlTypeOK, bounds
  <1>5. want' \in [Dirs -> [Machines -> Class]]
    <2>1. \A d \in Dirs : \A m \in Names(d) : Rate(d, m) \in Nat
      BY RateType
    <2>2. want' = [d \in Dirs |-> [m \in Machines |->
                     IF m \in Names(d) THEN [id |-> ids'[m], rate |-> Rate(d, m)]
                     ELSE NoClass]]
      BY DEF ReconcileLock
    <2>3. QED
      BY <1>1, <2>1, <2>2
  <1>6. RoundTypeOK'
    BY <1>5 DEF ReconcileLock, TypeOK, RoundTypeOK, Steps
  <1>7. QED
    BY <1>3, <1>4, <1>6, TcTypeStep DEF ReconcileLock, TypeOK

(* The start of cleanupAll preserves the types. *)
LEMMA TypeCleanupLock ==
    ASSUME TypeOK, NEW who \in {"loop", "stop"}, CleanupLock(who) PROVE TypeOK'
  <1>1. ControlTypeOK'
    BY DEF CleanupLock, TypeOK, ControlTypeOK, bounds
  <1>2. RoundTypeOK'
    BY DEF CleanupLock, TypeOK, RoundTypeOK, Steps
  <1>3. QED
    BY <1>1, <1>2, TcTypeStep, ServiceTypeStep DEF CleanupLock, TypeOK

(* What Build does to the tables: free is the set of names it releases. *)
LEMMA Building ==
    ASSUME TypeOK, Build
    PROVE  \E free \in SUBSET Machines :
              /\ \A m \in free : ids[m] # 0
              /\ ids' = [m \in Machines |-> IF m \in free THEN 0 ELSE ids[m]]
              /\ Lowers(nextID', free)
  BY DEF Build, releaseIfUnused, On

(* The table updates of applyDirection and clearDirection preserve the types. *)
LEMMA TypeBuild == ASSUME TypeOK, Build PROVE TypeOK'
  <1>1. ids' \in [Machines -> Nat] /\ nextID' \in Nat
    BY Building DEF Lowers, TypeOK, ServiceTypeOK
  <1>2. applied' \in [Dirs -> [Machines -> Class]]
    BY DEF Build, TypeOK, ServiceTypeOK, RoundTypeOK
  <1>3. gone' \subseteq Nat
    BY SMTT(30) DEF Build, TypeOK, ServiceTypeOK, RoundTypeOK, On
  <1>4. ServiceTypeOK'
    BY <1>1, <1>2 DEF Build, TypeOK, ServiceTypeOK, activity
  <1>5. ControlTypeOK'
    BY DEF Build, TypeOK, ControlTypeOK, bounds, threads
  <1>6. RoundTypeOK'
    BY <1>3 DEF Build, TypeOK, ServiceTypeOK, RoundTypeOK, Steps
  <1>7. QED
    BY <1>4, <1>5, <1>6, TcTypeStep DEF Build, TypeOK

(* The end of a command leads to a command, or out of the direction. *)
LEMMA ForwardType ==
    ASSUME TypeOK, NEW rest \in SUBSET (Machines \cup Nat), Forward(rest)
    PROVE  /\ step' \in Steps /\ dir' \in Dirs
           /\ todo' \subseteq Machines \cup Nat
  <1>1. NextStep \in Steps
    BY DEF NextStep, Steps, TypeOK, RoundTypeOK
  <1>2. Args(NextStep) \subseteq Machines \cup Nat
    BY DEF Args, On, TypeOK, RoundTypeOK
  <1>3. QED
    BY <1>1, <1>2 DEF Forward, TypeOK, RoundTypeOK

(* An empty loop of class deletions preserves the types. *)
LEMMA TypeSkip == ASSUME TypeOK, Skip PROVE TypeOK'
  <1>1. ControlTypeOK'
    BY DEF Skip, TypeOK, ControlTypeOK, bounds, threads
  <1>2. RoundTypeOK'
    BY ForwardType DEF Skip, TypeOK, RoundTypeOK
  <1>3. QED
    BY <1>1, <1>2, TcTypeStep, ServiceTypeStep DEF Skip, TypeOK

(* Every tc command keeps the kernel's state well formed. *)
LEMMA TypeCommand ==
    ASSUME TypeOK, StepInv, NEW x \in todo, Command(x)
    PROVE  TcTypeOK'
  <1> DEFINE v == DevOf(dir, dev)
  <1>1. v \in Devs /\ dev \in Devs /\ IFBDev \in Devs
    BY DEF DevOf, Devs, TypeOK, RoundTypeOK
  <1>2. RootRate \in Nat
    BY RateNat DEF RootRate, manualRootKbps, TypeOK, ControlTypeOK, RoundTypeOK, Config
  <1> HIDE DEF v
  <1>0. /\ step \in {"replace", "filteradd"} => x \in Machines
        /\ step = "classdel" => x \in Nat
    BY DEF StepInv, On, TypeOK, RoundTypeOK
  <1> USE DEF TcTypeOK, TypeOK, kernel
  <1>3. CASE step = "link" /\ LinkAdd
    BY <1>1, <1>3 DEF LinkAdd
  <1>4. CASE step = "ingressadd" /\ IngressAdd(dev)
    BY <1>1, <1>4 DEF IngressAdd
  <1>5. CASE step = "redirdel" /\ RedirectDel(dev)
    BY <1>1, <1>5 DEF RedirectDel
  <1>6. CASE step = "rediradd" /\ RedirectAdd(dev)
    BY <1>1, <1>6 DEF RedirectAdd
  <1>7. CASE step = "ingressdel" /\ IngressDel(dev)
    BY <1>1, <1>7 DEF IngressDel
  <1>8. CASE step = "rootdel" /\ RootDel(v)
    BY <1>1, <1>8 DEF RootDel
  <1>9. CASE step = "rootadd" /\ RootAdd(v)
    BY <1>1, <1>9 DEF RootAdd
  <1>10. CASE step = "rootclass" /\ ClassReplace(v, rootClassID, RootRate)
    BY <1>1, <1>2, <1>10 DEF ClassReplace, rootClassID
  <1>11. CASE step = "filterdel" /\ FilterDel(v)
    BY <1>1, <1>11 DEF FilterDel
  <1>12. CASE step = "replace" /\ ClassReplace(v, want[dir][x].id, want[dir][x].rate)
    <2>1. want[dir][x].id \in Nat /\ want[dir][x].rate \in Nat
      BY <1>0, <1>12 DEF RoundTypeOK
    <2>2. QED
      BY <1>1, <1>12, <2>1 DEF ClassReplace
  <1>13. CASE step = "classdel" /\ ClassDel(v, x)
    BY <1>0, <1>1, <1>13 DEF ClassDel
  <1>14. CASE step = "filteradd" /\ FilterAdd(v, x, want[dir][x].id)
    <2>1. want[dir][x].id \in Nat /\ x \in Machines
      BY <1>0, <1>14 DEF RoundTypeOK
    <2>2. QED
      BY <1>1, <1>14, <2>1 DEF FilterAdd
  <1>15. QED
    BY <1>3, <1>4, <1>5, <1>6, <1>7, <1>8, <1>9, <1>10, <1>11, <1>12, <1>13, <1>14
    DEF Command, v

(* A command of runCmds preserves the types, whether it fails or not. *)
LEMMA TypeRunCmd == ASSUME TypeOK, StepInv, RunCmd PROVE TypeOK'
  <1>1. PICK x \in todo :
          /\ Forward(todo \ {x})
          /\ \/ Command(x) /\ UNCHANGED fails
             \/ fails < MaxFails /\ fails' = fails + 1 /\ UNCHANGED kernel
    BY DEF RunCmd
  <1>2. TcTypeOK'
    BY <1>1, TypeCommand, TcTypeStep
  <1>3. lastErr' \in BOOLEAN
    BY Zenon DEF RunCmd
  <1>4. ServiceTypeOK'
    BY <1>3 DEF RunCmd, TypeOK, ServiceTypeOK, activity, table
  <1>5. fails' \in 0..MaxFails
    BY <1>1, BoundAssumption DEF TypeOK, ControlTypeOK
  <1>6. ControlTypeOK'
    BY <1>5 DEF RunCmd, TypeOK, ControlTypeOK, threads
  <1>7. todo \ {x} \in SUBSET (Machines \cup Nat)
    BY DEF TypeOK, RoundTypeOK
  <1>8. RoundTypeOK'
    BY <1>1, <1>7, ForwardType DEF RunCmd, TypeOK, RoundTypeOK
  <1>9. QED
    BY <1>2, <1>4, <1>6, <1>8 DEF TypeOK

(* The end of reconcile and of cleanupAll preserves the types. *)
LEMMA TypeUnlock == ASSUME TypeOK, Unlock PROVE TypeOK'
  <1>1. ServiceTypeOK'
    BY BoundAssumption DEF Unlock, TypeOK, ServiceTypeOK, table, Expired
  <1>2. watch' \in BOOLEAN
    BY DEF Unlock, TypeOK, ControlTypeOK
  <1>3. ControlTypeOK'
    BY <1>2 DEF Unlock, TypeOK, ControlTypeOK, bounds
  <1>4. RoundTypeOK'
    BY DEF Unlock, TypeOK, RoundTypeOK, Steps
  <1>5. QED
    BY <1>1, <1>3, <1>4, TcTypeStep DEF Unlock, TypeOK

(* The setErr(nil) of off mode preserves the types. *)
LEMMA TypeClearErr == ASSUME TypeOK, ClearErr PROVE TypeOK'
  <1>1. lastErr' \in BOOLEAN /\ watch' \in BOOLEAN
    BY DEF ClearErr
  <1>2. ServiceTypeOK'
    BY <1>1 DEF ClearErr, TypeOK, ServiceTypeOK, activity, table
  <1>3. ControlTypeOK'
    BY <1>1 DEF ClearErr, TypeOK, ControlTypeOK, bounds
  <1>4. QED
    BY <1>2, <1>3, TcTypeStep, RoundTypeStep DEF ClearErr, TypeOK

(* The steps of main, of the ticker and of Settings. *)
LEMMA TypeMain ==
    ASSUME TypeOK, Tick \/ LoopExit \/ Stop \/ Start \/ SaveConfig
    PROVE  TypeOK'
  <1> USE DEF Tick, LoopExit, Stop, Start, SaveConfig, TypeOK
  <1>1. ServiceTypeOK'
    BY ServiceTypeStep
  <1>2. ControlTypeOK'
    BY ConfigAssumption DEF ControlTypeOK, bounds, threads
  <1>3. QED
    BY <1>1, <1>2, TcTypeStep, RoundTypeStep

(* The end of the process preserves the types. *)
LEMMA TypeDie == ASSUME TypeOK, Exit \/ Crash PROVE TypeOK'
  <1>1. Die /\ fails' = fails /\ crashes' \in 0..MaxCrashes
    BY BoundAssumption DEF Exit, Crash, bounds, TypeOK, ControlTypeOK
  <1> USE DEF Die, TypeOK
  <1>2. age' \in [Machines -> 0..Expired]
    BY <1>1, BoundAssumption DEF Expired
  <1>3. lastErr' \in BOOLEAN /\ watch' \in BOOLEAN
    BY <1>1
  <1>4. ServiceTypeOK'
    BY <1>1, <1>2, <1>3 DEF ServiceTypeOK
  <1>5. ControlTypeOK'
    BY <1>1, <1>3 DEF ControlTypeOK
  <1>6. RoundTypeOK'
    BY <1>1 DEF RoundTypeOK, Steps
  <1>7. QED
    BY <1>1, <1>4, <1>5, <1>6, TcTypeStep

(* Every step preserves the types. *)
LEMMA TypeNext == ASSUME TypeOK, StepInv, [Next]_vars PROVE TypeOK'
  <1>1. CASE Loop
    BY <1>1, TypeReadConfig, TypeSample, TypeSampleFails, TypeReconcileLock,
       TypeClearErr, TypeCleanupLock, TypeMain DEF Loop
  <1>2. CASE Locked
    BY <1>2, TypeBuild, TypeRunCmd, TypeSkip, TypeUnlock DEF Locked
  <1>3. CASE Stop \/ CleanupLock("stop") \/ Exit \/ Crash \/ Start \/ SaveConfig
    BY <1>3, TypeMain, TypeDie, TypeCleanupLock
  <1>4. CASE UNCHANGED vars
    <2>1. ControlTypeOK'
      BY <1>4 DEF vars, threads, bounds, TypeOK, ControlTypeOK
    <2>2. QED
      BY <1>4, <2>1, TcTypeStep, ServiceTypeStep, RoundTypeStep DEF vars, TypeOK
  <1>5. QED
    BY <1>1, <1>2, <1>3, <1>4 DEF Next

-----------------------------------------------------------------------------
(* The shape of the command list *)

(* On to the next command: what StepInv says of it. *)
LEMMA StepForward ==
    ASSUME TypeOK, StepInv, mu # "free", step \notin {"none", "build", "unlock"},
           NEW rest \in SUBSET todo, Forward(rest),
           step \notin LoopSteps => rest = {},
           UNCHANGED <<iface, table, threads, rc, want, plan, gone>>
    PROVE  StepInv'
  <1> USE DEF TypeOK, RoundTypeOK, threads, table
  <1>1. CASE rest # {}
    <2>1. step' = step /\ dir' = dir /\ todo' = rest /\ step \in LoopSteps
      BY <1>1 DEF Forward
    <2>2. QED
      BY <2>1 DEF StepInv, LoopSteps, ApplySteps, IngressSteps, On
  <1>2. CASE rest = {}
    <2>1. step' = NextStep /\ todo' = Args(NextStep)
      BY <1>2 DEF Forward
    <2>2. dir' = IF NextStep = "build" THEN "in" ELSE dir
      BY <1>2 DEF Forward
    <2>3. NextStep # "none"
      BY DEF NextStep, Steps
    <2>4. /\ NextStep \in ApplySteps => plan[dir] = "apply"
          /\ NextStep = "ingressdel" => plan[dir] = "clear"
          /\ NextStep \in IngressSteps => dir = "in"
      BY DEF NextStep, Steps, StepInv, ApplySteps, IngressSteps, LoopSteps
    <2>5. NextStep # "build" => applied[dir] = want[dir]
      BY DEF StepInv
    <2>6. /\ NextStep \in {"replace", "filteradd"} => Args(NextStep) \subseteq On(want[dir])
          /\ NextStep = "classdel" => Args(NextStep) \subseteq gone
          /\ NextStep \in {"none", "build", "unlock"} => Args(NextStep) = {}
          /\ NextStep \notin {"none", "build", "unlock"} \cup LoopSteps => Args(NextStep) = {0}
      BY <2>3 DEF Args, LoopSteps
    <2>7. NextStep = "build" => NextStep \notin ApplySteps /\ NextStep \notin IngressSteps
      BY DEF ApplySteps, IngressSteps, LoopSteps
    <2>8. dir' = "in" => applied["out"] = want["out"]
      BY <2>2 DEF StepInv
    <2> HIDE DEF RoundTypeOK
    <2>9. QED
      BY <2>1, <2>2, <2>3, <2>4, <2>5, <2>6, <2>7, <2>8 DEF StepInv, On
  <1>3. QED
    BY <1>1, <1>2

(* Lock, program counters and command list stay in step with each other. *)
LEMMA StepInvNext == ASSUME TypeOK, StepInv, [Next]_vars PROVE StepInv'
  <1> USE DEF TypeOK
  <1> DEFINE shape == <<step, dir, plan, want, applied, todo>>
  <1>1. CASE ReadConfig
    BY <1>1 DEF ReadConfig, StepInv, round, table, AfterConfig, ServiceTypeOK, ControlTypeOK, Config, On
  <1>2. CASE Sample \/ SampleFails \/ Tick \/ LoopExit \/ ClearErr
    BY <1>2 DEF Sample, SampleFails, Tick, LoopExit, ClearErr, StepInv, round, table, On
  <1>3. CASE ReconcileLock
    <2>1. \A d \in Dirs : plan'[d] = "clear" => want'[d] = Empty
      BY <1>3 DEF ReconcileLock
    <2>2. QED
      BY <1>3, <2>1 DEF ReconcileLock, StepInv, ApplySteps, IngressSteps, LoopSteps, ServiceTypeOK
  <1>4. ASSUME NEW who \in {"loop", "stop"}, CleanupLock(who)
        PROVE  StepInv'
    BY <1>4 DEF CleanupLock, StepInv, ApplySteps, IngressSteps, LoopSteps, table
  <1>5. CASE Build
    <2>1. applied'[dir'] = want'[dir']
      BY <1>5 DEF Build, ServiceTypeOK, RoundTypeOK
    <2>2. step' \in {"rootdel", "link", "redirdel"} /\ todo' = {0} /\ mu # "free"
      BY <1>5 DEF Build
    <2>3. QED
      BY <1>5, <2>1, <2>2 DEF Build, StepInv, ApplySteps, IngressSteps, LoopSteps, RoundTypeOK, threads
  <1>6. CASE RunCmd
    <2>1. PICK x \in todo : Forward(todo \ {x})
      BY <1>6 DEF RunCmd
    <2>2. /\ mu # "free"
          /\ UNCHANGED <<iface, table, threads, rc, want, plan, gone>>
      BY <1>6 DEF RunCmd
    <2>3. step \notin {"none", "build", "unlock"}
      BY <2>1 DEF StepInv
    <2>4. step \notin LoopSteps => todo \ {x} = {}
      BY <2>1, <2>3 DEF StepInv
    <2>5. QED
      BY <2>1, <2>2, <2>3, <2>4, StepForward
  <1>7. CASE Skip
    BY <1>7, StepForward DEF Skip, LoopSteps
  <1>8. CASE Unlock
    BY <1>8 DEF Unlock, StepInv, ApplySteps, IngressSteps, LoopSteps
  <1>9. CASE Stop \/ Start \/ SaveConfig \/ UNCHANGED vars
    BY <1>9 DEF Stop, Start, SaveConfig, vars, StepInv, round, table, threads, On
  <1>10. CASE Exit \/ Crash
    BY <1>10 DEF Exit, Crash, Die, StepInv, ApplySteps, IngressSteps, LoopSteps
  <1>11. QED
    BY <1>1, <1>2, <1>3, <1>4, <1>5, <1>6, <1>7, <1>8, <1>9, <1>10
    DEF Next, Loop, Locked

-----------------------------------------------------------------------------
(* The kernel's own consistency *)

(* Filters stay under an htb qdisc, and interfaces stay present. *)
LEMMA KernelInvNext == ASSUME TypeOK, KernelInv, [Next]_vars PROVE KernelInv'
  <1> USE DEF KernelInv
  <1>1. CASE UNCHANGED kernel
    BY <1>1 DEF kernel
  <1>2. CASE RunCmd
    <2> SUFFICES ASSUME NEW x \in todo, Command(x)
                 PROVE  KernelInv'
      BY <1>1, <1>2 DEF RunCmd
    <2> DEFINE v == DevOf(dir, dev)
    <2>1. v \in Devs /\ \A i \in Ifaces : i \in Devs
      BY DEF DevOf, Devs, TypeOK, RoundTypeOK
    <2> HIDE DEF v
    <2> USE DEF TypeOK, TcTypeOK
    <2>2. CASE LinkAdd
      BY <2>1, <2>2 DEF LinkAdd
    <2>3. CASE RootDel(v)
      BY <2>1, <2>3 DEF RootDel, kernel
    <2>4. CASE RootAdd(v)
      BY <2>1, <2>4 DEF RootAdd
    <2>5. CASE FilterDel(v) \/ FilterAdd(v, x, want[dir][x].id)
      BY <2>1, <2>5 DEF FilterDel, FilterAdd
    <2>6. CASE UNCHANGED <<root, filter>>
      BY <2>6
    <2>7. QED
      BY <2>2, <2>3, <2>4, <2>5, <2>6
      DEF Command, v, IngressAdd, RedirectDel, RedirectAdd, IngressDel,
          ClassReplace, ClassDel
  <1>3. QED
    BY <1>1, <1>2 DEF Next, Loop, Locked, vars, ReadConfig, Sample, SampleFails,
       ReconcileLock, ClearErr, CleanupLock, Tick, LoopExit, Build, Skip, Unlock,
       Stop, Exit, Crash, Die, Start, SaveConfig

-----------------------------------------------------------------------------
(* Progress towards what the round has decided *)

(* The commands of the ingress direction do not touch egress. *)
LEMMA EgressKept ==
    ASSUME TypeOK, dir = "in", NEW x \in todo, Command(x),
           DirectionInSync("out"), UNCHANGED <<iface, applied, plan>>
    PROVE  DirectionInSync("out")'
  <1>1. DevOf(dir, dev) = IFBDev /\ DevOf("out", iface) = iface
    BY DEF DevOf
  <1>2. iface # IFBDev /\ iface \in Devs /\ IFBDev \in Devs
    BY DevAssumption DEF Devs, TypeOK, ServiceTypeOK
  <1>3. root'[iface] = root[iface] /\ filter'[iface] = filter[iface]
    BY <1>1, <1>2 DEF Command, TypeOK, TcTypeOK, kernel, LinkAdd, IngressAdd,
       RedirectDel, RedirectAdd, IngressDel, RootDel, RootAdd, ClassReplace,
       FilterDel, ClassDel, FilterAdd
  <1>4. QED
    BY <1>1, <1>3 DEF DirectionInSync, DevOf, Pairs, On

(* One command that does not fail. *)
LEMMA ProgressCommand ==
    ASSUME TypeOK, StepInv, KernelInv, mu # "free",
           Progress(DevOf(dir, iface)),
           NEW x \in todo, Command(x), Forward(todo \ {x}),
           UNCHANGED <<iface, table, threads, want, plan, dev, gone>>
    PROVE  Progress(DevOf(dir, iface))'
  <1> DEFINE v == DevOf(dir, iface)
  <1>1. /\ v \in Devs /\ iface \in Devs /\ IFBDev \in Devs
        /\ v = IF dir = "in" THEN IFBDev ELSE iface
        /\ iface # IFBDev
    BY DevAssumption DEF DevOf, Devs, TypeOK, RoundTypeOK, ServiceTypeOK
  <1>2. step \in Steps \ {"none", "build", "unlock"} /\ dev = iface
    BY DEF Progress, Command, StepInv, TypeOK, RoundTypeOK
  <1>3. plan[dir] = "apply" => iface \in Ifaces /\ root[iface] # "absent"
    BY <1>2 DEF StepInv, KernelInv, TypeOK, RoundTypeOK
  <1>4. /\ dir \in Dirs /\ plan[dir] \in {"apply", "clear"}
        /\ applied[dir] = want[dir] /\ applied' = applied
        /\ plan[dir] = "clear" => want[dir] = Empty
    BY <1>2 DEF StepInv, TypeOK, RoundTypeOK, table
  <1>5. dir = "in" => DirectionInSync("out")'
    BY EgressKept DEF Progress, table
  <1>6. step \notin LoopSteps => step' = NextStep /\ todo' = Args(NextStep)
                                 /\ dir' = IF NextStep = "build" THEN "in" ELSE dir
    BY <1>2 DEF StepInv, Forward
  <1> USE DEF TypeOK, TcTypeOK
  <1>7. CASE step = "link"
    BY <1>1, <1>2, <1>4, <1>5, <1>6, <1>7
    DEF StepInv, Command, Progress, NextStep, LinkAdd, LoopSteps, DevOf, ApplySteps, IngressSteps
  <1>8. CASE step = "ingressadd"
    BY <1>1, <1>2, <1>3, <1>4, <1>5, <1>6, <1>8
    DEF StepInv, Command, Progress, NextStep, IngressAdd, LoopSteps, DevOf, ApplySteps, IngressSteps
  <1>9. CASE step = "redirdel"
    BY <1>1, <1>2, <1>3, <1>4, <1>5, <1>6, <1>9
    DEF StepInv, Command, Progress, NextStep, RedirectDel, LoopSteps, DevOf, ApplySteps, IngressSteps
  <1>10. CASE step = "rediradd"
    BY <1>1, <1>2, <1>3, <1>4, <1>5, <1>6, <1>10
    DEF StepInv, Command, Progress, NextStep, RedirectAdd, LoopSteps, DevOf, ApplySteps, IngressSteps
  <1>11. CASE step = "ingressdel"
    BY <1>1, <1>2, <1>3, <1>4, <1>5, <1>6, <1>11
    DEF StepInv, Command, Progress, NextStep, IngressDel, LoopSteps, DevOf, ApplySteps, IngressSteps
  <1>12. CASE step = "rootdel"
    <2>1. RootDel(v) /\ ingress' = ingress
      BY <1>2, <1>12 DEF Command, v, RootDel, kernel
    <2>2. /\ root'[v] # "htb" /\ filter'[v] = {}
          /\ root[v] # "absent" => root'[v] = "default"
      BY <1>1, <2>1 DEF RootDel, KernelInv, kernel
    <2>3. CASE plan[dir] = "apply"
      <3>1. step' = "rootadd" /\ dir' = dir /\ root[v] # "absent"
        BY <1>1, <1>3, <1>4, <1>6, <1>12, <2>3 DEF NextStep, LoopSteps, Progress, DevOf
      <3>2. QED
        BY <1>1, <1>2, <1>4, <1>5, <1>12, <2>1, <2>2, <2>3, <3>1 DEF Progress, LoopSteps, DevOf
    <2>4. CASE plan[dir] = "clear"
      <3>1. step' = IF dir = "out" THEN "build" ELSE "unlock"
        BY <1>6, <1>12, <2>4 DEF NextStep, LoopSteps
      <3>2. dir' = "in"
        BY <1>4, <1>6, <1>12, <2>4 DEF NextStep, LoopSteps
      <3>3. \A d \in Dirs : dir = d => DirectionInSync(d)'
        BY <1>1, <1>4, <1>12, <2>1, <2>2, <2>4 DEF DirectionInSync, Progress, DevOf, On
      <3>4. QED
        BY <1>1, <1>2, <1>4, <1>5, <1>12, <2>4, <3>1, <3>2, <3>3 DEF Progress, LoopSteps, DevOf
    <2>5. QED
      BY <1>4, <2>3, <2>4
  <1>13. CASE step \in {"rootadd", "rootclass", "filterdel"}
    <2>1. /\ step = "rootadd" => RootAdd(v)
          /\ step = "rootclass" => ClassReplace(v, rootClassID, RootRate)
          /\ step = "filterdel" => FilterDel(v)
          /\ ingress' = ingress
      BY <1>2, <1>13 DEF Command, v, RootAdd, ClassReplace, FilterDel
    <2>2. /\ root'[v] = "htb"
          /\ step = "filterdel" => filter'[v] = {}
      BY <1>1, <1>13, <2>1 DEF RootAdd, ClassReplace, FilterDel, Progress, LoopSteps
    <2>3. /\ plan[dir] = "apply" /\ dir' = dir
          /\ step' \in {"rootclass", "filterdel", "replace"}
          /\ step' = "replace" <=> step = "filterdel"
      BY <1>6, <1>13 DEF StepInv, ApplySteps, NextStep, LoopSteps
    <2>4. QED
      BY <1>1, <1>2, <1>4, <1>5, <1>13, <2>1, <2>2, <2>3 DEF Progress, LoopSteps, DevOf
  <1>14. CASE step \in {"replace", "classdel"}
    <2>1. /\ step = "replace" => ClassReplace(v, want[dir][x].id, want[dir][x].rate)
          /\ step = "classdel" => ClassDel(v, x)
      BY <1>2, <1>14 DEF Command, v
    <2>2. root' = root /\ filter' = filter /\ ingress' = ingress
      BY <1>14, <2>1 DEF ClassReplace, ClassDel
    <2>3. /\ plan[dir] = "apply" /\ dir' = dir
          /\ \/ step' \in {"replace", "classdel"}
             \/ step' = "filteradd" /\ todo' = On(want[dir])
      BY <1>2, <1>14 DEF StepInv, ApplySteps, NextStep, LoopSteps, Forward, Args
    <2>4. /\ root[v] = "htb" /\ filter[v] = {}
          /\ dir = "in" => ingress[iface] = "redirect"
      BY <1>4, <1>14, <2>3 DEF Progress, LoopSteps
    <2>5. QED
      BY <1>1, <1>2, <1>4, <1>5, <1>14, <2>2, <2>3, <2>4 DEF Progress, LoopSteps, DevOf
  <1>15. CASE step = "filteradd"
    <2>1. FilterAdd(v, x, want[dir][x].id)
      BY <1>2, <1>15 DEF Command, v
    <2>2. /\ root[v] = "htb"
          /\ filter[v] = {<<m, want[dir][m].id>> : m \in On(want[dir]) \ todo}
          /\ dir = "in" => ingress[iface] = "redirect"
          /\ plan[dir] = "apply" /\ todo \subseteq On(want[dir])
      BY <1>4, <1>15 DEF Progress, LoopSteps, StepInv, ApplySteps
    <2>3. /\ root' = root /\ ingress' = ingress
          /\ filter'[v] = filter[v] \cup {<<x, want[dir][x].id>>}
      BY <1>1, <2>1, <2>2 DEF FilterAdd
    <2>4. filter'[v] = {<<m, want[dir][m].id>> : m \in On(want[dir]) \ (todo \ {x})}
      BY <2>2, <2>3
    <2>5. CASE todo \ {x} # {}
      <3>1. step' = step /\ dir' = dir /\ todo' = todo \ {x}
        BY <2>5 DEF Forward
      <3>2. QED
        BY <1>1, <1>2, <1>4, <1>5, <1>15, <2>2, <2>3, <2>4, <3>1 DEF Progress, LoopSteps, DevOf, On
    <2>6. CASE todo \ {x} = {}
      <3>1. /\ step' = IF dir = "out" THEN "build" ELSE "unlock"
            /\ dir' = "in"
        BY <1>4, <1>15, <2>6 DEF Forward, NextStep
      <3>2. filter'[v] = Pairs(want[dir])
        BY <2>4, <2>6 DEF Pairs
      <3>3. \A d \in Dirs : dir = d => DirectionInSync(d)'
        BY <1>1, <1>4, <2>2, <2>3, <3>2 DEF DirectionInSync, DevOf, Pairs, On
      <3>4. QED
        BY <1>1, <1>2, <1>4, <1>5, <1>15, <2>2, <3>1, <3>3, <2>3 DEF Progress, LoopSteps, DevOf
    <2>7. QED
      BY <2>5, <2>6
  <1>16. QED
    BY <1>2, <1>7, <1>8, <1>9, <1>10, <1>11, <1>12, <1>13, <1>14, <1>15 DEF Steps

(* Every step keeps the kernel on the way to what the round decided. *)
LEMMA SyncInvNext ==
    ASSUME TypeOK, StepInv, KernelInv, SyncInv, [Next]_vars
    PROVE  SyncInv'
  <1>1. CASE ReadConfig \/ Sample \/ SampleFails \/ Tick \/ LoopExit \/ Start
    <2>1. ~Settled'
      BY <1>1 DEF ReadConfig, Sample, SampleFails, Tick, LoopExit, Start,
         StepInv, Settled, AfterConfig
    <2>2. QED
      BY <2>1 DEF SyncInv
  <1>2. CASE Exit \/ Crash
    BY <1>2 DEF Exit, Crash, Die, SyncInv, Settled
  <1>3. CASE ClearErr
    BY <1>3 DEF ClearErr, StepInv, SyncInv, Settled
  <1>4. CASE ReconcileLock \/ \E who \in {"loop", "stop"} : CleanupLock(who)
    BY <1>4 DEF ReconcileLock, CleanupLock, SyncInv, Progress, LoopSteps
  <1>5. CASE Build
    <2> SUFFICES ASSUME Settled', ~lastErr'
                 PROVE  Progress(DevOf(dir, iface))'
      BY <1>5 DEF Build, SyncInv
    <2>1. Progress(DevOf(dir, iface)) /\ step = "build"
      BY <1>5 DEF Build, SyncInv, Settled, threads
    <2>2. dir = "in" => DirectionInSync("out")'
      BY <1>5, <2>1, SMTT(30) DEF Build, Progress, DirectionInSync, kernel, DevOf, Pairs,
         On, TypeOK, ServiceTypeOK
    <2>3. /\ step' = IF dir = "out" THEN "rootdel"
                     ELSE IF plan[dir] = "apply" THEN "link" ELSE "redirdel"
          /\ dir' = dir /\ plan' = plan /\ dev' = iface /\ iface' = iface
      BY <1>5 DEF Build
    <2>4. QED
      BY <2>2, <2>3 DEF Progress, LoopSteps, TypeOK, RoundTypeOK
  <1>6. CASE RunCmd
    <2> SUFFICES ASSUME Settled', ~lastErr'
                 PROVE  Progress(DevOf(dir, iface))'
      BY <1>6, StepInvNext DEF RunCmd, SyncInv, StepInv, threads
    <2>1. /\ Settled /\ ~lastErr /\ step # "none" /\ mu # "free"
          /\ UNCHANGED <<iface, table, threads, want, plan, dev, gone>>
      BY <1>6 DEF RunCmd, Settled, threads, StepInv
    <2>2. PICK x \in todo : Forward(todo \ {x}) /\ Command(x)
      BY <1>6 DEF RunCmd
    <2>3. Progress(DevOf(dir, iface))
      BY <2>1 DEF SyncInv
    <2>4. QED
      BY <2>1, <2>2, <2>3, ProgressCommand
  <1>7. CASE Skip
    <2> SUFFICES ASSUME Settled, ~lastErr, Progress(DevOf(dir, iface))
                 PROVE  Progress(DevOf(dir, iface))'
      BY <1>7 DEF Skip, SyncInv, Settled, threads, Forward, NextStep
    <2>1. /\ step = "classdel" /\ step' = "filteradd" /\ dir' = dir
          /\ todo' = On(want[dir]) /\ plan[dir] = "apply"
      BY <1>7 DEF Skip, Forward, NextStep, Args, StepInv, ApplySteps, LoopSteps
    <2>2. UNCHANGED <<root, filter, ingress, iface, applied, plan, want, dev>>
      BY <1>7 DEF Skip, kernel, table
    <2>3. DirectionInSync("out") => DirectionInSync("out")'
      BY <2>2 DEF DirectionInSync, DevOf, Pairs, On
    <2>4. QED
      BY <2>1, <2>2, <2>3 DEF Progress, LoopSteps, DevOf, On, TypeOK, RoundTypeOK
  <1>8. CASE Unlock
    <2>1. step = "unlock" /\ step' = "none" /\ UNCHANGED <<kernel, iface, applied, plan, lastErr, rc>>
      BY <1>8 DEF Unlock, table
    <2>2. Settled' => Settled
      BY <1>8 DEF Unlock, Settled
    <2>3. Settled /\ ~lastErr => \A d \in Dirs : DirectionInSync(d)
      BY <2>1 DEF SyncInv, Progress, StepInv, IngressSteps
    <2>4. (\A d \in Dirs : DirectionInSync(d)) => (\A d \in Dirs : DirectionInSync(d))'
      BY <2>1 DEF DirectionInSync, kernel, DevOf, Pairs, On
    <2>5. QED
      BY <2>1, <2>2, <2>3, <2>4 DEF SyncInv
  <1>9. CASE Stop \/ SaveConfig \/ UNCHANGED vars
    BY <1>9 DEF Stop, SaveConfig, vars, SyncInv, Settled, Progress, round, table,
       threads, kernel, DirectionInSync, DevOf, Pairs, On, LoopSteps
  <1>10. QED
    BY <1>1, <1>2, <1>3, <1>4, <1>5, <1>6, <1>7, <1>8, <1>9
    DEF Next, Loop, Locked

-----------------------------------------------------------------------------
(* The class ids *)

(* The ids below nextID stay held: classID and releaseIfUnused. *)
LEMMA PrefixNext == ASSUME TypeOK, PrefixHeld, [Next]_vars PROVE PrefixHeld'
  <1> USE DEF PrefixHeld, rootClassID
  <1>1. CASE ReconcileLock
    <2>1. /\ nextID \in Nat /\ nextID' \in Nat /\ nextID' >= nextID
          /\ \A m \in Machines : ids'[m] = ids[m] \/ (ids[m] = 0 /\ ids'[m] >= nextID)
          /\ \A i \in nextID .. (nextID' - 1) : \E m \in Machines : ids'[m] = i
      BY <1>1, Numbering DEF TypeOK, ServiceTypeOK
    <2>2. ids \in [Machines -> Nat] /\ ids' \in [Machines -> Nat]
      BY <1>1, Numbering DEF TypeOK, ServiceTypeOK
    <2>3. ASSUME NEW i \in 2 .. (nextID' - 1)
          PROVE  \E m \in Machines : ids'[m] = i
      <3>1. CASE i < nextID
        <4>1. PICK m \in Machines : ids[m] = i
          BY <2>1, <3>1
        <4>2. QED
          BY <2>1, <4>1
      <3>2. QED
        BY <2>1, <3>1
    <2>4. nextID' >= 2 /\ \A m \in Machines : ids'[m] # 1
      BY <2>1, <2>2
    <2>5. QED
      BY <2>3, <2>4
  <1>2. CASE Build
    <2>1. PICK free \in SUBSET Machines :
              /\ \A m \in free : ids[m] # 0
              /\ ids' = [m \in Machines |-> IF m \in free THEN 0 ELSE ids[m]]
              /\ Lowers(nextID', free)
      BY <1>2, Building
    <2>2. /\ nextID \in Nat /\ ids \in [Machines -> Nat]
          /\ nextID' <= nextID /\ \A m \in free : nextID' <= ids[m]
          /\ nextID' = nextID \/ \E m \in free : nextID' = ids[m]
      BY <2>1 DEF Lowers, TypeOK, ServiceTypeOK
    <2>3. nextID' \in Nat /\ nextID' >= 2
      BY <2>1, <2>2
    <2>4. \A m \in Machines : ids'[m] # 1
      BY <2>1
    <2>5. ASSUME NEW i \in Nat, 2 <= i, i < nextID'
          PROVE  \E m \in Machines : ids'[m] = i
      <3>1. i \in 2 .. (nextID - 1)
        BY <2>2, <2>3, <2>5
      <3>2. PICK m \in Machines : ids[m] = i
        BY <3>1
      <3>3. m \notin free
        BY <2>2, <2>3, <2>5, <3>2
      <3>4. QED
        BY <2>1, <3>2, <3>3
    <2>6. \A n \in Nat : \A i \in 2 .. (n - 1) : i \in Nat /\ 2 <= i /\ i < n
      OBVIOUS
    <2>7. \A i \in 2 .. (nextID' - 1) : i \in Nat /\ 2 <= i /\ i < nextID'
      BY <2>3, <2>6, Zenon
    <2>8. \A i \in 2 .. (nextID' - 1) : \E m \in Machines : ids'[m] = i
      BY <2>5, <2>7, Zenon
    <2>9. QED
      BY <2>3, <2>4, <2>8
  <1>3. CASE Exit \/ Crash
    BY <1>3 DEF Exit, Crash, Die
  <1>4. CASE UNCHANGED <<ids, nextID>>
    BY <1>4
  <1>5. QED
    BY <1>1, <1>2, <1>3, <1>4 DEF Next, Loop, Locked, vars, table, ReadConfig,
       Sample, SampleFails, ClearErr, CleanupLock, Tick, LoopExit, RunCmd, Skip,
       Unlock, Stop, Start, SaveConfig

-----------------------------------------------------------------------------
(* Hysteresis and shares *)

(* What a round decides: the machines of the auto mode, and their shares. *)
LEMMA Wanted ==
    ASSUME TypeOK, PrefixHeld, ReconcileLock, rc.mode = "auto", NEW d \in Dirs
    PROVE  /\ On(want'[d]) = {m \in Machines : samples[m] = "active" /\ rc.budget[d] > 0}
           /\ \A m \in On(want'[d]) :
                 want'[d][m].rate = rateStr(rc.budget[d], Cardinality(On(want'[d])))
  <1>1. \A m \in Names(d) : ids'[m] # 0
    BY Numbering DEF PrefixHeld, TypeOK, ServiceTypeOK
  <1>2. \A m \in Machines : want'[d][m] =
            IF m \in Names(d) THEN [id |-> ids'[m], rate |-> Rate(d, m)] ELSE NoClass
    BY DEF ReconcileLock
  <1>3. Names(d) = {m \in Machines : samples[m] = "active" /\ rc.budget[d] > 0}
    BY DEF Names
  <1>4. \A m \in Names(d) : want'[d][m].id # 0 /\ want'[d][m].rate = Rate(d, m)
    <2> TAKE m \in Names(d)
    <2>1. want'[d][m] = [id |-> ids'[m], rate |-> Rate(d, m)]
      BY <1>2, <1>3
    <2>2. QED
      BY <1>1, <2>1
  <1>5. ASSUME NEW m \in Machines, m \notin Names(d)
        PROVE  want'[d][m].id = 0
    <2>1. want'[d][m] = NoClass
      BY <1>2, <1>5
    <2>2. QED
      BY <2>1
  <1>6. On(want'[d]) = Names(d)
    BY <1>3, <1>4, <1>5 DEF On
  <1>7. QED
    BY <1>3, <1>4, <1>6 DEF Rate

(* Every step keeps the ages of a round in agreement with who is shaped. *)
LEMMA HystNext ==
    ASSUME TypeOK, StepInv, PrefixHeld, HystInv, [Next]_vars
    PROVE  HystInv'
  <1>1. CASE ReadConfig
    BY <1>1 DEF ReadConfig, HystInv, AfterConfig
  <1>2. CASE Sample
    <2>1. PICK list \in [Machines -> {"absent", "offline", "idle", "busy"}],
               gap \in 1..MaxGap :
            /\ age' = [m \in Machines |-> updateActive(age[m], list[m], gap)]
            /\ active' = {m \in Machines : list[m] \in {"idle", "busy"} /\ age'[m] <= Hyst}
            /\ samples' = [m \in Machines |-> IF m \in active' THEN "active" ELSE list[m]]
      BY <1>2 DEF Sample
    <2>2. \A m \in Machines : age'[m] <= Hyst => list[m] \in {"idle", "busy"}
      BY <2>1, BoundAssumption DEF updateActive, Expired
    <2>3. \A m \in Machines : samples'[m] = "active" <=> age'[m] <= Hyst
      BY <2>1, <2>2
    <2>4. pc = "sample" /\ pc' = "apply" /\ mu' = mu
      BY <1>2 DEF Sample
    <2>5. mu # "loop"
      BY <2>4 DEF StepInv
    <2>6. QED
      BY <2>3, <2>4, <2>5 DEF HystInv
  <1>3. CASE SampleFails
    BY <1>3 DEF SampleFails, HystInv, StepInv
  <1>4. CASE ReconcileLock
    <2> SUFFICES ASSUME proc = "up", rc.mode = "auto", NEW d \in Dirs
                 PROVE  On(want'[d]) = Recent(d)
      BY <1>4 DEF ReconcileLock, HystInv, Recent, On
    <2>1. \A m \in Machines : samples[m] = "active" <=> age[m] <= Hyst
      BY <1>4 DEF ReconcileLock, HystInv
    <2>2. QED
      BY <1>4, <2>1, Wanted DEF Recent
  <1>5. ASSUME NEW who \in {"loop", "stop"}, CleanupLock(who)
        PROVE  HystInv'
    BY <1>5 DEF CleanupLock, HystInv, StepInv, table, activity, Recent, On
  <1>6. CASE Build \/ RunCmd \/ Skip
    <2>1. mu # "free" /\ UNCHANGED <<proc, pc, mu, age, samples, rc, want>>
      BY <1>6 DEF Build, RunCmd, Skip, threads, activity
    <2>2. lastErr => lastErr'
      BY <1>6, Zenon DEF Build, RunCmd, Skip
    <2>3. proc = "up" => pc \in {"apply", "cleanup"}
      BY <2>1 DEF StepInv, TypeOK, ControlTypeOK
    <2>4. QED
      BY <2>1, <2>2, <2>3 DEF HystInv, Recent, On
  <1>8. CASE Unlock
    <2> SUFFICES ASSUME proc' = "up"
                 PROVE  HystInv'
      BY DEF HystInv
    <2>1. /\ mu = "loop" /\ proc = "up" /\ lastErr' = lastErr /\ rc' = rc
          /\ applied' = applied /\ pc' \in {"wait", "clearerr"} /\ step = "unlock"
      BY <1>8 DEF Unlock, StepInv, table
    <2>2. CASE pc = "apply"
      <3>1. applied["out"] = want["out"] /\ applied["in"] = want["in"]
        BY <2>1 DEF StepInv, IngressSteps
      <3>2. age' = age
        BY <1>8, <2>1, <2>2 DEF Unlock
      <3>3. rc.mode = "auto" => \A d \in Dirs : On(applied[d]) = Recent(d)
        BY <2>1, <2>2, <3>1 DEF HystInv
      <3>4. QED
        BY <2>1, <3>2, <3>3 DEF HystInv, Recent, On
    <2>3. CASE pc = "cleanup"
      BY <2>1, <2>3 DEF HystInv
    <2>4. QED
      BY <2>1, <2>2, <2>3 DEF StepInv
  <1>9. CASE ClearErr
    BY <1>9 DEF ClearErr, HystInv, StepInv
  <1>10. CASE Stop \/ Exit \/ Crash
    BY <1>10 DEF Stop, Exit, Crash, Die, HystInv
  <1>11. CASE Start
    BY <1>11 DEF Start, HystInv
  <1>12. CASE Tick \/ LoopExit \/ SaveConfig \/ UNCHANGED vars
    BY <1>12 DEF Tick, LoopExit, SaveConfig, vars, HystInv, threads, table,
       activity, round, Recent, On
  <1>13. QED
    BY <1>1, <1>2, <1>3, <1>4, <1>5, <1>6, <1>8, <1>9, <1>10, <1>11, <1>12
    DEF Next, Loop, Locked

(* A class of a machine that is issued stays when another one is, or when  *)
(* a class that nobody wants is deleted.                                   *)
LEMMA ClassesStep ==
    ASSUME TypeOK, StepInv, ShareInv, step \in LoopSteps, mu = "loop", pc = "apply",
           ~lastErr, ~IdsClash(dir), root[DevOf(dir, iface)] = "htb", dev = iface,
           NEW x \in todo, Command(x)
    PROVE  \A m \in On(want[dir]) \ (IF step = "replace" THEN todo \ {x} ELSE {}) :
              <<want[dir][m].id, want[dir][m].rate>> \in class'[DevOf(dir, iface)]
  <1> DEFINE v == DevOf(dir, iface)
             done == On(want[dir]) \ (IF step = "replace" THEN todo ELSE {})
  <1>1. v \in Devs /\ class \in [Devs -> SUBSET (Nat \X Nat)]
    BY DEF DevOf, Devs, TypeOK, TcTypeOK, RoundTypeOK, ServiceTypeOK
  <1>2. \A m \in done : <<want[dir][m].id, want[dir][m].rate>> \in class[v]
    BY DEF ShareInv, HaveClasses
  <1> HIDE DEF v
  <1>3. CASE step = "replace"
    <2>1. ClassReplace(v, want[dir][x].id, want[dir][x].rate)
      BY <1>3 DEF Command, v
    <2>2. class'[v] = {c \in class[v] : c[1] # want[dir][x].id}
                        \cup {<<want[dir][x].id, want[dir][x].rate>>}
      BY <1>1, <2>1 DEF ClassReplace, v
    <2>3. x \in On(want[dir])
      BY <1>3 DEF StepInv
    <2>4. \A m \in done : m # x /\ want[dir][m].id # want[dir][x].id
      BY <1>3, <2>3 DEF IdsClash
    <2>5. \A m \in On(want[dir]) \ (todo \ {x}) : m \in done \/ m = x
      BY <1>3
    <2> HIDE DEF done
    <2>6. QED
      BY <1>2, <1>3, <2>2, <2>4, <2>5 DEF v
  <1>4. CASE step = "classdel"
    <2>1. ClassDel(v, x) /\ x \in gone
      BY <1>4 DEF Command, v, StepInv
    <2>2. \A c \in class[v] : c[1] # x => c \in class'[v]
      BY <1>1, <2>1 DEF ClassDel
    <2>3. \A m \in On(want[dir]) : want[dir][m].id # x
      BY <2>1 DEF IdsClash
    <2>4. QED
      BY <1>2, <1>4, <2>2, <2>3 DEF v
  <1>5. CASE step = "filteradd"
    <2>1. class' = class
      BY <1>5 DEF Command, FilterAdd
    <2>2. QED
      BY <1>2, <1>5, <2>1 DEF v
  <1>6. QED
    BY <1>3, <1>4, <1>5 DEF LoopSteps

(* A command of a round: the classes issued so far stay. *)
LEMMA ShareRunCmd ==
    ASSUME TypeOK, StepInv, SyncInv, ShareInv, RunCmd
    PROVE  ShareInv'
  <1>1. PICK x \in todo : Forward(todo \ {x}) /\ (~lastErr' => Command(x) /\ ~lastErr)
    BY DEF RunCmd
  <1>2. /\ UNCHANGED <<iface, pc, mu, rc, want, plan, gone>>
        /\ step \notin {"none", "build", "unlock"}
    BY DEF RunCmd, threads, StepInv
  <1>3. ASSUME pc = "apply", mu = "loop"
        PROVE  rc.mode = "auto" => \A d \in Dirs : \A m \in On(want[d]) :
                 want[d][m].rate = rateStr(rc.budget[d], Cardinality(On(want[d])))
    BY <1>3 DEF ShareInv
  <1>4. ASSUME pc = "apply", mu = "loop", ~lastErr', step \in LoopSteps, ~IdsClash(dir)
        PROVE  \A m \in On(want[dir]) \ (IF step = "replace" THEN todo \ {x} ELSE {}) :
                 <<want[dir][m].id, want[dir][m].rate>> \in class'[DevOf(dir, iface)]
    <2>1. root[DevOf(dir, iface)] = "htb" /\ dev = iface
      BY <1>1, <1>2, <1>4 DEF SyncInv, Settled, Progress, LoopSteps
    <2>2. QED
      BY <1>1, <1>4, <2>1, ClassesStep
  <1>5. CASE todo \ {x} # {}
    <2>1. step' = step /\ dir' = dir /\ todo' = todo \ {x}
      BY <1>1, <1>5 DEF Forward
    <2>2. QED
      BY <1>2, <1>3, <1>4, <2>1
      DEF ShareInv, JustApplied, IdsClash, HaveClasses, On
  <1>6. CASE todo \ {x} = {}
    <2>1. step' = NextStep /\ todo' = Args(NextStep)
          /\ dir' = IF NextStep = "build" THEN "in" ELSE dir
      BY <1>1, <1>6 DEF Forward
    <2>2. ASSUME step' \in LoopSteps, step' # "replace"
          PROVE  step \in LoopSteps /\ dir' = dir
      BY <1>2, <2>1, <2>2 DEF NextStep, LoopSteps, StepInv, TypeOK, RoundTypeOK, Steps
    <2>3. ASSUME step' = "replace"
          PROVE  dir' = dir /\ todo' = On(want[dir])
      BY <2>1, <2>3 DEF Args
    <2>4. ASSUME NEW d \in Dirs, JustApplied(d)'
          PROVE  step = "filteradd" /\ d = dir
      <3>1. step' \in {"build", "unlock"} /\ plan[d] = "apply"
        BY <1>2, <2>4 DEF JustApplied
      <3>2. step \in {"rootdel", "filteradd"}
        BY <1>2, <2>1, <3>1 DEF NextStep
      <3>3. step' = IF dir = "out" THEN "build" ELSE "unlock"
        BY <2>1, <3>1, <3>2 DEF NextStep
      <3>4. d = dir
        BY <2>4, <3>3 DEF JustApplied, TypeOK, RoundTypeOK
      <3>5. QED
        BY <2>1, <3>1, <3>2, <3>4 DEF NextStep
    <2>5. QED
      BY <1>2, <1>3, <1>4, <1>6, <2>2, <2>3, <2>4
      DEF ShareInv, IdsClash, HaveClasses, On, LoopSteps
  <1>7. QED
    BY <1>5, <1>6

(* Every step keeps the shares, and the classes issued so far. *)
LEMMA ShareNext ==
    ASSUME TypeOK, StepInv, SyncInv, PrefixHeld, ShareInv, [Next]_vars
    PROVE  ShareInv'
  <1>1. CASE ReconcileLock
    BY <1>1, Wanted DEF ReconcileLock, ShareInv, JustApplied, LoopSteps
  <1>2. CASE Build
    BY <1>2 DEF Build, ShareInv, JustApplied, LoopSteps, threads, On
  <1>3. CASE RunCmd
    BY <1>3, ShareRunCmd
  <1>4. CASE Skip
    BY <1>4 DEF Skip, Forward, NextStep, ShareInv, JustApplied, LoopSteps, IdsClash,
       HaveClasses, threads, kernel, On, StepInv, ApplySteps
  <1>5. CASE Stop \/ SaveConfig \/ UNCHANGED vars
    BY <1>5 DEF Stop, SaveConfig, vars, threads, round, kernel, ShareInv, JustApplied,
       IdsClash, HaveClasses, On
  <1>6. CASE Exit \/ Crash
    BY <1>6 DEF Exit, Crash, Die, ShareInv
  <1>7. ASSUME NEW who \in {"loop", "stop"}, CleanupLock(who)
        PROVE  ShareInv'
    BY <1>7 DEF CleanupLock, ShareInv
  <1>8. CASE Unlock \/ ReadConfig \/ Sample \/ SampleFails \/ ClearErr \/ Tick \/ LoopExit \/ Start
    BY <1>8 DEF Unlock, ReadConfig, Sample, SampleFails, ClearErr, Tick, LoopExit,
       Start, AfterConfig, StepInv, ShareInv
  <1>9. QED
    BY <1>1, <1>2, <1>3, <1>4, <1>5, <1>6, <1>7, <1>8 DEF Next, Loop, Locked

-----------------------------------------------------------------------------
(* Stop *)

(* One command of the cleanup that Stop runs. *)
LEMMA StopRunCmd ==
    ASSUME TypeOK, StepInv, StopInv, RunCmd, mu = "stop", fails' = 0,
           pc = "gone" \/ (pc = "wait" /\ watch)
    PROVE  /\ step' # "build" => dev' = iface
           /\ dir' = "in" => root'[iface] # "htb"
           /\ dir' = "in" /\ step' \in {"ingressdel", "rootdel", "unlock"} =>
                 ingress'[iface] # "redirect"
           /\ step' = "unlock" => root'[IFBDev] # "htb"
  <1>1. PICK x \in todo : Forward(todo \ {x}) /\ Command(x) /\ fails = 0
    BY DEF RunCmd, TypeOK, ControlTypeOK
  <1>2. step \in {"redirdel", "ingressdel", "rootdel"} /\ plan[dir] = "clear"
    <2>1. step \notin ApplySteps /\ plan[dir] = "clear"
      BY DEF StepInv, TypeOK, RoundTypeOK
    <2>2. step \notin {"none", "build", "unlock"}
      BY <1>1 DEF StepInv
    <2>3. QED
      BY <2>1, <2>2 DEF ApplySteps, LoopSteps, Steps, TypeOK, RoundTypeOK
  <1>3. /\ step' = NextStep /\ dir' = IF NextStep = "build" THEN "in" ELSE dir
        /\ dev' = dev /\ dev = iface
    BY <1>1, <1>2 DEF Forward, StepInv, StopInv, RunCmd, LoopSteps
  <1>4. iface \in Devs /\ IFBDev \in Devs /\ iface # IFBDev
    BY DevAssumption DEF Devs, TypeOK, ServiceTypeOK
  <1>5. /\ dir = "in" => root[iface] # "htb"
        /\ dir = "in" /\ step \in {"ingressdel", "rootdel"} => ingress[iface] # "redirect"
    BY <1>1 DEF StopInv
  <1> USE DEF TypeOK, TcTypeOK
  <1>6. CASE step = "redirdel"
    BY <1>1, <1>2, <1>3, <1>4, <1>5, <1>6 DEF Command, RedirectDel, NextStep
  <1>7. CASE step = "ingressdel"
    BY <1>1, <1>2, <1>3, <1>4, <1>5, <1>7 DEF Command, IngressDel, NextStep
  <1>8. CASE step = "rootdel"
    <2>1. RootDel(DevOf(dir, dev)) /\ ingress' = ingress
      BY <1>1, <1>8 DEF Command, RootDel, kernel
    <2>2. /\ root'[DevOf(dir, dev)] # "htb"
          /\ \A v \in Devs : v # DevOf(dir, dev) => root'[v] = root[v]
      BY <1>3, <1>4, <2>1 DEF RootDel, DevOf, kernel
    <2>3. step' = (IF dir = "out" THEN "build" ELSE "unlock") /\ dir \in Dirs
      BY <1>2, <1>3, <1>8 DEF NextStep, RoundTypeOK
    <2>4. QED
      BY <1>3, <1>4, <1>5, <1>8, <2>1, <2>2, <2>3 DEF DevOf
  <1>9. QED
    BY <1>2, <1>6, <1>7, <1>8

(* Every step keeps what the cleanup of Stop has done. *)
LEMMA StopNext ==
    ASSUME TypeOK, StepInv, StopInv, [Next]_vars
    PROVE  StopInv'
  <1>1. CASE ReadConfig \/ Sample \/ SampleFails \/ ReconcileLock \/ Tick \/ SaveConfig
    BY <1>1 DEF ReadConfig, AfterConfig, Sample, SampleFails, ReconcileLock, Tick,
       SaveConfig, StopInv, threads
  <1>2. CASE ClearErr
    BY <1>2 DEF ClearErr, StopInv, StepInv
  <1>3. CASE CleanupLock("loop")
    BY <1>3 DEF CleanupLock, StopInv
  <1>4. CASE CleanupLock("stop")
    BY <1>4 DEF CleanupLock, StopInv
  <1>5. CASE LoopExit
    BY <1>5 DEF LoopExit, StopInv, kernel, round, bounds
  <1>6. CASE Build
    <2> SUFFICES ASSUME fails = 0, pc = "gone" \/ (pc = "wait" /\ watch)
                 PROVE  StopInv'
      BY <1>6 DEF Build, StopInv, threads, bounds
    <2>1. mu = "stop" /\ proc = "stopping" /\ plan[dir] = "clear"
      BY <1>6 DEF Build, StepInv, TypeOK, ControlTypeOK, RoundTypeOK
    <2>2. /\ step' = IF dir = "out" THEN "rootdel" ELSE "redirdel"
          /\ dev' = iface
          /\ UNCHANGED <<root, ingress, iface, proc, dir>>
      BY <1>6, <2>1 DEF Build, kernel, threads
    <2>3. dir = "in" => root[iface] # "htb"
      BY <2>1 DEF StopInv
    <2>4. dir \in Dirs
      BY DEF TypeOK, RoundTypeOK
    <2>5. QED
      BY <2>1, <2>2, <2>3, <2>4 DEF StopInv
  <1>7. CASE RunCmd
    <2> SUFFICES ASSUME fails' = 0, pc = "gone" \/ (pc = "wait" /\ watch)
                 PROVE  StopInv'
      BY <1>7 DEF RunCmd, StopInv, threads
    <2>1. mu = "stop" /\ proc = "stopping"
      BY <1>7 DEF RunCmd, StepInv, TypeOK, ControlTypeOK
    <2>2. UNCHANGED <<iface, proc, mu, dev>>
      BY <1>7 DEF RunCmd, threads
    <2>3. QED
      BY <1>7, <2>1, <2>2, StopRunCmd DEF StopInv
  <1>8. CASE Skip
    BY <1>8 DEF Skip, StopInv, StepInv, threads, LoopSteps, ApplySteps, TypeOK,
       ControlTypeOK, RoundTypeOK
  <1>9. CASE Unlock
    <2>1. CASE mu = "loop"
      BY <1>9, <2>1 DEF Unlock, StopInv, StepInv
    <2>2. CASE mu = "stop"
      BY <1>9, <2>2 DEF Unlock, StopInv, StepInv, IngressSteps, kernel, bounds
    <2>3. QED
      BY <1>9, <2>1, <2>2 DEF Unlock, TypeOK, ControlTypeOK
  <1>10. CASE Stop \/ Exit \/ Crash \/ Start
    BY <1>10 DEF Stop, Exit, Crash, Die, Start, StopInv, StepInv
  <1>11. CASE UNCHANGED vars
    BY <1>11 DEF vars, StopInv, kernel, threads, round, bounds
  <1>12. QED
    BY <1>1, <1>2, <1>3, <1>4, <1>5, <1>6, <1>7, <1>8, <1>9, <1>10, <1>11
    DEF Next, Loop, Locked

-----------------------------------------------------------------------------
(* Theorems *)

(* The invariant holds initially. *)
LEMMA IInvInit == Init => IInv
  <1> SUFFICES ASSUME Init PROVE IInv
    OBVIOUS
  <1>1. StepInv /\ SyncInv
    BY DEF Init, New, StepInv, SyncInv, Settled, ApplySteps, IngressSteps, LoopSteps
  <1>2. KernelInv
    BY DEF Init, TcInit, KernelInv, Devs
  <1>3. PrefixHeld /\ HystInv /\ ShareInv /\ StopInv
    BY DEF Init, New, PrefixHeld, rootClassID, HystInv, ShareInv, StopInv
  <1>4. QED
    BY <1>1, <1>2, <1>3, TypeInit DEF IInv

(* The invariant of the whole component is kept by every step. *)
THEOREM Invariance == Spec => []IInv
  <1>1. IInv /\ [Next]_vars => IInv'
    BY TypeNext, StepInvNext, KernelInvNext, SyncInvNext, PrefixNext, HystNext,
       ShareNext, StopNext DEF IInv
  <1>2. QED
    BY <1>1, IInvInit, PTL DEF Spec

(* Every variable keeps its type, for all constants. *)
THEOREM TypeCorrect == Spec => []TypeOK
  <1>1. IInv => TypeOK
    BY DEF IInv
  <1>2. QED
    BY <1>1, Invariance, PTL

(* After a round without an error, the kernel holds exactly the rules that *)
(* the service has in its tables: for any number of machines and           *)
(* interfaces, any configurations, any number of crashes, failed commands  *)
(* and stops, at any point (applyDirection, clearDirection, qos.go:362-429). *)
THEOREM RoundsConverge == Spec => []KernelInSync
  <1>1. IInv => KernelInSync
    BY DEF IInv, SyncInv, StepInv, KernelInSync, AtRest, Settled
  <1>2. QED
    BY <1>1, Invariance, PTL

(* The ids below nextID are all held, and no machine has the root class:   *)
(* classID and releaseIfUnused, qos.go:282-290 and 487-500.                *)
THEOREM ClassIdsCompact == Spec => []PrefixHeld
  <1>1. IInv => PrefixHeld
    BY DEF IInv
  <1>2. QED
    BY <1>1, Invariance, PTL

(* The auto mode shapes exactly the machines that were busy at most Hyst   *)
(* rounds ago and online since, for any hysteresis, any gaps between the   *)
(* samples and any stop or crash (desired, updateActive, qos.go:228-360).  *)
THEOREM HysteresisHolds == Spec => []ShapedWhileRecentlyBusy
  <1>1. IInv => ShapedWhileRecentlyBusy
    BY DEF IInv, HystInv, ShapedWhileRecentlyBusy, AtRest, Recent
  <1>2. QED
    BY <1>1, Invariance, PTL

(* Once the commands of a direction are through without an error, each     *)
(* machine has its class at its rate, and in auto mode an equal share,     *)
(* unless the ids of the round clash (applyDirection, qos.go:369-404).     *)
THEOREM SharesReachKernel == Spec => []SharesInKernel
  <1>1. IInv => SharesInKernel
    <2> SUFFICES ASSUME IInv, NEW d \in Dirs, JustApplied(d), ~lastErr
                 PROVE  \A m \in On(applied[d]) :
                   /\ rc.mode = "auto" =>
                         applied[d][m].rate = rateStr(rc.budget[d], Cardinality(On(applied[d])))
                   /\ ~IdsClash(d) =>
                         <<applied[d][m].id, applied[d][m].rate>> \in class[DevOf(d, iface)]
      BY DEF SharesInKernel
    <2>1. mu = "loop" /\ pc = "apply" /\ applied[d] = want[d]
      BY DEF JustApplied, IInv, StepInv
    <2>2. QED
      BY <2>1 DEF IInv, ShareInv, HaveClasses
  <1>2. QED
    BY <1>1, Invariance, PTL

(* If the loop has left by way of the stop channel and no command failed,  *)
(* no rules stay behind, whatever was there before (Stop, qos.go:136-143). *)
THEOREM StopLeavesNothing == Spec => []StopCleansUp
  <1>1. IInv => StopCleansUp
    <2> SUFFICES ASSUME IInv, proc = "cleaned", pc = "gone", fails = 0
                 PROVE  /\ \A v \in {iface, IFBDev} : root[v] # "htb" /\ filter[v] = {}
                        /\ ingress[iface] # "redirect"
      BY DEF StopCleansUp
    <2>1. iface \in Devs /\ IFBDev \in Devs
      BY DEF Devs, IInv, TypeOK, ServiceTypeOK
    <2>2. QED
      BY <2>1 DEF IInv, StopInv, KernelInv
  <1>2. QED
    BY <1>1, Invariance, PTL

(* There are at least as many machines as ids below nextID. *)
LEMMA NextIDBound ==
    ASSUME TypeOK, PrefixHeld
    PROVE  nextID <= Cardinality(Machines) + 2
  <1> DEFINE T == 2 .. (nextID - 1)
             S == {m \in Machines : ids[m] \in T}
             f == [m \in S |-> ids[m]]
  <1>1. nextID \in Nat /\ nextID >= 2 /\ ids \in [Machines -> Nat]
    BY DEF TypeOK, ServiceTypeOK, PrefixHeld
  <1>2. IsFiniteSet(S) /\ Cardinality(S) <= Cardinality(Machines)
    BY MachineAssumption, FS_Subset
  <1>3. f \in Surjection(S, T)
    BY DEF PrefixHeld, Surjection
  <1>4. Cardinality(T) <= Cardinality(S)
    BY <1>2, <1>3, FS_Surjection
  <1>5. Cardinality(T) = IF 2 > nextID - 1 THEN 0 ELSE (nextID - 1) - 2 + 1
    BY <1>1, FS_Interval
  <1>6. Cardinality(S) \in Nat /\ Cardinality(Machines) \in Nat
    BY CardNat
  <1> HIDE DEF T, S, f
  <1>7. QED
    BY <1>1, <1>2, <1>4, <1>5, <1>6

(* However often machines come and go, no class id exceeds the number of   *)
(* machines by more than one, although clearDirection never releases an    *)
(* id: the 16 bits of a tc class minor suffice (qos.go:282-290, 487-500).  *)
THEOREM ClassIdsBounded == Spec => []IdsBounded
  <1>1. Init => IdsBounded
    <2>1. Cardinality(Machines) \in Nat
      BY CardNat
    <2>2. Cardinality(Machines) + 1 >= 0
      BY <2>1
    <2>3. QED
      BY <2>2 DEF Init, New, IdsBounded
  <1>2. TypeOK /\ TypeOK' /\ PrefixHeld' /\ IdsBounded /\ [Next]_vars => IdsBounded'
    <2> SUFFICES ASSUME TypeOK, TypeOK', PrefixHeld', IdsBounded, [Next]_vars
                 PROVE  IdsBounded'
      OBVIOUS
    <2> USE DEF IdsBounded
    <2>0. Cardinality(Machines) \in Nat
      BY CardNat
    <2>1. CASE ReconcileLock
      <3>1. nextID' <= Cardinality(Machines) + 2
        <4>1. TypeOK /\ PrefixHeld => nextID <= Cardinality(Machines) + 2
          BY NextIDBound
        <4>2. (TypeOK /\ PrefixHeld => nextID <= Cardinality(Machines) + 2)'
          BY NextIDBound, PTL
        <4>3. QED
          BY <4>2
      <3>2. /\ \A m \in Machines : ids'[m] = ids[m] \/ ids'[m] < nextID'
            /\ ids' \in [Machines -> Nat] /\ nextID' \in Nat
        BY <2>1, Numbering
      <3>3. QED
        BY <2>0, <3>1, <3>2
    <2>2. CASE Build
      BY <2>0, <2>2, Building
    <2>3. CASE Exit \/ Crash
      BY <2>0, <2>3 DEF Exit, Crash, Die
    <2>4. CASE UNCHANGED ids
      BY <2>4
    <2>5. QED
      BY <2>1, <2>2, <2>3, <2>4 DEF Next, Loop, Locked, vars, table, ReadConfig,
         Sample, SampleFails, ClearErr, CleanupLock, Tick, LoopExit, RunCmd, Skip,
         Unlock, Stop, Start, SaveConfig
  <1>3. QED
    BY <1>1, <1>2, TypeCorrect, ClassIdsCompact, PTL DEF Spec
=============================================================================
