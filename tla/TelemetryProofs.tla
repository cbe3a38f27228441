--------------------------- MODULE TelemetryProofs ---------------------------
(***************************************************************************)
(* What Telemetry says of a snapshot holds for any machine, devices,       *)
(* rounds, thresholds and failures: a CPU usage is a percentage, and a     *)
(* report warns of data that are too old.  And what Health says of a       *)
(* score: each reading that gets worse costs more.                         *)
(***************************************************************************)
EXTENDS Telemetry, FiniteSetTheorems, TLAPS

-----------------------------------------------------------------------------
(* Sums over a finite set *)

(* A set of subsets of a finite set has a minimal member.                  *)
LEMMA MinimalSubset ==
    ASSUME NEW D, IsFiniteSet(D), NEW T \in SUBSET SUBSET D, T # {}
    PROVE  \E m \in T : \A u \in T : u \subseteq m => u = m
<1>1. IsWellFoundedOn(StrictSubsetOrdering(D), SUBSET D)
  BY FS_StrictSubsetOrderingWellFounded, FS_FiniteSubsetsOfFinite
<1>2. PICK m \in T : \A u \in T : ~ (<<u, m>> \in StrictSubsetOrdering(D))
  BY <1>1, WFMin
<1> QED BY <1>2 DEF StrictSubsetOrdering

(* So induction over the subsets of a finite set holds, for a property     *)
(* given as the set of those that have it.                                 *)
LEMMA SubsetInduction ==
    ASSUME NEW D, IsFiniteSet(D), NEW T,
           \A s \in SUBSET D : (\A u \in SUBSET s : u # s => u \in T) => s \in T
    PROVE  \A s \in SUBSET D : s \in T
<1> DEFINE Bad == {s \in SUBSET D : s \notin T}
<1> SUFFICES ASSUME Bad # {} PROVE FALSE
  OBVIOUS
<1>1. Bad \in SUBSET SUBSET D
  OBVIOUS
<1> HIDE DEF Bad
<1>2. PICK m \in Bad : \A u \in Bad : u \subseteq m => u = m
  BY <1>1, MinimalSubset
<1>3. m \in SUBSET D /\ m \notin T /\ \A u \in SUBSET m : u # m => u \in T
  BY <1>2 DEF Bad
<1> QED BY <1>3

(* The function by which SumOf is defined, on the subsets of D.            *)
Some(s) == CHOOSE x \in s : TRUE
IsSum(g, f, D) ==
    g = [s \in SUBSET D |-> IF s = {} THEN 0 ELSE f[Some(s)] + g[s \ {Some(s)}]]

LEMMA SumIs ==
    ASSUME NEW f, NEW D
    PROVE  SumOf(f, D) = (CHOOSE g : IsSum(g, f, D))[D]
  BY DEF SumOf, MapThenSumSet, MapThenFoldSet, IsSum, Some

LEMMA SomeIn == ASSUME NEW s, s # {} PROVE Some(s) \in s
  BY DEF Some

LEMMA SumsAgree ==
    ASSUME NEW f, NEW D, NEW E, IsFiniteSet(D), D \subseteq E,
           NEW g, IsSum(g, f, D), NEW h, IsSum(h, f, E)
    PROVE  \A s \in SUBSET D : g[s] = h[s]
<1> DEFINE T == {s \in SUBSET D : g[s] = h[s]}
<1>1. ASSUME NEW s \in SUBSET D, \A u \in SUBSET s : u # s => u \in T
      PROVE  s \in T
  <2>1. g[s] = IF s = {} THEN 0 ELSE f[Some(s)] + g[s \ {Some(s)}]
    BY DEF IsSum
  <2>2. h[s] = IF s = {} THEN 0 ELSE f[Some(s)] + h[s \ {Some(s)}]
    BY DEF IsSum
  <2>3. s # {} => g[s \ {Some(s)}] = h[s \ {Some(s)}]
    BY <1>1, SomeIn
  <2> QED BY <2>1, <2>2, <2>3
<1> HIDE DEF T
<1>2. \A s \in SUBSET D : s \in T
  BY <1>1, SubsetInduction
<1> QED BY <1>2 DEF T

LEMMA SumExists ==
    ASSUME NEW f, NEW D, IsFiniteSet(D)
    PROVE  \E g : IsSum(g, f, D)
<1> DEFINE T == {s \in SUBSET D : \E g : IsSum(g, f, s)}
<1>1. ASSUME NEW m \in SUBSET D, \A u \in SUBSET m : u # m => u \in T
      PROVE  m \in T
  <2> DEFINE Part(u) == CHOOSE g : IsSum(g, f, u)
             Rest(s) == s \ {Some(s)}
             g == [s \in SUBSET m |-> IF s = {} THEN 0 ELSE f[Some(s)] + Part(Rest(s))[Rest(s)]]
  <2>1. \A u \in SUBSET m : u # m => IsSum(Part(u), f, u)
    BY <1>1
  <2>2. ASSUME NEW s \in SUBSET m, s # {}
        PROVE  g[Rest(s)] = Part(Rest(s))[Rest(s)]
    <3> DEFINE u == Rest(s)
    <3>1. u \in SUBSET m /\ u # m
      BY <2>2, SomeIn
    <3>2. IsSum(Part(u), f, u)
      BY <2>1, <3>1
    <3>3. Part(u)[u] = IF u = {} THEN 0 ELSE f[Some(u)] + Part(u)[Rest(u)]
      BY <3>2 DEF IsSum
    <3>4. g[u] = IF u = {} THEN 0 ELSE f[Some(u)] + Part(Rest(u))[Rest(u)]
      BY <3>1
    <3>5. ASSUME u # {}
          PROVE  Part(u)[Rest(u)] = Part(Rest(u))[Rest(u)]
      <4>1. Rest(u) \in SUBSET u /\ Rest(u) \in SUBSET m /\ Rest(u) # m
        BY <3>1, <3>5, SomeIn
      <4>2. IsSum(Part(Rest(u)), f, Rest(u))
        BY <2>1, <4>1
      <4>3. IsFiniteSet(Rest(u))
        BY <4>1, FS_Subset
      <4> HIDE DEF Part, Rest, u
      <4> QED BY <3>2, <4>1, <4>2, <4>3, SumsAgree
    <3> HIDE DEF Part, Rest, u, g
    <3>6. g[u] = Part(u)[u]
      BY <3>3, <3>4, <3>5
    <3> QED BY <3>6 DEF u
  <2>3. IsSum(g, f, m)
    <3>1. g = [s \in SUBSET m |-> IF s = {} THEN 0 ELSE f[Some(s)] + g[Rest(s)]]
      <4> HIDE DEF Part, Rest
      <4>1. \A s \in SUBSET m : (IF s = {} THEN 0 ELSE f[Some(s)] + Part(Rest(s))[Rest(s)])
                = IF s = {} THEN 0 ELSE f[Some(s)] + g[Rest(s)]
        BY <2>2
      <4> HIDE DEF g
      <4> QED BY <4>1 DEF g
    <3> HIDE DEF g
    <3> QED BY <3>1 DEF IsSum
  <2> QED BY <2>3
<1> HIDE DEF T
<1>2. \A s \in SUBSET D : s \in T
  BY <1>1, SubsetInduction
<1> QED BY <1>2 DEF T

(* What the definition says: some element is added to the sum of the rest. *)
LEMMA SumEquation ==
    ASSUME NEW f, NEW D, IsFiniteSet(D)
    PROVE  SumOf(f, D) = IF D = {} THEN 0 ELSE f[Some(D)] + SumOf(f, D \ {Some(D)})
<1> DEFINE Part(u) == CHOOSE g : IsSum(g, f, u)
<1>1. ASSUME NEW u \in SUBSET D
      PROVE  IsSum(Part(u), f, u)
  BY FS_Subset, SumExists
<1>2. Part(D)[D] = IF D = {} THEN 0 ELSE f[Some(D)] + Part(D)[D \ {Some(D)}]
  <2>1. IsSum(Part(D), f, D)
    BY <1>1
  <2> HIDE DEF Part
  <2> QED BY <2>1 DEF IsSum
<1>3. ASSUME D # {}
      PROVE  Part(D)[D \ {Some(D)}] = Part(D \ {Some(D)})[D \ {Some(D)}]
  <2> DEFINE u == D \ {Some(D)}
  <2>1. u \in SUBSET D /\ IsFiniteSet(u)
    BY FS_Subset
  <2>2. IsSum(Part(u), f, u) /\ IsSum(Part(D), f, D)
    BY <1>1, <2>1
  <2> HIDE DEF u, Part
  <2>3. \A s \in SUBSET u : Part(u)[s] = Part(D)[s]
    BY <2>1, <2>2, SumsAgree
  <2> QED BY <2>3 DEF u
<1>4. \A u : SumOf(f, u) = Part(u)[u]
  BY SumIs
<1> HIDE DEF Part
<1> QED BY <1>2, <1>3, <1>4

(* A sum of natural numbers is one. *)
LEMMA SumNat ==
    ASSUME NEW D, IsFiniteSet(D), NEW f, \A d \in D : f[d] \in Nat
    PROVE  SumOf(f, D) \in Nat
<1> DEFINE T == {s \in SUBSET D : SumOf(f, s) \in Nat}
<1>1. ASSUME NEW s \in SUBSET D, \A u \in SUBSET s : u # s => u \in T
      PROVE  s \in T
  <2>1. SumOf(f, s) = IF s = {} THEN 0 ELSE f[Some(s)] + SumOf(f, s \ {Some(s)})
    BY FS_Subset, SumEquation
  <2>2. CASE s = {}
    BY <2>1, <2>2
  <2>3. CASE s # {}
    <3>1. f[Some(s)] \in Nat /\ SumOf(f, s \ {Some(s)}) \in Nat
      BY <1>1, <2>3, SomeIn
    <3> QED BY <2>1, <2>3, <3>1
  <2> QED BY <2>2, <2>3
<1> HIDE DEF T
<1>2. \A s \in SUBSET D : s \in T
  BY <1>1, SubsetInduction
<1> QED BY <1>2 DEF T

(* Any element may be taken out first. *)
LEMMA SumRemove ==
    ASSUME NEW D, IsFiniteSet(D), NEW f, \A d \in D : f[d] \in Nat, NEW x \in D
    PROVE  SumOf(f, D) = f[x] + SumOf(f, D \ {x})
<1> DEFINE T == {s \in SUBSET D : \A y \in s : SumOf(f, s) = f[y] + SumOf(f, s \ {y})}
<1>1. ASSUME NEW s \in SUBSET D, \A u \in SUBSET s : u # s => u \in T
      PROVE  s \in T
  <2> SUFFICES ASSUME NEW y \in s PROVE SumOf(f, s) = f[y] + SumOf(f, s \ {y})
    OBVIOUS
  <2> DEFINE z == Some(s)
  <2>1. z \in s
    BY SomeIn
  <2>2. SumOf(f, s) = f[z] + SumOf(f, s \ {z})
    BY FS_Subset, SumEquation
  <2>3. CASE y = z
    BY <2>2, <2>3
  <2>4. CASE y # z
    <3>1. SumOf(f, s \ {z}) = f[y] + SumOf(f, (s \ {z}) \ {y})
      <4>1. s \ {z} \in SUBSET s /\ s \ {z} # s /\ y \in s \ {z}
        BY <2>1, <2>4
      <4> QED BY <4>1, <1>1
    <3>2. SumOf(f, s \ {y}) = f[z] + SumOf(f, (s \ {y}) \ {z})
      <4>1. s \ {y} \in SUBSET s /\ s \ {y} # s /\ z \in s \ {y}
        BY <2>1, <2>4
      <4> QED BY <4>1, <1>1
    <3>3. (s \ {z}) \ {y} = (s \ {y}) \ {z}
      OBVIOUS
    <3>4. f[y] \in Nat /\ f[z] \in Nat
      BY <2>1
    <3>5. SumOf(f, (s \ {y}) \ {z}) \in Nat
      <4>1. IsFiniteSet((s \ {y}) \ {z}) /\ \A d \in (s \ {y}) \ {z} : f[d] \in Nat
        BY FS_Subset
      <4> QED BY <4>1, SumNat
    <3> HIDE DEF z
    <3> QED BY <2>2, <3>1, <3>2, <3>3, <3>4, <3>5
  <2> QED BY <2>3, <2>4
<1> HIDE DEF T
<1>2. \A s \in SUBSET D : s \in T
  BY <1>1, SubsetInduction
<1> QED BY <1>2 DEF T

(* A sum is no more than one whose terms are no less. *)
LEMMA SumMonotone ==
    ASSUME NEW D, IsFiniteSet(D), NEW f, NEW g,
           \A d \in D : f[d] \in Nat /\ g[d] \in Nat /\ f[d] <= g[d]
    PROVE  SumOf(f, D) <= SumOf(g, D)
<1> DEFINE T == {s \in SUBSET D : SumOf(f, s) <= SumOf(g, s)}
<1>1. ASSUME NEW s \in SUBSET D, \A u \in SUBSET s : u # s => u \in T
      PROVE  s \in T
  <2>0. IsFiniteSet(s)
    BY FS_Subset
  <2>1. CASE s = {}
    <3>1. SumOf(f, s) = 0 /\ SumOf(g, s) = 0
      BY <2>0, <2>1, SumEquation
    <3> QED BY <3>1
  <2>2. ASSUME NEW x \in s PROVE s \in T
    <3>1. SumOf(f, s) = f[x] + SumOf(f, s \ {x}) /\ SumOf(g, s) = g[x] + SumOf(g, s \ {x})
      BY <2>0, SumRemove
    <3>2. SumOf(f, s \ {x}) <= SumOf(g, s \ {x})
      BY <1>1
    <3>3. SumOf(f, s \ {x}) \in Nat /\ SumOf(g, s \ {x}) \in Nat
      BY <2>0, FS_Subset, SumNat
    <3>4. SumOf(f, s) <= SumOf(g, s)
      BY <3>1, <3>2, <3>3
    <3> QED BY <3>4
  <2> QED BY <2>1, <2>2
<1> HIDE DEF T
<1>2. \A s \in SUBSET D : s \in T
  BY <1>1, SubsetInduction
<1> QED BY <1>2 DEF T

(* A sum of sums, element by element. *)
LEMMA SumPlus ==
    ASSUME NEW D, IsFiniteSet(D), NEW f, NEW g, NEW h,
           \A d \in D : f[d] \in Nat /\ g[d] \in Nat /\ h[d] = f[d] + g[d]
    PROVE  SumOf(h, D) = SumOf(f, D) + SumOf(g, D)
<1> DEFINE T == {s \in SUBSET D : SumOf(h, s) = SumOf(f, s) + SumOf(g, s)}
<1>0. \A d \in D : h[d] \in Nat
  OBVIOUS
<1>1. ASSUME NEW s \in SUBSET D, \A u \in SUBSET s : u # s => u \in T
      PROVE  s \in T
  <2>0. IsFiniteSet(s)
    BY FS_Subset
  <2>1. CASE s = {}
    <3>1. SumOf(f, s) = 0 /\ SumOf(g, s) = 0 /\ SumOf(h, s) = 0
      BY <2>0, <2>1, SumEquation
    <3> QED BY <3>1
  <2>2. ASSUME NEW x \in s PROVE s \in T
    <3>1. /\ SumOf(f, s) = f[x] + SumOf(f, s \ {x}) /\ SumOf(g, s) = g[x] + SumOf(g, s \ {x})
          /\ SumOf(h, s) = h[x] + SumOf(h, s \ {x})
      BY <1>0, <2>0, SumRemove
    <3>2. SumOf(h, s \ {x}) = SumOf(f, s \ {x}) + SumOf(g, s \ {x})
      BY <1>1
    <3>3. SumOf(f, s \ {x}) \in Nat /\ SumOf(g, s \ {x}) \in Nat
      BY <2>0, FS_Subset, SumNat
    <3>4. SumOf(h, s) = SumOf(f, s) + SumOf(g, s)
      BY <3>1, <3>2, <3>3
    <3> QED BY <3>4
  <2> QED BY <2>1, <2>2
<1> HIDE DEF T
<1>2. \A s \in SUBSET D : s \in T
  BY <1>1, SubsetInduction
<1> QED BY <1>2 DEF T

(* Elements that count for nothing may be left out. *)
LEMMA SumWithin ==
    ASSUME NEW D, IsFiniteSet(D), NEW S \in SUBSET D, NEW f, NEW g,
           \A d \in S : g[d] = f[d] /\ f[d] \in Nat, \A d \in D \ S : f[d] = 0
    PROVE  SumOf(f, D) = SumOf(g, S)
<1> DEFINE T == {s \in SUBSET D : SumOf(f, s) = SumOf(g, s \cap S)}
<1>0. \A d \in D : f[d] \in Nat
  OBVIOUS
<1>1. ASSUME NEW s \in SUBSET D, \A u \in SUBSET s : u # s => u \in T
      PROVE  s \in T
  <2>0. IsFiniteSet(s) /\ IsFiniteSet(s \cap S)
    BY FS_Subset
  <2>1. CASE s = {}
    <3>1. SumOf(f, s) = 0 /\ SumOf(g, s \cap S) = 0
      BY <2>0, <2>1, SumEquation
    <3> QED BY <3>1
  <2>2. ASSUME NEW x \in s PROVE s \in T
    <3>1. SumOf(f, s) = f[x] + SumOf(f, s \ {x})
      BY <1>0, <2>0, SumRemove
    <3>2. SumOf(f, s \ {x}) = SumOf(g, (s \ {x}) \cap S) /\ SumOf(f, s \ {x}) \in Nat
      BY <1>0, <1>1, <2>0, FS_Subset, SumNat
    <3>3. CASE x \in S
      <4>1. (s \ {x}) \cap S = (s \cap S) \ {x} /\ x \in s \cap S
        BY <3>3
      <4>2. SumOf(g, s \cap S) = g[x] + SumOf(g, (s \cap S) \ {x})
        <5>1. \A d \in s \cap S : g[d] \in Nat
          OBVIOUS
        <5> QED BY <2>0, <4>1, <5>1, SumRemove
      <4>3. g[x] = f[x]
        BY <3>3
      <4> QED BY <3>1, <3>2, <4>1, <4>2, <4>3
    <3>4. CASE x \notin S
      <4>1. (s \ {x}) \cap S = s \cap S /\ f[x] = 0
        BY <3>4
      <4> QED BY <3>1, <3>2, <4>1
    <3> QED BY <3>3, <3>4
  <2> QED BY <2>1, <2>2
<1> HIDE DEF T
<1>2. D \in T
  BY <1>1, SubsetInduction
<1>3. D \cap S = S
  OBVIOUS
<1> QED BY <1>2, <1>3 DEF T

-----------------------------------------------------------------------------
(* CPU usage *)

(* Half is added and the rest cut off: a part of a whole is no more than   *)
(* a thousand tenths of a percent.                                         *)
LEMMA RoundInRange ==
    ASSUME NEW part \in Nat, NEW whole \in Nat \ {0}, part <= whole
    PROVE  round1(part, whole) \in 0..1000
<1> DEFINE n == 2000 * part + whole
           d == 2 * whole
<1>1. n \in Nat /\ d \in Nat \ {0} /\ n <= 1000 * d + whole /\ whole < d
  OBVIOUS
<1> HIDE DEF n, d
<1>2. n \div d \in Int /\ d * (n \div d) <= n /\ n < d * (n \div d) + d
  BY <1>1
<1>3. n \div d >= 0
  BY <1>1
<1>4. n \div d <= 1000
  BY <1>1, <1>2
<1>5. round1(part, whole) = n \div d
  BY <1>1 DEF round1, Rounded, n, d
<1> QED BY <1>2, <1>3, <1>4, <1>5

(* Two lines of one boot, in either order, give a percentage or nothing.   *)
LEMMA UsageInRange ==
    ASSUME NEW prev \in Stat, NEW cur \in Stat,
           \/ prev.busy <= cur.busy /\ prev.idle <= cur.idle
           \/ cur.busy <= prev.busy /\ cur.idle <= prev.idle
    PROVE  CPUUsage(prev, cur) = Missing \/ CPUUsage(prev, cur) \in 0..1000
<1> DEFINE idleD  == cur.idle - prev.idle
           totalD == (cur.busy + cur.idle) - (prev.busy + prev.idle)
<1>1. CPUUsage(prev, cur) = IF totalD <= 0 THEN Missing ELSE round1(totalD - idleD, totalD)
  BY DEF CPUUsage
<1>2. totalD > 0 => totalD \in Nat \ {0} /\ totalD - idleD \in Nat /\ totalD - idleD <= totalD
  BY DEF Stat
<1>3. totalD \in Int
  BY DEF Stat
<1> HIDE DEF idleD, totalD
<1>4. ASSUME totalD > 0
      PROVE  round1(totalD - idleD, totalD) \in 0..1000
  BY <1>2, <1>4, RoundInRange
<1> QED BY <1>1, <1>3, <1>4

LEMMA UsageIsInt ==
    ASSUME NEW prev \in Stat, NEW cur \in Stat
    PROVE  CPUUsage(prev, cur) \in Int
<1> DEFINE idleD  == cur.idle - prev.idle
           totalD == (cur.busy + cur.idle) - (prev.busy + prev.idle)
<1>1. idleD \in Int /\ totalD \in Int
  BY DEF Stat
<1>2. ASSUME NEW n \in Int, NEW d \in Int, d > 0
      PROVE  Rounded(n, d) \in Int
  BY <1>2 DEF Rounded
<1>3. CPUUsage(prev, cur) = IF totalD <= 0 THEN Missing ELSE round1(totalD - idleD, totalD)
  BY DEF CPUUsage
<1> HIDE DEF idleD, totalD
<1>4. totalD > 0 => round1(totalD - idleD, totalD) \in Int
  BY <1>1, <1>2 DEF round1
<1> QED BY <1>1, <1>3, <1>4 DEF Missing

-----------------------------------------------------------------------------
(* The invariant: types *)

LEMMA NothingTyped == NoStat \in Stat /\ NoNet \in Net /\ NoJob \in Job /\ NoSnapshot \in Snapshot
<1>1. NoStat \in Stat /\ NoNet \in Net
  BY DEF NoStat, Stat, NoNet, Net
<1> QED BY <1>1 DEF NoJob, Job, NoSnapshot, Snapshot, Missing

LEMMA InitReading == Init => ReadingInv
<1> SUFFICES ASSUME Init PROVE ReadingInv
  OBVIOUS
<1>1. TypeOK
  <2>1. MachineTypeOK
    BY DeviceAssumption DEF Init, MachineTypeOK
  <2>2. ProcessTypeOK
    BY NothingTyped DEF Init, ProcessTypeOK
  <2> QED BY <2>1, <2>2 DEF Init, TypeOK
<1>2. Frames = {}
  BY DEF Init, Frames, NoJob, NoStat
<1>3. FrameInv
  BY <1>2 DEF FrameInv
<1>4. ClockInv
  BY TelemetryBounds DEF Init, ClockInv, Under, NoSnapshot
<1>5. CpuInRange
  BY DEF Init, CpuInRange, NoSnapshot, NoJob
<1> QED BY <1>1, <1>3, <1>4, <1>5 DEF ReadingInv

(* What a machine does leaves the process alone: only the frames may come  *)
(* to be of an earlier boot, and the rounds a tick older.                  *)
LEMMA MachineInv ==
    ASSUME ReadingInv, MachineTypeOK', carried' \in Nat, moved' \in Nat, faults' \in Nat,
           UNCHANGED <<process, snap, rounds, counts, measured, disordered, company>>,
           boot < boot' \/ (boot' = boot /\ busy <= busy' /\ idle <= idle'),
           \/ now' = now
           \/ now' = now + 1 /\ \A r \in Under : now - job[r].readAt < SessionTicks
    PROVE  ReadingInv'
<1> USE DEF process, rounds, counts
<1>1. TypeOK'
  BY DEF ReadingInv, TypeOK, ProcessTypeOK
<1>2. FrameInv'
  <2>1. Frames' = Frames
    BY DEF Frames
  <2>2. \A f \in Frames : f.boot \in Nat /\ f.busy \in Nat /\ f.idle \in Nat
    BY DEF ReadingInv, TypeOK, ProcessTypeOK, Frames, Stat, Job
  <2>3. boot \in Nat /\ busy \in Nat /\ idle \in Nat /\ boot' \in Nat /\ busy' \in Nat /\ idle' \in Nat
    BY DEF ReadingInv, TypeOK, MachineTypeOK
  <2> QED BY <2>1, <2>2, <2>3 DEF ReadingInv, FrameInv
<1>3. ClockInv'
  <2>1. Under' = Under
    BY DEF Under
  <2>2. now \in Nat /\ SessionTicks \in Nat /\ snap.at \in Nat /\ snap.readAt \in Nat
    BY TelemetryBounds DEF ReadingInv, TypeOK, MachineTypeOK, ProcessTypeOK, Snapshot
  <2>3. \A r \in Under : job[r].readAt \in Nat
    BY DEF ReadingInv, TypeOK, ProcessTypeOK, Under, Job
  <2> QED BY <2>1, <2>2, <2>3 DEF ReadingInv, ClockInv
<1>4. CpuInRange'
  BY DEF ReadingInv, CpuInRange
<1> QED BY <1>1, <1>2, <1>3, <1>4 DEF ReadingInv

LEMMA TickInv == ReadingInv /\ Tick => ReadingInv'
<1> SUFFICES ASSUME ReadingInv, Tick PROVE ReadingInv'
  OBVIOUS
<1>1. PICK load \in Loads :
          /\ busy' = busy + load.busy /\ idle' = idle + load.idle
          /\ bytes' = [d \in Devices |->
                IF d \in listed THEN bytes[d] + load.bytes[d] ELSE bytes[d]]
          /\ carried' = carried + SumOf(load.bytes, listed)
  BY DEF Tick
<1>2. load.busy \in Nat /\ load.idle \in Nat /\ load.bytes \in [Devices -> Nat]
  BY LoadAssumption
<1>3. MachineTypeOK'
  BY <1>1, <1>2 DEF Tick, ReadingInv, TypeOK, MachineTypeOK
<1>4. busy <= busy' /\ idle <= idle'
  BY <1>1, <1>2 DEF ReadingInv, TypeOK, MachineTypeOK
<1>5. carried' \in Nat /\ moved' \in Nat /\ faults' \in Nat
  <2>1. SumOf(load.bytes, listed) \in Nat
    <3>1. IsFiniteSet(listed) /\ \A d \in listed : load.bytes[d] \in Nat
      BY <1>2, DeviceAssumption, FS_Subset DEF ReadingInv, TypeOK, MachineTypeOK
    <3> QED BY <3>1, SumNat
  <2>2. carried' \in Nat
    BY <1>1, <2>1 DEF ReadingInv, TypeOK
  <2> QED BY <2>2 DEF Tick, ReadingInv, TypeOK
<1> QED BY <1>3, <1>4, <1>5, MachineInv DEF Tick

LEMMA RebootInv == ReadingInv /\ Reboot => ReadingInv'
<1> SUFFICES ASSUME ReadingInv, Reboot PROVE ReadingInv'
  OBVIOUS
<1>1. MachineTypeOK' /\ boot < boot'
  BY DEF Reboot, ReadingInv, TypeOK, MachineTypeOK
<1>2. carried' \in Nat /\ moved' \in Nat /\ faults' \in Nat
  BY DEF Reboot, account, ReadingInv, TypeOK
<1>3. UNCHANGED <<process, snap, rounds, counts, measured, disordered, company>>
  BY DEF Reboot, account
<1>4. now' = now
  BY DEF Reboot
<1> QED BY <1>1, <1>2, <1>3, <1>4, MachineInv

LEMMA DevicesInv ==
    ASSUME ReadingInv, NEW d \in Devices, NEW e \in Devices, PlugIn(d) \/ Unplug(d) \/ Rename(d, e)
    PROVE  ReadingInv'
<1>1. MachineTypeOK' /\ boot' = boot /\ busy' = busy /\ idle' = idle /\ now' = now
  BY DEF PlugIn, Unplug, Rename, ReadingInv, TypeOK, MachineTypeOK
<1>2. busy <= busy' /\ idle <= idle'
  BY <1>1 DEF MachineTypeOK
<1>3. carried' \in Nat /\ moved' \in Nat /\ faults' \in Nat
  BY DEF PlugIn, Unplug, Rename, account, ReadingInv, TypeOK, MachineTypeOK
<1>4. UNCHANGED <<process, snap, rounds, counts, measured, disordered, company>>
  BY DEF PlugIn, Unplug, Rename, account
<1> QED BY <1>1, <1>2, <1>3, <1>4, MachineInv

-----------------------------------------------------------------------------
(* The invariant: a round *)

(* What a round does leaves the machine alone.  Its job changes, and with  *)
(* it no frame comes that is not there already or shows the machine.       *)
LEMMA RoundInv ==
    ASSUME ReadingInv, UNCHANGED <<machine, carried, moved>>, NEW r \in Rounds, ProcessTypeOK',
           measured' \in Nat, reads' \in Nat, slowReads' \in Nat, faults' \in Nat,
           disordered' \in BOOLEAN, company' \subseteq Rounds,
           \A q \in Rounds \ {r} : pc'[q] = pc[q] /\ job'[q] = job[q],
           \A f \in Frames' : \/ f \in Frames
                              \/ f.boot = boot /\ f.busy = busy /\ f.idle = idle,
           pc'[r] # "idle" => job'[r].readAt <= now /\ now - job'[r].readAt <= SessionTicks,
           ~job'[r].torn => job'[r].cpu = Missing \/ job'[r].cpu \in 0..1000,
           \/ snap' = snap
           \/ /\ snap'.at = now /\ snap'.readAt = job[r].readAt /\ r \in Under
              /\ snap'.torn = job[r].torn /\ snap'.cpu = job[r].cpu
    PROVE  ReadingInv'
<1> USE DEF machine
<1>1. TypeOK'
  <2>1. MachineTypeOK'
    BY DEF ReadingInv, TypeOK, MachineTypeOK
  <2> QED BY <2>1 DEF ReadingInv, TypeOK
<1>2. FrameInv'
  <2>1. \A f \in Frames : f.boot \in Nat /\ f.busy \in Nat /\ f.idle \in Nat
    BY DEF ReadingInv, TypeOK, ProcessTypeOK, Frames, Stat, Job
  <2>2. boot \in Nat /\ busy \in Nat /\ idle \in Nat
    BY DEF ReadingInv, TypeOK, MachineTypeOK
  <2>3. ASSUME NEW f \in Frames'
        PROVE  f.boot <= boot /\ (f.boot = boot => f.busy <= busy /\ f.idle <= idle)
    BY <2>1, <2>2 DEF ReadingInv, FrameInv
  <2>4. ASSUME NEW f \in Frames', NEW g \in Frames', f.boot = g.boot
        PROVE  \/ f.busy <= g.busy /\ f.idle <= g.idle
               \/ g.busy <= f.busy /\ g.idle <= f.idle
    <3>1. CASE f \in Frames /\ g \in Frames
      BY <2>4, <3>1 DEF ReadingInv, FrameInv
    <3>2. CASE f.boot = boot /\ f.busy = busy /\ f.idle = idle
      BY <2>3, <2>4, <3>2
    <3>3. CASE g.boot = boot /\ g.busy = busy /\ g.idle = idle
      BY <2>3, <2>4, <3>3
    <3> QED BY <3>1, <3>2, <3>3
  <2>5. boot' = boot /\ busy' = busy /\ idle' = idle
    OBVIOUS
  <2> QED BY <2>3, <2>4, <2>5 DEF FrameInv
<1>3. ClockInv'
  <2>1. now' = now /\ now \in Nat /\ SessionTicks \in Nat
    BY TelemetryBounds DEF ReadingInv, TypeOK, MachineTypeOK
  <2>2. \A q \in Under' : job'[q].readAt <= now /\ now - job'[q].readAt <= SessionTicks
    BY DEF Under, ReadingInv, ClockInv
  <2>3. r \in Under => job[r].readAt <= now /\ now - job[r].readAt <= SessionTicks
    BY DEF ReadingInv, ClockInv
  <2>4. /\ snap'.readAt <= snap'.at /\ snap'.at <= now
        /\ snap'.at - snap'.readAt <= SessionTicks
    BY <2>1, <2>3 DEF ReadingInv, ClockInv
  <2> QED BY <2>1, <2>2, <2>4 DEF ClockInv
<1>4. CpuInRange'
  <2>1. \A q \in Rounds : ~job'[q].torn => job'[q].cpu = Missing \/ job'[q].cpu \in 0..1000
    BY DEF ReadingInv, CpuInRange
  <2>2. ~snap'.torn => snap'.cpu = Missing \/ snap'.cpu \in 0..1000
    BY DEF ReadingInv, CpuInRange
  <2> QED BY <2>1, <2>2 DEF CpuInRange
<1> QED BY <1>1, <1>2, <1>3, <1>4 DEF ReadingInv

LEMMA FramesAre ==
    /\ \A f : f \in Frames <=>
          f.known /\ (f = prevStat \/ \E q \in Rounds : f = job[q].stat)
    /\ \A f : f \in Frames' <=>
          f.known /\ (f = prevStat' \/ \E q \in Rounds : f = job'[q].stat)
  BY DEF Frames

(* A frame is what the machine shows. *)
LEMMA ReadFrameInv ==
    ASSUME ReadingInv, NEW r \in Rounds, NEW slowRound \in BOOLEAN, ReadFrame(r, slowRound)
    PROVE  ReadingInv'
<1> DEFINE read == [known |-> TRUE, busy |-> busy, idle |-> idle, boot |-> boot]
           devices == Present
<1>1. PICK stat \in {read, NoStat} :
          /\ faults' = IF stat.known THEN faults ELSE faults + 1
          /\ job' = [job EXCEPT ![r] =
                [NoJob EXCEPT !.slowRound = slowRound, !.readAt = now, !.stat = stat,
                    !.net = devices]]
  BY DEF ReadFrame
<1>2. read \in Stat /\ devices \in Net /\ reads' \in Nat /\ now \in Nat
  BY DEF ReadFrame, Present, ReadingInv, TypeOK, MachineTypeOK, Stat, Net
<1> HIDE DEF devices
<1>3. stat \in Stat /\ (stat.known => stat = read)
  <2>1. CASE stat = read
    BY <1>2, <2>1
  <2>2. CASE stat = NoStat
    <3>1. ~stat.known
      BY <2>2 DEF NoStat
    <3> QED BY <2>2, <3>1, NothingTyped
  <2> QED BY <1>1, <2>1, <2>2
<1>4. job \in [Rounds -> Job] /\ pc \in [Rounds -> {"idle", "cpu", "net", "slow", "merge", "save"}]
  BY DEF ReadingInv, TypeOK, ProcessTypeOK
<1>5. /\ job'[r] \in Job /\ job'[r].stat = stat /\ job'[r].readAt = now
      /\ ~job'[r].torn /\ job'[r].cpu = Missing
  <2>1. job'[r] = [slowRound |-> slowRound, readAt |-> now, stat |-> stat, net |-> devices,
                   cpu |-> Missing, torn |-> FALSE, got |-> 0]
    BY <1>1, <1>4 DEF NoJob
  <2>2. job'[r] \in Job
    BY <1>2, <1>3, <2>1 DEF Job, Missing
  <2> QED BY <2>1, <2>2
<1>6. \A q \in Rounds \ {r} : pc'[q] = pc[q] /\ job'[q] = job[q]
  BY <1>1, <1>4 DEF ReadFrame
<1>7. ProcessTypeOK'
  <2>1. job' \in [Rounds -> Job]
    BY <1>1, <1>4, <1>5, <1>6
  <2>2. pc' \in [Rounds -> {"idle", "cpu", "net", "slow", "merge", "save"}]
    BY <1>4 DEF ReadFrame
  <2> QED BY <2>1, <2>2 DEF ReadFrame, process, ReadingInv, TypeOK, ProcessTypeOK
<1>8. \A f \in Frames' : f \in Frames \/ (f.boot = boot /\ f.busy = busy /\ f.idle = idle)
  <2>1. prevStat' = prevStat
    BY DEF ReadFrame, process
  <2>2. ASSUME NEW f \in Frames'
        PROVE  f \in Frames \/ (f = stat /\ stat.known)
    BY <1>5, <1>6, <2>1, FramesAre
  <2>3. stat.known => stat.boot = boot /\ stat.busy = busy /\ stat.idle = idle
    BY <1>3
  <2> QED BY <2>2, <2>3
<1>9. /\ faults' \in Nat /\ slowReads' \in Nat /\ measured' \in Nat
      /\ disordered' \in BOOLEAN /\ company' \subseteq Rounds
  BY <1>1 DEF ReadFrame, account, Under, ReadingInv, TypeOK
<1>10. now - now <= SessionTicks
  BY <1>2, TelemetryBounds
<1>11. UNCHANGED <<machine, carried, moved, snap>>
  BY DEF ReadFrame, account
<1> QED BY <1>2, <1>5, <1>6, <1>7, <1>8, <1>9, <1>10, <1>11, RoundInv

(* The step of a round that changes its own job only, and takes neither a  *)
(* frame nor a CPU usage from elsewhere.                                   *)
LEMMA OwnStepInv ==
    ASSUME ReadingInv, UNCHANGED <<machine, carried, moved, prevStat, up, snap>>, NEW r \in Under,
           NEW next \in {"cpu", "net", "slow", "merge", "save"}, NEW mine \in Job,
           pc' = [pc EXCEPT ![r] = next], job' = [job EXCEPT ![r] = mine],
           measured' \in Nat, prevNet' \in Net, mine.stat = job[r].stat, mine.readAt = job[r].readAt,
           mine.torn = job[r].torn, mine.cpu = job[r].cpu,
           reads' \in Nat, slowReads' \in Nat, faults' \in Nat, disordered' \in BOOLEAN,
           company' \subseteq Rounds
    PROVE  ReadingInv'
<1>1. r \in Rounds /\ pc[r] # "idle"
  BY DEF Under
<1>2. job \in [Rounds -> Job] /\ pc \in [Rounds -> {"idle", "cpu", "net", "slow", "merge", "save"}]
  BY DEF ReadingInv, TypeOK, ProcessTypeOK
<1>3. /\ job'[r] = mine /\ pc'[r] = next
      /\ \A q \in Rounds \ {r} : pc'[q] = pc[q] /\ job'[q] = job[q]
  BY <1>1, <1>2
<1>4. ProcessTypeOK'
  BY <1>2 DEF ReadingInv, TypeOK, ProcessTypeOK
<1>5. \A f \in Frames' : f \in Frames
  BY <1>1, <1>3, FramesAre
<1>6. job'[r].readAt <= now /\ now - job'[r].readAt <= SessionTicks
  BY <1>3 DEF ReadingInv, ClockInv
<1>7. ~job'[r].torn => job'[r].cpu = Missing \/ job'[r].cpu \in 0..1000
  BY <1>1, <1>3 DEF ReadingInv, CpuInRange
<1>8. UNCHANGED <<machine, carried, moved>> /\ snap' = snap
  OBVIOUS
<1> QED BY <1>1, <1>3, <1>4, <1>5, <1>6, <1>7, <1>8, RoundInv

(* Two lines are of one boot, or the usage is known to be of two.          *)
LEMMA CpuPctInv ==
    ASSUME ReadingInv, NEW r \in Rounds, cpuPct(r)
    PROVE  ReadingInv'
<1> DEFINE both == prevStat.known /\ job[r].stat.known
           usage == IF both THEN CPUUsage(prevStat, job[r].stat) ELSE Missing
<1>1. job \in [Rounds -> Job] /\ pc \in [Rounds -> {"idle", "cpu", "net", "slow", "merge", "save"}]
  BY DEF ReadingInv, TypeOK, ProcessTypeOK
<1>2. prevStat \in Stat /\ job[r] \in Job /\ job[r].stat \in Stat
  BY <1>1 DEF ReadingInv, TypeOK, ProcessTypeOK, Job
<1>3. usage \in Int
  BY <1>2, UsageIsInt DEF Missing
<1>4. ~(both /\ prevStat.boot # job[r].stat.boot) => usage = Missing \/ usage \in 0..1000
  <2>1. ASSUME both, prevStat.boot = job[r].stat.boot
        PROVE  \/ prevStat.busy <= job[r].stat.busy /\ prevStat.idle <= job[r].stat.idle
               \/ job[r].stat.busy <= prevStat.busy /\ job[r].stat.idle <= prevStat.idle
    <3>1. prevStat \in Frames /\ job[r].stat \in Frames
      BY <2>1, FramesAre
    <3> QED BY <2>1, <3>1 DEF ReadingInv, FrameInv
  <2>2. ASSUME both, prevStat.boot = job[r].stat.boot
        PROVE  usage = Missing \/ usage \in 0..1000
    BY <1>2, <2>1, <2>2, UsageInRange
  <2>3. ASSUME ~both
        PROVE  usage = Missing
    BY <2>3
  <2> QED BY <2>2, <2>3
<1> DEFINE torn == both /\ prevStat.boot # job[r].stat.boot
           mine == [job[r] EXCEPT !.stat = NoStat, !.cpu = usage, !.torn = torn]
<1>5. job' = [job EXCEPT ![r] = mine]
  BY <1>1, <1>2 DEF cpuPct
<1> HIDE DEF both, usage
<1>6. torn \in BOOLEAN
  OBVIOUS
<1> HIDE DEF torn
<1>7. /\ mine \in Job /\ mine.stat = NoStat /\ mine.readAt = job[r].readAt
      /\ mine.cpu = usage /\ mine.torn = torn
  BY <1>2, <1>3, <1>6, NothingTyped DEF Job
<1> HIDE DEF mine
<1>8. /\ job'[r] = mine /\ pc' = [pc EXCEPT ![r] = "net"]
      /\ \A q \in Rounds \ {r} : pc'[q] = pc[q] /\ job'[q] = job[q]
  BY <1>1, <1>5 DEF cpuPct
<1>9. ProcessTypeOK'
  BY <1>1, <1>2, <1>5, <1>7, <1>8 DEF cpuPct, ReadingInv, TypeOK, ProcessTypeOK
<1>10. \A f \in Frames' : f \in Frames
  <2>1. prevStat' = job[r].stat /\ ~NoStat.known
    BY DEF cpuPct, NoStat
  <2> QED BY <1>7, <1>8, <2>1, FramesAre
<1>11. job'[r].readAt <= now /\ now - job'[r].readAt <= SessionTicks
  <2>1. r \in Under
    BY DEF cpuPct, Under
  <2> QED BY <1>7, <1>8, <2>1 DEF ReadingInv, ClockInv
<1>12. ~job'[r].torn => job'[r].cpu = Missing \/ job'[r].cpu \in 0..1000
  BY <1>4, <1>7, <1>8 DEF torn
<1>13. /\ UNCHANGED <<machine, carried, moved>> /\ snap' = snap
       /\ reads' \in Nat /\ slowReads' \in Nat /\ measured' \in Nat /\ faults' \in Nat
       /\ disordered' \in BOOLEAN /\ company' \subseteq Rounds
  BY DEF cpuPct, account, counts, ReadingInv, TypeOK
<1> QED BY <1>8, <1>9, <1>10, <1>11, <1>12, <1>13, RoundInv

LEMMA RateIsNat ==
    ASSUME NEW prev \in Net, NEW cur \in Net
    PROVE  NetRate(prev, cur) \in Nat
<1>1. /\ IsFiniteSet(cur.listed) /\ \A d \in cur.listed : cur.bytes[d] \in Nat
      /\ IsFiniteSet(prev.listed \cap cur.listed)
      /\ \A d \in prev.listed \cap cur.listed : prev.bytes[d] \in Nat
  BY DeviceAssumption, FS_Subset DEF Net
<1>2. /\ SumOf(cur.bytes, cur.listed) \in Nat
      /\ SumOf(prev.bytes, prev.listed \cap cur.listed) \in Nat
  BY <1>1, SumNat
<1> QED BY <1>2 DEF NetRate

LEMMA NetRatesInv ==
    ASSUME ReadingInv, NEW r \in Rounds, netRates(r)
    PROVE  ReadingInv'
<1> DEFINE mine == [job[r] EXCEPT !.net = NoNet]
           next == IF job[r].slowRound THEN "slow" ELSE "merge"
<1>1. job \in [Rounds -> Job] /\ job[r] \in Job
  BY DEF ReadingInv, TypeOK, ProcessTypeOK
<1>2. r \in Under
  BY DEF netRates, Under
<1>3. job' = [job EXCEPT ![r] = mine] /\ pc' = [pc EXCEPT ![r] = next]
  BY <1>1 DEF netRates
<1>4. /\ mine \in Job /\ mine.stat = job[r].stat /\ mine.readAt = job[r].readAt
      /\ mine.torn = job[r].torn /\ mine.cpu = job[r].cpu
  BY <1>1, NothingTyped DEF Job
<1>5. next \in {"cpu", "net", "slow", "merge", "save"}
  OBVIOUS
<1>6. prevNet' \in Net
  BY <1>1 DEF netRates, Job
<1>7. disordered' \in BOOLEAN /\ measured' \in Nat
  <2>1. NetRate(prevNet, job[r].net) \in Nat /\ measured \in Nat
    BY <1>1, RateIsNat DEF Job, ReadingInv, TypeOK, ProcessTypeOK
  <2>2. measured' \in Nat
    BY <2>1 DEF netRates
  <2> QED BY <2>2 DEF netRates
<1>8. /\ UNCHANGED <<machine, carried, moved, prevStat, up, snap>>
      /\ reads' \in Nat /\ slowReads' \in Nat /\ faults' \in Nat /\ company' \subseteq Rounds
  BY DEF netRates, counts, ReadingInv, TypeOK
<1> HIDE DEF mine, next
<1> QED BY <1>2, <1>3, <1>4, <1>5, <1>6, <1>7, <1>8, OwnStepInv

(* The slow part is read, or that of the snapshot kept, or none is there.  *)
LEMMA SlowPartInv ==
    ASSUME ReadingInv, NEW r \in Rounds, ReadSlow(r) \/ Merge(r) \/ MergeFails(r)
    PROVE  ReadingInv'
<1> DEFINE got == IF ReadSlow(r) THEN slowReads' ELSE IF Merge(r) THEN snap.got ELSE job[r].got
           mine == [job[r] EXCEPT !.got = got]
<1>1. job \in [Rounds -> Job] /\ job[r] \in Job /\ snap \in Snapshot /\ prevNet \in Net
  BY DEF ReadingInv, TypeOK, ProcessTypeOK
<1>2. reads' \in Nat /\ slowReads' \in Nat /\ faults' \in Nat /\ company' \subseteq Rounds
  BY DEF ReadSlow, Merge, MergeFails, counts, ReadingInv, TypeOK
<1>3. got \in Nat
  BY <1>1, <1>2 DEF Snapshot, Job
<1>4. job' = [job EXCEPT ![r] = mine]
  BY <1>1 DEF ReadSlow, Merge, MergeFails, Job
<1>5. /\ mine \in Job /\ mine.stat = job[r].stat /\ mine.readAt = job[r].readAt
      /\ mine.torn = job[r].torn /\ mine.cpu = job[r].cpu
  BY <1>1, <1>3 DEF Job
<1>6. r \in Under /\ pc' = [pc EXCEPT ![r] = "save"]
  BY DEF ReadSlow, Merge, MergeFails, Under
<1>7. /\ UNCHANGED <<machine, carried, moved, prevStat, up, snap>> /\ prevNet' = prevNet
      /\ disordered' = disordered /\ measured' = measured
  BY DEF ReadSlow, Merge, MergeFails, process, account
<1>8. prevNet' \in Net /\ disordered' \in BOOLEAN /\ measured' \in Nat
  BY <1>1, <1>7 DEF ReadingInv, TypeOK
<1> HIDE DEF mine
<1> QED BY <1>2, <1>4, <1>5, <1>6, <1>7, <1>8, OwnStepInv

(* What a round saves is what it has, at the time of the table.            *)
LEMMA SaveInv ==
    ASSUME ReadingInv, NEW r \in Rounds, Save(r) \/ SaveFails(r)
    PROVE  ReadingInv'
<1>1. job \in [Rounds -> Job] /\ pc \in [Rounds -> {"idle", "cpu", "net", "slow", "merge", "save"}]
  BY DEF ReadingInv, TypeOK, ProcessTypeOK
<1>2. /\ job'[r] = NoJob /\ pc'[r] = "idle" /\ r \in Under
      /\ \A q \in Rounds \ {r} : pc'[q] = pc[q] /\ job'[q] = job[q]
  BY <1>1 DEF Save, SaveFails, EndRound, Under
<1>3. /\ job' = [job EXCEPT ![r] = NoJob] /\ pc' = [pc EXCEPT ![r] = "idle"]
      /\ company' = company \ {r}
      /\ UNCHANGED <<machine, process, counts, account>>
  BY DEF Save, SaveFails, EndRound
<1>4. \/ snap' = snap
      \/ snap' = [at |-> now, readAt |-> job[r].readAt, cpu |-> job[r].cpu,
                 torn |-> job[r].torn, got |-> job[r].got]
  BY DEF Save, SaveFails
<1>5. snap' \in Snapshot
  <2>1. snap \in Snapshot /\ now \in Nat /\ job[r] \in Job
    BY <1>1 DEF ReadingInv, TypeOK, MachineTypeOK, ProcessTypeOK
  <2> QED BY <1>4, <2>1 DEF Snapshot, Job
<1>6. ProcessTypeOK'
  <2>1. job' \in [Rounds -> Job]
    BY <1>1, <1>3, NothingTyped
  <2>2. pc' \in [Rounds -> {"idle", "cpu", "net", "slow", "merge", "save"}]
    BY <1>1, <1>3
  <2> QED BY <1>3, <1>5, <2>1, <2>2 DEF process, ReadingInv, TypeOK, ProcessTypeOK
<1>7. \A f \in Frames' : f \in Frames
  <2>1. prevStat' = prevStat /\ ~NoJob.stat.known
    BY <1>3 DEF process, NoJob, NoStat
  <2> QED BY <1>2, <2>1, FramesAre
<1>8. /\ UNCHANGED <<machine, carried, moved>> /\ measured' \in Nat
      /\ reads' \in Nat /\ slowReads' \in Nat /\ disordered' \in BOOLEAN
      /\ company' \subseteq Rounds
  BY <1>3 DEF account, counts, ReadingInv, TypeOK
<1>9. faults' \in Nat
  BY DEF Save, SaveFails, ReadingInv, TypeOK
<1>10. ~job'[r].torn => job'[r].cpu = Missing \/ job'[r].cpu \in 0..1000
  BY <1>2 DEF NoJob
<1>11. \/ snap' = snap
       \/ /\ snap'.at = now /\ snap'.readAt = job[r].readAt /\ r \in Under
          /\ snap'.torn = job[r].torn /\ snap'.cpu = job[r].cpu
  BY <1>2, <1>4
<1> QED BY <1>2, <1>6, <1>7, <1>8, <1>9, <1>10, <1>11, RoundInv

(* All frames go with the process. *)
LEMMA DownInv == ReadingInv /\ Down => ReadingInv'
<1> SUFFICES ASSUME ReadingInv, Down PROVE ReadingInv'
  OBVIOUS
<1>1. UNCHANGED <<machine, snap, counts, account>>
  BY DEF Down
<1>2. TypeOK'
  <2>1. MachineTypeOK'
    BY <1>1 DEF machine, ReadingInv, TypeOK, MachineTypeOK
  <2>2. ProcessTypeOK'
    BY <1>1, NothingTyped DEF Down, ReadingInv, TypeOK, ProcessTypeOK
  <2> QED BY <1>1, <2>1, <2>2 DEF Down, account, counts, ReadingInv, TypeOK
<1>3. Frames' = {}
  <2>1. prevStat' = NoStat /\ ~NoStat.known /\ ~NoJob.stat.known /\ \A r \in Rounds : job'[r] = NoJob
    BY DEF Down, NoStat, NoJob
  <2> QED BY <2>1, FramesAre
<1>4. FrameInv'
  BY <1>3 DEF FrameInv
<1>5. ClockInv'
  <2>1. Under' = {} /\ now' = now
    BY <1>1 DEF Down, Under, machine
  <2> QED BY <1>1, <2>1 DEF ReadingInv, ClockInv
<1>6. CpuInRange'
  BY <1>1 DEF Down, NoJob, ReadingInv, CpuInRange
<1> QED BY <1>2, <1>4, <1>5, <1>6 DEF ReadingInv

LEMMA StartInv == ReadingInv /\ (Start \/ UNCHANGED vars) => ReadingInv'
<1> SUFFICES ASSUME ReadingInv, Start \/ UNCHANGED vars PROVE ReadingInv'
  OBVIOUS
<1>1. up' \in BOOLEAN /\ faults' \in Nat
  BY DEF Start, vars, process, ReadingInv, TypeOK, ProcessTypeOK
<1>2. UNCHANGED <<machine, prevStat, prevNet, snap, rounds, counts, account, company>>
  BY DEF Start, vars, process
<1>3. TypeOK'
  BY <1>1, <1>2 DEF machine, rounds, counts, account, ReadingInv, TypeOK, MachineTypeOK, ProcessTypeOK
<1>4. FrameInv'
  BY <1>2 DEF machine, rounds, ReadingInv, FrameInv, Frames
<1>5. ClockInv'
  BY <1>2 DEF machine, rounds, ReadingInv, ClockInv, Under
<1>6. CpuInRange'
  BY <1>2 DEF rounds, ReadingInv, CpuInRange
<1> QED BY <1>3, <1>4, <1>5, <1>6 DEF ReadingInv

LEMMA NextReading == ReadingInv /\ [Next]_vars => ReadingInv'
<1> SUFFICES ASSUME ReadingInv, [Next]_vars PROVE ReadingInv'
  OBVIOUS
<1>1. CASE Tick
  BY <1>1, TickInv
<1>2. CASE Reboot
  BY <1>2, RebootInv
<1>3. ASSUME NEW d \in Devices, PlugIn(d) \/ Unplug(d) \/ \E e \in Devices : Rename(d, e)
      PROVE  ReadingInv'
  BY <1>3, DevicesInv
<1>4. ASSUME NEW r \in Rounds, collect(r)
      PROVE  ReadingInv'
  BY <1>4, ReadFrameInv, CpuPctInv, NetRatesInv, SlowPartInv, SaveInv DEF collect
<1>5. CASE Down
  BY <1>5, DownInv
<1>6. CASE Start \/ UNCHANGED vars
  BY <1>6, StartInv
<1> QED BY <1>1, <1>2, <1>3, <1>4, <1>5, <1>6 DEF Next

-----------------------------------------------------------------------------
(* The invariant: slow parts *)

LEMMA InitKept == Init => KeptInv
<1> SUFFICES ASSUME Init PROVE KeptInv
  OBVIOUS
<1>1. Under = {} /\ snap.got = 0 /\ slowReads = 0 /\ \A r \in Rounds : job[r].got = 0
  BY DEF Init, Under, NoSnapshot, NoJob
<1> QED BY <1>1 DEF KeptInv

LEMMA GotTyped ==
    ASSUME TypeOK
    PROVE  /\ snap.got \in Nat /\ slowReads \in Nat
           /\ pc \in [Rounds -> {"idle", "cpu", "net", "slow", "merge", "save"}]
           /\ job \in [Rounds -> Job] /\ \A r \in Rounds : job[r].got \in Nat
  BY DEF TypeOK, ProcessTypeOK, Snapshot, Job

(* A round that begins is in company, with all that are under way, or the  *)
(* only one.                                                               *)
LEMMA BeginKept ==
    ASSUME TypeOK, KeptInv, NEW r \in Rounds, NEW slowRound \in BOOLEAN, ReadFrame(r, slowRound)
    PROVE  KeptInv'
<1>1. /\ pc[r] = "idle" /\ pc' = [pc EXCEPT ![r] = "cpu"]
      /\ company' = IF Under = {} THEN company ELSE company \cup Under \cup {r}
      /\ UNCHANGED <<snap, slowReads>>
  BY DEF ReadFrame
<1>2. PICK stat, net : job' = [job EXCEPT ![r] =
          [NoJob EXCEPT !.slowRound = slowRound, !.readAt = now, !.stat = stat, !.net = net]]
  BY DEF ReadFrame
<1>3. job'[r].got = 0 /\ \A q \in Rounds \ {r} : job'[q] = job[q] /\ pc'[q] = pc[q]
  BY <1>1, <1>2, GotTyped DEF NoJob
<1>4. pc'[r] = "cpu" /\ Under' = Under \cup {r} /\ r \notin Under
  BY <1>1, <1>3, GotTyped DEF Under
<1>5. snap'.got <= slowReads' /\ \A q \in Rounds : job'[q].got <= slowReads'
  BY <1>1, <1>3, GotTyped DEF KeptInv
<1>6. \A q, p \in Under' : q # p => p \in company'
  <2>1. CASE Under = {}
    BY <1>4, <2>1
  <2>2. CASE Under # {}
    BY <1>1, <1>4, <2>2
  <2> QED BY <2>1, <2>2
<1>7. \A q \in Under' \ company' : pc'[q] = "save" => snap'.got <= job'[q].got
  <2> SUFFICES ASSUME NEW q \in Under' \ company', pc'[q] = "save"
               PROVE  snap.got <= job'[q].got
    BY <1>1
  <2>1. q # r /\ q \in Under \ company
    BY <1>1, <1>4
  <2>2. q \in Rounds
    BY <2>1 DEF Under
  <2> QED BY <2>1, <2>2, <1>3 DEF KeptInv
<1> QED BY <1>5, <1>6, <1>7 DEF KeptInv

(* A round that goes on has the same company; what it has when it is ready *)
(* to save is the latest slow part, or that of the snapshot.               *)
LEMMA GoOnKept ==
    ASSUME TypeOK, KeptInv, NEW r \in Rounds, UNCHANGED snap,
           pc[r] # "idle", pc'[r] # "idle", slowReads <= slowReads', slowReads' \in Nat,
           \A q \in Rounds \ {r} : pc'[q] = pc[q] /\ job'[q] = job[q],
           company \subseteq company', job'[r].got \in Nat, job'[r].got <= slowReads',
           pc'[r] = "save" => snap.got <= job'[r].got \/ r \in company'
    PROVE  KeptInv'
<1>1. Under' = Under
  BY DEF Under
<1>2. snap'.got <= slowReads' /\ \A q \in Rounds : job'[q].got <= slowReads'
  BY GotTyped DEF KeptInv
<1>3. \A q, p \in Under' : q # p => p \in company'
  BY <1>1 DEF KeptInv
<1>4. \A q \in Under' \ company' : pc'[q] = "save" => snap'.got <= job'[q].got
  BY <1>1 DEF KeptInv, Under
<1> QED BY <1>2, <1>3, <1>4 DEF KeptInv

(* A round that ends leaves the others in company, which they remain.      *)
LEMMA EndKept ==
    ASSUME TypeOK, KeptInv, NEW r \in Rounds, Save(r) \/ SaveFails(r)
    PROVE  KeptInv'
<1>1. /\ pc[r] = "save" /\ pc' = [pc EXCEPT ![r] = "idle"] /\ job' = [job EXCEPT ![r] = NoJob]
      /\ company' = company \ {r} /\ slowReads' = slowReads
      /\ snap'.got = snap.got \/ snap'.got = job[r].got
  BY DEF Save, SaveFails, EndRound, counts
<1>2. job'[r].got = 0 /\ \A q \in Rounds \ {r} : job'[q] = job[q] /\ pc'[q] = pc[q]
  BY <1>1, GotTyped DEF NoJob
<1>3. Under' = Under \ {r} /\ r \in Under
  BY <1>1, <1>2, GotTyped DEF Under
<1>4. snap'.got <= slowReads' /\ \A q \in Rounds : job'[q].got <= slowReads'
  BY <1>1, <1>2, GotTyped DEF KeptInv
<1>5. \A q, p \in Under' : q # p => p \in company'
  BY <1>1, <1>3 DEF KeptInv
<1>6. Under' \subseteq company'
  BY <1>1, <1>3 DEF KeptInv
<1> QED BY <1>4, <1>5, <1>6 DEF KeptInv

LEMMA NextKept == TypeOK /\ KeptInv /\ [Next]_vars => KeptInv'
<1> SUFFICES ASSUME TypeOK, KeptInv, [Next]_vars PROVE KeptInv'
  OBVIOUS
<1>1. ASSUME UNCHANGED <<snap, rounds, slowReads, company>>
      PROVE  KeptInv'
  BY <1>1 DEF KeptInv, Under, rounds
<1>2. CASE Tick \/ Reboot \/ Start \/ UNCHANGED vars
  BY <1>1, <1>2 DEF Tick, Reboot, Start, vars, counts
<1>3. ASSUME NEW d \in Devices, PlugIn(d) \/ Unplug(d) \/ \E e \in Devices : Rename(d, e)
      PROVE  KeptInv'
  BY <1>1, <1>3 DEF PlugIn, Unplug, Rename, counts
<1>4. ASSUME NEW r \in Rounds, NEW slowRound \in BOOLEAN, ReadFrame(r, slowRound)
      PROVE  KeptInv'
  BY <1>4, BeginKept
<1>5. ASSUME NEW r \in Rounds, cpuPct(r) \/ netRates(r)
      PROVE  KeptInv'
  <2>1. /\ pc[r] # "idle" /\ pc'[r] \notin {"idle", "save"} /\ UNCHANGED <<snap, slowReads, company>>
        /\ \A q \in Rounds \ {r} : pc'[q] = pc[q] /\ job'[q] = job[q]
    BY <1>5, GotTyped DEF cpuPct, netRates, counts
  <2>2. job'[r].got = job[r].got
    <3>1. job[r] \in Job
      BY GotTyped
    <3>2. CASE cpuPct(r)
      <4>1. PICK cpu, torn : job' = [job EXCEPT ![r].stat = NoStat, ![r].cpu = cpu, ![r].torn = torn]
        BY <3>2 DEF cpuPct
      <4> QED BY <4>1, <3>1, GotTyped DEF Job
    <3>3. CASE netRates(r)
      BY <3>1, <3>3, GotTyped DEF netRates, Job
    <3> QED BY <1>5, <3>2, <3>3
  <2> QED BY <2>1, <2>2, GotTyped, GoOnKept DEF KeptInv
<1>6. ASSUME NEW r \in Rounds, ReadSlow(r) \/ Merge(r) \/ MergeFails(r)
      PROVE  KeptInv'
  <2>1. /\ pc[r] # "idle" /\ pc'[r] = "save" /\ UNCHANGED snap
        /\ company \subseteq company' /\ (MergeFails(r) => r \in company')
        /\ \A q \in Rounds \ {r} : pc'[q] = pc[q] /\ job'[q] = job[q]
    BY <1>6, GotTyped DEF ReadSlow, Merge, MergeFails
  <2>2. slowReads <= slowReads' /\ slowReads' \in Nat
    BY <1>6, GotTyped DEF ReadSlow, Merge, MergeFails, counts
  <2>3. /\ job'[r].got \in Nat /\ job'[r].got <= slowReads'
        /\ ~MergeFails(r) => snap.got <= job'[r].got
    <3>1. CASE ReadSlow(r)
      <4>1. job'[r].got = slowReads'
        BY <3>1, GotTyped DEF ReadSlow, Job
      <4> QED BY <4>1, <2>2, GotTyped DEF KeptInv
    <3>2. CASE Merge(r)
      <4>1. job'[r].got = snap.got /\ slowReads' = slowReads
        BY <3>2, GotTyped DEF Merge, Job, counts
      <4> QED BY <4>1, GotTyped DEF KeptInv
    <3>3. CASE MergeFails(r)
      <4>1. job' = job /\ slowReads' = slowReads
        BY <3>3 DEF MergeFails, counts
      <4> QED BY <3>3, <4>1, GotTyped DEF KeptInv
    <3> QED BY <1>6, <3>1, <3>2, <3>3
  <2> QED BY <2>1, <2>2, <2>3, GoOnKept
<1>7. ASSUME NEW r \in Rounds, Save(r) \/ SaveFails(r)
      PROVE  KeptInv'
  BY <1>7, EndKept
<1>8. CASE Down
  <2>1. Under' = {} /\ UNCHANGED <<snap, slowReads>> /\ \A r \in Rounds : job'[r].got = 0
    BY <1>8 DEF Down, Under, NoJob, counts
  <2> QED BY <2>1, GotTyped DEF KeptInv
<1> QED BY <1>2, <1>3, <1>4, <1>5, <1>6, <1>7, <1>8 DEF Next, collect

-----------------------------------------------------------------------------
(* The invariant: what has grown is paid for *)

LEMMA NetsAre ==
    /\ \A f : f \in Nets <=> f.known /\ (f = prevNet \/ \E q \in Rounds : f = job[q].net)
    /\ \A f : f \in Nets' <=> f.known /\ (f = prevNet' \/ \E q \in Rounds : f = job'[q].net)
  BY DEF Nets

LEMMA NetsTyped ==
    ASSUME TypeOK
    PROVE  /\ prevNet \in Net /\ job \in [Rounds -> Job] /\ \A r \in Rounds : job[r].net \in Net
           /\ pc \in [Rounds -> {"idle", "cpu", "net", "slow", "merge", "save"}]
           /\ Present \in Net /\ \A f \in Nets : f \in Net
<1>1. prevNet \in Net /\ job \in [Rounds -> Job] /\ \A r \in Rounds : job[r].net \in Net
  BY DEF TypeOK, ProcessTypeOK, Job
<1>2. pc \in [Rounds -> {"idle", "cpu", "net", "slow", "merge", "save"}]
  BY DEF TypeOK, ProcessTypeOK
<1>3. Present \in Net
  BY DEF TypeOK, MachineTypeOK, Present, Net
<1> QED BY <1>1, <1>2, <1>3, NetsAre

LEMMA NextTyped == TypeOK' => Present' \in Net
<1> SUFFICES ASSUME TypeOK' PROVE Present' \in Net
  OBVIOUS
<1>1. reads' + 1 \in Nat /\ carried' + moved' \in Nat
  <2>1. reads' \in Nat /\ carried' \in Nat /\ moved' \in Nat
    BY DEF TypeOK, MachineTypeOK
  <2>2. \A i, j \in Nat : i + j \in Nat /\ i + 1 \in Nat
    OBVIOUS
  <2> QED BY <2>1, <2>2, Zenon
<1>2. listed' \subseteq Devices /\ bytes' \in [Devices -> Nat]
  BY DEF TypeOK, MachineTypeOK
<1> QED BY <1>1, <1>2 DEF Present, Net

LEMMA CountedNat ==
    ASSUME NEW f \in Net, NEW d \in Devices
    PROVE  Counted(f, d) \in Nat
  BY DEF Counted, Net

LEMMA GrowthNat ==
    ASSUME NEW f \in Net, NEW g \in Net
    PROVE  /\ \A d \in Devices : Growth(f, g)[d] \in Nat
           /\ SumOf(Growth(f, g), Devices) \in Nat
<1>1. \A d \in Devices : Growth(f, g)[d] \in Nat
  <2> TAKE d \in Devices
  <2>1. Counted(f, d) \in Nat /\ Counted(g, d) \in Nat
    BY CountedNat
  <2> QED BY <2>1 DEF Growth
<1> QED BY <1>1, DeviceAssumption, SumNat

(* Nothing grows by nothing. *)
LEMMA SumZero ==
    ASSUME NEW f, \A d \in Devices : f[d] = 0
    PROVE  SumOf(f, Devices) = 0
<1>1. SumOf(f, Devices) = SumOf(f, {})
  BY DeviceAssumption, SumWithin
<1> QED BY <1>1, FS_EmptySet, SumEquation

(* The rate of two frames is no more than what has grown between them.     *)
LEMMA RateIsGrowth ==
    ASSUME NEW f \in Net, NEW g \in Net
    PROVE  NetRate(f, g) <= SumOf(Growth(f, g), Devices)
<1> DEFINE both == f.listed \cap g.listed
           later == [d \in Devices |-> Counted(g, d)]
           before == [d \in Devices |-> IF d \in both THEN f.bytes[d] ELSE 0]
           most == [d \in Devices |-> Growth(f, g)[d] + before[d]]
<1>1. /\ f.listed \subseteq Devices /\ g.listed \subseteq Devices
      /\ \A d \in Devices : f.bytes[d] \in Nat /\ g.bytes[d] \in Nat
  BY DEF Net
<1>2. SumOf(later, Devices) = SumOf(g.bytes, g.listed)
  <2>1. /\ \A d \in g.listed : g.bytes[d] = later[d] /\ later[d] \in Nat
        /\ \A d \in Devices \ g.listed : later[d] = 0
    BY <1>1 DEF Counted
  <2> HIDE DEF later
  <2> QED BY <1>1, <2>1, DeviceAssumption, SumWithin
<1>3. SumOf(before, Devices) = SumOf(f.bytes, both)
  <2>1. /\ \A d \in both : f.bytes[d] = before[d] /\ before[d] \in Nat
        /\ \A d \in Devices \ both : before[d] = 0
    BY <1>1
  <2>2. both \subseteq Devices
    BY <1>1
  <2> HIDE DEF before, both
  <2> QED BY <2>1, <2>2, DeviceAssumption, SumWithin
<1>4. \A d \in Devices : before[d] \in Nat /\ later[d] \in Nat /\ Growth(f, g)[d] \in Nat
  BY <1>1, GrowthNat, CountedNat
<1>5. \A d \in Devices : most[d] \in Nat /\ later[d] <= most[d]
  <2> SUFFICES ASSUME NEW d \in Devices PROVE most[d] \in Nat /\ later[d] <= most[d]
    OBVIOUS
  <2>1. before[d] = IF d \in both THEN f.bytes[d] ELSE 0
    OBVIOUS
  <2>2. Growth(f, g)[d] = IF Counted(g, d) > Counted(f, d)
                          THEN Counted(g, d) - Counted(f, d) ELSE 0
    BY DEF Growth
  <2>3. Counted(f, d) = before[d] \/ Counted(g, d) = 0
    BY DEF Counted
  <2>4. Counted(f, d) \in Nat /\ Counted(g, d) \in Nat
    BY CountedNat
  <2>5. most[d] = Growth(f, g)[d] + before[d] /\ later[d] = Counted(g, d)
    OBVIOUS
  <2> HIDE DEF most, later, before, both
  <2> QED BY <1>4, <2>2, <2>3, <2>4, <2>5
<1>6. SumOf(later, Devices) <= SumOf(most, Devices)
  <2> HIDE DEF later, most
  <2> QED BY <1>4, <1>5, DeviceAssumption, SumMonotone
<1>7. SumOf(most, Devices) = SumOf(Growth(f, g), Devices) + SumOf(before, Devices)
  <2>1. \A d \in Devices : most[d] = Growth(f, g)[d] + before[d]
    OBVIOUS
  <2> HIDE DEF most, before
  <2> QED BY <1>4, <2>1, DeviceAssumption, SumPlus
<1>8. /\ SumOf(later, Devices) \in Nat /\ SumOf(before, Devices) \in Nat
      /\ SumOf(Growth(f, g), Devices) \in Nat
  <2> HIDE DEF later, before
  <2> QED BY <1>4, DeviceAssumption, GrowthNat, SumNat
<1>9. \/ NetRate(f, g) = 0
      \/ NetRate(f, g) = SumOf(g.bytes, g.listed) - SumOf(f.bytes, both)
  BY DEF NetRate
<1> HIDE DEF later, before, most, both
<1> QED BY <1>2, <1>3, <1>6, <1>7, <1>8, <1>9

(* What has grown from f grows on by no more than each device does.        *)
LEMMA GrowthGrows ==
    ASSUME NEW f \in Net, NEW g \in Net, NEW h \in Net, NEW more \in [Devices -> Nat],
           \A d \in Devices : Counted(h, d) <= Counted(g, d) + more[d]
    PROVE  SumOf(Growth(f, h), Devices) <= SumOf(Growth(f, g), Devices) + SumOf(more, Devices)
<1> DEFINE most == [d \in Devices |-> Growth(f, g)[d] + more[d]]
<1>1. \A d \in Devices : /\ Growth(f, g)[d] \in Nat /\ Growth(f, h)[d] \in Nat
                         /\ more[d] \in Nat /\ most[d] = Growth(f, g)[d] + more[d]
  BY GrowthNat
<1> HIDE DEF most
<1>2. \A d \in Devices : most[d] \in Nat /\ Growth(f, h)[d] <= most[d]
  <2> SUFFICES ASSUME NEW d \in Devices PROVE most[d] \in Nat /\ Growth(f, h)[d] <= most[d]
    OBVIOUS
  <2>1. Counted(f, d) \in Nat /\ Counted(g, d) \in Nat /\ Counted(h, d) \in Nat
    BY CountedNat
  <2>2. /\ Growth(f, h)[d] = IF Counted(h, d) > Counted(f, d)
                             THEN Counted(h, d) - Counted(f, d) ELSE 0
        /\ Growth(f, g)[d] = IF Counted(g, d) > Counted(f, d)
                             THEN Counted(g, d) - Counted(f, d) ELSE 0
    BY DEF Growth
  <2> QED BY <1>1, <2>1, <2>2
<1>3. SumOf(Growth(f, h), Devices) <= SumOf(most, Devices)
  BY <1>1, <1>2, DeviceAssumption, SumMonotone
<1>4. SumOf(most, Devices) = SumOf(Growth(f, g), Devices) + SumOf(more, Devices)
  BY <1>1, DeviceAssumption, SumPlus
<1> QED BY <1>3, <1>4

LEMMA InitBill == Init => BillInv
<1> SUFFICES ASSUME Init PROVE BillInv
  OBVIOUS
<1>1. Nets = {}
  BY DEF Init, Nets, NoNet, NoJob
<1>2. /\ \A d \in Devices : bytes[d] = 0
      /\ \A r \in Rounds : pc[r] = "idle"
      /\ prevNet.nth = 0 /\ reads = 0 /\ measured = 0 /\ carried = 0 /\ moved = 0
  BY DEF Init, NoNet
<1>3. Shown = {Present} /\ Present.paid = 0
  BY <1>1, <1>2 DEF Shown, Present
<1> QED BY <1>1, <1>2, <1>3 DEF BillInv

(* What the machine does is paid for: no device counts more than before    *)
(* and what it has carried, or taken along.                                *)
LEMMA MachineBill ==
    ASSUME TypeOK, TypeOK', BillInv, UNCHANGED <<prevNet, rounds, reads, measured, disordered>>,
           \A d \in Devices \ listed' : bytes'[d] = 0, NEW more \in [Devices -> Nat],
           \A d \in Devices : Counted(Present', d) <= Counted(Present, d) + more[d],
           carried' + moved' = carried + moved + SumOf(more, Devices)
    PROVE  BillInv'
<1>1. Nets' = Nets
  BY DEF Nets, rounds
<1>2. /\ Present \in Net /\ Present' \in Net /\ \A f \in Nets : f \in Net
      /\ SumOf(more, Devices) \in Nat /\ carried + moved \in Nat
  <2>1. Present \in Net /\ Present' \in Net /\ \A f \in Nets : f \in Net
    <3>1. Present' \in Net
      BY NextTyped
    <3> QED BY <3>1, NetsTyped
  <2>2. SumOf(more, Devices) \in Nat
    BY DeviceAssumption, SumNat
  <2> QED BY <2>1, <2>2 DEF TypeOK
<1>3. /\ Present.paid = carried + moved /\ Present'.paid = carried' + moved'
      /\ Present.nth = reads + 1 /\ Present'.nth = reads + 1
  BY DEF Present
<1>4. ASSUME NEW f \in Nets
      PROVE  f.paid + SumOf(Growth(f, Present'), Devices) <= Present'.paid
  <2>1. f.nth <= reads /\ f.nth \in Nat /\ f.paid \in Nat /\ reads \in Nat
    BY <1>2 DEF BillInv, TypeOK, Net
  <2>2. f # Present /\ f.nth <= Present.nth
    BY <1>3, <2>1
  <2>3. f.paid + SumOf(Growth(f, Present), Devices) <= Present.paid
    BY <2>2 DEF BillInv, Shown
  <2>4. SumOf(Growth(f, Present'), Devices)
            <= SumOf(Growth(f, Present), Devices) + SumOf(more, Devices)
    BY <1>2, GrowthGrows
  <2>5. SumOf(Growth(f, Present'), Devices) \in Nat /\ SumOf(Growth(f, Present), Devices) \in Nat
    BY <1>2, GrowthNat
  <2> QED BY <1>2, <1>3, <2>1, <2>3, <2>4, <2>5
<1>5. \A f \in Nets', g \in Shown' :
          f # g /\ f.nth <= g.nth => f.paid + SumOf(Growth(f, g), Devices) <= g.paid
  BY <1>1, <1>4 DEF BillInv, Shown
<1>6. ~disordered' => \A f \in Shown' : prevNet'.nth <= f.nth => measured' <= f.paid
  <2> SUFFICES ASSUME ~disordered, NEW f \in Shown', prevNet.nth <= f.nth
               PROVE  measured <= f.paid
    OBVIOUS
  <2>1. CASE f \in Nets
    BY <2>1 DEF BillInv, Shown
  <2>2. CASE f = Present'
    <3>1. measured <= Present.paid
      BY <1>3, <2>2 DEF BillInv, Shown
    <3>2. measured \in Nat
      BY DEF TypeOK
    <3> QED BY <1>2, <1>3, <2>2, <3>1, <3>2
  <2> QED BY <1>1, <2>1, <2>2 DEF Shown
<1>7. \A r \in Rounds : pc'[r] \in {"cpu", "net"} => job'[r].net.known
  BY DEF BillInv, rounds
<1>8. prevNet'.nth <= reads' /\ \A f \in Nets' : f.nth <= reads'
  BY <1>1 DEF BillInv
<1> QED BY <1>5, <1>6, <1>7, <1>8 DEF BillInv

LEMMA TickBill == TypeOK /\ TypeOK' /\ BillInv /\ Tick => BillInv'
<1> SUFFICES ASSUME TypeOK, TypeOK', BillInv, Tick PROVE BillInv'
  OBVIOUS
<1>1. PICK load \in Loads :
          /\ bytes' = [d \in Devices |->
                IF d \in listed THEN bytes[d] + load.bytes[d] ELSE bytes[d]]
          /\ carried' = carried + SumOf(load.bytes, listed)
  BY DEF Tick
<1>2. /\ load.bytes \in [Devices -> Nat] /\ bytes \in [Devices -> Nat]
      /\ listed \subseteq Devices /\ listed' = listed /\ moved' = moved
  BY LoadAssumption DEF Tick, TypeOK, MachineTypeOK
<1> DEFINE more == [d \in Devices |-> IF d \in listed THEN load.bytes[d] ELSE 0]
<1>3. more \in [Devices -> Nat]
  BY <1>2
<1>4. SumOf(more, Devices) = SumOf(load.bytes, listed)
  <2>1. /\ \A d \in listed : load.bytes[d] = more[d] /\ more[d] \in Nat
        /\ \A d \in Devices \ listed : more[d] = 0
    BY <1>2
  <2> HIDE DEF more
  <2> QED BY <1>2, <2>1, DeviceAssumption, SumWithin
<1>5. \A d \in Devices : Counted(Present', d) <= Counted(Present, d) + more[d]
  <2> SUFFICES ASSUME NEW d \in Devices
               PROVE  Counted(Present', d) <= Counted(Present, d) + more[d]
    OBVIOUS
  <2>1. CASE d \in listed
    <3>1. Counted(Present', d) = bytes[d] + load.bytes[d] /\ Counted(Present, d) = bytes[d]
      BY <1>1, <1>2, <2>1 DEF Counted, Present
    <3> QED BY <1>2, <2>1, <3>1
  <2>2. CASE d \notin listed
    BY <1>2, <2>2 DEF Counted, Present
  <2> QED BY <2>1, <2>2
<1>6. \A d \in Devices \ listed' : bytes'[d] = 0
  BY <1>1, <1>2 DEF BillInv
<1>7. UNCHANGED <<prevNet, rounds, reads, measured, disordered>>
  BY DEF Tick, process, counts
<1> HIDE DEF more
<1>8. carried' + moved' = carried + moved + SumOf(more, Devices)
  <2>1. SumOf(more, Devices) \in Nat
    BY <1>3, DeviceAssumption, SumNat
  <2> QED BY <1>1, <1>2, <1>4, <2>1 DEF TypeOK
<1> QED BY <1>3, <1>5, <1>6, <1>7, <1>8, MachineBill

(* Counters that start again, and a device that comes or goes.             *)
LEMMA PlugBill ==
    ASSUME TypeOK, TypeOK', BillInv,
           Reboot \/ \E d \in Devices : PlugIn(d) \/ Unplug(d)
    PROVE  BillInv'
<1> DEFINE more == [d \in Devices |-> 0]
<1>1. SumOf(more, Devices) = 0
  BY SumZero
<1>2. UNCHANGED <<prevNet, rounds, reads, measured, disordered>> /\ carried' + moved' = carried + moved
  BY DEF Reboot, PlugIn, Unplug, process, counts, account
<1>3. bytes \in [Devices -> Nat] /\ listed \subseteq Devices /\ \A d \in Devices \ listed : bytes[d] = 0
  BY DEF TypeOK, MachineTypeOK, BillInv
<1>4. /\ \A d \in Devices \ listed' : bytes'[d] = 0
      /\ \A d \in Devices : Counted(Present', d) <= Counted(Present, d) + more[d]
  <2>1. CASE Reboot
    BY <1>3, <2>1 DEF Reboot, Counted, Present
  <2>2. ASSUME NEW d \in Devices, PlugIn(d)
        PROVE  <1>4!1 /\ <1>4!2
    BY <1>3, <2>2 DEF PlugIn, Counted, Present
  <2>3. ASSUME NEW d \in Devices, Unplug(d)
        PROVE  <1>4!1 /\ <1>4!2
    BY <1>3, <2>3 DEF Unplug, Counted, Present
  <2> QED BY <2>1, <2>2, <2>3
<1>5. more \in [Devices -> Nat]
  OBVIOUS
<1> HIDE DEF more
<1>6. carried' + moved' = carried + moved + SumOf(more, Devices)
  <2>1. carried \in Nat /\ moved \in Nat
    BY DEF TypeOK
  <2> QED BY <1>1, <1>2, <2>1
<1> QED BY <1>2, <1>4, <1>5, <1>6, MachineBill

(* The new name counts what the old one has counted.                       *)
LEMMA RenameBill ==
    ASSUME TypeOK, TypeOK', BillInv, NEW d \in Devices, NEW e \in Devices, Rename(d, e)
    PROVE  BillInv'
<1> DEFINE more == [x \in Devices |-> IF x = e THEN bytes[d] ELSE 0]
<1>1. /\ d \in listed /\ e \notin listed /\ listed' = (listed \ {d}) \cup {e}
      /\ bytes' = [bytes EXCEPT ![d] = 0, ![e] = bytes[d]] /\ moved' = moved + bytes[d]
      /\ UNCHANGED <<prevNet, rounds, reads, measured, disordered, carried>>
  BY DEF Rename, process, counts
<1>2. bytes \in [Devices -> Nat] /\ listed \subseteq Devices /\ \A x \in Devices \ listed : bytes[x] = 0
  BY DEF TypeOK, MachineTypeOK, BillInv
<1>3. more \in [Devices -> Nat] /\ more[e] = bytes[d] /\ \A x \in Devices \ {e} : more[x] = 0
  BY <1>2
<1> HIDE DEF more
<1>4. SumOf(more, Devices) = bytes[d]
  <2>1. SumOf(more, Devices) = SumOf(more, {e})
    BY <1>3, DeviceAssumption, SumWithin
  <2>2. SumOf(more, {e}) = more[e] + SumOf(more, {e} \ {e})
    BY <1>3, FS_Singleton, SumRemove
  <2>3. SumOf(more, {e} \ {e}) = 0
    BY FS_EmptySet, SumEquation
  <2> QED BY <1>2, <1>3, <2>1, <2>2, <2>3
<1>5. \A x \in Devices \ listed' : bytes'[x] = 0
  BY <1>1, <1>2
<1>6. \A x \in Devices : Counted(Present', x) <= Counted(Present, x) + more[x]
  <2> SUFFICES ASSUME NEW x \in Devices
               PROVE  Counted(Present', x) <= Counted(Present, x) + more[x]
    OBVIOUS
  <2>1. CASE x = e
    BY <1>1, <1>2, <1>3, <2>1 DEF Counted, Present
  <2>2. CASE x # e
    BY <1>1, <1>2, <1>3, <2>2 DEF Counted, Present
  <2> QED BY <2>1, <2>2
<1>7. carried' + moved' = carried + moved + SumOf(more, Devices)
  BY <1>1, <1>2, <1>4 DEF TypeOK
<1> QED BY <1>1, <1>3, <1>5, <1>6, <1>7, MachineBill

(* A frame shows what the machine has, and the next one will be later.     *)
LEMMA ReadFrameBill ==
    ASSUME TypeOK, TypeOK', BillInv, NEW r \in Rounds, NEW slowRound \in BOOLEAN,
           ReadFrame(r, slowRound)
    PROVE  BillInv'
<1>1. PICK stat : job' = [job EXCEPT ![r] =
          [NoJob EXCEPT !.slowRound = slowRound, !.readAt = now, !.stat = stat, !.net = Present]]
  BY DEF ReadFrame
<1>2. /\ UNCHANGED <<machine, prevNet, carried, moved, measured, disordered>>
      /\ reads' = reads + 1 /\ pc' = [pc EXCEPT ![r] = "cpu"]
  BY DEF ReadFrame, process, account
<1>3. job'[r].net = Present /\ \A q \in Rounds \ {r} : job'[q] = job[q] /\ pc'[q] = pc[q]
  BY <1>1, <1>2, NetsTyped DEF NoJob
<1>4. /\ Present'.nth = reads + 2 /\ Present'.paid = Present.paid
      /\ Present'.listed = Present.listed /\ Present'.bytes = Present.bytes
  <2>1. reads' + 1 = reads + 2
    BY <1>2 DEF TypeOK
  <2> QED BY <1>2, <2>1 DEF Present, machine
<1>5. \A f \in Nets' : f \in Nets \/ f = Present
  BY <1>2, <1>3, NetsAre
<1>6. /\ Present \in Net /\ Present' \in Net /\ \A f \in Nets : f \in Net /\ f.nth <= reads
      /\ Present.nth = reads + 1 /\ Present'.nth = reads + 2 /\ Present'.paid = Present.paid
      /\ Present.known /\ reads \in Nat
  <2>1. Present \in Net /\ Present.nth = reads + 1 /\ Present.known /\ reads \in Nat
    BY NetsTyped DEF Present, TypeOK
  <2>2. Present' \in Net
    BY NextTyped
  <2> QED BY <1>4, <2>1, <2>2, NetsTyped DEF BillInv
<1>7. \A f : Growth(f, Present') = Growth(f, Present)
  BY <1>4 DEF Growth, Counted
<1>8. SumOf(Growth(Present, Present), Devices) = 0
  <2>1. \A d \in Devices : Growth(Present, Present)[d] = 0
    <3> TAKE d \in Devices
    <3>1. Counted(Present, d) \in Nat
      BY <1>6, CountedNat
    <3> QED BY <3>1 DEF Growth
  <2> QED BY <2>1, SumZero
<1>9. ASSUME NEW f \in Nets', NEW g \in Shown', f # g, f.nth <= g.nth
      PROVE  f.paid + SumOf(Growth(f, g), Devices) <= g.paid
  <2>1. f \in Nets \/ f = Present
    BY <1>5
  <2>2. g \in Nets \/ g = Present \/ g = Present'
    BY <1>5 DEF Shown
  <2>3. CASE f \in Nets /\ g \in Nets
    BY <1>9, <2>3 DEF BillInv, Shown
  <2>4. CASE f \in Nets /\ g = Present
    BY <1>9, <2>4 DEF BillInv, Shown
  <2>5. CASE f \in Nets /\ g = Present'
    <3>1. f # Present /\ f.nth <= Present.nth
      <4>1. f.nth \in Nat /\ f.nth <= reads
        BY <1>6, <2>5 DEF Net
      <4> QED BY <1>6, <4>1
    <3>2. f.paid + SumOf(Growth(f, Present), Devices) <= Present.paid
      BY <2>5, <3>1 DEF BillInv, Shown
    <3> QED BY <1>6, <1>7, <2>5, <3>2
  <2>6. CASE f = Present /\ g \in Nets
    <3>1. g.nth \in Nat /\ g.nth <= reads
      BY <1>6, <2>6 DEF Net
    <3> QED BY <1>6, <1>9, <2>6, <3>1
  <2>7. CASE f = Present /\ g = Present'
    <3>1. SumOf(Growth(f, g), Devices) = 0 /\ f.paid = g.paid /\ f.paid \in Nat
      BY <1>6, <1>7, <1>8, <2>7 DEF Net
    <3> QED BY <3>1
  <2> QED BY <1>9, <2>1, <2>2, <2>3, <2>4, <2>5, <2>6, <2>7
<1>10. ASSUME ~disordered', NEW f \in Shown', prevNet'.nth <= f.nth
       PROVE  measured' <= f.paid
  <2>1. prevNet' = prevNet /\ measured' = measured /\ ~disordered
    BY <1>2, <1>10
  <2>2. CASE f \in Nets \/ f = Present
    BY <1>10, <2>1, <2>2 DEF BillInv, Shown
  <2>3. CASE f = Present'
    <3>1. prevNet.nth <= Present.nth
      <4>1. prevNet.nth <= reads /\ prevNet.nth \in Nat
        BY NetsTyped DEF BillInv, Net
      <4> QED BY <1>6, <4>1
    <3>2. measured <= Present.paid
      BY <2>1, <3>1 DEF BillInv, Shown
    <3> QED BY <1>6, <2>1, <2>3, <3>2
  <2> QED BY <1>5, <2>2, <2>3 DEF Shown
<1>11. \A d \in Devices \ listed' : bytes'[d] = 0
  BY <1>2 DEF machine, BillInv
<1>12. \A q \in Rounds : pc'[q] \in {"cpu", "net"} => job'[q].net.known
  BY <1>3, <1>6 DEF BillInv
<1>13. prevNet'.nth <= reads' /\ \A f \in Nets' : f.nth <= reads'
  <2>1. prevNet.nth <= reads /\ prevNet.nth \in Nat
    BY NetsTyped DEF BillInv, Net
  <2>2. \A f \in Nets' : f.nth \in Nat /\ f.nth <= reads + 1
    BY <1>5, <1>6 DEF Net
  <2> QED BY <1>2, <1>6, <2>1, <2>2
<1> QED BY <1>9, <1>10, <1>11, <1>12, <1>13 DEF BillInv

(* A step that leaves the account alone, and forgets frames at most.       *)
LEMMA FewerNets ==
    ASSUME BillInv, UNCHANGED <<listed, bytes, reads, carried, moved, measured, disordered>>,
           prevNet' = prevNet, \A q \in Rounds : job'[q].net = job[q].net \/ ~job'[q].net.known,
           \A q \in Rounds : pc'[q] \in {"cpu", "net"} =>
               pc[q] \in {"cpu", "net"} /\ job'[q].net = job[q].net
    PROVE  BillInv'
<1>1. Nets' \subseteq Nets
  BY NetsAre
<1>2. Present' = Present
  BY DEF Present
<1>3. Shown' \subseteq Shown
  BY <1>1, <1>2 DEF Shown
<1> QED BY <1>1, <1>3 DEF BillInv

(* In its turn, a frame is compared with one that was paid for: the rate   *)
(* is what has been paid for since, at most.                               *)
LEMMA NetRatesBill ==
    ASSUME TypeOK, BillInv, NEW r \in Rounds, netRates(r)
    PROVE  BillInv'
<1> DEFINE g == job[r].net
<1>1. /\ pc[r] = "net" /\ prevNet' = g /\ measured' = measured + NetRate(prevNet, g)
      /\ disordered' = (disordered \/ g.nth < prevNet.nth)
      /\ job' = [job EXCEPT ![r].net = NoNet]
      /\ UNCHANGED <<listed, bytes, reads, carried, moved>>
  BY DEF netRates, machine, counts
<1>2. /\ job'[r].net = NoNet /\ pc'[r] \notin {"cpu", "net"}
      /\ \A q \in Rounds \ {r} : job'[q] = job[q] /\ pc'[q] = pc[q]
  <2>1. job[r] \in Job
    BY NetsTyped
  <2> QED BY <1>1, <2>1, NetsTyped DEF netRates, Job
<1>3. g \in Nets /\ ~NoNet.known
  BY <1>1, NetsAre DEF BillInv, NoNet
<1>4. Nets' \subseteq Nets /\ Present' = Present
  BY <1>1, <1>2, <1>3, NetsAre DEF Present
<1>5. Shown' \subseteq Shown
  BY <1>4 DEF Shown
<1>6. g \in Net /\ prevNet \in Net /\ \A f \in Shown : f \in Net
  BY <1>3, NetsTyped DEF Shown
<1> HIDE DEF g
<1>7. ASSUME ~disordered'
      PROVE  measured' <= g.paid
  <2>1. ~disordered /\ prevNet.nth <= g.nth
    <3>1. ~disordered /\ ~(g.nth < prevNet.nth)
      BY <1>1, <1>7
    <3>2. g.nth \in Nat /\ prevNet.nth \in Nat
      BY <1>6 DEF Net
    <3> QED BY <3>1, <3>2
  <2>2. measured <= g.paid
    BY <1>3, <2>1 DEF BillInv, Shown
  <2>3. CASE ~prevNet.known
    <3>1. NetRate(prevNet, g) = 0
      BY <2>3 DEF NetRate
    <3> QED BY <1>1, <2>2, <3>1 DEF TypeOK
  <2>4. CASE prevNet = g
    <3>1. NetRate(g, g) = 0
      <4>1. SumOf(Growth(g, g), Devices) = 0
        <5>1. \A d \in Devices : Growth(g, g)[d] = 0
          <6> TAKE d \in Devices
          <6>1. Counted(g, d) \in Nat
            BY <1>6, CountedNat
          <6> QED BY <6>1 DEF Growth
        <5> QED BY <5>1, SumZero
      <4>2. NetRate(g, g) <= SumOf(Growth(g, g), Devices) /\ NetRate(g, g) \in Nat
        BY <1>6, RateIsGrowth, RateIsNat
      <4> QED BY <4>1, <4>2
    <3> QED BY <1>1, <2>2, <2>4, <3>1 DEF TypeOK
  <2>5. CASE prevNet.known /\ prevNet # g
    <3>1. prevNet \in Nets
      BY <2>5, NetsAre
    <3>2. prevNet.paid + SumOf(Growth(prevNet, g), Devices) <= g.paid
      BY <1>3, <2>1, <2>5, <3>1 DEF BillInv, Shown
    <3>3. measured <= prevNet.paid
      <4>1. prevNet.nth <= prevNet.nth
        BY <1>6 DEF Net
      <4> QED BY <2>1, <3>1, <4>1 DEF BillInv, Shown
    <3>4. NetRate(prevNet, g) <= SumOf(Growth(prevNet, g), Devices)
      BY <1>6, RateIsGrowth
    <3>5. /\ NetRate(prevNet, g) \in Nat /\ SumOf(Growth(prevNet, g), Devices) \in Nat
          /\ prevNet.paid \in Nat /\ g.paid \in Nat /\ measured \in Nat
      BY <1>6, RateIsNat, GrowthNat DEF Net, TypeOK
    <3> QED BY <1>1, <3>2, <3>3, <3>4, <3>5
  <2> QED BY <2>3, <2>4, <2>5
<1>8. ASSUME ~disordered', NEW f \in Shown', prevNet'.nth <= f.nth
      PROVE  measured' <= f.paid
  <2>1. CASE f = g
    BY <1>7, <1>8, <2>1
  <2>2. CASE f # g
    <3>1. g.paid + SumOf(Growth(g, f), Devices) <= f.paid
      BY <1>1, <1>3, <1>5, <1>8, <2>2 DEF BillInv
    <3>2. SumOf(Growth(g, f), Devices) \in Nat /\ g.paid \in Nat /\ f.paid \in Nat
      BY <1>5, <1>6, GrowthNat DEF Net
    <3>3. measured' \in Nat
      BY <1>1, <1>6, RateIsNat DEF TypeOK
    <3> QED BY <1>7, <1>8, <3>1, <3>2, <3>3
  <2> QED BY <2>1, <2>2
<1>9. \A f \in Nets', h \in Shown' :
          f # h /\ f.nth <= h.nth => f.paid + SumOf(Growth(f, h), Devices) <= h.paid
  BY <1>4, <1>5 DEF BillInv
<1>10. \A d \in Devices \ listed' : bytes'[d] = 0
  BY <1>1 DEF BillInv
<1>11. \A q \in Rounds : pc'[q] \in {"cpu", "net"} => job'[q].net.known
  BY <1>2 DEF BillInv
<1>12. prevNet'.nth <= reads' /\ \A f \in Nets' : f.nth <= reads'
  BY <1>1, <1>3, <1>4 DEF BillInv
<1> QED BY <1>8, <1>9, <1>10, <1>11, <1>12 DEF BillInv

LEMMA DownBill == TypeOK /\ BillInv /\ Down => BillInv'
<1> SUFFICES ASSUME TypeOK, BillInv, Down PROVE BillInv'
  OBVIOUS
<1>1. /\ prevNet' = NoNet /\ \A r \in Rounds : pc'[r] = "idle" /\ job'[r] = NoJob
      /\ UNCHANGED <<listed, bytes, reads, carried, moved, measured, disordered>>
  BY DEF Down, machine, counts, account
<1>2. Nets' = {}
  <2>1. ~NoNet.known /\ ~NoJob.net.known
    BY DEF NoNet, NoJob
  <2> QED BY <1>1, <2>1, NetsAre
<1>3. Shown' = {Present} /\ Present' = Present
  BY <1>1, <1>2 DEF Shown, Present
<1>4. ~disordered => measured <= Present.paid
  <2>1. prevNet.nth <= Present.nth
    <3>1. prevNet.nth \in Nat /\ reads \in Nat /\ prevNet.nth <= reads
      BY NetsTyped DEF BillInv, Net, TypeOK
    <3> QED BY <3>1 DEF Present
  <2> QED BY <2>1 DEF BillInv, Shown
<1>5. prevNet'.nth = 0 /\ reads \in Nat
  BY <1>1 DEF NoNet, TypeOK
<1> QED BY <1>1, <1>2, <1>3, <1>4, <1>5 DEF BillInv

LEMMA NextBill == TypeOK /\ TypeOK' /\ BillInv /\ [Next]_vars => BillInv'
<1> SUFFICES ASSUME TypeOK, TypeOK', BillInv, [Next]_vars PROVE BillInv'
  OBVIOUS
<1>1. CASE Tick
  BY <1>1, TickBill
<1>2. CASE Reboot
  BY <1>2, PlugBill
<1>3. ASSUME NEW d \in Devices, PlugIn(d) \/ Unplug(d) \/ \E e \in Devices : Rename(d, e)
      PROVE  BillInv'
  BY <1>3, PlugBill, RenameBill
<1>4. ASSUME NEW r \in Rounds, NEW slowRound \in BOOLEAN, ReadFrame(r, slowRound)
      PROVE  BillInv'
  BY <1>4, ReadFrameBill
<1>5. ASSUME NEW r \in Rounds, netRates(r)
      PROVE  BillInv'
  BY <1>5, NetRatesBill
<1>6. ASSUME NEW r \in Rounds,
             cpuPct(r) \/ ReadSlow(r) \/ Merge(r) \/ MergeFails(r) \/ Save(r) \/ SaveFails(r)
      PROVE  BillInv'
  <2>1. /\ UNCHANGED <<listed, bytes, reads, carried, moved, measured, disordered>>
        /\ prevNet' = prevNet
    BY <1>6 DEF cpuPct, ReadSlow, Merge, MergeFails, Save, SaveFails, machine, process, counts, account
  <2>2. /\ pc'[r] \in {"cpu", "net"} => pc[r] \in {"cpu", "net"}
        /\ \A q \in Rounds \ {r} : pc'[q] = pc[q] /\ job'[q] = job[q]
    BY <1>6, NetsTyped DEF cpuPct, ReadSlow, Merge, MergeFails, Save, SaveFails, EndRound
  <2>3. \/ job'[r].net = job[r].net
        \/ job'[r].net = NoNet /\ pc'[r] = "idle"
    <3>1. job[r] \in Job
      BY NetsTyped
    <3>2. CASE cpuPct(r)
      <4>1. PICK cpu, torn : job' = [job EXCEPT ![r].stat = NoStat, ![r].cpu = cpu, ![r].torn = torn]
        BY <3>2 DEF cpuPct
      <4> QED BY <3>1, <4>1, NetsTyped DEF Job
    <3>3. CASE ReadSlow(r) \/ Merge(r) \/ MergeFails(r)
      BY <3>1, <3>3, NetsTyped DEF ReadSlow, Merge, MergeFails, Job
    <3>4. CASE Save(r) \/ SaveFails(r)
      BY <3>4, NetsTyped DEF Save, SaveFails, EndRound, NoJob
    <3> QED BY <1>6, <3>2, <3>3, <3>4
  <2>4. ~NoNet.known
    BY DEF NoNet
  <2>5. \A q \in Rounds : job'[q].net = job[q].net \/ ~job'[q].net.known
    BY <2>2, <2>3, <2>4
  <2>6. \A q \in Rounds : pc'[q] \in {"cpu", "net"} =>
               pc[q] \in {"cpu", "net"} /\ job'[q].net = job[q].net
    BY <2>2, <2>3
  <2> QED BY <2>1, <2>5, <2>6, FewerNets
<1>7. CASE Down
  BY <1>7, DownBill
<1>8. CASE Start \/ UNCHANGED vars
  <2>1. UNCHANGED <<listed, bytes, reads, carried, moved, measured, disordered, prevNet, pc, job>>
    BY <1>8 DEF Start, vars, machine, process, rounds, counts, account
  <2> QED BY <2>1, FewerNets
<1> QED BY <1>1, <1>2, <1>3, <1>4, <1>5, <1>6, <1>7, <1>8 DEF Next, collect

(* The inductive invariant holds in every state that the rounds of a       *)
(* machine, alone or beside each other, can reach (collector.go:143).      *)
THEOREM Invariance == Spec => []IInv
<1>1. Init => IInv
  BY InitReading, InitKept, InitBill DEF IInv
<1>2. IInv /\ [Next]_vars => IInv'
  <2> SUFFICES ASSUME IInv, [Next]_vars PROVE IInv'
    OBVIOUS
  <2>1. ReadingInv' /\ TypeOK /\ TypeOK'
    BY NextReading DEF IInv, ReadingInv
  <2> QED BY <2>1, NextKept, NextBill DEF IInv
<1> QED BY <1>1, <1>2, PTL DEF Spec

(* A CPU usage that is not from frames of two boots is a percentage or     *)
(* missing, in whatever order rounds exchange their frames                 *)
(* (collector.go:252).                                                     *)
THEOREM UsageIsPercentage == Spec => []CpuInRange
<1>1. IInv => CpuInRange
  BY DEF IInv, ReadingInv
<1> QED BY <1>1, Invariance, PTL

(* Data that the health check does not call old was read within the limit  *)
(* and the length of one round, which Tick assumes to be bounded,          *)
(* whichever round has saved last (health.go:78).                          *)
THEOREM FreshnessHonest == Spec => []FreshOrWarned
<1>1. IInv => FreshOrWarned
  <2> SUFFICES ASSUME IInv, NEW th \in Settings, AgePoints(th, now - snap.at) = 0
               PROVE  now - snap.readAt <= th.snapshotMaxAge + SessionTicks
    BY DEF FreshOrWarned
  <2>1. /\ now \in Nat /\ snap.at \in Nat /\ snap.readAt \in Nat
        /\ SessionTicks \in Nat /\ th.snapshotMaxAge \in Nat
    BY TelemetryBounds, SettingsAssumption
       DEF IInv, ReadingInv, TypeOK, MachineTypeOK, ProcessTypeOK, Snapshot, Thresholds, Limits
  <2>2. ~(now - snap.at > th.snapshotMaxAge)
    BY DEF AgePoints, Judge
  <2>3. now - snap.at <= th.snapshotMaxAge
    BY <2>1, <2>2
  <2> QED BY <2>1, <2>3 DEF IInv, ReadingInv, ClockInv
<1> QED BY <1>1, Invariance, PTL

(* As long as no round applies its frame after a later one, the rates of a *)
(* machine never add up to more than its devices have carried and renamed  *)
(* devices have taken along (collector.go:263).                            *)
THEOREM RatesArePaid == Spec => []NetNeverOvercounts
<1>1. IInv => NetNeverOvercounts
  <2> SUFFICES ASSUME IInv, ~disordered PROVE measured <= carried + moved
    BY DEF NetNeverOvercounts
  <2>1. prevNet.nth \in Nat /\ reads \in Nat /\ prevNet.nth <= reads
    BY NetsTyped DEF IInv, ReadingInv, BillInv, Net, TypeOK
  <2>2. prevNet.nth <= Present.nth /\ Present.paid = carried + moved
    BY <2>1 DEF Present
  <2> QED BY <2>2 DEF IInv, BillInv, Shown
<1> QED BY <1>1, Invariance, PTL

(* Slow data goes back only by a round that had another one beside it, or  *)
(* could not read the snapshot (collector.go:201).                         *)
THEOREM SlowDataStays == Spec => SlowDataKeptAlone
<1>1. IInv /\ [Next]_vars =>
          [\A r \in Rounds : pc[r] = "save" /\ snap'.got < snap.got => r \in company]_snap
  <2> SUFFICES ASSUME IInv, [Next]_vars, NEW r \in Rounds, pc[r] = "save", snap'.got < snap.got,
                      snap' # snap
               PROVE  r \in company
    OBVIOUS
  <2>1. PICK q \in Rounds : Save(q)
    BY DEF Next, collect, Tick, Reboot, PlugIn, Unplug, Rename, ReadFrame, cpuPct, netRates,
           ReadSlow, Merge, MergeFails, SaveFails, Down, Start, vars
  <2>2. pc[q] = "save" /\ snap'.got = job[q].got
    BY <2>1 DEF Save
  <2>3. q \in Under /\ r \in Under
    BY <2>2 DEF Under
  <2>4. CASE q # r
    BY <2>3, <2>4 DEF IInv, KeptInv
  <2>5. CASE q = r
    <3>1. ~(snap.got <= job[r].got)
      BY <2>2, <2>5, GotTyped DEF IInv, ReadingInv
    <3> QED BY <2>3, <3>1 DEF IInv, KeptInv
  <2> QED BY <2>4, <2>5
<1> QED BY <1>1, Invariance, PTL DEF Spec, SlowDataKeptAlone

-----------------------------------------------------------------------------
(* The score *)

Costs == {0, 3, 10}

(* A failure is a warning and seven points more.                           *)
LEMMA WeighMonotone ==
    ASSUME NEW S, IsFiniteSet(S), NEW p \in [S -> Costs], NEW q \in [S -> Costs],
           \A x \in S : p[x] <= q[x]
    PROVE  Weigh(p) \in Nat /\ Weigh(q) \in Nat /\ Weigh(p) <= Weigh(q)
<1> DEFINE Fails(c) == {x \in S : c[x] = 10}
           Warns(c) == {x \in S : c[x] = 3}
           Items(c) == {x \in S : c[x] # 0}
<1>1. ASSUME NEW c \in [S -> Costs]
      PROVE  /\ Cardinality(Fails(c)) \in Nat /\ Cardinality(Warns(c)) \in Nat
             /\ Weigh(c) = 7 * Cardinality(Fails(c)) + 3 * Cardinality(Items(c))
             /\ IsFiniteSet(Fails(c)) /\ IsFiniteSet(Items(c))
             /\ Cardinality(Items(c)) \in Nat
  <2>1. IsFiniteSet(Fails(c)) /\ IsFiniteSet(Warns(c)) /\ IsFiniteSet(Items(c))
    BY FS_Subset
  <2>2. Fails(c) \cap Warns(c) = {} /\ Fails(c) \cup Warns(c) = Items(c)
    BY DEF Costs
  <2> HIDE DEF Fails, Warns, Items
  <2>3. /\ Cardinality(Fails(c)) \in Nat /\ Cardinality(Warns(c)) \in Nat
        /\ Cardinality(Items(c)) \in Nat
    BY <2>1, FS_CardinalityType
  <2>4. Cardinality(Items(c)) = Cardinality(Fails(c)) + Cardinality(Warns(c))
    <3>1. Cardinality(Fails(c) \cap Warns(c)) = 0
      BY <2>2, FS_EmptySet
    <3>2. Cardinality(Fails(c) \cup Warns(c)) =
             Cardinality(Fails(c)) + Cardinality(Warns(c)) - Cardinality(Fails(c) \cap Warns(c))
      BY <2>1, FS_Union
    <3> QED BY <2>2, <2>3, <3>1, <3>2
  <2>5. Weigh(c) = 10 * Cardinality(Fails(c)) + 3 * Cardinality(Warns(c))
    BY DEF Weigh, Fails, Warns
  <2> QED BY <2>1, <2>3, <2>4, <2>5
<1>2. Fails(p) \subseteq Fails(q) /\ Items(p) \subseteq Items(q)
  BY DEF Costs
<1> HIDE DEF Fails, Warns, Items
<1>3. Cardinality(Fails(p)) <= Cardinality(Fails(q)) /\ Cardinality(Items(p)) <= Cardinality(Items(q))
  BY <1>1, <1>2, FS_Subset
<1> QED BY <1>1, <1>3

(* What no reading of w is better than in s says, part by part.            *)
FastNoBetter(s, w) ==
    /\ w.cores = s.cores /\ w.memTotal = s.memTotal
    /\ s.load <= w.load /\ w.memAvail <= s.memAvail
    /\ \A m \in Mounts : s.disk[m] <= w.disk[m]

GPUNoBetter(s, w) ==
    /\ w.present = s.present /\ w.memTotal = s.memTotal
    /\ s.temp <= w.temp /\ s.memUsed <= w.memUsed

ItemNoBetter(s, w) ==
    /\ w.listed = s.listed /\ w.installed = s.installed
    /\ w.active = s.active \/ w.active = FALSE
    /\ w.days = s.days \/ (0 <= s.days /\ s.days <= w.days)

NoBetter(s, w) ==
    /\ w.cpu = s.cpu \/ (0 <= s.cpu /\ s.cpu <= w.cpu)
    /\ w.tunnelUp = s.tunnelUp \/ w.tunnelUp = FALSE
    /\ FastNoBetter(s.fast, w.fast)
    /\ GPUNoBetter(s.slow.gpu, w.slow.gpu)
    /\ \A t \in Tools : ItemNoBetter(s.slow.security[t], w.slow.security[t])

LEMMA LimitsAreNat == ASSUME NEW th \in Thresholds PROVE \A l \in Limits : th[l] \in Nat
  BY DEF Thresholds

LEMMA CPUPart ==
    ASSUME NEW th \in Thresholds, NEW c \in Int, NEW e \in Int,
           e = c \/ (0 <= c /\ c <= e)
    PROVE  /\ CPUPoints(th, c) \in Nat /\ CPUPoints(th, e) \in Nat
           /\ CPUPoints(th, c) <= CPUPoints(th, e)
<1>1. th["cpuFail"] \in Nat /\ th["cpuWarn"] \in Nat
  BY LimitsAreNat DEF Limits
<1> QED BY <1>1 DEF CPUPoints, Judge

LEMMA LoadPart ==
    ASSUME NEW s \in Fast, NEW w \in Fast, FastNoBetter(s, w)
    PROVE  LoadPoints(s) \in Nat /\ LoadPoints(w) \in Nat /\ LoadPoints(s) <= LoadPoints(w)
  BY DEF Fast, FastNoBetter, LoadPoints, Judge

LEMMA MemPart ==
    ASSUME NEW th \in Thresholds, NEW s \in Fast, NEW w \in Fast, FastNoBetter(s, w)
    PROVE  /\ MemPoints(th, s) \in Nat /\ MemPoints(th, w) \in Nat
           /\ MemPoints(th, s) <= MemPoints(th, w)
<1>1. th["memFail"] * s.memTotal \in Nat /\ th["memWarn"] * s.memTotal \in Nat
  BY LimitsAreNat DEF Limits, Fast
<1>2. 100 * (s.memTotal - s.memAvail) <= 100 * (w.memTotal - w.memAvail)
  BY DEF Fast, FastNoBetter
<1>3. w.memTotal = s.memTotal /\ s.memTotal \in Nat /\ s.memAvail \in Nat /\ w.memAvail \in Nat
  BY DEF Fast, FastNoBetter
<1> QED BY <1>1, <1>2, <1>3 DEF MemPoints, Judge

LEMMA DiskPart ==
    ASSUME NEW th \in Thresholds, NEW s \in Fast, NEW w \in Fast, FastNoBetter(s, w)
    PROVE  /\ DiskPoints(th, s) \in Nat /\ DiskPoints(th, w) \in Nat
           /\ DiskPoints(th, s) <= DiskPoints(th, w)
<1> DEFINE Cost(f) == [m \in Mounts |-> Judge(f.disk[m] >= th.diskFail, f.disk[m] >= th.diskWarn)]
<1>1. Cost(s) \in [Mounts -> Costs] /\ Cost(w) \in [Mounts -> Costs]
  BY DEF Judge, Costs
<1>2. th["diskFail"] \in Nat /\ th["diskWarn"] \in Nat
  BY LimitsAreNat DEF Limits
<1>3. \A m \in Mounts : s.disk[m] \in Int /\ w.disk[m] \in Int /\ s.disk[m] <= w.disk[m]
  BY DEF Fast, FastNoBetter
<1>4. \A m \in Mounts : Cost(s)[m] <= Cost(w)[m]
  BY <1>2, <1>3 DEF Judge
<1>5. DiskPoints(th, s) = Weigh(Cost(s)) /\ DiskPoints(th, w) = Weigh(Cost(w))
  BY DEF DiskPoints
<1> HIDE DEF Cost
<1> QED BY <1>1, <1>4, <1>5, SnapshotAssumption, WeighMonotone

LEMMA GPUPart ==
    ASSUME NEW th \in Thresholds, NEW s \in GPU, NEW w \in GPU, GPUNoBetter(s, w)
    PROVE  /\ GPUPoints(th, s) \in Nat /\ GPUPoints(th, w) \in Nat
           /\ GPUPoints(th, s) <= GPUPoints(th, w)
<1>1. th["gpuMemFail"] * s.memTotal \in Nat /\ th["gpuMemWarn"] * s.memTotal \in Nat
  BY LimitsAreNat DEF Limits, GPU
<1>2. th["gpuTempFail"] \in Nat /\ th["gpuTempWarn"] \in Nat
  BY LimitsAreNat DEF Limits
<1>3. /\ s.temp \in Nat /\ w.temp \in Nat /\ s.memUsed \in Nat /\ w.memUsed \in Nat
      /\ s.temp <= w.temp /\ s.memUsed <= w.memUsed /\ w.memTotal = s.memTotal
      /\ s.memTotal \in Nat /\ w.present = s.present
  BY DEF GPU, GPUNoBetter
<1> QED BY <1>1, <1>2, <1>3 DEF GPUPoints, Judge

LEMMA ItemPart ==
    ASSUME NEW th \in Thresholds, NEW t \in Tools, NEW s \in Item, NEW w \in Item,
           ItemNoBetter(s, w)
    PROVE  /\ ItemPoints(th, t, s) \in Costs /\ ItemPoints(th, t, w) \in Costs
           /\ ItemPoints(th, t, s) <= ItemPoints(th, t, w)
<1>1. th["clamDbMaxDays"] \in Nat
  BY LimitsAreNat DEF Limits
<1>2. s.days \in Int /\ w.days \in Int /\ (w.days = s.days \/ (0 <= s.days /\ s.days <= w.days))
  BY DEF Item, ItemNoBetter
<1>3. s.listed = w.listed /\ s.installed = w.installed /\ (~s.active => ~w.active)
  BY DEF Item, ItemNoBetter
<1> QED BY <1>1, <1>2, <1>3 DEF ItemPoints, Judge, Costs

LEMMA SecurityPart ==
    ASSUME NEW th \in Thresholds, NEW s \in [Tools -> Item], NEW w \in [Tools -> Item],
           \A t \in Tools : ItemNoBetter(s[t], w[t])
    PROVE  /\ SecurityPoints(th, s) \in Nat /\ SecurityPoints(th, w) \in Nat
           /\ SecurityPoints(th, s) <= SecurityPoints(th, w)
<1> DEFINE Cost(f) == [t \in Tools |-> ItemPoints(th, t, f[t])]
<1>1. /\ Cost(s) \in [Tools -> Costs] /\ Cost(w) \in [Tools -> Costs]
      /\ \A t \in Tools : Cost(s)[t] <= Cost(w)[t]
  BY ItemPart
<1>2. \A t \in Tools : s[t].listed = w[t].listed
  BY DEF ItemNoBetter
<1>3. /\ SecurityPoints(th, s) = IF \A t \in Tools : ~s[t].listed THEN 3 ELSE Weigh(Cost(s))
      /\ SecurityPoints(th, w) = IF \A t \in Tools : ~w[t].listed THEN 3 ELSE Weigh(Cost(w))
  BY DEF SecurityPoints
<1> HIDE DEF Cost
<1>4. Weigh(Cost(s)) \in Nat /\ Weigh(Cost(w)) \in Nat /\ Weigh(Cost(s)) <= Weigh(Cost(w))
  BY <1>1, SnapshotAssumption, WeighMonotone
<1>5. CASE \A t \in Tools : ~s[t].listed
  <2>1. \A t \in Tools : ~w[t].listed
    BY <1>2, <1>5
  <2> QED BY <1>3, <1>5, <2>1
<1>6. CASE ~(\A t \in Tools : ~s[t].listed)
  <2>1. ~(\A t \in Tools : ~w[t].listed)
    BY <1>2, <1>6
  <2> QED BY <1>3, <1>4, <1>6, <2>1
<1> QED BY <1>5, <1>6

(* Points add up, so that no part costs less for readings no better.       *)
LEMMA NoBetterScores ==
    ASSUME NEW th \in Thresholds, NEW s \in Contents, NEW w \in Contents, NoBetter(s, w),
           NEW age \in Nat
    PROVE  Score(th, w, age) <= Score(th, s, age)
<1>1. /\ s.cpu \in Int /\ w.cpu \in Int /\ s.fast \in Fast /\ w.fast \in Fast
      /\ s.slow.gpu \in GPU /\ w.slow.gpu \in GPU
      /\ s.slow.security \in [Tools -> Item] /\ w.slow.security \in [Tools -> Item]
  BY DEF Contents, Slow
<1>2. /\ CPUPoints(th, s.cpu) \in Nat /\ CPUPoints(th, w.cpu) \in Nat
      /\ CPUPoints(th, s.cpu) <= CPUPoints(th, w.cpu)
  BY <1>1, CPUPart DEF NoBetter
<1>3. /\ LoadPoints(s.fast) \in Nat /\ LoadPoints(w.fast) \in Nat
      /\ LoadPoints(s.fast) <= LoadPoints(w.fast)
  BY <1>1, LoadPart DEF NoBetter
<1>4. /\ MemPoints(th, s.fast) \in Nat /\ MemPoints(th, w.fast) \in Nat
      /\ MemPoints(th, s.fast) <= MemPoints(th, w.fast)
  BY <1>1, MemPart DEF NoBetter
<1>5. /\ DiskPoints(th, s.fast) \in Nat /\ DiskPoints(th, w.fast) \in Nat
      /\ DiskPoints(th, s.fast) <= DiskPoints(th, w.fast)
  BY <1>1, DiskPart DEF NoBetter
<1>6. /\ GPUPoints(th, s.slow.gpu) \in Nat /\ GPUPoints(th, w.slow.gpu) \in Nat
      /\ GPUPoints(th, s.slow.gpu) <= GPUPoints(th, w.slow.gpu)
  BY <1>1, GPUPart DEF NoBetter
<1>7. /\ SecurityPoints(th, s.slow.security) \in Nat /\ SecurityPoints(th, w.slow.security) \in Nat
      /\ SecurityPoints(th, s.slow.security) <= SecurityPoints(th, w.slow.security)
  BY <1>1, SecurityPart DEF NoBetter
<1>8. /\ TunnelPoints(s.tunnelUp) \in Nat /\ TunnelPoints(w.tunnelUp) \in Nat
      /\ TunnelPoints(s.tunnelUp) <= TunnelPoints(w.tunnelUp)
  BY DEF NoBetter, TunnelPoints, Judge
<1>9. AgePoints(th, age) \in Nat
  BY DEF AgePoints, Judge
<1>10. Points(th, s, age) \in Nat /\ Points(th, w, age) \in Nat /\ Points(th, s, age) <= Points(th, w, age)
  BY <1>2, <1>3, <1>4, <1>5, <1>6, <1>7, <1>8, <1>9 DEF Points
<1> QED BY <1>10 DEF Score

LEMMA NothingBetter ==
    ASSUME NEW s \in Contents
    PROVE  /\ FastNoBetter(s.fast, s.fast) /\ GPUNoBetter(s.slow.gpu, s.slow.gpu)
           /\ \A t \in Tools : ItemNoBetter(s.slow.security[t], s.slow.security[t])
  BY DEF Contents, Fast, Slow, GPU, FastNoBetter, GPUNoBetter, ItemNoBetter

(* What a worse snapshot is: one reading changes, for the worse.           *)
LEMMA WorseNoBetter ==
    ASSUME NEW s \in Contents, NEW d \in Nat, NEW w \in Worse(s, d)
    PROVE  w \in Contents /\ NoBetter(s, w)
<1>1. CASE s.cpu >= 0 /\ w = [s EXCEPT !.cpu = @ + d]
  BY <1>1, NothingBetter DEF Contents, NoBetter
<1>2. CASE s.fast.memAvail >= d /\ w = [s EXCEPT !.fast.memAvail = @ - d]
  <2>1. w.fast \in Fast /\ FastNoBetter(s.fast, w.fast)
    BY <1>2 DEF Contents, Fast, FastNoBetter
  <2> QED BY <1>2, <2>1, NothingBetter DEF Contents, NoBetter
<1>3. CASE w = [s EXCEPT !.fast.load = @ + d]
  <2>1. w.fast \in Fast /\ FastNoBetter(s.fast, w.fast)
    BY <1>3 DEF Contents, Fast, FastNoBetter
  <2> QED BY <1>3, <2>1, NothingBetter DEF Contents, NoBetter
<1>4. CASE w = [s EXCEPT !.slow.gpu.temp = @ + d] \/ w = [s EXCEPT !.slow.gpu.memUsed = @ + d]
  <2>1. w.slow.gpu \in GPU /\ GPUNoBetter(s.slow.gpu, w.slow.gpu)
    BY <1>4 DEF Contents, Slow, GPU, GPUNoBetter
  <2>2. w = [s EXCEPT !.slow = [s.slow EXCEPT !.gpu = w.slow.gpu]]
    BY <1>4 DEF Contents, Slow, GPU
  <2> QED BY <2>1, <2>2, NothingBetter DEF Contents, Slow, NoBetter
<1>5. CASE w = [s EXCEPT !.tunnelUp = FALSE]
  BY <1>5, NothingBetter DEF Contents, NoBetter
<1>6. ASSUME NEW m \in Mounts, w = [s EXCEPT !.fast.disk[m] = @ + d], s.fast.disk[m] >= 0
      PROVE  w \in Contents /\ NoBetter(s, w)
  <2>1. w.fast \in Fast /\ FastNoBetter(s.fast, w.fast)
    BY <1>6 DEF Contents, Fast, FastNoBetter
  <2> QED BY <1>6, <2>1, NothingBetter DEF Contents, NoBetter
<1>7. ASSUME NEW t \in Tools,
             \/ w = [s EXCEPT !.slow.security[t].active = FALSE]
             \/ w = [s EXCEPT !.slow.security[t].days = @ + d] /\ s.slow.security[t].days >= 0
      PROVE  w \in Contents /\ NoBetter(s, w)
  <2>1. w.slow.security[t] \in Item /\ ItemNoBetter(s.slow.security[t], w.slow.security[t])
    <3> DEFINE item == s.slow.security[t]
    <3>1. item \in Item
      BY DEF Contents, Slow
    <3>2. \/ w.slow.security[t] = [item EXCEPT !.active = FALSE]
          \/ w.slow.security[t] = [item EXCEPT !.days = @ + d] /\ item.days >= 0
      <4>1. s.slow \in Slow /\ s.slow.security \in [Tools -> Item]
        BY DEF Contents, Slow
      <4>2. CASE w = [s EXCEPT !.slow.security[t].active = FALSE]
        <5>1. w.slow = [s.slow EXCEPT !.security[t].active = FALSE]
          BY <4>2 DEF Contents
        <5>2. w.slow.security = [s.slow.security EXCEPT ![t].active = FALSE]
          BY <4>1, <5>1 DEF Slow
        <5> QED BY <4>1, <5>2
      <4>3. CASE w = [s EXCEPT !.slow.security[t].days = @ + d] /\ item.days >= 0
        <5>1. w.slow = [s.slow EXCEPT !.security[t].days = @ + d]
          BY <4>3 DEF Contents
        <5>2. w.slow.security = [s.slow.security EXCEPT ![t].days = @ + d]
          BY <4>1, <5>1 DEF Slow
        <5> QED BY <4>1, <4>3, <5>2
      <4> QED BY <1>7, <4>2, <4>3
    <3> HIDE DEF item
    <3>3. CASE w.slow.security[t] = [item EXCEPT !.active = FALSE]
      BY <3>1, <3>3 DEF Item, ItemNoBetter, item
    <3>4. CASE w.slow.security[t] = [item EXCEPT !.days = @ + d] /\ item.days >= 0
      BY <3>1, <3>4 DEF Item, ItemNoBetter, item
    <3> QED BY <3>2, <3>3, <3>4
  <2>2. w = [s EXCEPT !.slow = [s.slow EXCEPT !.security =
                [s.slow.security EXCEPT ![t] = w.slow.security[t]]]]
    BY <1>7 DEF Contents, Slow
  <2> QED BY <2>1, <2>2, NothingBetter DEF Contents, Slow, NoBetter
<1> QED BY <1>1, <1>2, <1>3, <1>4, <1>5, <1>6, <1>7 DEF Worse

(* Whatever thresholds are set, the score of a worse or an older snapshot  *)
(* is no higher (health.go:84).                                            *)
THEOREM ScoreMonotone ==
    ASSUME NEW th \in Thresholds, NEW s \in Contents, NEW d \in Nat
    PROVE  /\ \A w \in Worse(s, d) : Score(th, w, 0) <= Score(th, s, 0)
           /\ Score(th, s, d) <= Score(th, s, 0)
<1>1. \A w \in Worse(s, d) : Score(th, w, 0) <= Score(th, s, 0)
  BY WorseNoBetter, NoBetterScores
<1>2. Score(th, s, d) <= Score(th, s, 0)
  <2>1. CPUPoints(th, s.cpu) \in Nat
    BY CPUPart DEF Contents
  <2>2. /\ LoadPoints(s.fast) \in Nat /\ MemPoints(th, s.fast) \in Nat
        /\ DiskPoints(th, s.fast) \in Nat
    BY NothingBetter, LoadPart, MemPart, DiskPart DEF Contents
  <2>3. GPUPoints(th, s.slow.gpu) \in Nat /\ SecurityPoints(th, s.slow.security) \in Nat
    BY NothingBetter, GPUPart, SecurityPart DEF Contents, Slow
  <2>4. TunnelPoints(s.tunnelUp) \in Nat
    BY DEF TunnelPoints, Judge
  <2>5. th["snapshotMaxAge"] \in Nat
    BY LimitsAreNat DEF Limits
  <2>6. /\ AgePoints(th, 0) \in Nat /\ AgePoints(th, d) \in Nat
        /\ AgePoints(th, 0) <= AgePoints(th, d)
    BY <2>5 DEF AgePoints, Judge
  <2>7. /\ Points(th, s, 0) \in Nat /\ Points(th, s, d) \in Nat
        /\ Points(th, s, 0) <= Points(th, s, d)
    BY <2>1, <2>2, <2>3, <2>4, <2>6 DEF Points
  <2> QED BY <2>7 DEF Score
<1> QED BY <1>1, <1>2

(* So the health check of a machine never rewards a worse reading: for the *)
(* snapshots that the run tries, and by ScoreMonotone for all              *)
(* (health.go:84).                                                         *)
THEOREM HealthMonotone == Spec => []WorseNeverBetter
<1>1. WorseNeverBetter
  BY ScoreMonotone, SettingsAssumption, SnapshotAssumption DEF WorseNeverBetter, ScoreFalls
<1> QED BY <1>1, PTL

=============================================================================
