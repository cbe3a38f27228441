---------------------------- MODULE TrafficProofs ----------------------------
(***************************************************************************)
(* The accounts of Traffic are right for any proxies, loads, failures and  *)
(* restarts: rates never add up to more than was carried, and between two  *)
(* resets to exactly that.  And no alarm is raised that the rows before it *)
(* do not bear out.                                                        *)
(***************************************************************************)
EXTENDS Traffic, FiniteSetTheorems, WellFoundedInduction, TLAPS

-----------------------------------------------------------------------------
(* Sums over a finite set of rows *)

(* A set of subsets of a finite set has a minimal member.                  *)
LEMMA MinimalSubset ==
    ASSUME NEW D, IsFiniteSet(D), NEW T \in SUBSET SUBSET D, T # {}
    PROVE  \E m \in T : \A u \in T : u \subseteq m => u = m
<1>1. IsWellFoundedOn(StrictSubsetOrdering(D), SUBSET D)
  BY FS_StrictSubsetOrderingWellFounded, FS_FiniteSubsetsOfFinite
<1>2. PICK m \in T : \A u \in T : ~ (<<u, m>> \in StrictSubsetOrdering(D))
  BY <1>1, WFMin
<1> QED BY <1>2 DEF StrictSubsetOrdering

(* So induction over the subsets of a finite set holds, for a property     *)
(* given as the set of those that have it.                                 *)
LEMMA SubsetInduction ==
    ASSUME NEW D, IsFiniteSet(D), NEW T,
           \A s \in SUBSET D : (\A u \in SUBSET s : u # s => u \in T) => s \in T
    PROVE  \A s \in SUBSET D : s \in T
<1> DEFINE Bad == {s \in SUBSET D : s \notin T}
<1> SUFFICES ASSUME Bad # {} PROVE FALSE
  OBVIOUS
<1>1. Bad \in SUBSET SUBSET D
  OBVIOUS
<1> HIDE DEF Bad
<1>2. PICK m \in Bad : \A u \in Bad : u \subseteq m => u = m
  BY <1>1, MinimalSubset
<1>3. m \in SUBSET D /\ m \notin T /\ \A u \in SUBSET m : u # m => u \in T
  BY <1>2 DEF Bad
<1> QED BY <1>3

(* The function by which SumOver is defined, on the subsets of D. *)
Some(s) == CHOOSE x \in s : TRUE
IsSum(g, side, D) ==
    g = [s \in SUBSET D |-> IF s = {} THEN 0 ELSE Some(s).rate[side] + g[s \ {Some(s)}]]

LEMMA SumIs ==
    ASSUME NEW side, NEW D
    PROVE  SumOver(D, side) = (CHOOSE g : IsSum(g, side, D))[D]
  BY DEF SumOver, MapThenSumSet, MapThenFoldSet, IsSum, Some

LEMMA SomeIn == ASSUME NEW s, s # {} PROVE Some(s) \in s
  BY DEF Some

LEMMA SumsAgree ==
    ASSUME NEW side, NEW D, NEW E, IsFiniteSet(D), D \subseteq E,
           NEW g, IsSum(g, side, D), NEW h, IsSum(h, side, E)
    PROVE  \A s \in SUBSET D : g[s] = h[s]
<1> DEFINE T == {s \in SUBSET D : g[s] = h[s]}
<1>1. ASSUME NEW s \in SUBSET D, \A u \in SUBSET s : u # s => u \in T
      PROVE  s \in T
  <2>1. g[s] = IF s = {} THEN 0 ELSE Some(s).rate[side] + g[s \ {Some(s)}]
    BY DEF IsSum
  <2>2. h[s] = IF s = {} THEN 0 ELSE Some(s).rate[side] + h[s \ {Some(s)}]
    BY DEF IsSum
  <2>3. s # {} => g[s \ {Some(s)}] = h[s \ {Some(s)}]
    BY <1>1, SomeIn
  <2> QED BY <2>1, <2>2, <2>3
<1> HIDE DEF T
<1>2. \A s \in SUBSET D : s \in T
  BY <1>1, SubsetInduction
<1> QED BY <1>2 DEF T

LEMMA SumExists ==
    ASSUME NEW side, NEW D, IsFiniteSet(D)
    PROVE  \E g : IsSum(g, side, D)
<1> DEFINE T == {s \in SUBSET D : \E g : IsSum(g, side, s)}
<1>1. ASSUME NEW m \in SUBSET D, \A u \in SUBSET m : u # m => u \in T
      PROVE  m \in T
  <2> DEFINE Part(u) == CHOOSE g : IsSum(g, side, u)
             Rest(s) == s \ {Some(s)}
             g == [s \in SUBSET m |-> IF s = {} THEN 0 ELSE Some(s).rate[side] + Part(Rest(s))[Rest(s)]]
  <2>1. \A u \in SUBSET m : u # m => IsSum(Part(u), side, u)
    BY <1>1
  <2>2. ASSUME NEW s \in SUBSET m, s # {}
        PROVE  g[Rest(s)] = Part(Rest(s))[Rest(s)]
    <3> DEFINE u == Rest(s)
    <3>1. u \in SUBSET m /\ u # m
      BY <2>2, SomeIn
    <3>2. IsSum(Part(u), side, u)
      BY <2>1, <3>1
    <3>3. Part(u)[u] = IF u = {} THEN 0 ELSE Some(u).rate[side] + Part(u)[Rest(u)]
      BY <3>2 DEF IsSum
    <3>4. g[u] = IF u = {} THEN 0 ELSE Some(u).rate[side] + Part(Rest(u))[Rest(u)]
      BY <3>1
    <3>5. ASSUME u # {}
          PROVE  Part(u)[Rest(u)] = Part(Rest(u))[Rest(u)]
      <4>1. Rest(u) \in SUBSET u /\ Rest(u) \in SUBSET m /\ Rest(u) # m
        BY <3>1, <3>5, SomeIn
      <4>2. IsSum(Part(Rest(u)), side, Rest(u))
        BY <2>1, <4>1
      <4>3. IsFiniteSet(Rest(u))
        BY <4>1, FS_Subset
      <4> HIDE DEF Part, Rest, u
      <4> QED BY <3>2, <4>1, <4>2, <4>3, SumsAgree
    <3> HIDE DEF Part, Rest, u, g
    <3>6. g[u] = Part(u)[u]
      BY <3>3, <3>4, <3>5
    <3> QED BY <3>6 DEF u
  <2>3. IsSum(g, side, m)
    <3>1. g = [s \in SUBSET m |-> IF s = {} THEN 0 ELSE Some(s).rate[side] + g[Rest(s)]]
      <4> HIDE DEF Part, Rest
      <4>1. \A s \in SUBSET m : (IF s = {} THEN 0 ELSE Some(s).rate[side] + Part(Rest(s))[Rest(s)])
                = IF s = {} THEN 0 ELSE Some(s).rate[side] + g[Rest(s)]
        BY <2>2
      <4> HIDE DEF g
      <4> QED BY <4>1 DEF g
    <3> HIDE DEF g
    <3> QED BY <3>1 DEF IsSum
  <2> QED BY <2>3
<1> HIDE DEF T
<1>2. \A s \in SUBSET D : s \in T
  BY <1>1, SubsetInduction
<1> QED BY <1>2 DEF T

(* What the definition says: some element is added to the sum of the rest. *)
LEMMA SumEquation ==
    ASSUME NEW side, NEW D, IsFiniteSet(D)
    PROVE  SumOver(D, side) = IF D = {} THEN 0 ELSE Some(D).rate[side] + SumOver(D \ {Some(D)}, side)
<1> DEFINE Part(u) == CHOOSE g : IsSum(g, side, u)
<1>1. ASSUME NEW u \in SUBSET D
      PROVE  IsSum(Part(u), side, u)
  BY FS_Subset, SumExists
<1>2. Part(D)[D] = IF D = {} THEN 0 ELSE Some(D).rate[side] + Part(D)[D \ {Some(D)}]
  <2>1. IsSum(Part(D), side, D)
    BY <1>1
  <2> HIDE DEF Part
  <2> QED BY <2>1 DEF IsSum
<1>3. ASSUME D # {}
      PROVE  Part(D)[D \ {Some(D)}] = Part(D \ {Some(D)})[D \ {Some(D)}]
  <2> DEFINE u == D \ {Some(D)}
  <2>1. u \in SUBSET D /\ IsFiniteSet(u)
    BY FS_Subset
  <2>2. IsSum(Part(u), side, u) /\ IsSum(Part(D), side, D)
    BY <1>1, <2>1
  <2> HIDE DEF u, Part
  <2>3. \A s \in SUBSET u : Part(u)[s] = Part(D)[s]
    BY <2>1, <2>2, SumsAgree
  <2> QED BY <2>3 DEF u
<1>4. \A u : SumOver(u, side) = Part(u)[u]
  BY SumIs
<1> HIDE DEF Part
<1> QED BY <1>2, <1>3, <1>4

(* A sum of natural numbers is one. *)
LEMMA SumNat ==
    ASSUME NEW D, IsFiniteSet(D), NEW side, \A d \in D : d.rate[side] \in Nat
    PROVE  SumOver(D, side) \in Nat
<1> DEFINE T == {s \in SUBSET D : SumOver(s, side) \in Nat}
<1>1. ASSUME NEW s \in SUBSET D, \A u \in SUBSET s : u # s => u \in T
      PROVE  s \in T
  <2>1. SumOver(s, side) = IF s = {} THEN 0 ELSE Some(s).rate[side] + SumOver(s \ {Some(s)}, side)
    BY FS_Subset, SumEquation
  <2>2. CASE s = {}
    BY <2>1, <2>2
  <2>3. CASE s # {}
    <3>1. Some(s).rate[side] \in Nat /\ SumOver(s \ {Some(s)}, side) \in Nat
      BY <1>1, <2>3, SomeIn
    <3> QED BY <2>1, <2>3, <3>1
  <2> QED BY <2>2, <2>3
<1> HIDE DEF T
<1>2. \A s \in SUBSET D : s \in T
  BY <1>1, SubsetInduction
<1> QED BY <1>2 DEF T

(* Any element may be taken out first. *)
LEMMA SumRemove ==
    ASSUME NEW D, IsFiniteSet(D), NEW side, \A d \in D : d.rate[side] \in Nat, NEW x \in D
    PROVE  SumOver(D, side) = x.rate[side] + SumOver(D \ {x}, side)
<1> DEFINE T == {s \in SUBSET D : \A y \in s : SumOver(s, side) = y.rate[side] + SumOver(s \ {y}, side)}
<1>1. ASSUME NEW s \in SUBSET D, \A u \in SUBSET s : u # s => u \in T
      PROVE  s \in T
  <2> SUFFICES ASSUME NEW y \in s PROVE SumOver(s, side) = y.rate[side] + SumOver(s \ {y}, side)
    OBVIOUS
  <2> DEFINE z == Some(s)
  <2>1. z \in s
    BY SomeIn
  <2>2. SumOver(s, side) = z.rate[side] + SumOver(s \ {z}, side)
    BY FS_Subset, SumEquation
  <2>3. CASE y = z
    BY <2>2, <2>3
  <2>4. CASE y # z
    <3>1. SumOver(s \ {z}, side) = y.rate[side] + SumOver((s \ {z}) \ {y}, side)
      <4>1. s \ {z} \in SUBSET s /\ s \ {z} # s /\ y \in s \ {z}
        BY <2>1, <2>4
      <4> QED BY <4>1, <1>1
    <3>2. SumOver(s \ {y}, side) = z.rate[side] + SumOver((s \ {y}) \ {z}, side)
      <4>1. s \ {y} \in SUBSET s /\ s \ {y} # s /\ z \in s \ {y}
        BY <2>1, <2>4
      <4> QED BY <4>1, <1>1
    <3>3. (s \ {z}) \ {y} = (s \ {y}) \ {z}
      OBVIOUS
    <3>4. y.rate[side] \in Nat /\ z.rate[side] \in Nat
      BY <2>1
    <3>5. SumOver((s \ {y}) \ {z}, side) \in Nat
      <4>1. IsFiniteSet((s \ {y}) \ {z}) /\ \A d \in (s \ {y}) \ {z} : d.rate[side] \in Nat
        BY FS_Subset
      <4> QED BY <4>1, SumNat
    <3> DEFINE rest == SumOver((s \ {z}) \ {y}, side)
    <3>6. SumOver(s, side) = z.rate[side] + (y.rate[side] + rest)
      BY <2>2, <3>1, Zenon
    <3>7. SumOver(s \ {y}, side) = z.rate[side] + rest
      BY <3>2, <3>3, Zenon
    <3>8. rest \in Nat
      BY <3>3, <3>5, Zenon
    <3> HIDE DEF z, rest
    <3> QED BY <3>4, <3>6, <3>7, <3>8
  <2> QED BY <2>3, <2>4
<1> HIDE DEF T
<1>2. \A s \in SUBSET D : s \in T
  BY <1>1, SubsetInduction
<1> QED BY <1>2 DEF T

-----------------------------------------------------------------------------
(* The accounts *)

(* The rates of a proxy are never negative (traffic.go:109).               *)
LEMMA RatesAreVolumes ==
    ASSUME CountTypeOK, NEW p \in Proxies
    PROVE  Rates(p) \in Volume
  BY DEF CountTypeOK, Rates, Volume, Zero

(* A volume added to another, side by side. *)
LEMMA PlusVolume ==
    ASSUME NEW v \in Volume, NEW w \in Volume
    PROVE  Plus(v, w) \in Volume /\ \A s \in Sides : Plus(v, w)[s] = v[s] + w[s]
  BY DEF Plus, Volume

LEMMA ZeroVolume == Zero \in Volume /\ \A s \in Sides : Zero[s] = 0
  BY DEF Zero, Volume

(* Nothing is counted yet. *)
LEMMA InitAccount == Init => AccountInv
<1> SUFFICES ASSUME Init PROVE AccountInv
  OBVIOUS
<1>1. CountTypeOK
  BY ZeroVolume DEF Init, CountTypeOK, Flow, NoFlow
<1>2. NeverOvercounts
  BY ZeroVolume DEF Init, NeverOvercounts, Pending
<1>3. ExactBetweenResets
  BY DEF Init, ExactBetweenResets
<1> QED BY <1>1, <1>2, <1>3 DEF AccountInv

(* The accounts look at these variables only. *)
LEMMA AccountsUntouched ==
    ASSUME AccountInv, CountTypeOK',
           UNCHANGED <<counter, carried, sampled, prevTotals, measured, steady, unseen>>
    PROVE  AccountInv'
<1>1. NeverOvercounts'
  BY DEF AccountInv, NeverOvercounts, Pending
<1>2. ExactBetweenResets'
  BY DEF AccountInv, ExactBetweenResets
<1> QED BY <1>1, <1>2 DEF AccountInv

(* What is carried shows in the counters. *)
LEMMA TickInv == AccountInv /\ Tick => AccountInv'
<1> SUFFICES ASSUME AccountInv, Tick PROVE AccountInv'
  OBVIOUS
<1> USE DEF AccountInv
<1>1. PICK load \in [Proxies -> UNION {Loads[p] : p \in Proxies}] :
          /\ \A p \in Proxies : load[p] \in Loads[p]
          /\ counter' = [p \in Proxies |->
                IF p \in online THEN Plus(counter[p], load[p]) ELSE counter[p]]
          /\ carried' = [p \in Proxies |->
                IF p \in online THEN Plus(carried[p], load[p]) ELSE carried[p]]
  BY DEF Tick
<1>2. \A p \in Proxies : load[p] \in Volume
  BY <1>1, LoadAssumption
<1>3. \A p \in Proxies : counter[p] \in Volume /\ carried[p] \in Volume
  BY DEF CountTypeOK
<1>4. \A p \in Proxies : counter'[p] \in Volume /\ carried'[p] \in Volume
  BY <1>1, <1>2, <1>3, PlusVolume
<1>5. CountTypeOK'
  <2>1. counter' \in [Proxies -> Volume] /\ carried' \in [Proxies -> Volume]
    BY <1>1, <1>4
  <2>2. now' \in Nat /\ due' \in BOOLEAN
    BY DEF Tick, CountTypeOK
  <2> QED BY <2>1, <2>2 DEF Tick, CountTypeOK, memory, local, account
<1>6. ASSUME NEW p \in Proxies, NEW s \in Sides
      PROVE  \E x \in Nat : counter'[p][s] = counter[p][s] + x
                            /\ carried'[p][s] = carried[p][s] + x
  <2>0. counter[p][s] \in Nat /\ carried[p][s] \in Nat /\ load[p][s] \in Nat
    BY <1>2, <1>3 DEF Volume
  <2>1. ASSUME p \in online
        PROVE  counter'[p][s] = counter[p][s] + load[p][s]
               /\ carried'[p][s] = carried[p][s] + load[p][s]
    BY <2>1, <1>1, <1>2, <1>3, PlusVolume
  <2>2. ASSUME p \notin online
        PROVE  counter'[p][s] = counter[p][s] + 0 /\ carried'[p][s] = carried[p][s] + 0
    BY <2>2, <2>0, <1>1
  <2> QED BY <2>0, <2>1, <2>2
<1>7. UNCHANGED <<sampled, prevTotals, measured, steady, unseen>>
  BY DEF Tick, memory, account
<1>8. ASSUME NEW p \in Proxies, NEW s \in Sides
      PROVE  /\ counter[p][s] \in Nat /\ carried[p][s] \in Nat /\ prevTotals[p][s] \in Nat
             /\ measured[p][s] \in Nat /\ unseen[p][s] \in Nat
  BY DEF CountTypeOK, Volume
<1>9. NeverOvercounts'
  <2> SUFFICES ASSUME NEW p \in Proxies, NEW s \in Sides
               PROVE  measured'[p][s] + Pending(p, s)' <= carried'[p][s]
    BY DEF NeverOvercounts
  <2>1. PICK x \in Nat : counter'[p][s] = counter[p][s] + x
                         /\ carried'[p][s] = carried[p][s] + x
    BY <1>6
  <2>2. measured[p][s] + Pending(p, s) <= carried[p][s]
    BY DEF NeverOvercounts
  <2>3. measured'[p][s] = measured[p][s]
    BY <1>7
  <2>4. Pending(p, s) \in Nat /\ Pending(p, s)' \in Nat /\ Pending(p, s)' <= Pending(p, s) + x
    BY <2>1, <1>7, <1>8 DEF Pending
  <2> QED BY <2>1, <2>2, <2>3, <2>4, <1>8
<1>10. ExactBetweenResets'
  <2> SUFFICES ASSUME NEW p \in steady
               PROVE  p \in sampled /\ \A s \in Sides :
                         /\ prevTotals[p][s] <= counter'[p][s]
                         /\ measured[p][s] + (counter'[p][s] - prevTotals[p][s])
                               + unseen[p][s] = carried'[p][s]
    BY <1>7 DEF ExactBetweenResets
  <2>1. p \in Proxies /\ p \in sampled
    BY DEF CountTypeOK, ExactBetweenResets
  <2> SUFFICES ASSUME NEW s \in Sides
               PROVE  /\ prevTotals[p][s] <= counter'[p][s]
                      /\ measured[p][s] + (counter'[p][s] - prevTotals[p][s])
                            + unseen[p][s] = carried'[p][s]
    BY <2>1
  <2>2. /\ prevTotals[p][s] <= counter[p][s]
        /\ measured[p][s] + (counter[p][s] - prevTotals[p][s]) + unseen[p][s]
              = carried[p][s]
    BY DEF ExactBetweenResets
  <2>3. PICK x \in Nat : counter'[p][s] = counter[p][s] + x
                         /\ carried'[p][s] = carried[p][s] + x
    BY <1>6, <2>1
  <2> QED BY <2>1, <2>2, <2>3, <1>8
<1> QED BY <1>5, <1>9, <1>10

(* Counters that start again take nothing along. *)
LEMMA ResetInv == AccountInv /\ Reset => AccountInv'
<1> SUFFICES ASSUME AccountInv, Reset PROVE AccountInv'
  OBVIOUS
<1>1. CountTypeOK'
  BY ZeroVolume DEF AccountInv, Reset, CountTypeOK, clock, memory, local
<1>2. NeverOvercounts'
  <2> SUFFICES ASSUME NEW p \in Proxies, NEW s \in Sides
               PROVE  measured'[p][s] + Pending(p, s)' <= carried'[p][s]
    BY DEF NeverOvercounts
  <2>1. /\ counter[p][s] \in Nat /\ carried[p][s] \in Nat /\ prevTotals[p][s] \in Nat
        /\ measured[p][s] \in Nat
    BY DEF AccountInv, CountTypeOK, Volume
  <2>2. measured[p][s] + Pending(p, s) <= carried[p][s] /\ Pending(p, s) \in Nat
    BY <2>1 DEF AccountInv, NeverOvercounts, Pending
  <2>3. counter'[p][s] = 0 /\ UNCHANGED <<measured, carried, sampled, prevTotals>>
    BY ZeroVolume DEF Reset, memory
  <2>4. Pending(p, s)' = 0
    BY <2>1, <2>3 DEF Pending
  <2> QED BY <2>1, <2>2, <2>3, <2>4
<1>3. ExactBetweenResets'
  BY DEF Reset, ExactBetweenResets
<1> QED BY <1>1, <1>2, <1>3 DEF AccountInv

(* A sample moves what was pending into the rates, or loses it. *)
LEMMA SampleInv == AccountInv /\ Sample => AccountInv'
<1> SUFFICES ASSUME AccountInv, Sample PROVE AccountInv'
  OBVIOUS
<1>1. ASSUME NEW p \in Proxies, NEW s \in Sides
      PROVE  /\ counter[p][s] \in Nat /\ carried[p][s] \in Nat /\ prevTotals[p][s] \in Nat
             /\ measured[p][s] \in Nat /\ unseen[p][s] \in Nat /\ Rates(p)[s] \in Nat
  BY RatesAreVolumes DEF AccountInv, CountTypeOK, Volume
<1>2. UNCHANGED <<counter, carried>>
  BY DEF Sample, frps
<1>3. ASSUME NEW p \in Proxies, NEW s \in Sides, p \in online
      PROVE  /\ measured'[p][s] = measured[p][s] + Rates(p)[s]
             /\ prevTotals'[p][s] = counter[p][s]
  <2>1. measured'[p] = Plus(measured[p], Rates(p)) /\ prevTotals'[p] = counter[p]
    BY <1>3 DEF Sample, Remember
  <2> QED BY <2>1, RatesAreVolumes, PlusVolume DEF AccountInv, CountTypeOK
<1>4. ASSUME NEW p \in Proxies, p \notin online
      PROVE  UNCHANGED <<measured[p], prevTotals[p], unseen[p]>>
             /\ (p \in sampled' <=> p \in sampled) /\ (p \in steady' <=> p \in steady)
  BY <1>4 DEF Sample, Known, AccountInv, CountTypeOK
<1>5. ASSUME NEW p \in Proxies, NEW s \in Sides
      PROVE  Rates(p)[s] <= Pending(p, s)
  BY <1>1 DEF Rates, Pending, Zero
<1>6. NeverOvercounts'
  <2> SUFFICES ASSUME NEW p \in Proxies, NEW s \in Sides
               PROVE  measured'[p][s] + Pending(p, s)' <= carried'[p][s]
    BY DEF NeverOvercounts
  <2>1. measured[p][s] + Pending(p, s) <= carried[p][s] /\ Pending(p, s) \in Nat
    BY <1>1 DEF AccountInv, NeverOvercounts, Pending
  <2>2. ASSUME p \in online PROVE measured'[p][s] + Pending(p, s)' <= carried'[p][s]
    <3>1. Pending(p, s)' = 0
      BY <2>2, <1>1, <1>2, <1>3 DEF Pending
    <3> QED BY <2>1, <2>2, <3>1, <1>1, <1>2, <1>3, <1>5
  <2>3. ASSUME p \notin online PROVE measured'[p][s] + Pending(p, s)' <= carried'[p][s]
    BY <2>1, <2>3, <1>1, <1>2, <1>4 DEF Pending
  <2> QED BY <2>2, <2>3
<1>7. ASSUME NEW p \in steady, NEW s \in Sides
      PROVE  Rates(p)[s] = counter[p][s] - prevTotals[p][s]
  <2>1. p \in Proxies /\ p \in sampled /\ \A r \in Sides : prevTotals[p][r] <= counter[p][r]
    BY DEF AccountInv, CountTypeOK, ExactBetweenResets
  <2>2. \A r \in Sides : ~(counter[p][r] - prevTotals[p][r] < 0)
    BY <2>1, <1>1
  <2> QED BY <2>1, <2>2 DEF Rates
<1>8. ASSUME NEW p \in online, p \notin steady, NEW s \in Sides
      PROVE  unseen'[p][s] = carried[p][s] - measured'[p][s]
             /\ unseen'[p][s] \in Nat
  <2>0. p \in Proxies
    BY DEF AccountInv, CountTypeOK
  <2>1. unseen'[p][s] = carried[p][s] - measured'[p][s]
    BY <1>8, <2>0 DEF Sample
  <2>2. measured'[p][s] + Pending(p, s)' <= carried'[p][s]
    BY <1>6, <2>0 DEF NeverOvercounts
  <2>3. Pending(p, s)' = 0
    BY <2>0, <1>1, <1>2, <1>3 DEF Pending
  <2> QED BY <2>0, <2>1, <2>2, <2>3, <1>1, <1>2, <1>3
<1>9. ExactBetweenResets'
  <2> SUFFICES ASSUME NEW p \in steady'
               PROVE  p \in sampled' /\ \A s \in Sides :
                         /\ prevTotals'[p][s] <= counter'[p][s]
                         /\ measured'[p][s] + (counter'[p][s] - prevTotals'[p][s])
                               + unseen'[p][s] = carried'[p][s]
    BY DEF ExactBetweenResets
  <2>0. p \in Proxies /\ (p \in steady \/ p \in online)
    BY DEF Sample, AccountInv, CountTypeOK
  <2>1. p \in sampled'
    BY <2>0, <1>4 DEF Sample, Known, AccountInv, ExactBetweenResets
  <2> SUFFICES ASSUME NEW s \in Sides
               PROVE  /\ prevTotals'[p][s] <= counter'[p][s]
                      /\ measured'[p][s] + (counter'[p][s] - prevTotals'[p][s])
                            + unseen'[p][s] = carried'[p][s]
    BY <2>1
  <2>2. ASSUME p \in steady
        PROVE  /\ prevTotals[p][s] <= counter[p][s]
               /\ measured[p][s] + (counter[p][s] - prevTotals[p][s]) + unseen[p][s]
                     = carried[p][s]
    BY <2>2 DEF AccountInv, ExactBetweenResets
  <2>3. CASE p \notin online
    <3>1. p \in steady
      BY <2>0, <2>3
    <3>2. UNCHANGED <<measured[p], prevTotals[p], unseen[p], counter, carried>>
      BY <2>0, <2>3, <1>2, <1>4
    <3> QED BY <3>1, <3>2, <2>2
  <2>4. CASE p \in online /\ p \in steady
    <3>1. unseen'[p] = unseen[p]
      BY <2>0, <2>4 DEF Sample
    <3> QED BY <2>0, <2>2, <2>4, <3>1, <1>1, <1>2, <1>3, <1>7
  <2>5. CASE p \in online /\ p \notin steady
    <3>1. unseen'[p][s] = carried[p][s] - measured'[p][s]
      BY <2>5, <1>8
    <3>2. measured'[p][s] \in Nat
      BY <2>0, <2>5, <1>1, <1>3
    <3> QED BY <2>0, <2>5, <3>1, <3>2, <1>1, <1>2, <1>3
  <2> QED BY <2>0, <2>3, <2>4, <2>5
<1>10. CountTypeOK'
  <2>1. \A p \in Proxies : Rates(p) \in Volume
    BY RatesAreVolumes DEF AccountInv
  <2>2. measured' \in [Proxies -> Volume]
    <3>1. \A p \in Proxies : Plus(measured[p], Rates(p)) \in Volume
      BY <2>1, PlusVolume DEF AccountInv, CountTypeOK
    <3> QED BY <3>1 DEF Sample, AccountInv, CountTypeOK
  <2>3. prevTotals' \in [Proxies -> Volume]
    BY DEF Sample, Remember, AccountInv, CountTypeOK
  <2>4. lastSample' \in [Proxies -> Flow]
    BY <2>1 DEF Sample, FlowOf, Flow, AccountInv, CountTypeOK
  <2>5. unseen' \in [Proxies -> Volume]
    <3>1. \A p \in online \ steady :
             [s \in Sides |-> carried[p][s] - measured'[p][s]] \in Volume
      <4> SUFFICES ASSUME NEW p \in online, p \notin steady, NEW s \in Sides
                   PROVE  carried[p][s] - measured'[p][s] \in Nat
        BY DEF Volume
      <4> QED BY <1>8
    <3> QED BY <3>1 DEF Sample, AccountInv, CountTypeOK
  <2>6. /\ online' \subseteq Proxies /\ sampled' \subseteq Proxies /\ batch' \subseteq Proxies
        /\ steady' \subseteq Proxies
    BY DEF Sample, Known, frps, AccountInv, CountTypeOK
  <2>7. /\ now' \in Nat /\ due' \in BOOLEAN /\ faults' \in Nat
        /\ pc' \in {"down", "idle", "save", "load", "mark"}
        /\ counter' \in [Proxies -> Volume] /\ carried' \in [Proxies -> Volume]
    BY DEF Sample, frps, AccountInv, CountTypeOK
  <2> QED BY <2>2, <2>3, <2>4, <2>5, <2>6, <2>7 DEF CountTypeOK
<1> QED BY <1>6, <1>9, <1>10 DEF AccountInv

(* A process that ends forgets the totals, and with them what is pending.  *)
LEMMA DownInv == AccountInv /\ Down => AccountInv'
<1> SUFFICES ASSUME AccountInv, Down PROVE AccountInv'
  OBVIOUS
<1>1. CountTypeOK'
  <2>0. due' \in BOOLEAN /\ pc' = "down"
    BY DEF Down
  <2>1. faults' \in Nat
    BY DEF Down, AccountInv, CountTypeOK
  <2>2. prevTotals' \in [Proxies -> Volume] /\ lastSample' \in [Proxies -> Flow]
    BY ZeroVolume DEF Down, Flow, NoFlow
  <2>3. batch' = {} /\ sampled' = {} /\ steady' = {}
    BY DEF Down
  <2>4. UNCHANGED <<online, counter, carried, now, measured, unseen>>
    BY DEF Down, frps
  <2> QED BY <2>0, <2>1, <2>2, <2>3, <2>4 DEF AccountInv, CountTypeOK
<1>2. NeverOvercounts'
  <2> SUFFICES ASSUME NEW p \in Proxies, NEW s \in Sides
               PROVE  measured'[p][s] + Pending(p, s)' <= carried'[p][s]
    BY DEF NeverOvercounts
  <2>1. /\ counter[p][s] \in Nat /\ carried[p][s] \in Nat /\ prevTotals[p][s] \in Nat
        /\ measured[p][s] \in Nat
    BY DEF AccountInv, CountTypeOK, Volume
  <2>2. measured[p][s] + Pending(p, s) <= carried[p][s] /\ Pending(p, s) \in Nat
    BY <2>1 DEF AccountInv, NeverOvercounts, Pending
  <2>3. Pending(p, s)' = 0 /\ UNCHANGED <<measured, carried>>
    BY DEF Down, Pending, frps
  <2> QED BY <2>1, <2>2, <2>3
<1>3. ExactBetweenResets'
  BY DEF Down, ExactBetweenResets
<1> QED BY <1>1, <1>2, <1>3 DEF AccountInv

(* The judgement changes nothing but the marks. *)
LEMMA MarkInv == AccountInv /\ Mark => AccountInv'
<1> SUFFICES ASSUME AccountInv, Mark PROVE AccountInv'
  OBVIOUS
<1>1. \A p \in Proxies : [lastSample[p] EXCEPT !.anomaly = Unusual(p)] \in Flow
  <2> TAKE p \in Proxies
  <2>1. Unusual(p) \in BOOLEAN
    BY DEF Unusual
  <2>2. lastSample[p] \in Flow
    BY DEF AccountInv, CountTypeOK
  <2> HIDE DEF Unusual
  <2> QED BY <2>1, <2>2 DEF Flow
<1>2. lastSample' \in [Proxies -> Flow]
  BY <1>1 DEF Mark, AccountInv, CountTypeOK
<1>3. CountTypeOK'
  BY <1>2 DEF Mark, EndRound, AccountInv, CountTypeOK, frps, clock, account
<1> QED BY <1>3, AccountsUntouched DEF Mark, frps, account

(* A step of any kind leaves the accounts right.                           *)
LEMMA NextAccount == AccountInv /\ [Next]_vars => AccountInv'
<1> SUFFICES ASSUME AccountInv, [Next]_vars PROVE AccountInv'
  OBVIOUS
<1>1. CASE Tick
  BY <1>1, TickInv
<1>2. CASE Reset
  BY <1>2, ResetInv
<1>3. ASSUME NEW p \in Proxies, GoOffline(p) \/ ComeBack(p) PROVE AccountInv'
  <2>1. CountTypeOK'
    BY <1>3 DEF GoOffline, ComeBack, AccountInv, CountTypeOK, clock, memory, local, account
  <2> QED BY <1>3, <2>1, AccountsUntouched DEF GoOffline, ComeBack, memory, account
<1>4. CASE Sample
  BY <1>4, SampleInv
<1>5. CASE SampleFails
  <2>0. due' \in BOOLEAN
    BY <1>5 DEF SampleFails
  <2>2. faults' \in Nat
    BY <1>5 DEF SampleFails, AccountInv, CountTypeOK
  <2>1. CountTypeOK'
    <3>1. UNCHANGED <<frps, now, memory, local, account>>
      BY <1>5 DEF SampleFails
    <3> QED BY <2>0, <2>2, <3>1 DEF AccountInv, CountTypeOK, frps, memory, local, account
  <2> QED BY <1>5, <2>1, AccountsUntouched DEF SampleFails, frps, memory, account
<1>6. CASE Save \/ SaveFails
  <2>1. CountTypeOK'
    BY <1>6 DEF Save, SaveFails, AccountInv, CountTypeOK, frps, clock, memory, account
  <2> QED BY <1>6, <2>1, AccountsUntouched DEF Save, SaveFails, frps, memory, account
<1>7. CASE Load \/ LoadFails
  <2>1. CountTypeOK'
    BY <1>7 DEF Load, LoadFails, EndRound, AccountInv, CountTypeOK, frps, clock, memory, account
  <2> QED BY <1>7, <2>1, AccountsUntouched DEF Load, LoadFails, frps, memory, account
<1>8. CASE Mark
  BY <1>8, MarkInv
<1>9. CASE CleanupTraffic
  <2>1. CountTypeOK'
    BY <1>9 DEF CleanupTraffic, AccountInv, CountTypeOK, frps, clock, memory, local, account
  <2> QED BY <1>9, <2>1, AccountsUntouched DEF CleanupTraffic, frps, memory, account
<1>10. CASE Down
  BY <1>10, DownInv
<1>11. CASE Start
  <2>1. CountTypeOK'
    BY <1>11 DEF Start, AccountInv, CountTypeOK, frps, memory, account
  <2> QED BY <1>11, <2>1, AccountsUntouched DEF Start, frps, memory, account
<1>12. CASE UNCHANGED vars
  <2>1. CountTypeOK'
    BY <1>12 DEF vars, AccountInv, CountTypeOK, frps, clock, memory, local, account
  <2> QED BY <1>12, <2>1, AccountsUntouched DEF vars, frps, memory, account
<1> QED BY <1>1, <1>2, <1>3, <1>4, <1>5, <1>6, <1>7, <1>8, <1>9, <1>10, <1>11, <1>12
        DEF Next, Round

-----------------------------------------------------------------------------
(* The table and the averages: types *)

LEMMA RowsRates ==
    ASSUME NEW rows, IsFiniteSet(rows), rows \subseteq Row
    PROVE  /\ Cardinality(rows) \in Nat
           /\ \A s \in Sides : (\A row \in rows : row.rate[s] \in Nat) /\ SumOver(rows, s) \in Nat
<1>1. \A s \in Sides, row \in rows : row.rate[s] \in Nat
  BY DEF Row, Volume
<1> QED BY <1>1, SumNat, FS_CardinalityType

LEMMA AverageTyped ==
    ASSUME NEW rows, IsFiniteSet(rows), rows \subseteq Row
    PROVE  AverageOf(rows) \in Average
  BY RowsRates DEF AverageOf, Average, Volume

LEMMA NoAverageTyped == [p \in Proxies |-> NoAverage] \in [Proxies -> Average]
  BY ZeroVolume DEF NoAverage, Average

LEMMA InitHistory == Init => HistoryTypeOK
  BY FS_EmptySet, NoAverageTyped DEF Init, HistoryTypeOK

LEMMA NextHistory == TypeOK /\ [Next]_vars => HistoryTypeOK'
<1> SUFFICES ASSUME TypeOK, [Next]_vars PROVE HistoryTypeOK'
  OBVIOUS
<1>1. ASSUME UNCHANGED <<table, nextId, average>> PROVE HistoryTypeOK'
  BY <1>1 DEF TypeOK, HistoryTypeOK
<1>2. ASSUME UNCHANGED <<table, nextId>>, average' = [p \in Proxies |-> NoAverage]
      PROVE  HistoryTypeOK'
  BY <1>2, NoAverageTyped DEF TypeOK, HistoryTypeOK
<1>3. CASE Tick \/ Reset \/ SampleFails \/ SaveFails \/ Start
  BY <1>1, <1>3 DEF Tick, Reset, SampleFails, SaveFails, Start, history, local
<1>4. CASE Sample
  BY <1>1, <1>4 DEF Sample, history
<1>5. ASSUME NEW p \in Proxies, GoOffline(p) \/ ComeBack(p)
      PROVE  HistoryTypeOK'
  BY <1>1, <1>5 DEF GoOffline, ComeBack, history, local
<1>6. CASE Save
  <2>1. nextId' \in Nat /\ average' = average
    BY <1>6 DEF Save, TypeOK, HistoryTypeOK
  <2>2. ASSUME NEW p \in Proxies
        PROVE  table[p] \cup {RowOf(p)} \subseteq Row /\ IsFiniteSet(table[p] \cup {RowOf(p)})
    <3>1. RowOf(p) \in Row
      BY DEF RowOf, Row, TypeOK, CountTypeOK, HistoryTypeOK, Flow
    <3> QED BY <3>1, FS_AddElement DEF TypeOK, HistoryTypeOK
  <2>3. \A p \in Proxies : table'[p] \subseteq Row /\ IsFiniteSet(table'[p])
    BY <1>6, <2>2 DEF Save, TypeOK, HistoryTypeOK
  <2>4. table' = [p \in Proxies |-> table'[p]]
    BY <1>6 DEF Save
  <2> QED BY <2>1, <2>3, <2>4 DEF TypeOK, HistoryTypeOK
<1>7. CASE Load
  <2>1. ASSUME NEW p \in Proxies PROVE AverageOf(Recent(p)) \in Average
    <3>1. Recent(p) \subseteq table[p] /\ table[p] \subseteq Row /\ IsFiniteSet(table[p])
      BY DEF Recent, TypeOK, HistoryTypeOK
    <3> QED BY <3>1, FS_Subset, AverageTyped
  <2>2. average' \in [Proxies -> Average]
    BY <1>7, <2>1, NoAverageTyped DEF Load, EndRound
  <2> QED BY <1>7, <2>2 DEF Load, history, TypeOK, HistoryTypeOK
<1>8. CASE LoadFails \/ Mark \/ Down
  BY <1>2, <1>8 DEF LoadFails, Mark, Down, EndRound, history
<1>9. CASE CleanupTraffic
  <2>1. ASSUME NEW p \in Proxies
        PROVE  /\ {row \in table[p] : row.at + Retention >= now} \subseteq Row
               /\ IsFiniteSet({row \in table[p] : row.at + Retention >= now})
    <3>1. table[p] \subseteq Row /\ IsFiniteSet(table[p])
      BY DEF TypeOK, HistoryTypeOK
    <3> QED BY <3>1, FS_Subset
  <2> QED BY <1>9, <2>1 DEF CleanupTraffic, local, TypeOK, HistoryTypeOK
<1>10. CASE UNCHANGED vars
  BY <1>1, <1>10 DEF vars, history, local
<1> QED BY <1>3, <1>4, <1>5, <1>6, <1>7, <1>8, <1>9, <1>10 DEF Next, Round

-----------------------------------------------------------------------------
(* The order of samples and rows *)

LEMMA InitOrder == Init => OrderInv /\ RowInv /\ AverageInv
<1> SUFFICES ASSUME Init PROVE OrderInv /\ RowInv /\ AverageInv
  OBVIOUS
<1>1. OrderInv
  BY DEF Init, OrderInv, NoFlow
<1> QED BY <1>1 DEF Init, RowInv, AverageInv

(* The times that are compared. *)
LEMMA Times ==
    ASSUME TypeOK, NEW p \in Proxies
    PROVE  /\ now \in Nat /\ lastSample[p] \in Flow /\ lastSample[p].at \in Nat
           /\ table[p] \subseteq Row /\ IsFiniteSet(table[p])
           /\ \A row \in table[p] : row.at \in Nat
<1>1. now \in Nat /\ lastSample[p] \in Flow /\ table[p] \subseteq Row /\ IsFiniteSet(table[p])
  BY DEF TypeOK, CountTypeOK, HistoryTypeOK
<1> QED BY <1>1 DEF Flow, Row

(* What these three invariants look at, apart from the clock. *)
LEMMA OrderUntouched ==
    ASSUME OrderInv, RowInv, AverageInv,
           UNCHANGED <<now, due, sampled, lastSample, table, pc, batch, average>>
    PROVE  OrderInv' /\ RowInv' /\ AverageInv'
<1>1. OrderInv'
  BY DEF OrderInv
<1>2. RowInv'
  BY DEF RowInv
<1>3. AverageInv'
  BY DEF AverageInv, Window
<1> QED BY <1>1, <1>2, <1>3

(* Time goes on, and whatever was noted is older now. *)
LEMMA TickOrder == TypeOK /\ OrderInv /\ RowInv /\ AverageInv /\ Tick
                     => OrderInv' /\ RowInv' /\ AverageInv'
<1> SUFFICES ASSUME TypeOK, OrderInv, RowInv, AverageInv, Tick
             PROVE  OrderInv' /\ RowInv' /\ AverageInv'
  OBVIOUS
<1>1. now' = now + 1 /\ UNCHANGED <<sampled, lastSample, table, pc, batch, average>>
  BY DEF Tick, memory, history, local
<1>2. ASSUME NEW p \in Proxies
      PROVE  /\ now \in Nat
             /\ lastSample[p].at \in Nat /\ lastSample[p].at <= now
             /\ lastSample[p].at <= now' /\ lastSample[p].at < now'
             /\ \A row \in table[p] : row.at <= now' /\ row.at < now'
  BY <1>1, Times DEF OrderInv
<1>3. OrderInv'
  <2>1. sampled \subseteq Proxies
    BY DEF TypeOK, CountTypeOK
  <2> QED BY <1>1, <1>2, <2>1 DEF OrderInv
<1>4. RowInv'
  BY <1>1 DEF RowInv
<1>5. AverageInv'
  <2> SUFFICES ASSUME pc = "mark", NEW p \in Proxies
               PROVE  \E t \in lastSample[p].at .. now' : average[p] = AverageOf(Window(p, t)')
    BY <1>1 DEF AverageInv
  <2>1. PICK t \in lastSample[p].at .. now : average[p] = AverageOf(Window(p, t))
    BY DEF AverageInv
  <2>2. Window(p, t)' = Window(p, t)
    BY <1>1 DEF Window
  <2>3. t \in lastSample[p].at .. now'
    BY <1>1, <1>2
  <2> QED BY <2>1, <2>2, <2>3
<1> QED BY <1>3, <1>4, <1>5

(* A proxy whose new sample has a rate has no row of this tick. *)
LEMMA SampleOrder == TypeOK /\ OrderInv /\ Sample => OrderInv' /\ RowInv' /\ AverageInv'
<1> SUFFICES ASSUME TypeOK, OrderInv, Sample PROVE OrderInv' /\ RowInv' /\ AverageInv'
  OBVIOUS
<1>1. /\ pc = "idle" /\ due /\ due' = FALSE /\ pc' \in {"load", "save"} /\ batch' = online
      /\ sampled' = sampled \cup online /\ UNCHANGED <<now, table>>
  BY DEF Sample, Known, history
<1>2. online \subseteq Proxies /\ sampled \subseteq Proxies /\ now \in Nat
  BY DEF TypeOK, CountTypeOK
<1>3. ASSUME NEW p \in Proxies
      PROVE  lastSample'[p] = IF p \in online THEN FlowOf(p) ELSE lastSample[p]
  BY DEF Sample
<1>4. \A p \in Proxies : FlowOf(p).at = now /\ FlowOf(p).rate = Rates(p)
  BY DEF FlowOf
<1>5. \A p \in Proxies : lastSample'[p].at <= now
  BY <1>2, <1>3, <1>4 DEF OrderInv
<1>6. OrderInv'
  BY <1>1, <1>5 DEF OrderInv
<1>7. ASSUME NEW p \in online, lastSample'[p].rate # Zero
      PROVE  \A row \in table[p] : row.at < lastSample'[p].at
  <2>1. p \in Proxies /\ lastSample'[p].at = now /\ Rates(p) # Zero
    BY <1>2, <1>3, <1>4, <1>7
  <2>2. p \in sampled
    BY <2>1 DEF Rates
  <2> QED BY <1>1, <2>1, <2>2 DEF OrderInv
<1>8. RowInv'
  BY <1>1, <1>7 DEF RowInv
<1>9. AverageInv'
  BY <1>1 DEF AverageInv
<1> QED BY <1>6, <1>8, <1>9

(* The row of a rate is the newest of its proxy, and the only one of its   *)
(* time.                                                                   *)
LEMMA SaveOrder == TypeOK /\ OrderInv /\ RowInv /\ Save => OrderInv' /\ RowInv' /\ AverageInv'
<1> SUFFICES ASSUME TypeOK, OrderInv, RowInv, Save PROVE OrderInv' /\ RowInv' /\ AverageInv'
  OBVIOUS
<1>1. pc = "save" /\ pc' = "load" /\ UNCHANGED <<now, due, sampled, lastSample, batch>>
  BY DEF Save, clock, memory
<1>2. batch \subseteq Proxies /\ sampled \subseteq Proxies
  BY DEF TypeOK, CountTypeOK
<1>3. ASSUME NEW p \in Proxies
      PROVE  table'[p] = IF p \in batch THEN table[p] \cup {RowOf(p)} ELSE table[p]
  BY DEF Save
<1>4. \A p \in Proxies : RowOf(p).at = lastSample[p].at /\ RowOf(p).rate = lastSample[p].rate
  BY DEF RowOf
<1>5. ASSUME NEW p \in Proxies, NEW row \in table'[p], row \notin table[p]
      PROVE  /\ p \in batch /\ row = RowOf(p)
             /\ row.at = lastSample[p].at /\ row.rate = lastSample[p].rate
  BY <1>3, <1>4, <1>5
<1>6. OrderInv'
  <2>1. \A p \in Proxies : \A row \in table'[p] : row.at <= now
    BY <1>5 DEF OrderInv
  <2>2. due => \A p \in sampled : \A row \in table'[p] : row.at < now
    BY <1>2, <1>5 DEF OrderInv
  <2> QED BY <1>1, <2>1, <2>2 DEF OrderInv
<1>7. RowInv'
  <2> SUFFICES ASSUME NEW p \in batch, lastSample[p].rate # Zero, NEW row \in table'[p]
               PROVE  \/ row.at < lastSample[p].at
                      \/ /\ row.at = lastSample[p].at /\ row.rate = lastSample[p].rate
                         /\ \A other \in table'[p] : other.at = row.at => other = row
    BY <1>1 DEF RowInv
  <2>1. p \in Proxies /\ lastSample[p].at \in Nat
    BY <1>2, Times
  <2>2. \A other \in table[p] : other.at < lastSample[p].at
    BY <1>1 DEF RowInv
  <2>3. CASE row \in table[p]
    BY <2>2, <2>3
  <2>4. CASE row \notin table[p]
    <3>1. row = RowOf(p) /\ row.at = lastSample[p].at /\ row.rate = lastSample[p].rate
      BY <1>5, <2>1, <2>4
    <3>2. ASSUME NEW other \in table'[p], other.at = row.at PROVE other = row
      <4>1. other \notin table[p]
        BY <2>1, <2>2, <3>1, <3>2
      <4> QED BY <1>5, <2>1, <3>1, <4>1
    <3> QED BY <3>1, <3>2
  <2> QED BY <2>3, <2>4
<1>8. AverageInv'
  BY <1>1 DEF AverageInv
<1> QED BY <1>6, <1>7, <1>8

(* The averages are read from the table as it stays until the judgement.   *)
LEMMA LoadOrder == TypeOK /\ OrderInv /\ RowInv /\ Load => OrderInv' /\ RowInv' /\ AverageInv'
<1> SUFFICES ASSUME TypeOK, OrderInv, RowInv, Load PROVE OrderInv' /\ RowInv' /\ AverageInv'
  OBVIOUS
<1>1. /\ pc = "load" /\ UNCHANGED <<now, due, sampled, lastSample, table>>
      /\ \/ pc' = "idle" /\ batch' = {}
         \/ pc' = "mark" /\ batch' = batch /\ average' = [p \in Proxies |-> AverageOf(Recent(p))]
  BY DEF Load, EndRound, clock, memory, history
<1>2. OrderInv'
  BY <1>1 DEF OrderInv
<1>3. RowInv'
  BY <1>1 DEF RowInv
<1>4. AverageInv'
  <2> SUFFICES ASSUME pc' = "mark", NEW p \in Proxies
               PROVE  \E t \in lastSample[p].at .. now : average'[p] = AverageOf(Window(p, t)')
    BY <1>1 DEF AverageInv
  <2>1. average'[p] = AverageOf(Recent(p))
    BY <1>1
  <2> PICK t \in Nat : t = now
    BY Times
  <2>2. Window(p, t)' = Recent(p)
    BY <1>1 DEF Window, Recent
  <2>3. t \in lastSample[p].at .. now
    <3>1. lastSample[p].at <= now
      BY DEF OrderInv
    <3> QED BY <3>1, Times
  <2> QED BY <2>1, <2>2, <2>3
<1> QED BY <1>2, <1>3, <1>4

(* A step of any kind leaves the order of samples and rows. *)
LEMMA NextOrder == TypeOK /\ OrderInv /\ RowInv /\ AverageInv /\ [Next]_vars
                     => OrderInv' /\ RowInv' /\ AverageInv'
<1> SUFFICES ASSUME TypeOK, OrderInv, RowInv, AverageInv, [Next]_vars
             PROVE  OrderInv' /\ RowInv' /\ AverageInv'
  OBVIOUS
<1>1. CASE Tick
  BY <1>1, TickOrder
<1>2. CASE Reset
  BY <1>2, OrderUntouched DEF Reset, clock, memory, history, local
<1>3. ASSUME NEW p \in Proxies, GoOffline(p) \/ ComeBack(p)
      PROVE  OrderInv' /\ RowInv' /\ AverageInv'
  BY <1>3, OrderUntouched DEF GoOffline, ComeBack, clock, memory, history, local
<1>4. CASE Sample
  BY <1>4, SampleOrder
<1>5. CASE SampleFails
  <2>1. due' = FALSE /\ UNCHANGED <<now, sampled, lastSample, table, pc, batch, average>>
    BY <1>5 DEF SampleFails, memory, history, local
  <2>2. OrderInv'
    BY <2>1 DEF OrderInv
  <2>3. RowInv'
    BY <2>1 DEF RowInv
  <2>4. AverageInv'
    BY <2>1 DEF AverageInv, Window
  <2> QED BY <2>2, <2>3, <2>4
<1>6. CASE Save
  BY <1>6, SaveOrder
<1>7. CASE SaveFails
  <2>1. pc' = "load" /\ UNCHANGED <<now, due, sampled, lastSample, table, batch>>
    BY <1>7 DEF SaveFails, clock, memory, history
  <2>2. OrderInv'
    BY <2>1 DEF OrderInv
  <2>3. RowInv'
    BY <2>1 DEF RowInv
  <2>4. AverageInv'
    BY <2>1 DEF AverageInv
  <2> QED BY <2>2, <2>3, <2>4
<1>8. CASE Load
  BY <1>8, LoadOrder
<1>9. ASSUME EndRound, UNCHANGED <<now, due, sampled, table>>,
             \A p \in Proxies : lastSample'[p].at = lastSample[p].at
      PROVE  OrderInv' /\ RowInv' /\ AverageInv'
  <2>1. sampled \subseteq Proxies
    BY DEF TypeOK, CountTypeOK
  <2>2. OrderInv'
    BY <1>9, <2>1 DEF EndRound, OrderInv
  <2> QED BY <1>9, <2>2 DEF EndRound, RowInv, AverageInv
<1>10. CASE LoadFails
  BY <1>9, <1>10 DEF LoadFails, clock, memory, history
<1>11. CASE Mark
  <2>1. ASSUME NEW p \in Proxies PROVE lastSample'[p].at = lastSample[p].at
    <3>1. lastSample[p] \in Flow
      BY Times
    <3>2. [lastSample[p] EXCEPT !.anomaly = Unusual(p)].at = lastSample[p].at
      BY <3>1 DEF Flow
    <3> QED BY <1>11, <3>2 DEF Mark
  <2> QED BY <1>9, <1>11, <2>1 DEF Mark, clock, history
<1>12. CASE CleanupTraffic
  <2>1. /\ pc = "idle" /\ UNCHANGED <<now, due, sampled, lastSample, pc, batch>>
        /\ \A p \in Proxies : table'[p] \subseteq table[p]
    BY <1>12 DEF CleanupTraffic, clock, memory, local
  <2>2. batch' = {} /\ sampled \subseteq Proxies
    BY <2>1 DEF OrderInv, TypeOK, CountTypeOK
  <2>3. OrderInv'
    BY <2>1, <2>2 DEF OrderInv
  <2> QED BY <2>1, <2>2, <2>3 DEF RowInv, AverageInv
<1>13. CASE Down
  <2>1. /\ pc' = "down" /\ due' = FALSE /\ batch' = {} /\ sampled' = {}
        /\ lastSample' = [p \in Proxies |-> NoFlow] /\ UNCHANGED <<now, table>>
    BY <1>13 DEF Down, history
  <2>2. \A p \in Proxies : lastSample'[p].at <= now
    BY <2>1 DEF NoFlow, TypeOK, CountTypeOK
  <2>3. OrderInv'
    BY <2>1, <2>2 DEF OrderInv
  <2> QED BY <2>1, <2>3 DEF RowInv, AverageInv
<1>14. CASE Start
  <2>1. /\ pc = "down" /\ pc' = "idle"
        /\ UNCHANGED <<now, sampled, lastSample, table, batch, average>>
    BY <1>14 DEF Start, memory, history
  <2>2. batch' = {} /\ sampled' = {}
    BY <2>1 DEF OrderInv
  <2>3. OrderInv'
    BY <2>1, <2>2 DEF OrderInv
  <2> QED BY <2>1, <2>2, <2>3 DEF RowInv, AverageInv
<1>15. CASE UNCHANGED vars
  BY <1>15, OrderUntouched DEF vars, clock, memory, history, local
<1> QED BY <1>1, <1>2, <1>3, <1>4, <1>5, <1>6, <1>7, <1>8, <1>10, <1>11, <1>12, <1>13, <1>14,
           <1>15 DEF Next, Round

-----------------------------------------------------------------------------
(* The accounts hold in every state that can be reached. *)
THEOREM Invariance == Spec => []IInv
<1>1. Init => IInv
  BY InitAccount, InitHistory, InitOrder DEF IInv, AccountInv, TypeOK
<1>2. IInv /\ [Next]_vars => IInv'
  <2> SUFFICES ASSUME IInv, [Next]_vars PROVE IInv'
    OBVIOUS
  <2>1. AccountInv /\ TypeOK /\ OrderInv /\ RowInv /\ AverageInv
    BY DEF IInv
  <2>2. AccountInv'
    BY <2>1, NextAccount
  <2>3. HistoryTypeOK'
    BY <2>1, NextHistory
  <2>4. CountTypeOK'
    BY <2>2 DEF AccountInv
  <2>5. TypeOK'
    BY <2>3, <2>4 DEF TypeOK
  <2>6. OrderInv' /\ RowInv' /\ AverageInv'
    BY <2>1, NextOrder
  <2> QED BY <2>2, <2>5, <2>6 DEF IInv
<1> QED BY <1>1, <1>2, PTL DEF Spec

(* Every variable of Traffic keeps its type, the table stays finite.       *)
THEOREM TypeCorrect == Spec => []TypeOK
<1>1. IInv => TypeOK
  BY DEF IInv
<1> QED BY <1>1, Invariance, PTL

(* Rates never add up to more than was carried: for any number of proxies, *)
(* resets, failed polls and restarts (traffic.go:104-114).                 *)
THEOREM RatesNeverTooHigh == Spec => []NeverOvercounts
<1>1. IInv => NeverOvercounts
  BY DEF IInv, AccountInv
<1> QED BY <1>1, Invariance, PTL

(* Between two resets of the counters no traffic is lost (traffic.go:114). *)
THEOREM RatesExact == Spec => []ExactBetweenResets
<1>1. IInv => ExactBetweenResets
  BY DEF IInv, AccountInv
<1> QED BY <1>1, Invariance, PTL

-----------------------------------------------------------------------------
(* The alarm *)

(* More than K times the mean of the rows with the judged one is more than *)
(* K times the mean of the others, and these are K or more.                *)
LEMMA MeanOfOthers ==
    ASSUME NEW rate \in Nat, NEW n \in Nat, NEW sum \in Nat, NEW K \in Nat, K # 0,
           rate * (n + 1) > (rate + sum) * K
    PROVE  rate * n > K * sum /\ n >= K
<1>1. rate * (n + 1) = rate * n + rate /\ (rate + sum) * K = rate * K + K * sum
  OBVIOUS
<1> DEFINE others == rate * n
           times == rate * K
           rest == K * sum
<1>2. others \in Nat /\ times \in Nat /\ rest \in Nat
  OBVIOUS
<1>3. others + rate > times + rest
  BY <1>1
<1>4. rate <= times
  OBVIOUS
<1>5. n < K => others + rate <= times
  <2> SUFFICES ASSUME n < K PROVE others + rate <= times
    OBVIOUS
  <2>1. PICK d \in Nat : K = n + 1 + d
    <3>1. K - n - 1 \in Nat /\ K = n + 1 + (K - n - 1)
      OBVIOUS
    <3> QED BY <3>1
  <2>2. times = rate * n + rate + rate * d /\ rate * d \in Nat
    BY <2>1
  <2> QED BY <1>2, <2>2
<1> HIDE DEF others, times, rest
<1>6. others > rest
  BY <1>2, <1>3, <1>4
<1>7. ~ (n < K)
  BY <1>2, <1>3, <1>5
<1> QED BY <1>6, <1>7 DEF others, rest

(* A judgement that finds a flow unusual. *)
LEMMA MarkDeserved ==
    ASSUME TypeOK, OrderInv, RowInv, AverageInv, Mark, NEW p \in batch, Unusual(p)
    PROVE  Deserved(p)
<1>1. p \in Proxies /\ pc = "mark"
  BY DEF Mark, TypeOK, CountTypeOK
<1> DEFINE flow == lastSample[p]
<1>2. flow \in Flow /\ flow.at \in Nat /\ flow.rate \in Volume /\ now \in Nat
  BY <1>1, Times DEF Flow
<1>3. lastSample'[p].at = flow.at /\ lastSample'[p].rate = flow.rate
  <2>1. /\ [flow EXCEPT !.anomaly = Unusual(p)].at = flow.at
        /\ [flow EXCEPT !.anomaly = Unusual(p)].rate = flow.rate
    BY <1>2 DEF Flow
  <2>2. lastSample'[p] = [flow EXCEPT !.anomaly = Unusual(p)]
    BY <1>1 DEF Mark
  <2> HIDE DEF flow
  <2> QED BY <2>1, <2>2
<1>4. PICK t \in flow.at .. now : average[p] = AverageOf(Window(p, t))
  BY <1>1 DEF AverageInv
<1> DEFINE rows == Window(p, t)
           earlier == {row \in table[p] : row.at < flow.at /\ row.at + Hour >= t}
           n == Cardinality(earlier)
           saved == \E row \in table[p] : row.at = flow.at
<1>5. earlier = Earlier(p, t)
  BY <1>3 DEF Earlier
<1>6. /\ table[p] \subseteq Row /\ IsFiniteSet(table[p]) /\ \A row \in table[p] : row.at \in Nat
      /\ rows \subseteq table[p] /\ earlier \subseteq table[p]
  BY <1>1, Times DEF Window
<1>7. IsFiniteSet(rows) /\ IsFiniteSet(earlier) /\ rows \subseteq Row /\ earlier \subseteq Row
  BY <1>6, FS_Subset
<1>8. PICK s \in Sides : /\ Cardinality(rows) >= MinRows
                         /\ flow.rate[s] * Cardinality(rows) > SumOver(rows, s) * AnomalyThreshold
  <2>1. average[p].n = Cardinality(rows) /\ \A s \in Sides : average[p].sum[s] = SumOver(rows, s)
    BY <1>4 DEF AverageOf
  <2> HIDE DEF flow, rows
  <2> QED BY <2>1 DEF Unusual, flow
<1>9. /\ flow.rate[s] \in Nat /\ n \in Nat /\ SumOver(earlier, s) \in Nat
      /\ SumOver(rows, s) \in Nat /\ Cardinality(rows) \in Nat
      /\ \A row \in rows : row.rate[s] \in Nat
  BY <1>2, <1>7, RowsRates DEF Volume
<1>10. AnomalyThreshold \in Nat /\ AnomalyThreshold # 0 /\ MinRows \in Nat /\ MinRows # 0 /\ Hour \in Nat
  BY JudgementAssumption
<1>11. flow.rate # Zero
  <2>1. ASSUME flow.rate[s] = 0 PROVE FALSE
    <3>1. 0 * Cardinality(rows) = 0 /\ SumOver(rows, s) * AnomalyThreshold >= 0
      BY <1>9, <1>10
    <3>2. 0 * Cardinality(rows) > SumOver(rows, s) * AnomalyThreshold
      BY <1>8, <2>1
    <3>3. SumOver(rows, s) * AnomalyThreshold \in Nat
      BY <1>9, <1>10
    <3> HIDE DEF rows
    <3> QED BY <3>1, <3>2, <3>3
  <2> QED BY <2>1, ZeroVolume
<1>12. \A row \in table[p] :
          \/ row.at < flow.at
          \/ /\ row.at = flow.at /\ row.rate = flow.rate
             /\ \A other \in table[p] : other.at = row.at => other = row
  BY <1>1, <1>11 DEF RowInv
<1>13. flow.rate[s] * n > AnomalyThreshold * SumOver(earlier, s)
       /\ n >= IF saved THEN AnomalyThreshold ELSE MinRows
  <2>1. CASE \A row \in rows : row.at < flow.at
    <3>1. rows = earlier
      BY <2>1 DEF Window
    <3>2. ~ saved
      <4> SUFFICES ASSUME NEW row \in table[p], row.at = flow.at PROVE FALSE
        OBVIOUS
      <4>1. row \notin rows
        BY <2>1, <1>2
      <4>2. ~ (row.at + Hour >= t)
        BY <4>1 DEF Window
      <4>3. rows = {}
        <5> SUFFICES ASSUME NEW other \in rows PROVE FALSE
          OBVIOUS
        <5>1. other.at < flow.at /\ other.at + Hour >= t /\ other.at \in Nat
          BY <2>1, <1>6 DEF Window
        <5> HIDE DEF flow, rows
        <5> QED BY <1>2, <1>4, <1>10, <4>2, <5>1 DEF flow
      <4>4. Cardinality(rows) = 0
        BY <4>3, FS_EmptySet
      <4> QED BY <1>8, <1>10, <4>4
    <3>3. SumOver(rows, s) * AnomalyThreshold = AnomalyThreshold * SumOver(rows, s)
      BY <1>9, <1>10
    <3> HIDE DEF rows, earlier, saved, flow
    <3> QED BY <1>8, <3>1, <3>2, <3>3
  <2>2. CASE \E row \in rows : ~ (row.at < flow.at)
    <3>1. PICK own \in rows : ~ (own.at < flow.at)
      BY <2>2
    <3>2. /\ own \in table[p] /\ own.at = flow.at /\ own.rate = flow.rate
          /\ \A other \in table[p] : other.at = own.at => other = own
      BY <1>6, <1>12, <3>1
    <3>3. earlier = rows \ {own}
      BY <1>2, <1>6, <1>12, <3>1, <3>2 DEF Window
    <3>4. SumOver(rows, s) = flow.rate[s] + SumOver(earlier, s)
      <4>1. SumOver(rows, s) = own.rate[s] + SumOver(rows \ {own}, s)
        BY <1>7, <1>9, SumRemove
      <4> QED BY <3>2, <3>3, <4>1, Zenon
    <3>5. Cardinality(rows) = n + 1
      <4>1. Cardinality(rows \ {own}) = Cardinality(rows) - 1
        BY <1>7, FS_RemoveElement
      <4> HIDE DEF rows, earlier
      <4> QED BY <1>9, <3>3, <4>1
    <3>6. saved
      BY <3>2
    <3> HIDE DEF rows, earlier, n, flow, saved
    <3>7. flow.rate[s] * (n + 1) > (flow.rate[s] + SumOver(earlier, s)) * AnomalyThreshold
      BY <1>8, <3>4, <3>5, Zenon
    <3>8. flow.rate[s] * n > AnomalyThreshold * SumOver(earlier, s) /\ n >= AnomalyThreshold
      BY <1>9, <1>10, <3>7, MeanOfOthers
    <3> QED BY <3>6, <3>8
  <2> QED BY <2>1, <2>2
<1>14. lastSample'[p].rate[s] * Cardinality(Earlier(p, t)) > AnomalyThreshold * SumOver(Earlier(p, t), s)
       /\ Cardinality(Earlier(p, t)) >=
             IF \E row \in table[p] : row.at = lastSample'[p].at THEN AnomalyThreshold ELSE MinRows
  <2> HIDE DEF earlier
  <2> QED BY <1>3, <1>5, <1>13
<1>15. t \in lastSample'[p].at .. now
  BY <1>3, <1>4
<1> HIDE DEF flow, rows, earlier, n, saved
<1> QED BY <1>14, <1>15 DEF Deserved

(* Whatever is sampled, resets, fails or restarts: a flow is only marked   *)
(* when its rate is more than AnomalyThreshold times the mean of the rows  *)
(* before it within the hour (detectAnomalies, traffic.go:161-194).        *)
THEOREM AlarmsDeserved == Spec => AlarmDeserved
<1> DEFINE Right == \A p \in Proxies :
               lastSample'[p] # lastSample[p] /\ lastSample'[p].anomaly => Deserved(p)
<1>1. ASSUME IInv, [Next]_vars PROVE [Right]_vars
  <2> SUFFICES ASSUME NEW p \in Proxies, lastSample'[p] # lastSample[p], lastSample'[p].anomaly
               PROVE  Deserved(p)
    OBVIOUS
  <2>1. CASE Mark
    <3>1. p \in batch /\ lastSample'[p] = [lastSample[p] EXCEPT !.anomaly = Unusual(p)]
      BY <2>1 DEF Mark
    <3>2. lastSample[p] \in Flow /\ TypeOK /\ OrderInv /\ RowInv /\ AverageInv
      BY <1>1, Times DEF IInv
    <3>3. Unusual(p)
      <4>1. [lastSample[p] EXCEPT !.anomaly = Unusual(p)].anomaly = Unusual(p)
        BY <3>2 DEF Flow
      <4> QED BY <3>1, <4>1
    <3> QED BY <2>1, <3>1, <3>2, <3>3, MarkDeserved
  <2>2. CASE Sample
    <3>1. lastSample'[p] = FlowOf(p)
      BY <2>2 DEF Sample
    <3> QED BY <3>1 DEF FlowOf
  <2>3. CASE Down
    BY <2>3 DEF Down, NoFlow
  <2>4. ASSUME UNCHANGED lastSample PROVE FALSE
    BY <2>4
  <2>5. CASE Tick \/ Reset \/ (\E q \in Proxies : GoOffline(q) \/ ComeBack(q)) \/ SampleFails
    BY <2>4, <2>5 DEF Tick, Reset, GoOffline, ComeBack, SampleFails, memory
  <2>6. CASE Save \/ SaveFails \/ Load \/ LoadFails \/ CleanupTraffic \/ Start
    BY <2>4, <2>6 DEF Save, SaveFails, Load, LoadFails, CleanupTraffic, Start, memory
  <2>7. CASE UNCHANGED vars
    BY <2>4, <2>7 DEF vars, memory
  <2> QED BY <1>1, <2>1, <2>2, <2>3, <2>5, <2>6, <2>7 DEF Next, Round
<1>2. IInv /\ [Next]_vars => [Right]_vars
  BY <1>1
<1> QED BY <1>2, Invariance, PTL DEF Spec, AlarmDeserved
=============================================================================
