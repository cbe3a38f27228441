---------------------------- MODULE TasksProofs ----------------------------
(***************************************************************************)
(* Proofs about Tasks: where goroutines can be, the truth of the progress  *)
(* bar, and that the task manager implements TaskBoard; for any number of  *)
(* machines, items, tasks and for any length of the list.                  *)
(***************************************************************************)
EXTENDS Tasks, Integers, FiniteSetTheorems, SequenceTheorems, TLAPS

-----------------------------------------------------------------------------
(* Percentages *)

(* The quotient and what is left. *)
LEMMA DivDef ==
    ASSUME NEW a \in Nat, NEW b \in Nat \ {0}
    PROVE  a \div b \in Nat /\ b * (a \div b) <= a /\ a < b * (a \div b) + b
  BY SMTT(20)

(* A larger fraction has a quotient that is not smaller. *)
LEMMA DivMono ==
    ASSUME NEW a \in Nat, NEW b \in Nat \ {0}, NEW c \in Nat, NEW d \in Nat \ {0},
           a * d <= c * b
    PROVE  a \div b <= c \div d
  <1> DEFINE p == a \div b
             q == c \div d
  <1>1. p \in Nat /\ q \in Nat /\ b * p <= a /\ c < d * q + d
    BY DivDef
  <1> HIDE DEF p, q
  <1>2. SUFFICES ASSUME p > q PROVE FALSE
    BY <1>1 DEF p, q
  <1>3. c < d * p
    <2>1. d * (q + 1) <= d * p
      BY <1>1, <1>2, SMTT(20)
    <2>2. QED
      BY <2>1, <1>1, SMTT(20)
  <1>4. b * c < b * (d * p)
    BY <1>1, <1>3, SMTT(20)
  <1>5. d * (b * p) <= d * a
    BY <1>1, SMTT(20)
  <1>6. QED
    BY <1>1, <1>4, <1>5, SMTT(20)

(* The share of the machines that are done. *)
LEMMA PctFacts ==
    ASSUME NEW n \in Nat \ {0}, NEW d \in 0..n
    PROVE  /\ Pct(d, n) \in Nat
           /\ d < n => Pct(d, n) <= 99
           /\ Pct(0, n) = 0 /\ Pct(n, n) = 100
           /\ d < n => Pct(d + 1, n) \in Nat /\ Pct(d, n) <= Pct(d + 1, n)
  <1>1. Pct(d, n) \in Nat /\ n * Pct(d, n) <= 100 * d /\ 100 * d < n * Pct(d, n) + n
    BY DivDef DEF Pct
  <1>2. ASSUME d < n PROVE Pct(d, n) <= 99
    <2> DEFINE p == Pct(d, n)
    <2> HIDE DEF p
    <2>1. SUFFICES ASSUME p > 99, p \in Nat, n * p <= 100 * d PROVE FALSE
      BY <1>1 DEF p
    <2>2. n * 100 <= n * p
      BY <2>1, SMTT(20)
    <2>3. QED
      BY <1>2, <2>1, <2>2, SMTT(20)
  <1>3. Pct(0, n) = 0
    <2>1. Pct(0, n) \in Nat /\ n * Pct(0, n) <= 0
      BY DivDef DEF Pct
    <2>2. QED
      BY <2>1, SMTT(20)
  <1>4. Pct(n, n) = 100
    <2> DEFINE p == Pct(n, n)
    <2>1. p \in Nat /\ n * p <= 100 * n /\ 100 * n < n * p + n
      BY DivDef DEF Pct
    <2> HIDE DEF p
    <2>2. ~(p > 100)
      <3>1. SUFFICES ASSUME p >= 101 PROVE FALSE
        BY <2>1
      <3>2. n * 101 <= n * p
        BY <2>1, <3>1, SMTT(20)
      <3>3. QED
        BY <2>1, <3>2, SMTT(20)
    <2>3. ~(p < 100)
      <3>1. SUFFICES ASSUME p <= 99 PROVE FALSE
        BY <2>1
      <3>2. n * p <= n * 99
        BY <2>1, <3>1, SMTT(20)
      <3>3. QED
        BY <2>1, <3>2, SMTT(20)
    <2>4. QED
      BY <2>1, <2>2, <2>3 DEF p
  <1>5. ASSUME d < n PROVE Pct(d + 1, n) \in Nat /\ Pct(d, n) <= Pct(d + 1, n)
    <2>1. (100 * d) * n <= (100 * (d + 1)) * n
      BY SMTT(20)
    <2>2. QED
      BY <2>1, DivMono, DivDef DEF Pct
  <1>6. QED
    BY <1>1, <1>2, <1>3, <1>4, <1>5

(* The share of the commands of all machines, before it is cut at 99. *)
Share(d, p, ph, n) == (100 * (d * p + ph)) \div (p * n)

(* A machine in progress counts for something between 0 and 1. *)
LEMMA ShareFacts ==
    ASSUME NEW n \in Nat \ {0}, NEW d \in 0..(n - 1), NEW p \in Nat \ {0}, NEW ph \in 0..p
    PROVE  /\ Share(d, p, ph, n) \in Nat
           /\ Share(d, p, 0, n) = Pct(d, n)
           /\ Pct(d, n) <= Share(d, p, ph, n) /\ Share(d, p, ph, n) <= Pct(d + 1, n)
           /\ ph < p => Share(d, p, ph, n) <= Share(d, p, ph + 1, n)
  <1> DEFINE num(x) == 100 * (d * p + x)
  <1>1. p * n \in Nat \ {0} /\ d * p \in Nat
    BY SMTT(20)
  <1>2. \A x \in 0..p : num(x) \in Nat
    BY <1>1
  <1>3. \A x \in 0..p : Share(d, p, x, n) \in Nat
    BY <1>1, <1>2, DivDef DEF Share
  <1>4. \A x \in 0..p : Pct(d, n) <= Share(d, p, x, n)
    <2> TAKE x \in 0..p
    <2>1. (100 * d) * (p * n) <= num(x) * n
      <3>1. (100 * d) * (p * n) = (100 * (d * p)) * n
        BY SMTT(20)
      <3>2. (100 * (d * p)) * n <= num(x) * n
        BY <1>1, SMTT(20)
      <3>3. QED
        BY <3>1, <3>2
    <2>2. 100 * d \in Nat
      OBVIOUS
    <2>3. QED
      BY <1>1, <1>2, <2>1, <2>2, DivMono DEF Pct, Share
  <1>5. \A x \in 0..p : Share(d, p, x, n) <= Pct(d + 1, n)
    <2> TAKE x \in 0..p
    <2>1. num(x) * n <= (100 * (d + 1)) * (p * n)
      <3>1. (100 * (d + 1)) * (p * n) = (100 * (d * p + p)) * n
        BY SMTT(20)
      <3>2. num(x) * n <= (100 * (d * p + p)) * n
        BY <1>1, SMTT(20)
      <3>3. QED
        BY <3>1, <3>2
    <2>2. 100 * (d + 1) \in Nat
      OBVIOUS
    <2>3. QED
      BY <1>1, <1>2, <2>1, <2>2, DivMono DEF Pct, Share
  <1>6. Share(d, p, 0, n) = Pct(d, n)
    <2>1. Pct(d, n) \in Nat /\ Share(d, p, 0, n) \in Nat
      BY <1>3, DivDef DEF Pct
    <2>2. num(0) * n <= (100 * d) * (p * n)
      BY <1>1, SMTT(20)
    <2>3. Share(d, p, 0, n) <= Pct(d, n)
      BY <1>1, <1>2, <2>2, DivMono DEF Pct, Share
    <2>4. QED
      BY <1>4, <2>1, <2>3
  <1>7. ASSUME ph < p PROVE Share(d, p, ph, n) <= Share(d, p, ph + 1, n)
    <2>1. num(ph) * (p * n) <= num(ph + 1) * (p * n)
      BY <1>1, SMTT(20)
    <2>2. ph + 1 \in 0..p
      BY <1>7
    <2>3. QED
      BY <1>1, <1>2, <2>1, <2>2, DivMono DEF Share
  <1>8. QED
    BY <1>3, <1>4, <1>5, <1>6, <1>7

(* Every kind of scan has at least one command. *)
LEMMA PhasesFacts == \A op \in ScanModes : Phases[op] \in Nat \ {0}
  BY ModeAssumption DEF Phases

(* What report shows while a machine is being scanned: at least the        *)
(* machines that are done, less than 100, and more the further it is.      *)
LEMMA PctAtFacts ==
    ASSUME NEW t \in Task, t.op \in ScanModes, t.done < Len(t.targets),
           NEW ph \in 0..Phases[t.op]
    PROVE  /\ PctAt(t, ph) \in Nat
           /\ PctAt(t, 0) = Pct(t.done, Len(t.targets))
           /\ Pct(t.done, Len(t.targets)) <= PctAt(t, ph)
           /\ PctAt(t, ph) <= 99 /\ PctAt(t, ph) <= Pct(t.done + 1, Len(t.targets))
           /\ ph < Phases[t.op] => PctAt(t, ph) <= PctAt(t, ph + 1)
  <1> DEFINE n == Len(t.targets)
             d == t.done
             p == Phases[t.op]
  <1>1. n \in Nat \ {0} /\ d \in 0..(n - 1) /\ d \in 0..n /\ d < n /\ p \in Nat \ {0}
    BY PhasesFacts, LenProperties DEF Task
  <1>2. \A x \in 0..p : PctAt(t, x) = IF Share(d, p, x, n) > 99 THEN 99 ELSE Share(d, p, x, n)
    BY <1>1 DEF PctAt, Share
  <1>3. \A x \in 0..p :
           /\ Share(d, p, x, n) \in Nat
           /\ Share(d, p, 0, n) = Pct(d, n)
           /\ Pct(d, n) <= Share(d, p, x, n) /\ Share(d, p, x, n) <= Pct(d + 1, n)
           /\ x < p => Share(d, p, x, n) <= Share(d, p, x + 1, n)
    BY <1>1, ShareFacts
  <1>4. Pct(d, n) \in Nat /\ Pct(d, n) <= 99 /\ Pct(d + 1, n) \in Nat
    BY <1>1, PctFacts, SMTT(30)
  <1>5. 0 \in 0..p /\ (ph < p => ph + 1 \in 0..p)
    BY <1>1
  <1> HIDE DEF n, d, p
  <1>6. PctAt(t, 0) = Pct(d, n)
    BY <1>2, <1>3, <1>4, <1>5
  <1>7. PctAt(t, ph) \in Nat /\ Pct(d, n) <= PctAt(t, ph)
        /\ PctAt(t, ph) <= 99 /\ PctAt(t, ph) <= Pct(d + 1, n)
    BY <1>2, <1>3, <1>4 DEF p
  <1>8. ph < p => PctAt(t, ph) <= PctAt(t, ph + 1)
    <2>1. SUFFICES ASSUME ph < p PROVE PctAt(t, ph) <= PctAt(t, ph + 1)
      OBVIOUS
    <2>2. Share(d, p, ph, n) \in Nat /\ Share(d, p, ph + 1, n) \in Nat
          /\ Share(d, p, ph, n) <= Share(d, p, ph + 1, n)
      BY <1>3, <1>5, <2>1 DEF p
    <2>3. PctAt(t, ph) = (IF Share(d, p, ph, n) > 99 THEN 99 ELSE Share(d, p, ph, n))
          /\ PctAt(t, ph + 1) = (IF Share(d, p, ph + 1, n) > 99 THEN 99 ELSE Share(d, p, ph + 1, n))
      BY <1>2, <1>5, <2>1 DEF p
    <2>4. QED
      BY <2>2, <2>3
  <1>9. QED
    BY <1>6, <1>7, <1>8 DEF n, d, p

-----------------------------------------------------------------------------
(* What a step does to one task and its goroutine *)

(* A record that is made of another by changing its fields. *)
LEMMA TaskFields ==
    ASSUME NEW t \in Task, NEW x \in Nat, NEW y \in Nat, NEW rs \in Seq(Result)
    PROVE  /\ [t EXCEPT !.pct = x] \in Task
           /\ [t EXCEPT !.status = "done"] \in Task
           /\ [t EXCEPT !.results = rs, !.done = x, !.pct = y] \in Task
  BY DEF Task

(* The results of a machine. *)
LEMMA ResultTypes ==
    ASSUME NEW m \in Machines, NEW v \in Verdicts, NEW is \in SUBSET Items,
           NEW f \in [is -> Verdicts]
    PROVE  /\ Whole(m, v) \in Result /\ Whole(m, v).machine = m
           /\ [machine |-> m, whole |-> "items", items |-> f] \in Result
  <1> DEFINE Functions == UNION {[S -> Verdicts] : S \in SUBSET Items}
  <1>1. [it \in {} |-> v] \in [{} -> Verdicts]
    OBVIOUS
  <1>2. [it \in {} |-> v] \in Functions
    BY <1>1, {} \in SUBSET Items
  <1>3. f \in Functions
    OBVIOUS
  <1> HIDE DEF Functions
  <1>4. Result = [machine : Machines, whole : Verdicts \cup {"items"}, items : Functions]
    BY DEF Result, Functions
  <1>5. QED
    BY <1>2, <1>3, <1>4 DEF Whole

(* The goroutine after it has reported on a machine. *)
Moved(t, j) == JobAt(After(j.at, t.targets), j.at + 1)

(* A machine is reported on: the loop goes on or ends, the bar rises to    *)
(* the share of the machines.                                              *)
LEMMA ReportedFacts ==
    ASSUME NEW t \in Task, NEW j \in Job, NEW r \in Result,
           Consistent(t, j, TRUE), BarFits(t, j),
           j.pc \in {"begin", "clean", "dial", "run"}, r.machine = t.targets[j.at]
    PROVE  /\ Reported(t, r) \in Task /\ Moved(t, j) \in Job
           /\ Consistent(Reported(t, r), Moved(t, j), TRUE)
           /\ BarFits(Reported(t, r), Moved(t, j))
           /\ t.pct <= Reported(t, r).pct
  <1> DEFINE n == Len(t.targets)
             d == t.done
             t2 == Reported(t, r)
             j2 == Moved(t, j)
  <1> USE DEF Working
  <1>1. n \in Nat /\ d \in Nat /\ d = Len(t.results) /\ j.at = d + 1 /\ d < n
        /\ t.status = "running" /\ t.op # "none" /\ t.pct \in Nat
        /\ t.results \in Seq(Result) /\ t.targets \in Seq(Machines)
        /\ (\A k \in 1..d : t.results[k].machine = t.targets[k])
    BY LenProperties DEF Consistent, Task
  <1>2. n \in Nat \ {0} /\ d \in 0..n /\ d + 1 \in 0..n
    BY <1>1
  <1>3. Pct(d + 1, n) \in Nat /\ t.pct <= Pct(d + 1, n)
        /\ (d + 1 < n => Pct(d + 1, n) <= 99 /\ Pct(d + 2, n) \in Nat
                         /\ Pct(d + 1, n) <= Pct(d + 2, n))
        /\ (d + 1 = n => Pct(d + 1, n) = 100)
    <2>1. t.pct <= Pct(d + 1, n)
      BY <1>1, t.targets # <<>>, EmptySeq DEF BarFits
    <2>2. Pct(d + 1, n) \in Nat /\ (d + 1 < n => Pct(d + 1, n) <= 99)
          /\ (d + 1 < n => Pct((d + 1) + 1, n) \in Nat /\ Pct(d + 1, n) <= Pct((d + 1) + 1, n))
          /\ Pct(n, n) = 100
      BY <1>2, PctFacts
    <2>3. (d + 1) + 1 = d + 2
      BY <1>1
    <2>4. QED
      BY <2>1, <2>2, <2>3
  <1>4. /\ t2.results = Append(t.results, r) /\ t2.done = d + 1
        /\ t2.pct = Pct(d + 1, n) /\ t2.targets = t.targets
        /\ t2.op = t.op /\ t2.status = t.status /\ t2.items = t.items
    BY <1>1 DEF Reported, Task
  <1>5. Append(t.results, r) \in Seq(Result) /\ Len(Append(t.results, r)) = d + 1
        /\ (\A k \in 1..d : Append(t.results, r)[k] = t.results[k])
        /\ Append(t.results, r)[d + 1] = r
    BY <1>1, AppendProperties
  <1>6. t2 \in Task
    <2>1. d + 1 \in Nat /\ Pct(d + 1, n) \in Nat /\ Append(t.results, r) \in Seq(Result)
      BY <1>1, <1>3, <1>5
    <2>2. \A x, y \in Nat, rs \in Seq(Result) :
             [t EXCEPT !.results = rs, !.done = x, !.pct = y] \in Task
      BY TaskFields
    <2>3. [t EXCEPT !.results = Append(t.results, r), !.done = d + 1, !.pct = Pct(d + 1, n)] \in Task
      BY <2>1, <2>2, Zenon
    <2>4. QED
      BY <2>3 DEF Reported
  <1>7. /\ j2.pc = (IF d + 1 < n THEN "begin" ELSE "finish")
        /\ j2.at = d + 2 /\ j2.phase = 0
        /\ j2 \in Job
    <2>1. After(j.at, t.targets) = (IF d + 1 < n THEN "begin" ELSE "finish")
      BY <1>1 DEF After
    <2>2. j2 = [pc |-> After(j.at, t.targets), at |-> j.at + 1, phase |-> 0]
      BY DEF Moved, JobAt
    <2>3. j.at + 1 = d + 2 /\ j.at + 1 \in Nat
      BY <1>1
    <2>4. After(j.at, t.targets) \in {"begin", "finish"}
      BY <2>1
    <2> HIDE DEF d, n, j2
    <2>5. QED
      BY <2>1, <2>2, <2>3, <2>4 DEF Job
  <1> HIDE DEF t2, j2, n, d
  <1>8. Consistent(t2, j2, TRUE)
    <2>1. \A k \in 1..t2.done : t2.results[k].machine = t2.targets[k]
      BY <1>1, <1>4, <1>5 DEF n, d
    <2>2. t2.done = Len(t2.results) /\ t2.done <= Len(t2.targets)
      BY <1>1, <1>4, <1>5 DEF n, d
    <2>3. j2.pc \in Working =>
            j2.at = t2.done + 1 /\ t2.done < Len(t2.targets) /\ t2.status = "running"
      BY <1>1, <1>4, <1>7 DEF n, d
    <2>4. j2.pc \in {"finish", "ended"} => t2.targets # <<>> /\ t2.done = Len(t2.targets)
      BY <1>1, <1>2, <1>4, <1>7, EmptySeq DEF n, d
    <2>5. t2.op # "none" /\ t2.status # "done" /\ j2.phase = 0
          /\ j2.pc \notin {"none", "ended", "clean", "dial", "run"}
      BY <1>1, <1>4, <1>7
    <2>6. QED
      BY <2>1, <2>2, <2>3, <2>4, <2>5 DEF Consistent
  <1>9. BarFits(t2, j2)
    <2>1. t2.pct = Pct(t2.done, Len(t2.targets)) /\ j2.pc \notin {"dial", "run"} /\ t2.pct \in Nat
      BY <1>3, <1>4, <1>7 DEF n
    <2>2. t2.done < Len(t2.targets) => t2.pct <= 99 /\ t2.pct <= Pct(t2.done + 1, Len(t2.targets))
      <3>1. SUFFICES ASSUME d + 1 < n PROVE Pct(d + 1, n) <= 99 /\ Pct(d + 1, n) <= Pct(d + 1 + 1, n)
        BY <1>4 DEF n
      <3>2. d + 1 + 1 = d + 2
        BY <1>1
      <3>3. QED
        BY <1>3, <3>1, <3>2
    <2>3. t2.done = Len(t2.targets) => t2.pct = 100
      BY <1>3, <1>4 DEF n
    <2>4. QED
      BY <2>1, <2>2, <2>3 DEF BarFits
  <1>10. QED
    BY <1>3, <1>4, <1>6, <1>7, <1>8, <1>9 DEF t2, j2

(* Progress is reported from a scan: command number ph is about to run. *)
LEMMA ShownFacts ==
    ASSUME NEW t \in Task, NEW j \in Job, NEW j2 \in Job, NEW ph \in Nat,
           Consistent(t, j, TRUE), BarFits(t, j), t.op \in ScanModes,
           \/ j.pc \in {"begin", "dial"} /\ ph = 0
           \/ j.pc = "run" /\ ph = j.phase + 1 /\ ph < Phases[t.op],
           j2.at = j.at, j2.phase = ph,
           j2.pc = "run" \/ (j2.pc = "dial" /\ ph = 0)
    PROVE  /\ [t EXCEPT !.pct = PctAt(t, ph)] \in Task
           /\ [t EXCEPT !.pct = PctAt(t, ph)].pct = PctAt(t, ph)
           /\ Consistent([t EXCEPT !.pct = PctAt(t, ph)], j2, TRUE)
           /\ BarFits([t EXCEPT !.pct = PctAt(t, ph)], j2)
           /\ t.pct <= PctAt(t, ph)
  <1> DEFINE n == Len(t.targets)
             d == t.done
             p == Phases[t.op]
             t2 == [t EXCEPT !.pct = PctAt(t, ph)]
  <1> USE DEF Working
  <1>1. /\ n \in Nat /\ d \in Nat /\ d < n /\ p \in Nat \ {0} /\ ph < p /\ t.pct \in Nat
        /\ j.phase \in Nat
    BY PhasesFacts, LenProperties DEF Consistent, Task, Job
  <1>2. t.targets # <<>>
    BY <1>1, EmptySeq
  <1>3. /\ PctAt(t, ph) \in Nat
        /\ PctAt(t, 0) = Pct(d, n)
        /\ Pct(d, n) <= PctAt(t, ph)
        /\ PctAt(t, ph) <= 99 /\ PctAt(t, ph) <= Pct(d + 1, n)
    BY <1>1, PctAtFacts
  <1>4. t2 \in Task /\ t2.pct = PctAt(t, ph) /\ t2.done = d /\ t2.targets = t.targets
        /\ t2.op = t.op /\ t2.results = t.results /\ t2.status = t.status
    BY <1>3, TaskFields DEF Task
  <1>5. t.pct <= PctAt(t, ph)
    <2>1. CASE j.pc \in {"begin", "dial"} /\ ph = 0
      <3>1. j.pc = "dial" => j.phase = 0
        BY DEF Consistent
      <3>2. QED
        BY <1>2, <1>3, <2>1, <3>1 DEF BarFits
    <2>2. CASE j.pc = "run" /\ ph = j.phase + 1
      <3>1. t.pct <= PctAt(t, j.phase)
        BY <1>2, <2>2 DEF BarFits
      <3>2. PctAt(t, j.phase) \in Nat /\ PctAt(t, j.phase) <= PctAt(t, j.phase + 1)
        BY <1>1, <2>2, PctAtFacts
      <3>3. QED
        BY <1>1, <1>3, <2>2, <3>1, <3>2
    <2>3. QED
      BY <2>1, <2>2
  <1>6. \A x : PctAt(t2, x) = PctAt(t, x)
    BY <1>4 DEF PctAt
  <1>7. Consistent(t2, j2, TRUE)
    <2> HIDE DEF t2
    <2>1. QED
      BY <1>1, <1>2, <1>4 DEF Consistent
  <1>8. BarFits(t2, j2)
    <2>1. t2.pct <= PctAt(t2, j2.phase)
      BY <1>1, <1>3, <1>4, <1>6
    <2>2. t2.pct >= Pct(t2.done, Len(t2.targets))
          /\ t2.pct <= 99 /\ t2.pct <= Pct(t2.done + 1, Len(t2.targets))
          /\ t2.done # Len(t2.targets) /\ j2.pc \notin {"created", "begin"}
      <3>1. Pct(d, n) \in Nat
        BY <1>1, DivDef DEF Pct
      <3>2. QED
        BY <1>1, <1>3, <1>4, <3>1
    <2> HIDE DEF t2
    <2>3. QED
      BY <2>1, <2>2 DEF BarFits
  <1>9. QED
    BY <1>4, <1>5, <1>7, <1>8

-----------------------------------------------------------------------------
(* The steps *)

(* Task t2 with goroutine j2 may follow task t: the targets stay, the bar  *)
(* does not fall, and at most one of these happens: one more machine is    *)
(* reported on, or the task is done.                                       *)
Follows(t, t2, j2) ==
    /\ Consistent(t2, j2, TRUE) /\ BarFits(t2, j2)
    /\ t2.targets = t.targets /\ t.pct <= t2.pct
    /\ \/ t2.done \in {t.done, t.done + 1} /\ t2.status = t.status
       \/ t2.done = t.done /\ t.status # "done" /\ t2.status = "done"

(* A goroutine belongs to a task that has been posted. *)
LEMMA RunningIsPosted ==
    ASSUME IInv, NEW i \in Ids, job[i].pc # "none"
    PROVE  /\ i < nextID /\ task[i] \in Task /\ job[i] \in Job
           /\ Consistent(task[i], job[i], TRUE) /\ BarFits(task[i], job[i])
           /\ task[i].op # "none" /\ task[i].op \in {"cleanup"} \cup ScanModes
  <1>1. task[i] \in Task /\ job[i] \in Job
    BY DEF IInv, TypeOK
  <1>2. Consistent(task[i], job[i], i < nextID) /\ BarFits(task[i], job[i])
    BY DEF IInv
  <1>3. i < nextID
    <2>1. SUFFICES ASSUME ~(i < nextID) PROVE FALSE
      OBVIOUS
    <2>2. job[i] = NoJob
      BY <1>2, <2>1 DEF Consistent
    <2>3. QED
      BY <2>2 DEF NoJob, JobAt
  <1>4. Consistent(task[i], job[i], TRUE)
    BY <1>2, <1>3 DEF Consistent
  <1>5. task[i].op # "none"
    BY <1>4 DEF Consistent
  <1>6. task[i].op \in {"none", "cleanup"} \cup ScanModes
    BY <1>1 DEF Task
  <1>7. QED
    BY <1>1, <1>2, <1>3, <1>4, <1>5, <1>6

(* The machine that a goroutine works on is one. *)
LEMMA TargetType ==
    ASSUME IInv, NEW i \in Ids, job[i].pc \in {"begin", "clean", "dial", "run"}
    PROVE  Target(i) \in Machines /\ Target(i) = task[i].targets[job[i].at]
  <1>1. task[i] \in Task /\ Consistent(task[i], job[i], TRUE)
    BY RunningIsPosted
  <1>2. job[i].at = task[i].done + 1 /\ task[i].done < Len(task[i].targets)
    BY <1>1 DEF Consistent, Working
  <1>3. task[i].done \in Nat /\ task[i].targets \in Seq(Machines)
    BY <1>1 DEF Task
  <1>4. job[i].at \in 1..Len(task[i].targets)
    BY <1>2, <1>3, LenProperties
  <1>5. QED
    BY <1>3, <1>4, ElementOfSeq DEF Target

(* One step of a goroutine. *)
LEMMA RunFacts ==
    ASSUME IInv, NEW i \in Ids, Run(i) \/ SessionEnds(i)
    PROVE  /\ i < nextID /\ UNCHANGED <<mu, nextID, listed>>
           /\ \E t2 \in Task, j2 \in Job :
                 /\ task' = [task EXCEPT ![i] = t2] /\ job' = [job EXCEPT ![i] = j2]
                 /\ Follows(task[i], t2, j2)
  <1> DEFINE t == task[i]
             j == job[i]
             Goal == \E t2 \in Task, j2 \in Job :
                       /\ task' = [task EXCEPT ![i] = t2] /\ job' = [job EXCEPT ![i] = j2]
                       /\ Follows(t, t2, j2)
  <1> USE DEF Working
  <1>1. j.pc # "none" /\ UNCHANGED <<mu, nextID, listed>>
    BY DEF Run, SessionEnds, Launch, BeginClean, Clean, NoSecret, OpenScan, Dialled,
       Phase, Show, CloseScan, Finish
  <1>2. /\ i < nextID /\ t \in Task /\ j \in Job
        /\ Consistent(t, j, TRUE) /\ BarFits(t, j)
        /\ t.op # "none" /\ t.op \in {"cleanup"} \cup ScanModes
    BY <1>1, RunningIsPosted
  <1>3. task \in [Ids -> Task] /\ job \in [Ids -> Job]
    BY DEF IInv, TypeOK
  <1>4. t.done \in Nat /\ t.pct \in Nat /\ j.at \in Nat /\ j.phase \in Nat
    BY <1>2 DEF Task, Job
  \* A step of the goroutine alone.
  <1>5. ASSUME NEW j2 \in Job, task' = task, job' = [job EXCEPT ![i] = j2],
               Consistent(t, j2, TRUE), BarFits(t, j2)
        PROVE  Goal
    <2>1. task' = [task EXCEPT ![i] = t]
      BY <1>3, <1>5
    <2>2. Follows(t, t, j2)
      <3>1. t.pct <= t.pct /\ t.done \in {t.done, t.done + 1}
        BY <1>4
      <3>2. QED
        BY <1>5, <3>1 DEF Follows
    <2>3. QED
      BY <1>2, <1>5, <2>1, <2>2
  \* A machine is reported on.
  <1>6. ASSUME NEW r \in Result, j.pc \in {"begin", "clean", "dial", "run"}, r.machine = t.targets[j.at],
               task' = [task EXCEPT ![i] = Reported(@, r)], NextMachine(i)
        PROVE  Goal
    <2>1. /\ Reported(t, r) \in Task /\ Moved(t, j) \in Job
          /\ Consistent(Reported(t, r), Moved(t, j), TRUE)
          /\ BarFits(Reported(t, r), Moved(t, j))
          /\ t.pct <= Reported(t, r).pct
      BY <1>2, <1>6, ReportedFacts
    <2>2. task' = [task EXCEPT ![i] = Reported(t, r)] /\ job' = [job EXCEPT ![i] = Moved(t, j)]
      BY <1>3, <1>6 DEF NextMachine, Moved
    <2>3. Reported(t, r).targets = t.targets /\ Reported(t, r).done = t.done + 1
          /\ Reported(t, r).status = t.status
      BY <1>2 DEF Reported, Task
    <2>4. Follows(t, Reported(t, r), Moved(t, j))
      BY <2>1, <2>3 DEF Follows
    <2>5. QED
      BY <2>1, <2>2, <2>4
  \* Progress is reported.
  <1>7. ASSUME NEW pc \in {"dial", "run"}, NEW ph \in Nat, t.op \in ScanModes,
               \/ j.pc \in {"begin", "dial"} /\ ph = 0
               \/ j.pc = "run" /\ ph = j.phase + 1 /\ ph < Phases[t.op],
               pc = "dial" => ph = 0, Show(i, pc, ph)
        PROVE  Goal
    <2> DEFINE t2 == [t EXCEPT !.pct = PctAt(t, ph)]
               j2 == [j EXCEPT !.pc = pc, !.phase = ph]
    <2>6. j2 \in Job /\ j2.pc = pc /\ j2.at = j.at /\ j2.phase = ph
          /\ job' = [job EXCEPT ![i] = j2]
      BY <1>2, <1>3, <1>7 DEF Show, Job
    <2> HIDE DEF j2
    <2>1. /\ t2 \in Task /\ t2.pct = PctAt(t, ph)
          /\ Consistent(t2, j2, TRUE) /\ BarFits(t2, j2)
          /\ t.pct <= PctAt(t, ph)
      BY <1>2, <1>7, <2>6, ShownFacts
    <2>2. task' = [task EXCEPT ![i] = t2]
      BY <1>3, <1>7 DEF Show
    <2>3. t2.targets = t.targets /\ t2.done = t.done /\ t2.status = t.status
      BY <1>2 DEF Task
    <2>4. Follows(t, t2, j2)
      <3> HIDE DEF t2, t
      <3>1. QED
        BY <2>1, <2>3 DEF Follows
    <2>5. QED
      BY <2>1, <2>2, <2>4, <2>6
  \* The result of a machine that is scanned.
  <1>14. ASSUME NEW v \in Verdicts, j.pc \in {"begin", "dial", "run"}, CloseScan(i, v) PROVE Goal
    <2>1. NextMachine(i) /\ task' = [task EXCEPT ![i] = Reported(@, Whole(Target(i), v))]
      BY <1>14 DEF CloseScan
    <2>2. Target(i) \in Machines /\ Target(i) = t.targets[j.at]
      BY <1>14, TargetType
    <2>3. {} \in SUBSET Items /\ [x \in {} |-> v] \in [{} -> Verdicts]
      OBVIOUS
    <2>4. Whole(Target(i), v) \in Result /\ Whole(Target(i), v).machine = Target(i)
      BY <2>2, <2>3, ResultTypes
    <2>5. QED
      BY <1>6, <1>14, <2>1, <2>2, <2>4
  <1>8. ASSUME Launch(i) PROVE Goal
    <2> DEFINE j2 == [j EXCEPT !.pc = "begin"]
    <2>1. j2 \in Job /\ j2.pc = "begin" /\ j2.at = j.at /\ j2.phase = j.phase
          /\ job' = [job EXCEPT ![i] = j2] /\ task' = task /\ j.pc = "created"
      BY <1>2, <1>3, <1>8 DEF Launch, Job
    <2> HIDE DEF j2
    <2>2. Consistent(t, j2, TRUE)
      BY <1>2, <2>1 DEF Consistent
    <2>3. BarFits(t, j2)
      BY <1>2, <2>1 DEF BarFits
    <2>4. QED
      BY <1>5, <2>1, <2>2, <2>3
  <1>9. ASSUME BeginClean(i) PROVE Goal
    <2> DEFINE j2 == [j EXCEPT !.pc = "clean"]
    <2>1. j2 \in Job /\ j2.pc = "clean" /\ j2.at = j.at /\ j2.phase = j.phase
          /\ job' = [job EXCEPT ![i] = j2] /\ task' = task /\ j.pc = "begin" /\ t.op = "cleanup"
      BY <1>2, <1>3, <1>9 DEF BeginClean, Job
    <2> HIDE DEF j2
    <2>2. Consistent(t, j2, TRUE)
      BY <1>2, <2>1 DEF Consistent
    <2>3. BarFits(t, j2)
      BY <1>2, <2>1 DEF BarFits
    <2>4. QED
      BY <1>5, <2>1, <2>2, <2>3
  <1>10. ASSUME Clean(i) PROVE Goal
    <2>1. j.pc = "clean" /\ NextMachine(i)
      BY <1>10 DEF Clean
    <2>2. Target(i) \in Machines /\ Target(i) = t.targets[j.at]
      BY <2>1, TargetType
    <2>3. ASSUME task' = [task EXCEPT ![i] = Reported(@, Whole(Target(i), "failed"))] PROVE Goal
      <3>1. {} \in SUBSET Items /\ "failed" \in Verdicts /\ [x \in {} |-> "failed"] \in [{} -> Verdicts]
        BY DEF Verdicts
      <3>2. Whole(Target(i), "failed") \in Result /\ Whole(Target(i), "failed").machine = Target(i)
        BY <2>2, <3>1, ResultTypes
      <3>3. QED
        BY <1>6, <2>1, <2>2, <2>3, <3>2
    <2>4. ASSUME NEW f \in Cleaned(Target(i), task[i].items),
                 task' = [task EXCEPT ![i] =
                   Reported(@, [machine |-> Target(i), whole |-> "items", items |-> f])]
          PROVE  Goal
      <3>1. task[i].items \in SUBSET Items
        BY <1>2 DEF Task
      <3>2. f \in [task[i].items -> Verdicts] /\ "ok" \in Verdicts
        BY DEF Cleaned, Verdicts
      <3>3. [machine |-> Target(i), whole |-> "items", items |-> f] \in Result
        BY <2>2, <3>1, <3>2, ResultTypes
      <3>4. [machine |-> Target(i), whole |-> "items", items |-> f].machine = t.targets[j.at]
        BY <2>2
      <3>5. QED
        BY <1>6, <2>1, <2>4, <3>3, <3>4
    <2>5. QED
      BY <1>10, <2>3, <2>4 DEF Clean
  <1>11. ASSUME NoSecret(i) PROVE Goal
    BY <1>11, <1>14 DEF NoSecret, Verdicts
  <1>12. ASSUME OpenScan(i) PROVE Goal
    <2>1. j.pc = "begin" /\ t.op \in ScanModes /\ Show(i, "dial", 0)
      BY <1>2, <1>12 DEF OpenScan
    <2>2. QED
      BY <1>7, <2>1
  <1>17. ASSUME Dialled(i) PROVE Goal
    <2>1. j.pc = "dial" /\ t.op \in ScanModes
      BY <1>2, <1>17 DEF Dialled, Consistent
    <2>2. ASSUME Show(i, "run", 0) PROVE Goal
      BY <1>7, <2>1, <2>2
    <2>3. ASSUME CloseScan(i, "failed") PROVE Goal
      BY <1>14, <2>1, <2>3 DEF Verdicts
    <2>4. QED
      BY <1>17, <2>2, <2>3 DEF Dialled
  <1>13. ASSUME Phase(i) PROVE Goal
    <2>1. j.pc = "run" /\ t.op \in ScanModes
      BY <1>2, <1>13 DEF Phase, Consistent
    <2>2. ASSUME NEW v \in Verdicts, CloseScan(i, v) PROVE Goal
      BY <1>14, <2>1, <2>2
    <2>3. ASSUME j.phase + 1 < Phases[t.op], Show(i, "run", j.phase + 1) PROVE Goal
      BY <1>4, <1>7, <2>1, <2>3
    <2>4. CloseScan(i, "skipped") \/ CloseScan(i, "failed") \/ CloseScan(i, "ok")
          \/ (j.phase + 1 < Phases[t.op] /\ Show(i, "run", j.phase + 1))
      BY <1>13 DEF Phase
    <2>5. QED
      BY <2>2, <2>3, <2>4 DEF Verdicts
  <1>15. ASSUME Finish(i) PROVE Goal
    <2> DEFINE t2 == [t EXCEPT !.status = "done"]
               j2 == [j EXCEPT !.pc = "ended"]
    <2>1. j2 \in Job /\ j2.pc = "ended" /\ job' = [job EXCEPT ![i] = j2] /\ j.pc = "finish"
      BY <1>2, <1>3, <1>15 DEF Finish, Job
    <2>2. t2 \in Task
      BY <1>2 DEF Task
    <2>3. /\ t2.status = "done" /\ t2.op = t.op
          /\ t2.targets = t.targets /\ t2.results = t.results /\ t2.done = t.done
          /\ t2.pct = t.pct /\ task' = [task EXCEPT ![i] = t2]
      BY <1>2, <1>3, <1>15 DEF Finish, Task
    <2> HIDE DEF t2, j2
    <2>4. Consistent(t2, j2, TRUE) /\ t.status # "done"
      BY <1>2, <2>1, <2>3 DEF Consistent
    <2>5. t2.done = Len(t2.targets)
      BY <2>1, <2>4 DEF Consistent
    <2>6. BarFits(t2, j2)
      BY <1>2, <1>4, <2>1, <2>3, <2>5 DEF BarFits
    <2>7. Follows(t, t2, j2)
      <3>1. t.pct <= t2.pct
        BY <1>4, <2>3
      <3>2. QED
        BY <2>3, <2>4, <2>6, <3>1 DEF Follows
    <2>8. QED
      BY <2>1, <2>2, <2>3, <2>7
  <1>16. QED
    BY <1>1, <1>2, <1>8, <1>9, <1>10, <1>11, <1>12, <1>13, <1>15, <1>17 DEF Run, SessionEnds

(* The oldest task leaves a list that has become too long: the newest stay. *)
LEMMA KeepsNewest ==
    ASSUME NEW n \in Nat, NEW kept, Keep(Board!Newest(n) \cup {n + 1}, kept)
    PROVE  kept = Board!Newest(n + 1)
  <1> USE BoundAssumption
  <1> DEFINE ids == Board!Newest(n) \cup {n + 1}
             a == IF n + 1 > MaxKept THEN n + 1 - MaxKept ELSE 1
  <1>1. a \in Nat /\ a >= 1 /\ a <= n + 1
    OBVIOUS
  <1>2. ids = a..(n + 1)
    BY DEF Board!Newest
  <1>3. Cardinality(ids) = n + 1 - a + 1
    <2>1. a \in Int /\ n + 1 \in Int
      BY <1>1
    <2> HIDE DEF a, ids
    <2>2. Cardinality(a..(n + 1)) = (IF a > n + 1 THEN 0 ELSE n + 1 - a + 1)
      BY <2>1, FS_Interval
    <2>3. QED
      BY <1>1, <1>2, <2>2
  <1>4. CASE n + 1 > MaxKept
    <2>1. Cardinality(ids) > MaxKept
      BY <1>3, <1>4
    <2>2. PICK old \in ids : kept = ids \ {old} /\ \A i \in ids : old <= i
      BY <2>1 DEF Keep
    <2>3. a \in ids
      BY <1>1, <1>2
    <2>4. old = a
      BY <1>1, <1>2, <2>2, <2>3
    <2>5. ids \ {a} = (a + 1)..(n + 1)
      BY <1>1, <1>2
    <2>6. (a + 1)..(n + 1) = Board!Newest(n + 1)
      BY <1>4 DEF Board!Newest
    <2>7. QED
      BY <2>2, <2>4, <2>5, <2>6
  <1>5. CASE ~(n + 1 > MaxKept)
    <2>1. ~(Cardinality(ids) > MaxKept)
      BY <1>3, <1>5
    <2>2. kept = ids
      BY <2>1 DEF Keep
    <2>3. QED
      BY <1>2, <1>5, <2>2 DEF Board!Newest
  <1>6. QED
    BY <1>4, <1>5

(* What a request that starts a task asks for. *)
Asked(op, ms, is, pc) ==
    /\ op \in {"cleanup"} \cup ScanModes /\ ms \in Seq(Machines) /\ is \in SUBSET Items
    /\ \/ pc = "created" /\ ms # <<>>
       \/ pc = "none" /\ ms = <<>>

(* A task with goroutine that has just been posted for the machines ms. *)
Fresh(t2, j2, ms) ==
    /\ Consistent(t2, j2, TRUE) /\ BarFits(t2, j2)
    /\ t2.targets = ms /\ t2.done = 0 /\ t2.status = "running"

(* A new task, with its goroutine. *)
LEMMA PostFacts ==
    ASSUME IInv, NEW op, NEW ms, NEW is, NEW pc, Asked(op, ms, is, pc), NewTask(op, ms, is, pc)
    PROVE  /\ nextID \in Ids /\ nextID' = nextID + 1 /\ listed' = Board!Newest(nextID)
           /\ \E t2 \in Task, j2 \in Job :
                 /\ task' = [task EXCEPT ![nextID] = t2] /\ job' = [job EXCEPT ![nextID] = j2]
                 /\ Fresh(t2, j2, ms)
  <1> USE BoundAssumption, ModeAssumption DEF Working
  <1> DEFINE t2 == TaskFor(op, ms, is, "running")
             j2 == JobAt(pc, 1)
  <1>1. nextID \in Ids /\ nextID' = nextID + 1
    BY DEF IInv, TypeOK, NewTask, Ids
  <1>2. listed' = Board!Newest(nextID)
    <2>1. nextID - 1 \in Nat /\ (nextID - 1) + 1 = nextID
      BY <1>1 DEF Ids
    <2>2. Keep(listed \cup {nextID}, listed')
      BY DEF NewTask
    <2>3. listed = Board!Newest(nextID - 1)
      BY DEF IInv
    <2>4. Keep(Board!Newest(nextID - 1) \cup {(nextID - 1) + 1}, listed')
      BY <2>1, <2>2, <2>3
    <2>5. QED
      BY <2>1, <2>4, KeepsNewest
  <1>3. <<>> \in Seq(Result) /\ Len(<<>>) = 0 /\ Len(ms) \in Nat
        /\ (ms # <<>> => Len(ms) \in Nat \ {0})
    BY EmptySeq, LenProperties DEF Asked
  <1>4. t2 \in Task /\ t2.op = op /\ t2.targets = ms /\ t2.status = "running"
        /\ t2.done = 0 /\ t2.pct = 0 /\ t2.results = <<>>
    BY <1>3 DEF TaskFor, Task, Asked
  <1>5. j2 \in Job /\ j2.pc = pc /\ j2.at = 1 /\ j2.phase = 0
    BY DEF JobAt, Job, Asked
  <1>6. op # "none"
    BY DEF Asked
  <1> HIDE DEF t2, j2
  <1>7. Consistent(t2, j2, TRUE)
    BY <1>3, <1>4, <1>5, <1>6 DEF Consistent, Asked
  <1>8. BarFits(t2, j2)
    <2>1. SUFFICES ASSUME ms # <<>> PROVE BarFits(t2, j2)
      BY <1>4 DEF BarFits
    <2>2. Len(ms) \in Nat \ {0} /\ 0 \in 0..Len(ms) /\ 0 < Len(ms)
      BY <1>3, <2>1
    <2>3. Pct(0, Len(ms)) = 0 /\ Pct(0 + 1, Len(ms)) \in Nat
      BY <2>2, PctFacts
    <2>4. pc = "created"
      BY <2>1 DEF Asked
    <2>5. QED
      BY <1>4, <1>5, <2>2, <2>3, <2>4 DEF BarFits
  <1>9. task' = [task EXCEPT ![nextID] = t2] /\ job' = [job EXCEPT ![nextID] = j2]
    BY DEF NewTask, t2, j2
  <1>10. QED
    BY <1>1, <1>2, <1>4, <1>5, <1>7, <1>8, <1>9 DEF Fresh

(* A request is for a sequence of machines. *)
LEMMA RequestsType == Requests \subseteq Seq(Machines)
  <1>1. SUFFICES ASSUME NEW n \in 0..MaxTargets, NEW ms \in [1..n -> Machines]
                 PROVE  ms \in Seq(Machines)
    BY DEF Requests
  <1>2. n \in Nat
    BY BoundAssumption
  <1>3. QED
    BY <1>2

(* The kinds of steps. *)
LEMMA NextCases ==
    ASSUME IInv, Next
    PROVE  \/ \E op, ms, is, pc : Asked(op, ms, is, pc) /\ NewTask(op, ms, is, pc)
                                  /\ mu' \in {"free", "lost"}
           \/ \E i \in Ids : Run(i) \/ SessionEnds(i)
  <1>1. ASSUME NEW ms \in Requests, NEW is \in SUBSET Items, StartCleanup(ms, is)
        PROVE  Asked("cleanup", ms, is, "created") /\ NewTask("cleanup", ms, is, "created")
               /\ mu' \in {"free", "lost"}
    BY <1>1, RequestsType DEF StartCleanup, Asked, IInv, TypeOK
  <1>2. ASSUME NEW is \in SUBSET Items, StartCleanupPanics(is)
        PROVE  Asked("cleanup", <<>>, is, "none") /\ NewTask("cleanup", <<>>, is, "none")
               /\ mu' \in {"free", "lost"}
    BY <1>2, EmptySeq DEF StartCleanupPanics, Asked
  <1>3. ASSUME NEW ms \in Requests, NEW mode \in ScanModes, StartScan(ms, mode)
        PROVE  Asked(mode, ms, {}, "created") /\ NewTask(mode, ms, {}, "created")
               /\ mu' \in {"free", "lost"}
    BY <1>3, RequestsType DEF StartScan, Asked, IInv, TypeOK
  <1>4. QED
    BY <1>1, <1>2, <1>3 DEF Next

-----------------------------------------------------------------------------
(* The theorems *)

(* A change of one task keeps the invariant of all. *)
LEMMA OneChanged ==
    ASSUME IInv, NEW i \in Ids, NEW t2 \in Task, NEW j2 \in Job,
           task' = [task EXCEPT ![i] = t2], job' = [job EXCEPT ![i] = j2],
           Consistent(t2, j2, TRUE), BarFits(t2, j2),
           \/ i < nextID /\ nextID' = nextID /\ listed' = listed
           \/ i = nextID /\ nextID' = nextID + 1 /\ listed' = Board!Newest(nextID),
           mu' \in {"free", "lost"}
    PROVE  IInv'
  <1> USE BoundAssumption
  <1>1. task \in [Ids -> Task] /\ job \in [Ids -> Job]
        /\ nextID \in 1..(MaxTasks + 1) /\ i \in 1..MaxTasks
        /\ listed = Board!Newest(nextID - 1) /\ listed \subseteq Ids
    BY DEF IInv, TypeOK, Ids
  <1>2. nextID' \in 1..(MaxTasks + 1) /\ i < nextID'
    BY <1>1
  <1>3. listed' = Board!Newest(nextID' - 1)
    BY <1>1
  <1>4. listed' \subseteq Ids
    BY <1>1 DEF Board!Newest, Ids
  <1>5. task' \in [Ids -> Task] /\ job' \in [Ids -> Job]
    BY <1>1
  <1>6. ASSUME NEW k \in Ids
        PROVE  Consistent(task'[k], job'[k], k < nextID') /\ BarFits(task'[k], job'[k])
    <2>1. CASE k = i
      <3>1. task'[k] = t2 /\ job'[k] = j2 /\ (k < nextID') = TRUE
        BY <1>1, <1>2, <2>1
      <3>2. QED
        BY <3>1
    <2>2. CASE k # i
      <3>1. task'[k] = task[k] /\ job'[k] = job[k]
        BY <1>1, <2>2
      <3>2. (k < nextID') = (k < nextID)
        BY <1>1, <2>2 DEF Ids
      <3>3. Consistent(task[k], job[k], k < nextID) /\ BarFits(task[k], job[k])
        BY DEF IInv
      <3>4. QED
        BY <3>1, <3>2, <3>3
    <2>3. QED
      BY <2>1, <2>2
  <1>7. TypeOK'
    BY <1>2, <1>4, <1>5 DEF TypeOK
  <1>8. QED
    BY <1>3, <1>6, <1>7 DEF IInv, Board!Newest

(* The invariant of the task manager: types, the newest tasks in the list, *)
(* goroutines where their tasks say they are, and bars between the         *)
(* machines that are done and the next one (cleanup.go:111-196 and         *)
(* 277-296, scan.go:105-233).                                              *)
THEOREM Invariance == Spec => []IInv
  <1>1. Init => IInv
    <2> SUFFICES ASSUME Init PROVE IInv
      OBVIOUS
    <2> USE BoundAssumption
    <2>1. <<>> \in Seq(Machines) /\ <<>> \in Seq(Result)
          /\ Len(<<>>) = 0 /\ {} \in SUBSET Items
      BY EmptySeq
    <2>2. NoTask \in Task /\ NoTask.op = "none" /\ NoTask.done = 0 /\ NoTask.pct = 0
          /\ NoTask.targets = <<>> /\ NoTask.results = <<>> /\ NoTask.status = "none"
      BY <2>1 DEF NoTask, TaskFor, Task
    <2>3. NoJob \in Job /\ NoJob.pc = "none"
      BY DEF NoJob, JobAt, Job, Verdicts
    <2>4. Consistent(NoTask, NoJob, FALSE) /\ BarFits(NoTask, NoJob)
      BY <2>1, <2>2, <2>3 DEF Consistent, BarFits, Working
    <2>5. \A i \in Ids : (i < nextID) = FALSE /\ task[i] = NoTask /\ job[i] = NoJob
      BY DEF Init, Ids
    <2>6. TypeOK
      BY <2>2, <2>3 DEF Init, TypeOK
    <2>7. listed = Board!Newest(nextID - 1)
      BY DEF Init, Board!Newest
    <2>8. \A i \in Ids : Consistent(task[i], job[i], i < nextID) /\ BarFits(task[i], job[i])
      BY <2>4, <2>5
    <2>9. QED
      BY <2>6, <2>7, <2>8 DEF IInv
  <1>2. IInv /\ [Next]_vars => IInv'
    <2> SUFFICES ASSUME IInv, [Next]_vars PROVE IInv'
      OBVIOUS
    <2>1. CASE UNCHANGED vars
      BY <2>1 DEF vars, IInv, TypeOK, Board!Newest
    <2>2. ASSUME NEW i \in Ids, Run(i) \/ SessionEnds(i) PROVE IInv'
      <3>1. mu \in {"free", "lost"}
        BY DEF IInv, TypeOK
      <3>2. i < nextID /\ UNCHANGED <<mu, nextID, listed>>
        BY <2>2, RunFacts
      <3>3. PICK t2 \in Task, j2 \in Job :
              /\ task' = [task EXCEPT ![i] = t2] /\ job' = [job EXCEPT ![i] = j2]
              /\ Follows(task[i], t2, j2)
        BY <2>2, RunFacts
      <3>4. Consistent(t2, j2, TRUE) /\ BarFits(t2, j2)
        BY <3>3 DEF Follows
      <3>5. QED
        BY <3>1, <3>2, <3>3, <3>4, OneChanged
    <2>3. ASSUME NEW op, NEW ms, NEW is, NEW pc, Asked(op, ms, is, pc),
                 NewTask(op, ms, is, pc), mu' \in {"free", "lost"}
          PROVE  IInv'
      <3>1. nextID \in Ids /\ nextID' = nextID + 1 /\ listed' = Board!Newest(nextID)
        BY <2>3, PostFacts
      <3>2. PICK t2 \in Task, j2 \in Job :
              /\ task' = [task EXCEPT ![nextID] = t2] /\ job' = [job EXCEPT ![nextID] = j2]
              /\ Fresh(t2, j2, ms)
        BY <2>3, PostFacts
      <3>3. PICK i \in Ids : i = nextID
        BY <3>1
      <3>4. QED
        BY <2>3, <3>1, <3>2, <3>3, OneChanged DEF Fresh
    <2>4. QED
      BY <2>1, <2>2, <2>3, NextCases
  <1>3. QED
    BY <1>1, <1>2, PTL DEF Spec

(* The bar is full exactly when every machine has been reported on, and    *)
(* when a task is done it is full (cleanup.go:162-184, scan.go:137-163).   *)
THEOREM ProgressIsTrue == Spec => []ProgressTruth
  <1>1. ASSUME IInv PROVE ProgressTruth
    <2> SUFFICES ASSUME NEW i \in Ids, task[i].targets # <<>>
                 PROVE  /\ task[i].pct = 100 <=> Reports(i) = Len(task[i].targets)
                        /\ task[i].status = "done" => task[i].pct = 100
      BY DEF ProgressTruth
    <2>1. Consistent(task[i], job[i], i < nextID) /\ BarFits(task[i], job[i]) /\ task[i] \in Task
      BY <1>1 DEF IInv, TypeOK
    <2>2. task[i].done = Reports(i) /\ task[i].done <= Len(task[i].targets)
      BY <2>1 DEF Consistent, Reports
    <2>3. task[i].done \in Nat /\ Len(task[i].targets) \in Nat /\ task[i].pct \in Nat
      BY <2>1, LenProperties DEF Task
    <2>4. task[i].done < Len(task[i].targets) => task[i].pct <= 99
      BY <2>1 DEF BarFits
    <2>5. task[i].done = Len(task[i].targets) => task[i].pct = 100
      BY <2>1 DEF BarFits
    <2>6. task[i].status = "done" => task[i].done = Len(task[i].targets)
      BY <2>1 DEF Consistent
    <2>7. QED
      BY <2>2, <2>3, <2>4, <2>5, <2>6
  <1>2. QED
    BY Invariance, <1>1, PTL

(* The bar never goes back, with any number of machines and commands and   *)
(* wherever a machine fails (scan.go:137-160).                             *)
THEOREM BarNeverFalls == Spec => ProgressNeverFalls
  <1>1. ASSUME IInv, [Next]_vars PROVE [\A i \in Ids : task'[i].pct >= task[i].pct]_task
    <2>1. task \in [Ids -> Task] /\ \A i \in Ids : task[i].pct \in Nat
      BY <1>1 DEF IInv, TypeOK, Task
    <2>2. ASSUME NEW i \in Ids, Run(i) \/ SessionEnds(i), NEW k \in Ids PROVE task'[k].pct >= task[k].pct
      <3>1. PICK t2 \in Task, j2 \in Job :
              task' = [task EXCEPT ![i] = t2] /\ Follows(task[i], t2, j2)
        BY <1>1, <2>2, RunFacts
      <3>2. task[i].pct <= t2.pct /\ t2.pct \in Nat
        BY <3>1 DEF Follows, Task
      <3>3. QED
        BY <2>1, <3>1, <3>2
    <2>3. ASSUME NEW op, NEW ms, NEW is, NEW pc, Asked(op, ms, is, pc),
                 NewTask(op, ms, is, pc), NEW k \in Ids
          PROVE  task'[k].pct >= task[k].pct
      <3>1. nextID \in Ids
        BY <1>1, <2>3, PostFacts
      <3>2. PICK t2 \in Task, j2 \in Job : task' = [task EXCEPT ![nextID] = t2]
        BY <1>1, <2>3, PostFacts
      <3>3. t2.pct \in Nat
        BY DEF Task
      <3>4. task[nextID].pct = 0
        <4>1. PICK i \in Ids : i = nextID
          BY <3>1
        <4>2. ~(i < nextID)
          BY <4>1 DEF Ids
        <4>3. task[i] = NoTask
          BY <1>1, <4>2 DEF IInv, Consistent
        <4>4. QED
          BY <4>1, <4>3 DEF NoTask, TaskFor
      <3>5. QED
        BY <2>1, <3>1, <3>2, <3>3, <3>4
    <2>4. CASE UNCHANGED vars
      BY <2>4 DEF vars
    <2>5. QED
      BY <1>1, <2>2, <2>3, <2>4, NextCases
  <1>2. QED
    BY Invariance, <1>1, PTL DEF Spec, ProgressNeverFalls

-----------------------------------------------------------------------------
(* The task manager implements the board *)

(* The machines a task has reported on. *)
Row(t) == [k \in 1..Len(t.results) |-> t.results[k].machine]

(* They are the first of its targets. *)
LEMMA RowFacts ==
    ASSUME NEW t \in Task, NEW j, NEW p \in BOOLEAN, Consistent(t, j, p)
    PROVE  /\ Row(t) = [k \in 1..t.done |-> t.targets[k]]
           /\ Row(t) \in Seq(Machines) /\ Len(Row(t)) = t.done
           /\ t.done \in Nat /\ t.done <= Len(t.targets) /\ t.targets \in Seq(Machines)
  <1>1. t.done \in Nat /\ t.targets \in Seq(Machines) /\ Len(t.targets) \in Nat
    BY LenProperties DEF Task
  <1>2. t.done = Len(t.results) /\ t.done <= Len(t.targets)
        /\ \A k \in 1..t.done : t.results[k].machine = t.targets[k]
    BY DEF Consistent
  <1>3. \A k \in 1..t.done : t.targets[k] \in Machines
    BY <1>1, <1>2, ElementOfSeq
  <1>4. Row(t) = [k \in 1..t.done |-> t.targets[k]]
    BY <1>2 DEF Row
  <1>5. [k \in 1..t.done |-> t.targets[k]] \in Seq(Machines)
        /\ Len([k \in 1..t.done |-> t.targets[k]]) = t.done
    BY <1>1, <1>3
  <1>6. QED
    BY <1>1, <1>2, <1>4, <1>5

(* One more report. *)
LEMMA RowGrows ==
    ASSUME NEW t \in Task, NEW j, Consistent(t, j, TRUE),
           NEW t2 \in Task, NEW j2, Consistent(t2, j2, TRUE),
           t2.targets = t.targets, t2.done = t.done + 1
    PROVE  /\ Len(Row(t)) < Len(t.targets)
           /\ Row(t2) = Append(Row(t), t.targets[Len(Row(t)) + 1])
  <1> DEFINE d == t.done
             more == Append(Row(t), t.targets[d + 1])
  <1>1. /\ d \in Nat /\ t2.done = d + 1 /\ d + 1 <= Len(t.targets)
        /\ Row(t) \in Seq(Machines) /\ Len(Row(t)) = d
        /\ Row(t2) \in Seq(Machines) /\ Len(Row(t2)) = d + 1
        /\ Row(t) = [k \in 1..d |-> t.targets[k]]
        /\ Row(t2) = [k \in 1..(d + 1) |-> t.targets[k]]
        /\ t.targets \in Seq(Machines)
    BY RowFacts
  <1>2. t.targets[d + 1] \in Machines
    BY <1>1, LenProperties, ElementOfSeq
  <1>3. more \in Seq(Machines) /\ Len(more) = d + 1
        /\ (\A k \in 1..d : more[k] = Row(t)[k]) /\ more[d + 1] = t.targets[d + 1]
    BY <1>1, <1>2, AppendProperties
  <1>4. \A k \in 1..(d + 1) : more[k] = Row(t2)[k]
    BY <1>1, <1>3
  <1> HIDE DEF more
  <1>5. Row(t2) = more
    <2>1. /\ Row(t2) \in Seq(Machines) /\ more \in Seq(Machines)
          /\ Len(Row(t2)) = Len(more) /\ \A k \in 1..Len(more) : Row(t2)[k] = more[k]
      BY <1>1, <1>3, <1>4
    <2>2. QED
      BY <2>1, SeqEqual
  <1>6. QED
    BY <1>1, <1>5, LenProperties DEF more

(* A step of a goroutine is a report, the end of a task, or nothing that   *)
(* the board shows.                                                        *)
LEMMA RunImplements ==
    ASSUME IInv, NEW i \in Ids, Run(i) \/ SessionEnds(i)
    PROVE  Board!ReportNext(i) \/ Board!Complete(i) \/ UNCHANGED Board!board
  <1> DEFINE t == task[i]
             T == [k \in Ids |-> task[k].targets]
             R == [k \in Ids |-> Row(task[k])]
             D == {k \in Ids : task[k].status = "done"}
  <1>1. i < nextID /\ UNCHANGED <<nextID, listed>>
    BY RunFacts
  <1>2. PICK t2 \in Task, j2 \in Job :
          task' = [task EXCEPT ![i] = t2] /\ Follows(t, t2, j2)
    BY RunFacts
  <1>3. task \in [Ids -> Task] /\ t \in Task /\ nextID \in Nat /\ i \in Nat
    BY BoundAssumption DEF IInv, TypeOK, Ids
  <1>4. Consistent(t, job[i], TRUE)
    BY <1>1 DEF IInv, Consistent
  <1>5. /\ Consistent(t2, j2, TRUE) /\ t2.targets = t.targets
        /\ \/ t2.done \in {t.done, t.done + 1} /\ t2.status = t.status
           \/ t2.done = t.done /\ t.status # "done" /\ t2.status = "done"
    BY <1>2 DEF Follows
  <1>6. task'[i] = t2 /\ \A k \in Ids : k # i => task'[k] = task[k]
    BY <1>2, <1>3
  <1>7. T' = T
    BY <1>5, <1>6
  <1>8. R' = [R EXCEPT ![i] = Row(t2)]
    BY <1>6
  <1>9. /\ Row(t) \in Seq(Machines) /\ Len(Row(t)) = t.done /\ t.done \in Nat
        /\ Row(t) = [k \in 1..t.done |-> t.targets[k]]
        /\ Row(t2) = [k \in 1..t2.done |-> t.targets[k]]
        /\ t.targets \in Seq(Machines) /\ t.done <= Len(t.targets) /\ t2.done <= Len(t.targets)
    BY <1>3, <1>4, <1>5, RowFacts
  <1>10. i <= nextID - 1
    BY <1>1, <1>3
  <1>11. \A k \in Ids : R[k] = [n \in 1..Reports(k) |-> task[k].results[n].machine]
    BY DEF Row, Reports
  <1>12. R' = [k \in Ids |-> [n \in 1..Reports(k)' |-> task'[k].results[n].machine]]
    BY DEF Row, Reports
  <1>13. R = [k \in Ids |-> [n \in 1..Reports(k) |-> task[k].results[n].machine]]
    BY DEF Row, Reports
  <1>14. CASE t2.done = t.done + 1
    <2>1. t2.status = t.status
      BY <1>5, <1>9, <1>14
    <2>2. t.status # "done"
      BY <1>4, <1>9, <1>14 DEF Consistent
    <2>3. D' = D
      BY <1>6, <2>1
    <2>4. Len(R[i]) < Len(T[i])
          /\ R' = [R EXCEPT ![i] = Append(@, T[i][Len(@) + 1])]
      BY <1>3, <1>4, <1>5, <1>8, <1>14, RowGrows
    <2>5. i \notin D
      BY <2>2
    <2>6. Board!ReportNext(i)
      BY <1>1, <1>7, <1>10, <1>12, <1>13, <2>3, <2>4, <2>5 DEF Board!ReportNext
    <2>7. QED
      BY <2>6
  <1>15. CASE t2.done = t.done
    <2>1. R' = R
      BY <1>8, <1>9, <1>15
    <2>2. CASE t2.status = t.status
      <3>1. D' = D
        BY <1>6, <2>2
      <3>2. QED
        BY <1>1, <1>7, <1>12, <1>13, <2>1, <3>1 DEF Board!board
    <2>3. CASE t.status # "done" /\ t2.status = "done"
      <3>1. t2.done = Len(t2.targets)
        BY <1>5, <2>3 DEF Consistent
      <3>2. R[i] = T[i]
        <4>1. Len(Row(t)) = Len(t.targets)
          BY <1>5, <1>9, <1>15, <3>1
        <4>2. \A k \in 1..Len(Row(t)) : Row(t)[k] = t.targets[k]
          BY <1>9
        <4>3. Row(t) = t.targets
          BY <1>9, <4>1, <4>2, SeqEqual
        <4>4. QED
          BY <4>3
      <3>3. D' = D \cup {i} /\ i \notin D
        BY <1>6, <2>3
      <3>4. Board!Complete(i)
        BY <1>1, <1>7, <1>10, <1>12, <1>13, <2>1, <3>2, <3>3 DEF Board!Complete
      <3>5. QED
        BY <3>4
    <2>4. QED
      BY <1>5, <1>9, <1>15, <2>2, <2>3
  <1>16. QED
    BY <1>5, <1>14, <1>15

(* A request that starts a task posts it. *)
LEMMA PostImplements ==
    ASSUME IInv, NEW op, NEW ms, NEW is, NEW pc, Asked(op, ms, is, pc), NewTask(op, ms, is, pc)
    PROVE  Board!Post
  <1>1. nextID \in Ids /\ nextID' = nextID + 1 /\ listed' = Board!Newest(nextID)
    BY PostFacts
  <1>2. PICK t2 \in Task, j2 \in Job :
          /\ task' = [task EXCEPT ![nextID] = t2] /\ job' = [job EXCEPT ![nextID] = j2]
          /\ Fresh(t2, j2, ms)
    BY PostFacts
  <1> DEFINE T == [k \in Ids |-> task[k].targets]
             R == [k \in Ids |-> Row(task[k])]
             D == {k \in Ids : task[k].status = "done"}
  <1>3. task \in [Ids -> Task] /\ nextID \in Nat
    BY <1>1 DEF IInv, TypeOK, Ids
  <1>4. PICK i \in Ids : i = nextID
    BY <1>1
  <1>5. Consistent(task[i], job[i], FALSE)
    <2>1. (i < nextID) = FALSE
      BY <1>3, <1>4
    <2>2. QED
      BY <2>1 DEF IInv
  <1>6. task[i].status = "none"
    BY <1>5 DEF Consistent, NoTask, TaskFor
  <1>7. task[i].done = 0
    BY <1>5 DEF Consistent, NoTask, TaskFor
  <1>8. task'[i] = t2 /\ \A k \in Ids : k # i => task'[k] = task[k]
    BY <1>2, <1>3, <1>4
  <1>9. D' = D
    BY <1>2, <1>6, <1>8 DEF Fresh
  <1>10. Row(t2) = Row(task[i])
    <2>1. Row(t2) \in Seq(Machines) /\ Len(Row(t2)) = 0
      BY <1>2, RowFacts DEF Fresh
    <2>2. Row(task[i]) \in Seq(Machines) /\ Len(Row(task[i])) = 0
      BY <1>3, <1>5, <1>7, RowFacts
    <2>3. QED
      BY <2>1, <2>2, SeqEqual
  <1>11. R' = R
    BY <1>8, <1>10
  <1>12. T'[nextID] \in Seq(Machines) /\ T' = [T EXCEPT ![nextID] = T'[nextID]]
    <2>1. ms \in Seq(Machines)
      BY DEF Asked
    <2>2. T'[i] = ms /\ \A k \in Ids : k # i => T'[k] = T[k]
      BY <1>2, <1>8 DEF Fresh
    <2>3. T' = [T EXCEPT ![i] = T'[i]]
      BY <2>2
    <2>4. QED
      BY <1>4, <2>1, <2>2, <2>3
  <1>13. R' = [k \in Ids |-> [n \in 1..Reports(k)' |-> task'[k].results[n].machine]]
         /\ R = [k \in Ids |-> [n \in 1..Reports(k) |-> task[k].results[n].machine]]
    BY DEF Row, Reports
  <1>14. (nextID - 1) + 1 = nextID /\ nextID' - 1 = nextID
    BY <1>1, <1>3
  <1>15. QED
    BY <1>1, <1>9, <1>11, <1>12, <1>13, <1>14 DEF Board!Post

(* The task manager keeps the promises of TaskBoard: the list holds the    *)
(* newest tasks, a task reports on each of its machines once and in order, *)
(* whatever fails, and is done when it has reported on all (cleanup.go:    *)
(* 154-194 and 277-296, scan.go:135-163).                                  *)
THEOREM ImplementsBoard == Spec => KeepsPromises
  <1>1. Init => Board!BoardInit
    <2> SUFFICES ASSUME Init PROVE Board!BoardInit
      OBVIOUS
    <2>1. NoTask.targets = <<>> /\ NoTask.results = <<>> /\ NoTask.status = "none"
      BY DEF NoTask, TaskFor
    <2>2. \A i \in Ids : task[i] = NoTask
      BY DEF Init
    <2>3. [i \in Ids |-> task[i].targets] = [i \in Ids |-> <<>>]
      BY <2>1, <2>2
    <2>4. \A i \in Ids : Reports(i) = 0
      BY <2>1, <2>2, EmptySeq DEF Reports
    <2>5. \A i \in Ids : [k \in 1..Reports(i) |-> task[i].results[k].machine] = <<>>
      <3> SUFFICES ASSUME NEW i \in Ids
                   PROVE  [k \in 1..0 |-> task[i].results[k].machine] = <<>>
        BY <2>4
      <3>1. [k \in 1..0 |-> task[i].results[k].machine] \in Seq(Machines)
            /\ Len([k \in 1..0 |-> task[i].results[k].machine]) = 0
        OBVIOUS
      <3>2. QED
        BY <3>1, EmptySeq
    <2>6. {i \in Ids : task[i].status = "done"} = {}
      BY <2>1, <2>2
    <2>7. nextID - 1 = 0 /\ listed = {}
      BY DEF Init
    <2>8. QED
      BY <2>3, <2>5, <2>6, <2>7 DEF Board!BoardInit
  <1>2. ASSUME IInv, [Next]_vars PROVE [Board!BoardNext]_(Board!board)
    <2>1. CASE UNCHANGED vars
      BY <2>1 DEF vars, Board!board, Reports
    <2>2. ASSUME NEW i \in Ids, Run(i) \/ SessionEnds(i) PROVE [Board!BoardNext]_(Board!board)
      <3>1. Board!ReportNext(i) \/ Board!Complete(i) \/ UNCHANGED Board!board
        BY <1>2, <2>2, RunImplements
      <3>2. QED
        BY <3>1 DEF Board!BoardNext
    <2>3. ASSUME NEW op, NEW ms, NEW is, NEW pc, Asked(op, ms, is, pc), NewTask(op, ms, is, pc)
          PROVE  [Board!BoardNext]_(Board!board)
      <3>1. Board!Post
        BY <1>2, <2>3, PostImplements
      <3>2. QED
        BY <3>1 DEF Board!BoardNext
    <2>4. QED
      BY <1>2, <2>1, <2>2, <2>3, NextCases
  <1>3. QED
    BY <1>1, <1>2, Invariance, PTL DEF Spec, KeepsPromises, Board!BoardSpec

=============================================================================
