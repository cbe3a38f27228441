------------------------------ MODULE Traffic ------------------------------
(***************************************************************************)
(* Traffic statistics: the poll loop of internal/traffic/traffic.go, which *)
(* turns the counters of the frps dashboard into rates, rows of history    *)
(* and alarms, and the history table of internal/store/traffic.go.         *)
(*                                                                         *)
(* The counters belong to frps: they start again at zero at midnight and   *)
(* when frps restarts, and proxies come and go.  The service remembers the *)
(* last totals in memory only, the history survives it.  A round is three  *)
(* steps apart: the rates (under s.mu), the rows (one transaction), and    *)
(* the judgement, which reads the history and marks the flows.             *)
(*                                                                         *)
(* Data: a volume has two sides, in and out; a rate is the volume per      *)
(* PollInterval, which is what the code divides by however late a poll is. *)
(* Time is counted in ticks of the poll timer.  Percentages, totals and    *)
(* the machine id of a row are left out.                                   *)
(***************************************************************************)
EXTENDS Integers, FiniteSetsExt

CONSTANTS
    Proxies,
    Loads,             \* Loads[p]: what proxy p may carry between two ticks
    AnomalyThreshold,  \* a surge is this many times the mean
    MinRows,           \* rows that a judgement needs
    MinMean,           \* a mean up to this is not worth an alarm
    Hour,              \* ticks that the judgement looks back
    Retention,         \* ticks that the table keeps a row
    MaxTicks,          \* bound: ticks of the poll timer
    MaxFaults          \* bound: resets, failures, restarts, proxies that leave

Sides == {"in", "out"}
Volume == [Sides -> Nat]
Zero == [s \in Sides |-> 0]
Plus(v, w) == [s \in Sides |-> v[s] + w[s]]

ASSUME LoadAssumption == Loads \in [Proxies -> SUBSET Volume]
ASSUME JudgementAssumption ==
    /\ AnomalyThreshold \in Nat \ {0} /\ MinRows \in Nat \ {0} /\ MinMean \in Nat
    /\ Hour \in Nat /\ Retention \in Nat /\ Hour <= Retention
ASSUME TrafficBounds == MaxTicks \in Nat /\ MaxFaults \in Nat

VARIABLES
    \* frps
    online, counter,
    \* the clock and the channel of the ticker
    now, due,
    \* the service: prevTotals and lastSample have the same keys
    sampled, prevTotals, lastSample,
    \* the history table by proxy, and the id of its next row
    table, nextId,
    \* the goroutine: where it is, the flows of its round, the averages it has read
    pc, batch, average,
    \* history: what each proxy has carried and what all samples of it add up to
    carried, measured,
    \* history: no reset since the last sample of p, and what had been carried but
    \* not measured when the counting of that stretch began
    steady, unseen,
    faults

frps == <<online, counter, carried>>
clock == <<now, due>>
memory == <<sampled, prevTotals, lastSample>>
history == <<table, nextId>>
local == <<pc, batch, average>>
account == <<measured, steady, unseen>>
vars == <<frps, clock, memory, history, local, account, faults>>

Flow == [at : Nat, rate : Volume, anomaly : BOOLEAN]
NoFlow == [at |-> 0, rate |-> Zero, anomaly |-> FALSE]
Row == [id : Nat, at : Nat, rate : Volume]
Average == [n : Nat, sum : Volume]
NoAverage == [n |-> 0, sum |-> Zero]

(* The counters, what the service remembers of them, and the accounts. *)
CountTypeOK ==
    /\ online \subseteq Proxies
    /\ counter \in [Proxies -> Volume] /\ carried \in [Proxies -> Volume]
    /\ now \in Nat /\ due \in BOOLEAN
    /\ sampled \subseteq Proxies /\ prevTotals \in [Proxies -> Volume]
    /\ lastSample \in [Proxies -> Flow]
    /\ pc \in {"down", "idle", "save", "load", "mark"} /\ batch \subseteq Proxies
    /\ measured \in [Proxies -> Volume] /\ unseen \in [Proxies -> Volume]
    /\ steady \subseteq Proxies
    /\ faults \in Nat

(* The table, which is finite, and the averages read from it. *)
HistoryTypeOK ==
    /\ table \in [Proxies -> SUBSET Row] /\ \A p \in Proxies : IsFiniteSet(table[p])
    /\ nextId \in Nat
    /\ average \in [Proxies -> Average]

(* Every variable has its type. *)
TypeOK == CountTypeOK /\ HistoryTypeOK

-----------------------------------------------------------------------------
(* Helpers *)

(* A plausible bug: a counter that has started again is seen on one side. *)
RatesByInput(p) ==
    LET grown == [s \in Sides |-> counter[p][s] - prevTotals[p][s]]
    IN  IF p \notin sampled \/ grown["in"] < 0 THEN Zero ELSE grown

(* pollWithProxies: the rates of a proxy.  The first sample has none, and  *)
(* neither has one whose counters have started again: if either side has   *)
(* fallen, both are zero.                                                  *)
Rates(p) ==
    LET grown == [s \in Sides |-> counter[p][s] - prevTotals[p][s]]
    IN  IF p \notin sampled \/ (\E s \in Sides : grown[s] < 0) THEN Zero ELSE grown

(* GetTrafficHistory and the sums of detectAnomalies, for one proxy. *)
Recent(p) == {row \in table[p] : row.at + Hour >= now}
SumOver(rows, s) == MapThenSumSet(LAMBDA row : row.rate[s], rows)
AverageOf(rows) ==
    [n |-> Cardinality(rows), sum |-> [s \in Sides |-> SumOver(rows, s)]]

(* detectAnomalies: on one side or the other, the mean is worth looking at *)
(* and the new rate is many times the mean.                                *)
Unusual(p) ==
    /\ average[p].n >= MinRows
    /\ \E s \in Sides :
          /\ average[p].sum[s] > MinMean * average[p].n
          /\ lastSample[p].rate[s] * average[p].n > average[p].sum[s] * AnomalyThreshold

-----------------------------------------------------------------------------
(* frps and the timer *)

(* A tick: the proxies that are online have carried something since the    *)
(* last one.  A tick that nobody has fetched swallows the next.            *)
Tick ==
    /\ now < MaxTicks
    /\ now' = now + 1
    /\ due' = (pc # "down")
    /\ \E load \in [Proxies -> UNION {Loads[p] : p \in Proxies}] :
          /\ \A p \in Proxies : load[p] \in Loads[p]
          /\ counter' = [p \in Proxies |->
                IF p \in online THEN Plus(counter[p], load[p]) ELSE counter[p]]
          /\ carried' = [p \in Proxies |->
                IF p \in online THEN Plus(carried[p], load[p]) ELSE carried[p]]
    /\ UNCHANGED <<online, memory, history, local, account, faults>>

(* Midnight, or a restart of frps. *)
Reset ==
    /\ faults < MaxFaults /\ faults' = faults + 1
    /\ counter' = [p \in Proxies |-> Zero]
    /\ steady' = {}
    /\ UNCHANGED <<online, carried, clock, memory, history, local, measured, unseen>>

(* A proxy goes offline, and comes back. *)
GoOffline(p) ==
    /\ p \in online
    /\ faults < MaxFaults /\ faults' = faults + 1
    /\ online' = online \ {p}
    /\ UNCHANGED <<counter, carried, clock, memory, history, local, account>>

ComeBack(p) ==
    /\ p \notin online
    /\ online' = online \cup {p}
    /\ UNCHANGED <<counter, carried, clock, memory, history, local, account, faults>>

-----------------------------------------------------------------------------
(* One round *)

(* A plausible bug: the totals are only remembered the first time. *)
RememberFirst(p) == IF p \in sampled THEN prevTotals[p] ELSE counter[p]

(* prevTotals[p.Name] = the totals of this round, whatever they are. *)
Remember(p) == counter[p]

(* A plausible bug: a proxy that is not online is forgotten. *)
KnownOnline == online

(* The keys of the two maps: nothing is ever deleted from them. *)
Known == sampled \cup online

(* A plausible bug: the flow of a proxy is used again, with its alarm. *)
FlowAgain(p) == [at |-> now, rate |-> Rates(p), anomaly |-> lastSample[p].anomaly]

(* The flow of this round; nobody has judged it yet. *)
FlowOf(p) == [at |-> now, rate |-> Rates(p), anomaly |-> FALSE]

(* poll and the first half of pollWithProxies: the dashboard answers, the  *)
(* proxies that are online get their rates, the others are skipped.        *)
Sample ==
    /\ pc = "idle" /\ due
    /\ due' = FALSE
    /\ pc' = IF online = {} THEN "load" ELSE "save"
    /\ batch' = online
    /\ sampled' = Known
    /\ prevTotals' = [p \in Proxies |-> IF p \in online THEN Remember(p) ELSE prevTotals[p]]
    /\ lastSample' = [p \in Proxies |-> IF p \in online THEN FlowOf(p) ELSE lastSample[p]]
    /\ measured' = [p \in Proxies |->
          IF p \in online THEN Plus(measured[p], Rates(p)) ELSE measured[p]]
    /\ steady' = steady \cup online
    /\ unseen' = [p \in Proxies |-> IF p \in online \ steady
          THEN [s \in Sides |-> carried[p][s] - measured'[p][s]] ELSE unseen[p]]
    /\ UNCHANGED <<frps, now, history, average, faults>>

(* The dashboard is not configured or does not answer: the tick is lost. *)
SampleFails ==
    /\ pc = "idle" /\ due
    /\ faults < MaxFaults /\ faults' = faults + 1
    /\ due' = FALSE
    /\ UNCHANGED <<frps, now, memory, history, local, account>>

(* The row of a flow.  The rows of one round are of different proxies, one *)
(* number does for all of them.                                            *)
RowOf(p) == [id |-> nextId, at |-> lastSample[p].at, rate |-> lastSample[p].rate]

(* SaveTraffic: all rows of the round in one transaction. *)
Save ==
    /\ pc = "save"
    /\ pc' = "load"
    /\ table' = [p \in Proxies |-> IF p \in batch THEN table[p] \cup {RowOf(p)} ELSE table[p]]
    /\ nextId' = nextId + 1
    /\ UNCHANGED <<frps, clock, memory, batch, average, account, faults>>

(* The transaction fails, which nobody asks about. *)
SaveFails ==
    /\ pc = "save"
    /\ faults < MaxFaults /\ faults' = faults + 1
    /\ pc' = "load"
    /\ UNCHANGED <<frps, clock, memory, history, batch, average, account>>

(* The goroutine is back at its select, and the locals of the round are gone. *)
EndRound == pc' = "idle" /\ batch' = {} /\ average' = [p \in Proxies |-> NoAverage]

(* detectAnomalies, first half: the last hour of the history. *)
Load ==
    /\ pc = "load"
    /\ IF \A p \in Proxies : Recent(p) = {}
       THEN EndRound
       ELSE /\ pc' = "mark"
            /\ average' = [p \in Proxies |-> AverageOf(Recent(p))]
            /\ UNCHANGED batch
    /\ UNCHANGED <<frps, clock, memory, history, account, faults>>

(* The history cannot be read: nobody judges the flows of this round. *)
LoadFails ==
    /\ pc = "load"
    /\ faults < MaxFaults /\ faults' = faults + 1
    /\ EndRound
    /\ UNCHANGED <<frps, clock, memory, history, account>>

(* detectAnomalies, second half, under s.mu. *)
Mark ==
    /\ pc = "mark"
    /\ EndRound
    /\ lastSample' = [p \in Proxies |->
          IF p \in batch THEN [lastSample[p] EXCEPT !.anomaly = Unusual(p)]
          ELSE lastSample[p]]
    /\ UNCHANGED <<frps, clock, sampled, prevTotals, history, account, faults>>

(* CleanupTraffic, by a timer of its own in the same goroutine. *)
CleanupTraffic ==
    /\ pc = "idle"
    /\ table' = [p \in Proxies |->
          {row \in table[p] : row.at + Retention >= now}]
    /\ UNCHANGED <<frps, clock, memory, nextId, local, account, faults>>

-----------------------------------------------------------------------------
(* The life of the process *)

(* It ends at any point, and forgets the totals and the flows. *)
Down ==
    /\ pc # "down"
    /\ faults < MaxFaults /\ faults' = faults + 1
    /\ pc' = "down" /\ due' = FALSE
    /\ batch' = {} /\ average' = [p \in Proxies |-> NoAverage]
    /\ sampled' = {} /\ prevTotals' = [p \in Proxies |-> Zero]
    /\ lastSample' = [p \in Proxies |-> NoFlow]
    /\ steady' = {}
    /\ UNCHANGED <<frps, now, history, measured, unseen>>

(* New and Start: the first poll does not wait for the ticker. *)
Start ==
    /\ pc = "down"
    /\ pc' = "idle" /\ due' = TRUE
    /\ UNCHANGED <<frps, now, memory, history, batch, average, account, faults>>

Init ==
    /\ online = Proxies
    /\ counter = [p \in Proxies |-> Zero] /\ carried = [p \in Proxies |-> Zero]
    /\ now = 0 /\ due = FALSE
    /\ sampled = {} /\ prevTotals = [p \in Proxies |-> Zero]
    /\ lastSample = [p \in Proxies |-> NoFlow]
    /\ table = [p \in Proxies |-> {}] /\ nextId = 0
    /\ pc = "down" /\ batch = {} /\ average = [p \in Proxies |-> NoAverage]
    /\ measured = [p \in Proxies |-> Zero] /\ unseen = [p \in Proxies |-> Zero]
    /\ steady = {}
    /\ faults = 0

Round == Sample \/ SampleFails \/ Save \/ SaveFails \/ Load \/ LoadFails \/ Mark

Next ==
    \/ Tick \/ Reset
    \/ \E p \in Proxies : GoOffline(p) \/ ComeBack(p)
    \/ Round \/ CleanupTraffic
    \/ Down \/ Start

Spec == Init /\ [][Next]_vars

-----------------------------------------------------------------------------
(* Properties *)

(* What the counters show since the last sample of p. *)
Pending(p, s) ==
    IF p \in sampled /\ counter[p][s] > prevTotals[p][s]
    THEN counter[p][s] - prevTotals[p][s] ELSE 0

(* All rates of a proxy, times the interval, never add up to more than it  *)
(* has carried, although the counters start again, the process restarts,   *)
(* polls fail and proxies disappear for a while (traffic.go:104-114).      *)
NeverOvercounts ==
    \A p \in Proxies, s \in Sides :
        measured[p][s] + Pending(p, s) <= carried[p][s]

(* Between resets nothing is lost either: what a proxy carries while polls *)
(* fail or while it is away from the list is in its next rate.             *)
ExactBetweenResets ==
    \A p \in steady : p \in sampled /\ \A s \in Sides :
        /\ prevTotals[p][s] <= counter[p][s]
        /\ measured[p][s] + (counter[p][s] - prevTotals[p][s]) + unseen[p][s]
               = carried[p][s]

(* The rows of p that are older than its last flow, for a judgement at t.  *)
Earlier(p, t) ==
    {row \in table[p] : row.at < lastSample'[p].at /\ row.at + Hour >= t}

(* The rate of p is more than AnomalyThreshold times the mean of the rows  *)
(* before it within the hour.  The mean of the code takes in the judged    *)
(* row as well, so that an alarm for a row that was saved takes            *)
(* AnomalyThreshold earlier rows and not MinRows (traffic.go:183).         *)
Deserved(p) ==
    \E t \in lastSample'[p].at .. now, s \in Sides :
       LET rows  == Earlier(p, t)
           n     == Cardinality(rows)
           saved == \E row \in table[p] : row.at = lastSample'[p].at
       IN  /\ lastSample'[p].rate[s] * n > AnomalyThreshold * SumOver(rows, s)
           /\ n >= IF saved THEN AnomalyThreshold ELSE MinRows

(* No flow is marked that the history does not bear out, whatever has been *)
(* reset, was not saved or came late (detectAnomalies, traffic.go:161).    *)
AlarmDeserved ==
    [][\A p \in Proxies :
          lastSample'[p] # lastSample[p] /\ lastSample'[p].anomaly => Deserved(p)]_vars

-----------------------------------------------------------------------------
(* Why they hold *)

(* The accounts: each part is checked above, and none is preserved without *)
(* the others.                                                             *)
AccountInv == CountTypeOK /\ NeverOvercounts /\ ExactBetweenResets

(* Samples and rows are not of the future, and when the next poll is due a *)
(* proxy that can have a rate then has no row of this tick: only a process *)
(* that has just started polls twice in one tick, and it has no totals.    *)
OrderInv ==
    /\ pc \in {"down", "idle"} => batch = {}
    /\ pc = "down" => sampled = {}
    /\ batch \subseteq sampled
    /\ \A p \in Proxies : lastSample[p].at <= now
    /\ \A p \in Proxies : \A row \in table[p] : row.at <= now
    /\ due => \A p \in sampled :
          lastSample[p].at < now /\ \A row \in table[p] : row.at < now

(* A rate that is to be judged comes after all rows but its own. *)
RowInv ==
    \A p \in batch : lastSample[p].rate # Zero =>
        /\ pc = "save" => \A row \in table[p] : row.at < lastSample[p].at
        /\ \A row \in table[p] :
              \/ row.at < lastSample[p].at
              \/ /\ row.at = lastSample[p].at /\ row.rate = lastSample[p].rate
                 /\ \A other \in table[p] : other.at = row.at => other = row

(* The averages are those of the table as it still is. *)
Window(p, t) == {row \in table[p] : row.at + Hour >= t}
AverageInv ==
    pc = "mark" => \A p \in Proxies :
        \E t \in lastSample[p].at .. now : average[p] = AverageOf(Window(p, t))

(* The inductive invariant. *)
IInv == AccountInv /\ TypeOK /\ OrderInv /\ RowInv /\ AverageInv

=============================================================================
