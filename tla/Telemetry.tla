----------------------------- MODULE Telemetry -----------------------------
(***************************************************************************)
(* What a machine's snapshot is worth: the rounds of collect in            *)
(* internal/collector/collector.go with the frames that they compare, the  *)
(* snapshot table (internal/store/metrics.go), and the health check that   *)
(* is made from the snapshot (module Health), whose contents count only    *)
(* there: here a reading is known by its time or its number.               *)
(*                                                                         *)
(* One machine.  Its loop runs fast and slow rounds, a request runs a slow *)
(* one beside it; module Collector says when they run.  A round reads a    *)
(* frame on the machine, compares it with the frame that another round may *)
(* have left in between (c.mu covers the CPU and the network apart), gets  *)
(* the slow part and saves.  A round that gets no frame changes nothing.   *)
(*                                                                         *)
(* Data: a CPU line is busy and idle time; a device has one counter, since *)
(* both directions are computed alike; a rate is the volume per            *)
(* FastInterval.  Time is counted in ticks.  The rest of SysInfo, cron and *)
(* ports are left out; metrics repeat what the snapshot has.               *)
(***************************************************************************)
EXTENDS Health, FiniteSetsExt

CONSTANTS
    Loops, Manuals,   \* rounds that may be under way at a time
    Devices, FirstDevices,   \* those that exist, and those listed at first
    Loads,            \* what a machine may do in a tick
    Snapshots,        \* contents that the health check is tried on
    Settings,         \* thresholds that the configuration may have
    Steps,            \* by how much a reading may be worse
    SessionTicks,     \* a round takes no longer from its frame to its save
    MaxTicks, MaxReads, MaxFaults   \* bounds

ASSUME RoundAssumption == Loops \cap Manuals = {}
ASSUME DeviceAssumption == FirstDevices \subseteq Devices /\ IsFiniteSet(Devices)
ASSUME LoadAssumption == Loads \subseteq [busy : Nat, idle : Nat, bytes : [Devices -> Nat]]
ASSUME SnapshotAssumption ==
    Snapshots \subseteq Contents /\ IsFiniteSet(Mounts) /\ IsFiniteSet(Tools)
ASSUME SettingsAssumption == Settings \subseteq Thresholds /\ Steps \subseteq Nat
ASSUME TelemetryBounds ==
    SessionTicks \in Nat /\ MaxTicks \in Nat /\ MaxReads \in Nat /\ MaxFaults \in Nat

VARIABLES
    \* the machine: time, boots, the CPU line, the devices that it lists
    now, boot, busy, idle, listed, bytes,
    \* the process: c.prevStat, c.prevNet, and whether it runs
    up, prevStat, prevNet,
    \* the table
    snap,
    \* the rounds
    pc, job,
    \* history: frames and slow parts read so far; the bytes carried, those
    \* that a device has taken to a new name, and what all rates add up to
    reads, slowReads, carried, moved, measured,
    \* history: a frame has been compared with a later one; the rounds that
    \* have had another one beside them, or could not read the snapshot
    disordered, company,
    faults

machine == <<now, boot, busy, idle, listed, bytes>>
process == <<up, prevStat, prevNet>>
rounds == <<pc, job>>
counts == <<reads, slowReads>>
account == <<carried, moved, measured, disordered>>
vars == <<machine, process, snap, rounds, counts, account, company, faults>>

Rounds == Loops \cup Manuals

(* A CPU line of /proc/stat, or the empty string; the boot is history. *)
Stat == [known : BOOLEAN, busy : Nat, idle : Nat, boot : Nat]
NoStat == [known |-> FALSE, busy |-> 0, idle |-> 0, boot |-> 0]

(* The devices of a frame, or nil.  History: nth tells which frame it was, *)
(* and paid the bytes that the rates of a machine may add up to by then.   *)
Net == [known : BOOLEAN, listed : SUBSET Devices, bytes : [Devices -> Nat],
        nth : Nat, paid : Nat]
NoNet == [known |-> FALSE, listed |-> {}, bytes |-> [d \in Devices |-> 0],
          nth |-> 0, paid |-> 0]

Missing == -10

(* Of a round and of a snapshot: readAt tells when the fast part was read, *)
(* got which slow round the slow part is from, torn that the CPU usage was *)
(* computed from frames of two boots.                                      *)
Job == [slowRound : BOOLEAN, readAt : Nat, stat : Stat, net : Net,
        cpu : Int, torn : BOOLEAN, got : Nat]
NoJob == [slowRound |-> FALSE, readAt |-> 0, stat |-> NoStat, net |-> NoNet,
          cpu |-> Missing, torn |-> FALSE, got |-> 0]

Snapshot == [at : Nat, readAt : Nat, cpu : Int, torn : BOOLEAN, got : Nat]
NoSnapshot == [at |-> 0, readAt |-> 0, cpu |-> Missing, torn |-> FALSE, got |-> 0]

MachineTypeOK ==
    /\ now \in Nat /\ boot \in Nat /\ busy \in Nat /\ idle \in Nat
    /\ listed \subseteq Devices /\ bytes \in [Devices -> Nat]

ProcessTypeOK ==
    /\ up \in BOOLEAN /\ prevStat \in Stat /\ prevNet \in Net
    /\ snap \in Snapshot
    /\ pc \in [Rounds -> {"idle", "cpu", "net", "slow", "merge", "save"}]
    /\ job \in [Rounds -> Job]

(* Every variable has its type. *)
TypeOK ==
    /\ MachineTypeOK /\ ProcessTypeOK
    /\ reads \in Nat /\ slowReads \in Nat
    /\ carried \in Nat /\ moved \in Nat /\ measured \in Nat
    /\ disordered \in BOOLEAN /\ company \subseteq Rounds
    /\ faults \in Nat

-----------------------------------------------------------------------------
(* Helpers *)

Under == {r \in Rounds : pc[r] # "idle"}

(* round1, in tenths: half is added and the rest cut off towards zero. *)
Rounded(n, d) == IF n >= 0 THEN n \div d ELSE -((-n) \div d)
round1(part, whole) == Rounded(2000 * part + whole, 2 * whole)

(* A plausible bug: the idle time is not part of the whole. *)
CPUUsageOfBusy(prev, cur) ==
    LET idleD  == cur.idle - prev.idle
        totalD == cur.busy - prev.busy
    IN  IF totalD <= 0 THEN Missing ELSE round1(totalD - idleD, totalD)

(* CPUUsage, for two lines that could be parsed. *)
CPUUsage(prev, cur) ==
    LET idleD  == cur.idle - prev.idle
        totalD == (cur.busy + cur.idle) - (prev.busy + prev.idle)
    IN  IF totalD <= 0 THEN Missing ELSE round1(totalD - idleD, totalD)

SumOf(f, ds) == MapThenSumSet(LAMBDA d : f[d], ds)

(* A plausible bug: a missing frame is read as an empty one. *)
NetRateAtOnce(prev, cur) ==
    LET grown == SumOf(cur.bytes, cur.listed) - SumOf(prev.bytes, prev.listed \cap cur.listed)
    IN  IF grown < 0 THEN 0 ELSE grown

(* netRates: only devices that both frames list are compared, a new one    *)
(* counts as a whole; a sum that has fallen gives no rate.                 *)
NetRate(prev, cur) ==
    LET grown == SumOf(cur.bytes, cur.listed) - SumOf(prev.bytes, prev.listed \cap cur.listed)
    IN  IF ~prev.known \/ grown < 0 THEN 0 ELSE grown

(* The devices as the next frame would show them. *)
Present == [known |-> TRUE, listed |-> listed, bytes |-> bytes,
            nth |-> reads + 1, paid |-> carried + moved]

-----------------------------------------------------------------------------
(* The machine *)

(* A tick.  It is an assumption that no round takes longer than            *)
(* SessionTicks: sshx.go:43-51 sets the timer of a command only where a    *)
(* pty is granted.                                                         *)
Tick ==
    /\ now < MaxTicks
    /\ \A r \in Under : now - job[r].readAt < SessionTicks
    /\ now' = now + 1
    /\ \E load \in Loads :
          /\ busy' = busy + load.busy /\ idle' = idle + load.idle
          /\ bytes' = [d \in Devices |->
                IF d \in listed THEN bytes[d] + load.bytes[d] ELSE bytes[d]]
          /\ carried' = carried + SumOf(load.bytes, listed)
    /\ UNCHANGED <<boot, listed, process, snap, rounds, counts, moved, measured,
                   disordered, company, faults>>

(* The machine starts again, all counters with it. *)
Reboot ==
    /\ faults < MaxFaults /\ faults' = faults + 1
    /\ boot' = boot + 1 /\ busy' = 0 /\ idle' = 0
    /\ bytes' = [d \in Devices |-> 0]
    /\ UNCHANGED <<now, listed, process, snap, rounds, counts, account, company>>

(* A device comes, at zero; it goes, with its counter; it gets a new name  *)
(* and takes its counter along.                                            *)
PlugIn(d) ==
    /\ d \notin listed
    /\ faults < MaxFaults /\ faults' = faults + 1
    /\ listed' = listed \cup {d}
    /\ UNCHANGED <<now, boot, busy, idle, bytes, process, snap, rounds, counts,
                   account, company>>

Unplug(d) ==
    /\ d \in listed
    /\ faults < MaxFaults /\ faults' = faults + 1
    /\ listed' = listed \ {d} /\ bytes' = [bytes EXCEPT ![d] = 0]
    /\ UNCHANGED <<now, boot, busy, idle, process, snap, rounds, counts, account, company>>

Rename(d, e) ==
    /\ d \in listed /\ e \notin listed
    /\ faults < MaxFaults /\ faults' = faults + 1
    /\ listed' = (listed \ {d}) \cup {e}
    /\ bytes' = [bytes EXCEPT ![d] = 0, ![e] = bytes[d]]
    /\ moved' = moved + bytes[d]
    /\ UNCHANGED <<now, boot, busy, idle, process, snap, rounds, counts, carried,
                   measured, disordered, company>>

-----------------------------------------------------------------------------
(* One round of collect *)

(* fastScript runs on the machine; its output may lack the CPU line.       *)
ReadFrame(r, slowRound) ==
    /\ up /\ pc[r] = "idle" /\ reads < MaxReads
    /\ r \in Manuals => slowRound
    /\ reads' = reads + 1
    /\ pc' = [pc EXCEPT ![r] = "cpu"]
    /\ \E stat \in {[known |-> TRUE, busy |-> busy, idle |-> idle, boot |-> boot], NoStat} :
          /\ ~stat.known => faults < MaxFaults
          /\ faults' = IF stat.known THEN faults ELSE faults + 1
          /\ job' = [job EXCEPT ![r] =
                [NoJob EXCEPT !.slowRound = slowRound, !.readAt = now, !.stat = stat,
                    !.net = Present]]
    /\ company' = IF Under = {} THEN company ELSE company \cup Under \cup {r}
    /\ UNCHANGED <<machine, process, snap, slowReads, account>>

(* cpuPct: under c.mu, the line is exchanged for the one before it.  What  *)
(* a round does not look at again is dropped from its job.                 *)
cpuPct(r) ==
    /\ pc[r] = "cpu"
    /\ pc' = [pc EXCEPT ![r] = "net"]
    /\ prevStat' = job[r].stat
    /\ LET both == prevStat.known /\ job[r].stat.known
       IN  job' = [job EXCEPT
              ![r].stat = NoStat,
              ![r].cpu = IF both THEN CPUUsage(prevStat, job[r].stat) ELSE Missing,
              ![r].torn = (both /\ prevStat.boot # job[r].stat.boot)]
    /\ UNCHANGED <<machine, up, prevNet, snap, counts, account, company, faults>>

(* netRates: under c.mu again, the same with the devices. *)
netRates(r) ==
    /\ pc[r] = "net"
    /\ pc' = [pc EXCEPT ![r] = IF job[r].slowRound THEN "slow" ELSE "merge"]
    /\ prevNet' = job[r].net
    /\ measured' = measured + NetRate(prevNet, job[r].net)
    /\ disordered' = (disordered \/ job[r].net.nth < prevNet.nth)
    /\ job' = [job EXCEPT ![r].net = NoNet]
    /\ UNCHANGED <<machine, up, prevStat, snap, counts, carried, moved, company, faults>>

(* tryGPU and trySecurity: what they cannot get is absent, without an error. *)
ReadSlow(r) ==
    /\ pc[r] = "slow"
    /\ pc' = [pc EXCEPT ![r] = "save"]
    /\ slowReads' = slowReads + 1
    /\ job' = [job EXCEPT ![r].got = slowReads']
    /\ UNCHANGED <<machine, process, snap, reads, account, company, faults>>

(* A plausible bug: a fast round does not look for the last slow data. *)
MergeNothing(r) ==
    /\ pc[r] = "merge"
    /\ pc' = [pc EXCEPT ![r] = "save"]
    /\ UNCHANGED <<machine, process, snap, job, counts, account, company, faults>>

(* A plausible bug: the last snapshot is unmarshalled over all of the new. *)
MergeAll(r) ==
    /\ pc[r] = "merge"
    /\ pc' = [pc EXCEPT ![r] = "save"]
    /\ job' = [job EXCEPT ![r].got = snap.got, ![r].cpu = snap.cpu,
                          ![r].readAt = snap.readAt]
    /\ UNCHANGED <<machine, process, snap, counts, account, company, faults>>

(* GetSnapshot: a fast round keeps the slow part of the last snapshot. *)
Merge(r) ==
    /\ pc[r] = "merge"
    /\ pc' = [pc EXCEPT ![r] = "save"]
    /\ job' = [job EXCEPT ![r].got = snap.got]
    /\ UNCHANGED <<machine, process, snap, counts, account, company, faults>>

(* The snapshot cannot be read: the round goes on without a slow part. *)
MergeFails(r) ==
    /\ pc[r] = "merge"
    /\ faults < MaxFaults /\ faults' = faults + 1
    /\ pc' = [pc EXCEPT ![r] = "save"]
    /\ company' = company \cup {r}
    /\ UNCHANGED <<machine, process, snap, job, counts, account>>

EndRound(r) ==
    /\ pc' = [pc EXCEPT ![r] = "idle"]
    /\ job' = [job EXCEPT ![r] = NoJob]
    /\ company' = company \ {r}

(* The tunnel has been probed; SaveSnapshot replaces the row, whoever has  *)
(* written it since.                                                       *)
Save(r) ==
    /\ pc[r] = "save"
    /\ snap' = [at |-> now, readAt |-> job[r].readAt, cpu |-> job[r].cpu,
                torn |-> job[r].torn, got |-> job[r].got]
    /\ EndRound(r)
    /\ UNCHANGED <<machine, process, counts, account, faults>>

(* The statement fails, which nobody asks about. *)
SaveFails(r) ==
    /\ pc[r] = "save"
    /\ faults < MaxFaults /\ faults' = faults + 1
    /\ EndRound(r)
    /\ UNCHANGED <<machine, process, snap, counts, account>>

-----------------------------------------------------------------------------
(* The life of the process; the table outlives it. *)

Down ==
    /\ up /\ up' = FALSE
    /\ faults < MaxFaults /\ faults' = faults + 1
    /\ prevStat' = NoStat /\ prevNet' = NoNet
    /\ pc' = [r \in Rounds |-> "idle"] /\ job' = [r \in Rounds |-> NoJob]
    /\ company' = {}
    /\ UNCHANGED <<machine, snap, counts, account>>

Start ==
    /\ ~up /\ up' = TRUE
    /\ UNCHANGED <<machine, prevStat, prevNet, snap, rounds, counts, account, company, faults>>

Init ==
    /\ now = 0 /\ boot = 0 /\ busy = 0 /\ idle = 0
    /\ listed = FirstDevices /\ bytes = [d \in Devices |-> 0]
    /\ up = FALSE /\ prevStat = NoStat /\ prevNet = NoNet
    /\ snap = NoSnapshot
    /\ pc = [r \in Rounds |-> "idle"] /\ job = [r \in Rounds |-> NoJob]
    /\ reads = 0 /\ slowReads = 0
    /\ carried = 0 /\ moved = 0 /\ measured = 0 /\ disordered = FALSE
    /\ company = {}
    /\ faults = 0

collect(r) ==
    \/ \E slowRound \in BOOLEAN : ReadFrame(r, slowRound)
    \/ cpuPct(r) \/ netRates(r) \/ ReadSlow(r) \/ Merge(r) \/ MergeFails(r)
    \/ Save(r) \/ SaveFails(r)

Next ==
    \/ Tick \/ Reboot
    \/ \E d \in Devices : PlugIn(d) \/ Unplug(d) \/ \E e \in Devices : Rename(d, e)
    \/ \E r \in Rounds : collect(r)
    \/ Down \/ Start

Spec == Init /\ [][Next]_vars

-----------------------------------------------------------------------------
(* Properties *)

(* A report that does not warn of old data speaks of data that were read   *)
(* within the limit and the length of one round (which Tick assumes to be  *)
(* bounded), although any round may save late, over a newer snapshot, and  *)
(* gives it a new time (collector.go:232, health.go:78).                   *)
FreshOrWarned ==
    snap # NoSnapshot => \A th \in Settings :
        AgePoints(th, now - snap.at) = 0 =>
            now - snap.readAt <= th.snapshotMaxAge + SessionTicks

(* A CPU usage is missing or a percentage, also when rounds overlap and    *)
(* exchange their frames in the wrong order; only the frames of two boots  *)
(* can give one below zero or above a hundred (collector.go:252).          *)
CpuInRange ==
    \A c \in {snap} \cup {job[r] : r \in Rounds} :
        ~c.torn => c.cpu = Missing \/ c.cpu \in 0..1000

(* All rates, times the interval, add up to no more than was carried and   *)
(* what renamed devices have taken along, through reboots, restarts and    *)
(* devices that come and go, while no round applies its frame after a      *)
(* later one (collector.go:263).                                           *)
NetNeverOvercounts == ~disordered => measured <= carried + moved

(* The slow part of a snapshot goes back, or is lost, only by a round that *)
(* had another one beside it or could not read the snapshot: the reading   *)
(* and the replacing of the snapshot are apart (collector.go:201).         *)
SlowDataKeptAlone ==
    [][\A r \in Rounds : pc[r] = "save" /\ snap'.got < snap.got => r \in company]_snap

(* The score falls, or stays, as a reading gets worse or the snapshot old: *)
(* a constant, which TLC works out once.                                   *)
ScoreFalls ==
    \A th \in Settings, s \in Snapshots, d \in Steps :
        LET score == Score(th, s, 0)
        IN  /\ \A w \in Worse(s, d) : Score(th, w, 0) <= score
            /\ Score(th, s, d) <= score

(* No machine that has a snapshot, which RunHealth asks for, looks better  *)
(* for being worse, or for being looked at later, whatever thresholds are  *)
(* set: nothing keeps a limit for failures above that for warnings         *)
(* (health.go:84, config.go:363).                                          *)
WorseNeverBetter == snap # NoSnapshot => ScoreFalls

-----------------------------------------------------------------------------
(* Why they hold *)

(* The CPU lines that are somewhere in the process. *)
Frames == {f \in {prevStat} \cup {job[r].stat : r \in Rounds} : f.known}

(* What the machine shows is no less than any frame of the same boot, and  *)
(* of two frames of one boot one is no less than the other.                *)
FrameInv ==
    /\ \A f \in Frames :
          /\ f.boot <= boot
          /\ f.boot = boot => f.busy <= busy /\ f.idle <= idle
    /\ \A f, g \in Frames : f.boot = g.boot =>
          \/ f.busy <= g.busy /\ f.idle <= g.idle
          \/ g.busy <= f.busy /\ g.idle <= f.idle

(* A round that is under way has begun within a session's length, and so   *)
(* had the round that saved.                                               *)
ClockInv ==
    /\ \A r \in Under : job[r].readAt <= now /\ now - job[r].readAt <= SessionTicks
    /\ snap.readAt <= snap.at /\ snap.at <= now /\ snap.at - snap.readAt <= SessionTicks

(* Two rounds that are under way are in company; one that is not keeps the *)
(* slow part that it has found, or has a later one.                        *)
KeptInv ==
    /\ snap.got <= slowReads /\ \A r \in Rounds : job[r].got <= slowReads
    /\ \A q, r \in Under : q # r => r \in company
    /\ \A r \in Under \ company : pc[r] = "save" => snap.got <= job[r].got

(* The devices that are somewhere in the process, or on the machine.       *)
Nets == {f \in {prevNet} \cup {job[r].net : r \in Rounds} : f.known}
Shown == Nets \cup {Present}

(* How much each device has grown from f to g, where it has; one that is   *)
(* not listed counts as zero.                                              *)
Counted(f, d) == IF d \in f.listed THEN f.bytes[d] ELSE 0
Growth(f, g) ==
    [d \in Devices |-> IF Counted(g, d) > Counted(f, d)
                       THEN Counted(g, d) - Counted(f, d) ELSE 0]

(* From one frame to a later one, no more has grown than was paid for in   *)
(* between; so the rates, in order, are paid by the last frame applied.    *)
BillInv ==
    /\ \A d \in Devices \ listed : bytes[d] = 0
    /\ \A r \in Rounds : pc[r] \in {"cpu", "net"} => job[r].net.known
    /\ prevNet.nth <= reads /\ \A f \in Nets : f.nth <= reads
    /\ \A f \in Nets, g \in Shown :
          f # g /\ f.nth <= g.nth => f.paid + SumOf(Growth(f, g), Devices) <= g.paid
    /\ ~disordered => \A f \in Shown : prevNet.nth <= f.nth => measured <= f.paid

ReadingInv == TypeOK /\ FrameInv /\ ClockInv /\ CpuInRange

IInv == ReadingInv /\ KeptInv /\ BillInv

=============================================================================
