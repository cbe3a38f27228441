------------------------------- MODULE Health -------------------------------
(***************************************************************************)
(* The health check, internal/actions/health.go: what RunHealth makes of   *)
(* the last snapshot of a machine.                                         *)
(*                                                                         *)
(* An item costs nothing, 3 points (a warning) or 10 (a failure); titles   *)
(* and details are left out.  Percentages are compared without dividing,   *)
(* the CPU usage is in tenths of a percent, the age of a snapshot in the   *)
(* same unit as its limit.                                                 *)
(***************************************************************************)
EXTENDS Integers, FiniteSets

CONSTANTS
    Mounts,   \* the file systems that df may list
    Tools     \* the security software that a slow round asks for

Limits ==
    {"cpuWarn", "cpuFail", "memWarn", "memFail", "diskWarn", "diskFail",
     "gpuTempWarn", "gpuTempFail", "gpuMemWarn", "gpuMemFail",
     "clamDbMaxDays", "snapshotMaxAge"}
Thresholds == [Limits -> Nat]

(* The fast part of a snapshot but for its CPU usage; what the remote      *)
(* output lacks is zero, and a file system that it lacks has -1.           *)
Fast == [cores : Nat, load : Nat, memTotal : Nat, memAvail : Nat,
         disk : [Mounts -> Nat \cup {-1}]]

(* The slow part: what was listed of the security software; days is -1     *)
(* where no date could be read.                                            *)
GPU == [present : BOOLEAN, temp : Nat, memUsed : Nat, memTotal : Nat]
Item == [listed : BOOLEAN, installed : BOOLEAN, active : BOOLEAN, days : Nat \cup {-1}]
Slow == [gpu : GPU, security : [Tools -> Item]]

(* A plausible bug: what warns is not asked whether it fails. *)
JudgeWarnFirst(fails, warns) == IF warns THEN 3 ELSE IF fails THEN 10 ELSE 0

(* The points that an item costs. *)
Judge(fails, warns) == IF fails THEN 10 ELSE IF warns THEN 3 ELSE 0

(* The points of the items of a list, one for each key. *)
Weigh(points) ==
    10 * Cardinality({x \in DOMAIN points : points[x] = 10})
        + 3 * Cardinality({x \in DOMAIN points : points[x] = 3})

AgePoints(th, age) == Judge(FALSE, age > th.snapshotMaxAge)

CPUPoints(th, cpu) ==
    IF cpu >= 0 THEN Judge(cpu >= 10 * th.cpuFail, cpu >= 10 * th.cpuWarn)
    ELSE 3

LoadPoints(fast) ==
    IF fast.cores > 0 THEN Judge(fast.load >= 2 * fast.cores, fast.load >= fast.cores)
    ELSE 0

MemPoints(th, fast) ==
    LET used == 100 * (fast.memTotal - fast.memAvail)
    IN  IF fast.memTotal > 0
        THEN Judge(used >= th.memFail * fast.memTotal, used >= th.memWarn * fast.memTotal)
        ELSE 0

DiskPoints(th, fast) ==
    Weigh([m \in Mounts |->
              Judge(fast.disk[m] >= th.diskFail, fast.disk[m] >= th.diskWarn)])

GPUPoints(th, gpu) ==
    LET mem == 100 * gpu.memUsed
    IN  IF gpu.present
        THEN Judge(gpu.temp >= th.gpuTempFail, gpu.temp >= th.gpuTempWarn)
             + IF gpu.memTotal > 0
               THEN Judge(mem >= th.gpuMemFail * gpu.memTotal,
                          mem >= th.gpuMemWarn * gpu.memTotal)
               ELSE 0
        ELSE 0

(* rkhunter runs by cron and is judged by its last check, the others by    *)
(* their service; only ClamAV has a date that matters, if it can be read.  *)
ItemPoints(th, tool, item) ==
    IF ~item.listed THEN 0
    ELSE IF ~item.installed THEN 3
    ELSE IF tool = "rkhunter" THEN Judge(item.days > 8, item.days < 0)
    ELSE Judge(~item.active \/ (tool = "clamav-daemon" /\ item.days > th.clamDbMaxDays),
               FALSE)

SecurityPoints(th, security) ==
    IF \A t \in Tools : ~security[t].listed THEN 3
    ELSE Weigh([t \in Tools |-> ItemPoints(th, t, security[t])])

TunnelPoints(reached) == Judge(~reached, FALSE)

(* The points that a snapshot of this age costs. *)
Points(th, s, age) ==
    AgePoints(th, age) + CPUPoints(th, s.cpu) + LoadPoints(s.fast)
        + MemPoints(th, s.fast) + DiskPoints(th, s.fast) + GPUPoints(th, s.slow.gpu)
        + SecurityPoints(th, s.slow.security) + TunnelPoints(s.tunnelUp)

Score(th, s, age) == IF Points(th, s, age) > 100 THEN 0 ELSE 100 - Points(th, s, age)

(* What a snapshot says, and the contents in which one reading is worse by *)
(* d.  A reading that is missing is not one of them: it costs little or    *)
(* nothing.                                                                *)
Contents == [cpu : Int, tunnelUp : BOOLEAN, fast : Fast, slow : Slow]

Worse(s, d) ==
    UNION {
        IF s.cpu >= 0 THEN {[s EXCEPT !.cpu = @ + d]} ELSE {},
        IF s.fast.memAvail >= d THEN {[s EXCEPT !.fast.memAvail = @ - d]} ELSE {},
        {[s EXCEPT !.fast.load = @ + d],
         [s EXCEPT !.slow.gpu.temp = @ + d],
         [s EXCEPT !.slow.gpu.memUsed = @ + d],
         [s EXCEPT !.tunnelUp = FALSE]},
        {[s EXCEPT !.fast.disk[m] = @ + d] : m \in {n \in Mounts : s.fast.disk[n] >= 0}},
        {[s EXCEPT !.slow.security[t].active = FALSE] : t \in Tools},
        {[s EXCEPT !.slow.security[t].days = @ + d] :
            t \in {u \in Tools : s.slow.security[u].days >= 0}}}

=============================================================================
