-------------------------------- MODULE Qos --------------------------------
(***************************************************************************)
(* Bandwidth shaping: the control loop of internal/qos/qos.go, the Stop    *)
(* call that races it at shutdown, and the traffic-control state that its  *)
(* tc and ip commands leave in the kernel.                                 *)
(*                                                                         *)
(* The kernel outlives the process: a crash loses every variable of the    *)
(* service and none of the kernel.  Every tc command is a step of its own, *)
(* so that a crash, a failed command or the Stop call can come between any *)
(* two of them.  Commands that the code issues in the order of a Go map    *)
(* are issued in any order here.                                           *)
(*                                                                         *)
(* Data: a machine is a proxy name and stands for its remote port as well  *)
(* (filters are rebuilt from the current sample every round); rates are    *)
(* kbit/s; an error is one bit; time is counted in poll rounds.            *)
(***************************************************************************)
EXTENDS Tc, FiniteSets

CONSTANTS
    Configs,     \* the qos sections that Settings may save
    Hyst,        \* hysteresis window, in poll rounds
    MaxGap,      \* most rounds' worth of time between two samples
    MaxFails,    \* bound: tc commands that fail for a reason of their own
    MaxCrashes   \* bound: crashes of the process

Dirs == {"out", "in"}
Modes == {"off", "auto", "manual"}
Config == [mode : Modes,
           iface : Ifaces \cup {NoIface},
           budget : [Dirs -> Nat],
           manual : [Dirs -> [Machines -> Nat]]]

ASSUME MachineAssumption == IsFiniteSet(Machines)
ASSUME ConfigAssumption == Configs \subseteq Config
ASSUME BoundAssumption ==
    /\ Hyst \in Nat \ {0}
    /\ MaxGap \in Nat \ {0}
    /\ MaxFails \in Nat
    /\ MaxCrashes \in Nat

firstClassID == 2
rootClassID == 1
manualRootKbps == 100000000
Expired == Hyst + 1

(* A class of one direction; id 0 stands for a missing map entry. *)
Class == [id : Nat, rate : Nat]
NoClass == [id |-> 0, rate |-> 0]
Empty == [m \in Machines |-> NoClass]
Nobody == [m \in Machines |-> "absent"]

VARIABLES
    \* the configuration file, as the Manager serves it
    cfg,
    \* the service
    iface, seen, active, age, applied, ids, nextID, lastErr,
    \* the two goroutines and the mutex mu
    proc,        \* main: up, stopping, cleaned or down
    pc,          \* the control loop
    watch,       \* the select at "wait" holds the stop channel
    mu,          \* who holds s.mu
    \* locals of a round
    rc,          \* the configuration the round has read
    samples,     \* what sample() returned, with the Active flags
    want, plan, dir, dev, step, todo, gone,
    \* used-up bounds
    fails, crashes

table == <<applied, ids, nextID>>
activity == <<seen, active, age, samples>>
round == <<want, plan, dir, dev, step, todo, gone>>
threads == <<proc, pc, watch, mu>>
bounds == <<fails, crashes>>
vars == <<cfg, kernel, iface, activity, table, lastErr, threads, rc, round,
          bounds>>

Steps == {"none", "build", "link", "ingressadd", "redirdel", "rediradd",
          "ingressdel", "rootdel", "rootadd", "rootclass", "filterdel",
          "replace", "classdel", "filteradd", "unlock"}

ServiceTypeOK ==
    /\ iface \in Ifaces \cup {NoIface}
    /\ seen \subseteq Machines /\ active \subseteq Machines
    /\ age \in [Machines -> 0..Expired]
    /\ samples \in [Machines -> {"absent", "offline", "idle", "active"}]
    /\ applied \in [Dirs -> [Machines -> Class]]
    /\ ids \in [Machines -> Nat] /\ nextID \in Nat
    /\ lastErr \in BOOLEAN

ControlTypeOK ==
    /\ cfg \in Config /\ rc \in Config
    /\ proc \in {"up", "stopping", "cleaned", "down"}
    /\ pc \in {"start", "sample", "apply", "cleanup", "clearerr", "wait", "gone"}
    /\ watch \in BOOLEAN
    /\ mu \in {"free", "loop", "stop"}
    /\ fails \in 0..MaxFails /\ crashes \in 0..MaxCrashes

RoundTypeOK ==
    /\ want \in [Dirs -> [Machines -> Class]]
    /\ plan \in [Dirs -> {"apply", "clear"}]
    /\ dir \in Dirs /\ dev \in Ifaces \cup {NoIface} /\ step \in Steps
    /\ todo \subseteq Machines \cup Nat /\ gone \subseteq Nat

(* Every variable has its type: kernel, service, control and round state. *)
TypeOK == TcTypeOK /\ ServiceTypeOK /\ ControlTypeOK /\ RoundTypeOK

-----------------------------------------------------------------------------
(* Helpers *)

(* The machines a class map has an entry for. *)
On(classes) == {m \in Machines : classes[m].id # 0}

(* The filters that send each machine of a class map to its class. *)
Pairs(classes) == {<<m, classes[m].id>> : m \in On(classes)}

(* The device the rules of a direction live on, for interface i. *)
DevOf(d, i) == IF d = "in" THEN IFBDev ELSE i

(* rateStr: whole kbit, "%.0f" rounds half to even, at least 1. *)
rateStr(kbit, parts) ==
    LET q == kbit \div parts
        r == kbit % parts
    IN  IF kbit < parts THEN 1
        ELSE IF 2 * r > parts \/ (2 * r = parts /\ q % 2 = 1) THEN q + 1 ELSE q

(* A plausible bug: the budgets of the two directions mixed up. *)
NamesSwapped(d) ==
    LET b == rc.budget[IF d = "in" THEN "out" ELSE "in"]
    IN  {m \in Machines : samples[m] = "active" /\ b > 0}

(* A plausible bug: machines that are online count as active. *)
NamesOnline(d) ==
    {m \in Machines : samples[m] \in {"idle", "active"} /\ rc.budget[d] > 0}

(* desired: the machines of a direction that get a class in this round.    *)
(* The direction is enabled exactly when there is one.                     *)
Names(d) ==
    IF rc.mode = "manual"
    THEN {m \in Machines : samples[m] \in {"idle", "active"} /\ rc.manual[d][m] > 0}
    ELSE {m \in Machines : samples[m] = "active" /\ rc.budget[d] > 0}

(* A plausible bug: the budget divided among all machines. *)
RateOfAll(d, m) == rateStr(rc.budget[d], Cardinality(Machines))

(* desired: fixed limits in manual mode, equal shares of the budget in auto. *)
Rate(d, m) ==
    IF rc.mode = "manual" THEN rateStr(rc.manual[d][m], 1)
    ELSE rateStr(rc.budget[d], Cardinality(Names(d)))

RootRate ==
    IF rc.mode = "manual" THEN manualRootKbps ELSE rateStr(rc.budget[dir], 1)

(* classID hands out nextID, nextID + 1, ... to the names that have no id, *)
(* in the order in which they are listed: any numbering of names.          *)
Numberings(names, next) ==
    LET range == next .. (next + Cardinality(names) - 1)
    IN  {f \in [names -> range] : \A i \in range : \E m \in names : f[m] = i}

(* releaseIfUnused: the names among these that no direction refers to. *)
releaseIfUnused(names, refs) ==
    {m \in names : ids[m] # 0 /\ \A d \in Dirs : refs[d][m].id = 0}

(* A plausible bug: a released id is never handed out again. *)
LowersNever(n, free) == n = nextID

(* releaseIfUnused lowers nextID to the smallest id that it has released. *)
Lowers(n, free) ==
    /\ n = nextID \/ \E m \in free : n = ids[m]
    /\ n <= nextID /\ \A m \in free : n <= ids[m]

(* updateActive: how many rounds ago a machine was last seen busy. *)
updateActive(a, was, gap) ==
    CASE was = "busy" -> 0
      [] was = "idle" /\ a + gap <= Hyst -> a + gap
      [] OTHER -> Expired

(* A plausible bug: off mode returns before the cleanup. *)
AfterConfigOffIdle(i, c) ==
    IF i = NoIface THEN "cleanup" ELSE IF c.mode = "off" THEN "wait" ELSE "sample"

(* reconcile: nothing to shape on, or nothing to shape. *)
AfterConfig(i, c) == IF i = NoIface \/ c.mode = "off" THEN "cleanup" ELSE "sample"

-----------------------------------------------------------------------------
(* The control loop up to the mutex *)

(* reconcile, first part: one snapshot of the configuration; the interface *)
(* is looked up only while none is known.                                  *)
ReadConfig ==
    /\ pc = "start"
    /\ rc' = cfg
    /\ \E found \in Ifaces \cup {NoIface} :
          iface' = CASE iface # NoIface -> iface
                     [] iface = NoIface /\ cfg.iface # NoIface -> cfg.iface
                     [] OTHER -> found
    /\ lastErr' = (lastErr \/ iface' = NoIface)
    /\ pc' = AfterConfig(iface', cfg)
    /\ UNCHANGED <<cfg, kernel, activity, table, proc, watch, mu, round, bounds>>

(* sample and updateActive: what the dashboard lists, with rates for the   *)
(* online machines that were listed before.  gap is the time since the     *)
(* last sample: the ticker drops the ticks it fires during a long round.   *)
Sample ==
    /\ pc = "sample"
    /\ \E list \in [Machines -> {"absent", "offline", "idle", "busy"}],
          gap \in 1..MaxGap :
          LET online(m) == list[m] \in {"idle", "busy"}
          IN  /\ \A m \in Machines : list[m] = "busy" => m \in seen
              /\ seen' = seen \cup {m \in Machines : list[m] # "absent"}
              /\ age' = [m \in Machines |-> updateActive(age[m], list[m], gap)]
              /\ active' = {m \in Machines : online(m) /\ age'[m] <= Hyst}
              /\ samples' = [m \in Machines |-> IF m \in active' THEN "active"
                                                ELSE list[m]]
    /\ pc' = "apply"
    /\ UNCHANGED <<cfg, kernel, iface, table, lastErr, proc, watch, mu, rc,
                   round, bounds>>

(* The dashboard is not configured or does not answer. *)
SampleFails ==
    /\ pc = "sample"
    /\ lastErr' = TRUE
    /\ pc' = "cleanup"
    /\ UNCHANGED <<cfg, kernel, iface, activity, table, proc, watch, mu, rc,
                   round, bounds>>

-----------------------------------------------------------------------------
(* Under the mutex *)

(* reconcile, second part: lock, number the classes of both directions and *)
(* decide what to do with each.                                            *)
ReconcileLock ==
    /\ pc = "apply" /\ mu = "free"
    /\ mu' = "loop"
    /\ LET newOut == {m \in Names("out") : ids[m] = 0}
           newIn  == {m \in Names("in") \ Names("out") : ids[m] = 0}
           next   == nextID + Cardinality(newOut)
       IN  \E f \in Numberings(newOut, nextID), g \in Numberings(newIn, next) :
              /\ ids' = [m \in Machines |-> IF m \in newOut THEN f[m]
                                            ELSE IF m \in newIn THEN g[m]
                                            ELSE ids[m]]
              /\ nextID' = next + Cardinality(newIn)
    /\ want' = [d \in Dirs |-> [m \in Machines |->
                   IF m \in Names(d) THEN [id |-> ids'[m], rate |-> Rate(d, m)]
                   ELSE NoClass]]
    /\ plan' = [d \in Dirs |-> IF Names(d) # {} THEN "apply" ELSE "clear"]
    /\ lastErr' = FALSE
    /\ dir' = "out" /\ step' = "build" /\ todo' = {} /\ gone' = {}
    /\ samples' = Nobody   \* no longer used
    /\ UNCHANGED <<cfg, kernel, iface, seen, active, age, applied, proc, pc,
                   watch, rc, dev, bounds>>

(* cleanupAll, called by the loop or by Stop: lock and clear both directions. *)
CleanupLock(who) ==
    /\ \/ who = "loop" /\ pc = "cleanup"
       \/ who = "stop" /\ proc = "stopping"
    /\ mu = "free"
    /\ mu' = who
    /\ plan' = [d \in Dirs |-> "clear"]
    /\ want' = [d \in Dirs |-> Empty]
    /\ dir' = "out" /\ step' = "build" /\ todo' = {} /\ gone' = {}
    /\ UNCHANGED <<cfg, kernel, iface, activity, table, lastErr, proc, pc,
                   watch, rc, dev, bounds>>

(* What applyDirection and clearDirection do to the tables while they      *)
(* build their commands.  applyDirection forgets a machine before it asks  *)
(* whether its id is unused; clearDirection asks first and forgets later.  *)
Build ==
    /\ mu # "free" /\ step = "build"
    /\ LET left == On(applied[dir]) \ On(want[dir])
           kept == [applied EXCEPT ![dir] = [m \in Machines |->
                      IF m \in left THEN NoClass ELSE applied[dir][m]]]
           free == IF plan[dir] = "apply" THEN releaseIfUnused(left, kept)
                   ELSE releaseIfUnused(On(applied[dir]), applied)
       IN  /\ gone' = {applied[dir][m].id : m \in left}
           /\ applied' = [applied EXCEPT ![dir] = want[dir]]
           /\ ids' = [m \in Machines |-> IF m \in free THEN 0 ELSE ids[m]]
           /\ \E n \in {nextID} \cup {ids[m] : m \in free} :
                 Lowers(n, free) /\ nextID' = n
    /\ step' = IF dir = "out" THEN "rootdel"
               ELSE IF plan[dir] = "apply" THEN "link" ELSE "redirdel"
    /\ todo' = {0}
    /\ dev' = iface
    /\ UNCHANGED <<cfg, kernel, iface, activity, lastErr, threads, rc, want,
                   plan, dir, bounds>>

(* The command list of a direction, as the successor of each command. *)
NextStep ==
    CASE step = "link"       -> "ingressadd"
      [] step = "ingressadd" -> "redirdel"
      [] step = "redirdel"   -> IF plan[dir] = "apply" THEN "rediradd" ELSE "ingressdel"
      [] step \in {"rediradd", "ingressdel"} -> "rootdel"
      [] step = "rootdel"    -> IF plan[dir] = "apply" THEN "rootadd"
                                ELSE IF dir = "out" THEN "build" ELSE "unlock"
      [] step = "rootadd"    -> "rootclass"
      [] step = "rootclass"  -> "filterdel"
      [] step = "filterdel"  -> "replace"
      [] step = "replace"    -> "classdel"
      [] step = "classdel"   -> "filteradd"
      [] step = "filteradd"  -> IF dir = "out" THEN "build" ELSE "unlock"
      [] OTHER               -> step

(* A loop over a map issues one command per entry; the others are single. *)
Args(s) ==
    CASE s \in {"replace", "filteradd"} -> On(want[dir])
      [] s = "classdel"                 -> gone
      [] s \in {"build", "unlock"}      -> {}
      [] OTHER                          -> {0}

(* A plausible bug: a loop over a map that stops after its first entry. *)
ForwardAtOnce(rest) ==
    /\ step' = NextStep
    /\ todo' = Args(NextStep)
    /\ dir' = IF NextStep = "build" THEN "in" ELSE dir

(* On to the next command once the entries of this loop are used up. *)
Forward(rest) ==
    IF rest = {}
    THEN /\ step' = NextStep
         /\ todo' = Args(NextStep)
         /\ dir' = IF NextStep = "build" THEN "in" ELSE dir
    ELSE todo' = rest /\ UNCHANGED <<step, dir>>

(* No class to delete. *)
Skip ==
    /\ mu # "free" /\ step = "classdel" /\ todo = {}
    /\ Forward({})
    /\ UNCHANGED <<cfg, kernel, iface, activity, table, lastErr, threads, rc,
                   want, plan, dev, gone, bounds>>

(* The end of reconcile and of cleanupAll, which also forgets who was      *)
(* active.  The locals of the round go; plan stays, to state properties.   *)
Unlock ==
    /\ mu # "free" /\ step = "unlock"
    /\ mu' = "free"
    /\ step' = "none" /\ dir' = "out" /\ dev' = NoIface /\ gone' = {}
    /\ want' = [d \in Dirs |-> Empty]
    /\ IF mu = "loop" /\ pc = "apply"
       THEN UNCHANGED <<active, age>>
       ELSE /\ active' = {}
            /\ age' = [m \in Machines |-> Expired]
    /\ IF mu = "loop"
       THEN /\ pc' = IF pc = "cleanup" /\ rc.mode = "off" /\ iface # NoIface
                     THEN "clearerr" ELSE "wait"
            /\ watch' = (proc = "up")
            /\ proc' = proc
       ELSE proc' = "cleaned" /\ UNCHANGED <<pc, watch>>
    /\ UNCHANGED <<cfg, kernel, iface, seen, samples, table, lastErr, rc, plan,
                   todo, bounds>>

(* Off mode forgets the error, whatever the cleanup has met. *)
ClearErr ==
    /\ pc = "clearerr"
    /\ lastErr' = FALSE
    /\ pc' = "wait"
    /\ watch' = (proc = "up")
    /\ UNCHANGED <<cfg, kernel, iface, activity, table, proc, mu, rc, round,
                   bounds>>

-----------------------------------------------------------------------------
(* One command of applyDirection or clearDirection.  x is the map entry of *)
(* a command that is issued in a loop.                                     *)
Command(x) ==
    LET v == DevOf(dir, dev)
    IN  \/ step = "link" /\ LinkAdd
        \/ step = "ingressadd" /\ IngressAdd(dev)
        \/ step = "redirdel" /\ RedirectDel(dev)
        \/ step = "rediradd" /\ RedirectAdd(dev)
        \/ step = "ingressdel" /\ IngressDel(dev)
        \/ step = "rootdel" /\ RootDel(v)
        \/ step = "rootadd" /\ RootAdd(v)
        \/ step = "rootclass" /\ ClassReplace(v, rootClassID, RootRate)
        \/ step = "filterdel" /\ FilterDel(v)
        \/ step = "replace" /\ ClassReplace(v, want[dir][x].id, want[dir][x].rate)
        \/ step = "classdel" /\ ClassDel(v, x)
        \/ step = "filteradd" /\ FilterAdd(v, x, want[dir][x].id)

(* runCmds: an error that is not benign is kept and the list goes on.  A   *)
(* command fails when the class is busy, or for a reason of its own.       *)
RunCmd ==
    /\ mu # "free"
    /\ \E x \in todo :
          /\ Forward(todo \ {x})
          /\ \/ /\ Command(x)
                /\ lastErr' = (lastErr \/ (step = "classdel" /\ ClassBusy(DevOf(dir, dev), x)))
                /\ UNCHANGED fails
             \/ /\ fails < MaxFails
                /\ fails' = fails + 1
                /\ lastErr' = TRUE
                /\ UNCHANGED kernel
    /\ UNCHANGED <<cfg, iface, activity, table, threads, rc, want, plan, dev,
                   gone, crashes>>

-----------------------------------------------------------------------------
(* The ticker, the stop channel and the life of the process *)

Tick ==
    /\ pc = "wait"
    /\ pc' = "start"
    /\ UNCHANGED <<cfg, kernel, iface, activity, table, lastErr, proc, watch,
                   mu, rc, round, bounds>>

(* A plausible bug: Stop closes the channel and leaves it in its field. *)
LoopExitLate ==
    /\ pc = "wait" /\ proc # "up"
    /\ pc' = "gone"
    /\ UNCHANGED <<cfg, kernel, iface, activity, table, lastErr, proc, watch,
                   mu, rc, round, bounds>>

(* The loop leaves only if its select got hold of the channel that Stop    *)
(* has closed; a select entered after Stop waits on a nil channel.         *)
LoopExit ==
    /\ pc = "wait" /\ watch /\ proc # "up"
    /\ pc' = "gone"
    /\ UNCHANGED <<cfg, kernel, iface, activity, table, lastErr, proc, watch,
                   mu, rc, round, bounds>>

(* Stop: close the channel, forget it, and go on to cleanupAll. *)
Stop ==
    /\ proc = "up"
    /\ proc' = "stopping"
    /\ UNCHANGED <<cfg, kernel, iface, activity, table, lastErr, pc, watch, mu,
                   rc, round, bounds>>

(* What New sets up; a round's locals have nothing in them yet. *)
New ==
    /\ iface = NoIface /\ seen = {} /\ active = {} /\ lastErr = FALSE
    /\ age = [m \in Machines |-> Expired] /\ samples = Nobody
    /\ applied = [d \in Dirs |-> Empty] /\ want = [d \in Dirs |-> Empty]
    /\ ids = [m \in Machines |-> 0] /\ nextID = firstClassID
    /\ mu = "free" /\ watch = FALSE /\ rc = cfg
    /\ plan = [d \in Dirs |-> "clear"]
    /\ dir = "out" /\ dev = NoIface /\ step = "none" /\ todo = {} /\ gone = {}

(* The process is gone, and with it everything that it kept in memory. *)
Die ==
    /\ proc' = "down" /\ pc' = "gone"
    /\ iface' = NoIface /\ seen' = {} /\ active' = {} /\ lastErr' = FALSE
    /\ age' = [m \in Machines |-> Expired] /\ samples' = Nobody
    /\ applied' = [d \in Dirs |-> Empty] /\ want' = [d \in Dirs |-> Empty]
    /\ ids' = [m \in Machines |-> 0] /\ nextID' = firstClassID
    /\ mu' = "free" /\ watch' = FALSE /\ rc' = cfg
    /\ plan' = [d \in Dirs |-> "clear"]
    /\ dir' = "out" /\ dev' = NoIface /\ step' = "none" /\ todo' = {} /\ gone' = {}
    /\ UNCHANGED <<cfg, kernel>>

(* The process ends: main returns after Stop, or it is killed at any point. *)
Exit ==
    /\ proc = "cleaned"
    /\ Die
    /\ UNCHANGED bounds

Crash ==
    /\ proc # "down" /\ crashes < MaxCrashes
    /\ crashes' = crashes + 1
    /\ Die
    /\ UNCHANGED fails

(* New and Start. *)
Start ==
    /\ proc = "down"
    /\ proc' = "up" /\ pc' = "start"
    /\ UNCHANGED <<cfg, kernel, iface, activity, table, lastErr, watch, mu, rc,
                   round, bounds>>

(* Settings saves a qos section, at any time.  ReadConfig is the only step *)
(* that looks at cfg, so that a save commutes with every other step and it *)
(* is enough to take it right before the next ReadConfig.                  *)
SaveConfig ==
    /\ pc = "start"
    /\ cfg' \in Configs \ {cfg}
    /\ UNCHANGED <<kernel, iface, activity, table, lastErr, threads, rc, round,
                   bounds>>

-----------------------------------------------------------------------------
Init ==
    /\ cfg \in Configs
    /\ TcInit /\ New
    /\ proc = "down" /\ pc = "gone"
    /\ fails = 0 /\ crashes = 0

Loop ==
    \/ ReadConfig \/ Sample \/ SampleFails \/ ReconcileLock \/ ClearErr
    \/ CleanupLock("loop") \/ Tick \/ LoopExit

Locked == Build \/ RunCmd \/ Skip \/ Unlock

Next ==
    \/ Loop \/ Locked
    \/ Stop \/ CleanupLock("stop") \/ Exit
    \/ Crash \/ Start \/ SaveConfig

Spec == Init /\ [][Next]_vars

(* The Go scheduler runs a goroutine that can run, the ticker keeps firing *)
(* and every command returns; nothing makes Stop, a crash, a start or a    *)
(* new configuration happen.                                               *)
FairSpec ==
    /\ Spec
    /\ WF_vars(Loop)
    /\ WF_vars(Locked)
    /\ WF_vars(CleanupLock("stop"))

-----------------------------------------------------------------------------
(* Properties *)

(* The loop sleeps after a round that shaped and reported no error. *)
AtRest == mu = "free" /\ pc = "wait" /\ ~lastErr /\ rc.mode # "off"

(* What the kernel should hold for a direction that was shaped or cleared. *)
DirectionInSync(d) ==
    LET v == DevOf(d, iface)
    IN  IF plan[d] = "apply"
        THEN /\ root[v] = "htb"
             /\ filter[v] = Pairs(applied[d])
             /\ d = "in" => ingress[iface] = "redirect"
        ELSE /\ root[v] # "htb" /\ filter[v] = {} /\ On(applied[d]) = {}
             /\ d = "in" => ingress[iface] = "none"

(* After a round without an error the kernel classifies exactly the        *)
(* machines the service believes it has shaped, whatever a crash, a failed *)
(* command or a changed configuration has left behind: applyDirection and  *)
(* clearDirection converge from any kernel state (qos.go:362-429).         *)
KernelInSync == AtRest => \A d \in Dirs : DirectionInSync(d)

(* classID and releaseIfUnused: the ids below nextID are all in use, so    *)
(* the class ids never run away however often machines come and go, and    *)
(* the root class 1:1 is never given to a machine.                         *)
PrefixHeld ==
    /\ nextID >= firstClassID
    /\ \A m \in Machines : ids[m] # rootClassID
    /\ \A i \in firstClassID .. (nextID - 1) : \E m \in Machines : ids[m] = i

(* tc has a 16-bit class minor; the ids stay within one per machine. *)
IdsBounded ==
    \A m \in Machines : ids[m] <= Cardinality(Machines) + 1

(* A round that runs into finding 1: machines share an id, or the id that  *)
(* one machine gives back is the one that another will have.               *)
IdsClash(d) ==
    \/ \E m, n \in On(want[d]) : m # n /\ want[d][m].id = want[d][n].id
    \/ \E m \in On(want[d]) : want[d][m].id \in gone

(* applyDirection has issued its last command for direction d. *)
JustApplied(d) ==
    /\ dir = "in" /\ step = IF d = "out" THEN "build" ELSE "unlock"
    /\ plan[d] = "apply"

(* After the commands of a direction, without an error, every machine that *)
(* is to be shaped has its class in the kernel at the rate the service     *)
(* reports, whatever classes earlier rounds and crashes have left there,   *)
(* unless ids clash; in auto mode all have the same share of the budget.   *)
SharesInKernel ==
    \A d \in Dirs : JustApplied(d) /\ ~lastErr =>
        \A m \in On(applied[d]) :
            /\ rc.mode = "auto" =>
                  applied[d][m].rate = rateStr(rc.budget[d], Cardinality(On(applied[d])))
            /\ ~IdsClash(d) =>
                  <<applied[d][m].id, applied[d][m].rate>> \in class[DevOf(d, iface)]

(* The hysteresis of updateActive: a machine is shaped by the auto mode    *)
(* exactly while it was busy at most Hyst rounds ago and has been online   *)
(* since.                                                                  *)
ShapedWhileRecentlyBusy ==
    AtRest /\ proc = "up" /\ rc.mode = "auto" =>
        \A d \in Dirs : On(applied[d]) =
            {m \in Machines : age[m] <= Hyst /\ rc.budget[d] > 0}

(* Stop while the loop sleeps: it may fire once more, meet the closed      *)
(* channel or wait for the lock, and if it has left by way of the channel  *)
(* the rules are gone, also those that a crash had left there.  A round    *)
(* under way during Stop is another matter (qos.go:140): its select waits  *)
(* on a nil channel afterwards, and its rules may come after the cleanup.  *)
StopCleansUp ==
    proc = "cleaned" /\ pc = "gone" /\ fails = 0 /\ iface # NoIface =>
        /\ \A v \in {iface, IFBDev} : root[v] # "htb" /\ filter[v] = {}
        /\ ingress[iface] # "redirect"

(* Off mode that stays on: the rules go away in the end, although the loop *)
(* forgets the errors of its cleanups (reconcile, qos.go:194-198).         *)
OffCleansUp ==
    <>[](proc = "up" /\ cfg.mode = "off") =>
        <>[](\A v \in Devs : root[v] # "htb" /\ filter[v] = {})

(* A machine that stays within its hysteresis window under a configuration that no  *)
(* longer changes is shaped in the kernel whenever the loop sleeps.        *)
ActiveGetsShaped ==
    \A m \in Machines :
        (\E c \in Configs : c.mode = "auto" /\ c.budget["out"] > 0 /\
            <>[](proc = "up" /\ cfg = c /\ age[m] <= Hyst))
        => <>[](pc = "wait" => \E p \in filter[iface] : p[1] = m)

-----------------------------------------------------------------------------
(* Why these hold: the invariant that implies them *)

LoopSteps == {"replace", "classdel", "filteradd"}
ApplySteps == {"link", "ingressadd", "rediradd", "rootadd", "rootclass",
               "filterdel"} \cup LoopSteps
IngressSteps == {"link", "ingressadd", "redirdel", "rediradd", "ingressdel",
                 "unlock"}

(* The lock, the command list and the tables of the round fit together. *)
StepInv ==
    /\ mu = "free" <=> step = "none"
    /\ mu = "loop" => pc \in {"apply", "cleanup"}
    /\ mu = "stop" => proc = "stopping"
    /\ proc = "down" => pc = "gone" /\ mu = "free"
    /\ pc \in {"sample", "apply"} => iface \in Ifaces
    /\ pc = "clearerr" => rc.mode = "off"
    /\ step # "none" => \A d \in Dirs :
          /\ plan[d] = "apply" => mu = "loop" /\ pc = "apply"
          /\ plan[d] = "clear" => want[d] = Empty
    /\ step \in ApplySteps => plan[dir] = "apply"
    /\ step = "ingressdel" => plan[dir] = "clear"
    /\ step \in IngressSteps => dir = "in"
    /\ step \notin {"none", "build"} => applied[dir] = want[dir]
    /\ step # "none" /\ dir = "in" => applied["out"] = want["out"]
    /\ step \in {"replace", "filteradd"} => todo \subseteq On(want[dir])
    /\ step = "classdel" => todo \subseteq gone
    /\ step \in {"none", "build", "unlock"} => todo = {}
    /\ step \notin {"none", "build", "unlock"} \cup LoopSteps => todo = {0}

(* Filters only live under an htb qdisc, and interfaces do not disappear. *)
KernelInv ==
    /\ \A i \in Ifaces : root[i] # "absent"
    /\ \A v \in Devs : filter[v] # {} => root[v] = "htb"

(* The iface that a running command list was built for is still the one of *)
(* the service: its holder is the loop itself, or the loop sleeps.         *)
Settled == mu = "loop" \/ (pc = "wait" /\ rc.mode # "off")

(* What the commands of the current direction have achieved so far. *)
Progress(v) ==
    /\ step \notin {"build", "unlock"} => dev = iface
    /\ dir = "in" => DirectionInSync("out")
    /\ step = "unlock" => DirectionInSync("in")
    /\ dir = "in" /\ plan["in"] = "apply" =>
          /\ step \notin {"build", "link"} => root[v] # "absent"
          /\ step = "redirdel" => ingress[iface] \in {"qdisc", "redirect"}
          /\ step = "rediradd" => ingress[iface] = "qdisc"
          /\ step \in {"rootdel", "rootadd", "rootclass", "filterdel"} \cup LoopSteps =>
                ingress[iface] = "redirect"
    /\ dir = "in" /\ plan["in"] = "clear" /\ step = "rootdel" => ingress[iface] = "none"
    /\ step = "rootadd" => root[v] = "default"
    /\ step \in {"rootclass", "filterdel"} \cup LoopSteps => root[v] = "htb"
    /\ step \in {"replace", "classdel"} => filter[v] = {}
    /\ step = "filteradd" =>
          filter[v] = {<<m, want[dir][m].id>> : m \in On(want[dir]) \ todo}

(* Without an error the kernel is on its way to what the round decided,    *)
(* and there when the loop sleeps.                                         *)
SyncInv ==
    Settled /\ ~lastErr =>
        IF step = "none" THEN \A d \in Dirs : DirectionInSync(d)
        ELSE Progress(DevOf(dir, iface))

(* The machines that the auto mode shapes in direction d. *)
Recent(d) == {m \in Machines : age[m] <= Hyst /\ rc.budget[d] > 0}

(* The ages that a round has started from are still those of its sample,   *)
(* and a cleanup that is not due to off mode has its error on record.      *)
HystInv ==
    proc = "up" =>
        /\ pc = "apply" /\ mu = "free" =>
              \A m \in Machines : samples[m] = "active" <=> age[m] <= Hyst
        /\ pc = "apply" /\ mu = "loop" /\ rc.mode = "auto" =>
              \A d \in Dirs : On(want[d]) = Recent(d)
        /\ pc = "cleanup" => rc.mode = "off" \/ lastErr
        /\ pc = "wait" /\ ~lastErr /\ rc.mode = "auto" =>
              \A d \in Dirs : On(applied[d]) = Recent(d)

(* The classes of these machines are in the kernel, as the round wants them. *)
HaveClasses(d, names) ==
    \A m \in names : <<want[d][m].id, want[d][m].rate>> \in class[DevOf(d, iface)]

(* The rates are equal shares, and the classes issued so far stay. *)
ShareInv ==
    pc = "apply" /\ mu = "loop" =>
        /\ rc.mode = "auto" => \A d \in Dirs : \A m \in On(want[d]) :
              want[d][m].rate = rateStr(rc.budget[d], Cardinality(On(want[d])))
        /\ step \in LoopSteps /\ ~lastErr /\ ~IdsClash(dir) =>
              HaveClasses(dir, On(want[dir]) \ (IF step = "replace" THEN todo ELSE {}))
        /\ \A d \in Dirs : JustApplied(d) /\ ~lastErr /\ ~IdsClash(d) =>
              HaveClasses(d, On(want[d]))

(* What the cleanup of Stop has done so far, while the loop is asleep on    *)
(* the channel that Stop has closed, or gone.                              *)
StopInv ==
    fails = 0 /\ (pc = "gone" \/ (pc = "wait" /\ watch)) =>
        /\ mu = "stop" =>
              /\ step # "build" => dev = iface
              /\ dir = "in" => root[iface] # "htb"
              /\ dir = "in" /\ step \in {"ingressdel", "rootdel", "unlock"} =>
                    ingress[iface] # "redirect"
              /\ step = "unlock" => root[IFBDev] # "htb"
        /\ proc = "cleaned" =>
              /\ \A v \in {iface, IFBDev} : root[v] # "htb"
              /\ ingress[iface] # "redirect"

(* The inductive invariant: types, the shape of the command list and the   *)
(* kernel's own consistency; the progress made, for KernelInSync; the ids, *)
(* ages and classes of a round, for the properties of the same subjects.   *)
IInv ==
    /\ TypeOK /\ StepInv /\ KernelInv /\ SyncInv
    /\ PrefixHeld /\ HystInv /\ ShareInv /\ StopInv

-----------------------------------------------------------------------------
(* What the documents say, and the code does not do *)

(* qos.go:281: each machine has a class of its own, on each device. *)
DistinctClassIds ==
    AtRest => \A d \in Dirs : \A m, n \in On(applied[d]) :
        m # n => applied[d][m].id # applied[d][n].id

=============================================================================
