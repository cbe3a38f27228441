------------------------------- MODULE Tasks -------------------------------
(***************************************************************************)
(* The task manager of internal/actions: cleanup and virus-scan tasks that *)
(* HTTP handlers start and goroutines carry out, one goroutine per task.   *)
(*                                                                         *)
(* Everything is kept in memory under one mutex, tm.mu.  A critical        *)
(* section is one step; what a goroutine does before it (SSH sessions that *)
(* last for minutes, or never end) is a choice of the outcome.  A handler  *)
(* that panics inside its critical section never unlocks: net/http keeps   *)
(* the process alive and the mutex is "lost".                              *)
(*                                                                         *)
(* Data: outputs, labels, durations and audit entries are left out; a      *)
(* machine has the login it had when the task was started.                 *)
(***************************************************************************)
EXTENDS Naturals, Sequences, FiniteSets

CONSTANTS
    Machines,
    Items,        \* cleanup items
    NeedsRoot,    \* those that need root
    Login,        \* per machine: "none", "root", "sudo" (a sudo password) or "plain"
    MaxKept,      \* tasks kept in memory, 50 in the code
    ScanModes,    \* the scan modes that are asked for
    MaxTargets,   \* bound: machines of a request
    MaxTasks      \* bound: tasks in a behaviour

(* scanPhases: the number of commands of each mode. *)
Phases == [quick |-> 7, full |-> 15, rootkit |-> 2, update |-> 1]

ASSUME MachineAssumption == Login \in [Machines -> {"none", "root", "sudo", "plain"}]
ASSUME ItemAssumption == NeedsRoot \subseteq Items
ASSUME ModeAssumption == ScanModes \subseteq {"quick", "full", "rootkit", "update"}
ASSUME BoundAssumption ==
    MaxKept \in Nat \ {0} /\ MaxTargets \in Nat /\ MaxTasks \in Nat

VARIABLES
    mu,       \* the mutex: free, or never unlocked again
    nextID,
    listed,   \* the keys of tm.tasks
    task,     \* every Task that was ever made; goroutines keep theirs
    job       \* the goroutine of each task

vars == <<mu, nextID, listed, task, job>>

Ids == 1..MaxTasks
Verdicts == {"ok", "failed", "skipped"}

(* What is said of one machine: a verdict for each cleanup item, or one    *)
(* for the machine as a whole.                                             *)
Result == [machine : Machines, whole : Verdicts \cup {"items"},
           items : UNION {[S -> Verdicts] : S \in SUBSET Items}]
Whole(m, v) == [machine |-> m, whole |-> v, items |-> [it \in {} |-> v]]

Task == [op : {"none", "cleanup"} \cup ScanModes,
         targets : Seq(Machines), items : SUBSET Items,
         status : {"none", "running", "done"},
         done : Nat, pct : Nat, results : Seq(Result)]
TaskFor(op, ms, is, status) ==
    [op |-> op, targets |-> ms, items |-> is, status |-> status,
     done |-> 0, pct |-> 0, results |-> <<>>]
NoTask == TaskFor("none", <<>>, {}, "none")

(* at: the machine of the loop; phase: commands that have run on it.  A    *)
(* goroutine is in SSH sessions in "clean", "dial" and "run".              *)
Job == [pc : {"none", "created", "begin", "clean", "dial", "run", "finish", "ended"},
        at : Nat, phase : Nat]
JobAt(pc, at) == [pc |-> pc, at |-> at, phase |-> 0]
NoJob == JobAt("none", 1)

(* Every variable has its type. *)
TypeOK ==
    /\ mu \in {"free", "lost"}
    /\ nextID \in 1..(MaxTasks + 1)
    /\ listed \subseteq Ids
    /\ task \in [Ids -> Task] /\ job \in [Ids -> Job]

-----------------------------------------------------------------------------
(* Helpers *)

(* The machine that goroutine i works on. *)
Target(i) == task[i].targets[job[i].at]

(* A plausible bug: any entry of the map is deleted, not the oldest. *)
KeepAny(ids, kept) == kept \subseteq ids /\ Cardinality(kept) <= MaxKept
                      /\ Cardinality(ids \ kept) <= 1

(* newTaskLocked: the oldest task goes when there are too many. *)
Keep(ids, kept) ==
    IF Cardinality(ids) > MaxKept
    THEN \E old \in ids : kept = ids \ {old} /\ \A i \in ids : old <= i
    ELSE kept = ids

(* A plausible bug: the machine in progress counts as done. *)
PctAhead(done, total) == (100 * (done + 1)) \div total

(* Percent of the machines, rounded down.  (The code divides in float64,   *)
(* which may round a whole number of percent down to the one before, as    *)
(* in 29 of 100 machines; it never reaches 100 too early.)                 *)
Pct(done, total) == (100 * done) \div total

(* A plausible bug: the machines that are done are forgotten. *)
PctOfPhase(t, phase) == (100 * phase) \div (Phases[t.op] * Len(t.targets))

(* report, the callback of a scan: a machine counts for the share of its   *)
(* commands that have run; less than 100 before the last machine is done.  *)
PctAt(t, phase) ==
    LET pct == (100 * (t.done * Phases[t.op] + phase)) \div (Phases[t.op] * Len(t.targets))
    IN  IF pct > 99 /\ t.done < Len(t.targets) THEN 99 ELSE pct

(* A task with one more machine reported on. *)
Reported(t, result) ==
    [t EXCEPT !.results = Append(@, result), !.done = @ + 1,
              !.pct = Pct(t.done + 1, Len(t.targets))]

(* A plausible bug: the goroutine returns after its last machine. *)
ReturnsAfter(at, targets) == IF at < Len(targets) THEN "begin" ELSE "ended"

(* A plausible bug: the loop runs once too often. *)
AfterOneMore(at, targets) == IF at <= Len(targets) THEN "begin" ELSE "finish"

(* The loop over the machines: the next one, or the end. *)
After(at, targets) == IF at < Len(targets) THEN "begin" ELSE "finish"

NextMachine(i) ==
    job' = [job EXCEPT ![i] = JobAt(After(@.at, task[i].targets), @.at + 1)]

(* The outcomes of one machine's cleanup: an item that needs root is       *)
(* skipped exactly when there is no way to become root.                    *)
Cleaned(m, items) ==
    {f \in [items -> Verdicts] : \A it \in items :
        f[it] = "skipped" <=> it \in NeedsRoot /\ Login[m] = "plain"}

-----------------------------------------------------------------------------
(* Handlers *)

(* The machines of a request; each must have credentials. *)
Requests == {ms \in UNION {[1..n -> Machines] : n \in 0..MaxTargets} :
                \A k \in DOMAIN ms : Login[ms[k]] # "none"}

(* newTaskLocked, with the caller's goroutine in state pc. *)
NewTask(op, ms, is, pc) ==
    /\ mu = "free" /\ nextID <= MaxTasks
    /\ nextID' = nextID + 1
    /\ \E kept \in SUBSET (listed \cup {nextID}) :
          Keep(listed \cup {nextID}, kept) /\ listed' = kept
    /\ task' = [task EXCEPT ![nextID] = TaskFor(op, ms, is, "running")]
    /\ job' = [job EXCEPT ![nextID] = JobAt(pc, 1)]

(* StartCleanup with at least one item left after filtering. *)
StartCleanup(ms, is) ==
    /\ ms # <<>> /\ is # {}
    /\ NewTask("cleanup", ms, is, "created")
    /\ UNCHANGED mu

(* StartCleanup without a machine: machines[0] panics between Lock and     *)
(* Unlock, after the task has been entered.                                *)
StartCleanupPanics(is) ==
    /\ is # {}
    /\ NewTask("cleanup", <<>>, is, "none")
    /\ mu' = "lost"

(* StartScan, which refuses a request without a machine. *)
StartScan(ms, mode) ==
    /\ ms # <<>>
    /\ NewTask(mode, ms, {}, "created")
    /\ UNCHANGED mu

(* The rest of the handler: it writes the audit log and starts the         *)
(* goroutine.                                                              *)
Launch(i) ==
    /\ job[i].pc = "created"
    /\ job' = [job EXCEPT ![i].pc = "begin"]
    /\ UNCHANGED <<mu, nextID, listed, task>>

-----------------------------------------------------------------------------
(* The goroutine of a cleanup *)

(* Current and Phase are set; then runOnMachine runs without the mutex. *)
BeginClean(i) ==
    /\ job[i].pc = "begin" /\ task[i].op = "cleanup" /\ mu = "free"
    /\ job' = [job EXCEPT ![i].pc = "clean"]
    /\ UNCHANGED <<mu, nextID, listed, task>>

(* The results of a machine: it could not be logged in to, or each item    *)
(* has one.                                                                *)
Clean(i) ==
    /\ job[i].pc = "clean" /\ mu = "free"
    /\ \/ task' = [task EXCEPT ![i] = Reported(@, Whole(Target(i), "failed"))]
       \/ \E f \in Cleaned(Target(i), task[i].items) :
             task' = [task EXCEPT ![i] =
                Reported(@, [machine |-> Target(i), whole |-> "items", items |-> f])]
    /\ NextMachine(i)
    /\ UNCHANGED <<mu, nextID, listed>>

-----------------------------------------------------------------------------
(* The goroutine of a scan *)

(* report: progress is shown, then the goroutine is in a session. *)
Show(i, pc, phase) ==
    /\ mu = "free"
    /\ task' = [task EXCEPT ![i].pct = PctAt(task[i], phase)]
    /\ job' = [job EXCEPT ![i].pc = pc, ![i].phase = phase]
    /\ UNCHANGED <<mu, nextID, listed>>

(* The result of a machine. *)
CloseScan(i, v) ==
    /\ mu = "free"
    /\ task' = [task EXCEPT ![i] = Reported(@, Whole(Target(i), v))]
    /\ NextMachine(i)
    /\ UNCHANGED <<mu, nextID, listed>>

(* scanMachine: a credential cannot be decrypted. *)
NoSecret(i) ==
    job[i].pc = "begin" /\ task[i].op # "cleanup" /\ CloseScan(i, "failed")

(* scanMachine: the machine is about to be dialled. *)
OpenScan(i) ==
    job[i].pc = "begin" /\ task[i].op # "cleanup" /\ Show(i, "dial", 0)

(* It has been dialled, or not; the first command is about to run. *)
Dialled(i) ==
    job[i].pc = "dial" /\ (CloseScan(i, "failed") \/ Show(i, "run", 0))

(* A command has run.  Its tool may be missing, it may be interrupted;     *)
(* otherwise the next command follows.                                     *)
Phase(i) ==
    /\ job[i].pc = "run"
    /\ \/ CloseScan(i, "skipped")
       \/ CloseScan(i, "failed")
       \/ IF job[i].phase + 1 < Phases[task[i].op]
          THEN Show(i, "run", job[i].phase + 1)
          ELSE CloseScan(i, "ok")

(* All machines done, in either kind of task. *)
Finish(i) ==
    /\ job[i].pc = "finish" /\ mu = "free"
    /\ task' = [task EXCEPT ![i].status = "done"]
    /\ job' = [job EXCEPT ![i].pc = "ended"]
    /\ UNCHANGED <<mu, nextID, listed>>

-----------------------------------------------------------------------------
Init ==
    /\ mu = "free" /\ nextID = 1 /\ listed = {}
    /\ task = [i \in Ids |-> NoTask] /\ job = [i \in Ids |-> NoJob]

Run(i) == Launch(i) \/ BeginClean(i) \/ NoSecret(i) \/ OpenScan(i) \/ Finish(i)
SessionEnds(i) == Clean(i) \/ Dialled(i) \/ Phase(i)

Next ==
    \/ \E ms \in Requests, is \in SUBSET Items : StartCleanup(ms, is)
    \/ \E is \in SUBSET Items : StartCleanupPanics(is)
    \/ \E ms \in Requests, mode \in ScanModes : StartScan(ms, mode)
    \/ \E i \in Ids : Run(i) \/ SessionEnds(i)

Spec == Init /\ [][Next]_vars

(* Goroutines run.  Nothing makes a request arrive, and nothing ends an SSH*)
(* session: sshx.go:18-29 bounds the TCP connect but not the handshake, and*)
(* sshx.go:43-51 sets the timer of a command only where a pty is granted.  *)
FairSpec == Spec /\ \A i \in Ids : WF_vars(Run(i))

(* All machines answer as well. *)
AnsweredSpec == FairSpec /\ \A i \in Ids : WF_vars(SessionEnds(i))

-----------------------------------------------------------------------------
(* Properties *)

(* The number of machines goroutine i has reported on. *)
Reports(i) == Len(task[i].results)

(* The progress bar tells the truth: it is full exactly when every machine *)
(* has been reported on, and a task that is done shows a full one.         *)
ProgressTruth ==
    \A i \in Ids : task[i].targets # <<>> =>
        /\ task[i].pct = 100 <=> Reports(i) = Len(task[i].targets)
        /\ task[i].status = "done" => task[i].pct = 100

(* The progress bar never goes back, although a scan computes it in two    *)
(* ways (report and the end of a machine) and machines fail half way.      *)
ProgressNeverFalls == [][\A i \in Ids : task'[i].pct >= task[i].pct]_task

(* The list keeps its promises (TaskBoard): a machine that fails does not  *)
(* stop the others, none is reported on twice or left out, and the list    *)
(* holds the newest tasks.                                                 *)
Board == INSTANCE TaskBoard WITH
    posted <- nextID - 1,
    targets <- [i \in Ids |-> task[i].targets],
    reported <- [i \in Ids |-> [k \in 1..Reports(i) |-> task[i].results[k].machine]],
    done <- {i \in Ids : task[i].status = "done"}
KeepsPromises == Board!BoardSpec

(* As long as the mutex is not lost every goroutine comes to the end of its*)
(* task, also when that has left the list long before; only one that is in *)
(* an SSH session that never ends can be held up.                          *)
FinishesUnlessStuck ==
    [](mu = "free") =>
        \A i \in Ids : <>[](\/ job[i].pc \in {"none", "clean", "dial", "run"}
                           \/ task[i].status = "done")

-----------------------------------------------------------------------------
(* The inductive invariant *)

Working == {"created", "begin", "clean", "dial", "run"}

(* Where the goroutine of a task can be, and how far the task then is. *)
Consistent(t, j, posted) ==
    /\ posted <=> t.op # "none"
    /\ ~posted => t = NoTask /\ j = NoJob
    /\ t.done = Len(t.results) /\ t.done <= Len(t.targets)
    /\ \A k \in 1..t.done : t.results[k].machine = t.targets[k]
    /\ j.pc \in Working =>
          j.at = t.done + 1 /\ t.done < Len(t.targets) /\ t.status = "running"
    /\ j.pc = "none" => t.done = 0 /\ t.targets = <<>> /\ t.pct = 0
    /\ j.pc \in {"finish", "ended"} => t.targets # <<>> /\ t.done = Len(t.targets)
    /\ j.pc = "ended" <=> t.status = "done"
    /\ j.pc = "clean" => t.op = "cleanup"
    /\ j.pc \in {"dial", "run"} => t.op \in ScanModes
    /\ j.pc \in {"created", "begin", "dial"} => j.phase = 0
    /\ j.pc = "run" => j.phase < Phases[t.op]

(* How full the bar of a task can be. *)
BarFits(t, j) ==
    t.targets # <<>> =>
        /\ t.pct >= Pct(t.done, Len(t.targets))
        /\ j.pc \in {"created", "begin"} => t.pct = Pct(t.done, Len(t.targets))
        /\ j.pc \in {"dial", "run"} => t.pct <= PctAt(t, j.phase)
        /\ t.done < Len(t.targets) => t.pct <= 99 /\ t.pct <= Pct(t.done + 1, Len(t.targets))
        /\ t.done = Len(t.targets) => t.pct = 100

(* The list holds the newest tasks, every goroutine is where its task says *)
(* it is, and every bar is between the machines done and the next one.     *)
IInv ==
    /\ TypeOK
    /\ listed = Board!Newest(nextID - 1)
    /\ \A i \in Ids : Consistent(task[i], job[i], i < nextID) /\ BarFits(task[i], job[i])

-----------------------------------------------------------------------------
(* What the documents say, and the code does not do *)

(* cleanup.go:111: StartCleanup makes a task and carries it out in the     *)
(* background.                                                             *)
StartedTasksFinish ==
    \A i \in Ids : (task[i].status = "running") ~> (task[i].status = "done")
=============================================================================
