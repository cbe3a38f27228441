----------------------------- MODULE Collector -----------------------------
(***************************************************************************)
(* Monitoring: the machine table (internal/store/machines.go), the         *)
(* registry and HTTP handlers that write it (internal/registry,            *)
(* internal/web) and the collection loops that follow it                   *)
(* (internal/collector).                                                   *)
(*                                                                         *)
(* A worker is a goroutine: a collection loop, or an HTTP handler.  Each   *)
(* SQL statement is a step (the database has one connection) and so is     *)
(* each SSH session; what is done under c.mu is part of one step.  The     *)
(* process can end at any point; the database stays.                       *)
(*                                                                         *)
(* Data: a credential is present or missing; the slow part of a snapshot   *)
(* (GPU, security, cron, ports) is the number of the slow round that got   *)
(* it.  Times, metrics and the fast part of the snapshot are left out.     *)
(***************************************************************************)
EXTENDS Naturals

CONSTANTS
    Machines,
    NoMachine,
    LoopIds,      \* bound: goroutines that may run collection loops
    Handlers,     \* bound: requests in progress at a time
    MaxRequests,  \* bound: requests in a behaviour
    MaxSlow,      \* bound: slow rounds in a behaviour
    MaxFails      \* bound: failing statements of the database in a behaviour

ASSUME WorkerAssumption == LoopIds \cap Handlers = {} /\ NoMachine \notin Machines
ASSUME CollectorBounds == MaxRequests \in Nat /\ MaxSlow \in Nat /\ MaxFails \in Nat

VARIABLES
    row,       \* the machines table
    snap,      \* the slow round of the latest snapshot
    up,        \* the process runs
    loops,     \* the map c.loops: the machines that are "collecting"
    pc, job,   \* the workers
    requests, rounds, fails,   \* used-up bounds
    offSeen,   \* history: since the start, a machine was switched off, or a
               \* round has met it switched off
    unsynced   \* history: the statement whose answer should have started the
               \* loop of a machine has failed, and nothing has started it since

db == <<row, snap>>
workers == <<pc, job>>
bounds == <<requests, rounds, fails>>
history == <<offSeen, unsynced>>
vars == <<db, up, loops, workers, bounds, history>>

Workers == LoopIds \cup Handlers
Ops == {"none", "fast", "slow", "enable", "disable", "creds", "recreds", "now"}

Row == [known : BOOLEAN, user : BOOLEAN, pass : BOOLEAN, enabled : BOOLEAN]
NoRow == [known |-> FALSE, user |-> FALSE, pass |-> FALSE, enabled |-> FALSE]
Job == [m : Machines \cup {NoMachine}, op : Ops, view : Row, data : Nat]
NewJob(m, o) == [m |-> m, op |-> o, view |-> NoRow, data |-> 0]
NoJob == NewJob(NoMachine, "none")

(* Every variable has its type. *)
TypeOK ==
    /\ row \in [Machines -> Row] /\ snap \in [Machines -> Nat]
    /\ up \in BOOLEAN /\ loops \subseteq Machines
    /\ pc \in [Workers -> {"free", "select", "read", "write", "reread", "sync",
                           "reload", "drop", "probe", "merge", "save"}]
    /\ job \in [Workers -> Job]
    /\ requests \in 0..MaxRequests /\ rounds \in 0..MaxSlow /\ fails \in 0..MaxFails
    /\ offSeen \in [Machines -> BOOLEAN] /\ unsynced \in [Machines -> BOOLEAN]

-----------------------------------------------------------------------------
(* Helpers *)

(* A worker that has run its round or its request: a loop goes back to its *)
(* select, a handler has answered.                                         *)
Return(w) ==
    /\ pc' = [pc EXCEPT ![w] = IF w \in LoopIds THEN "select" ELSE "free"]
    /\ job' = [job EXCEPT ![w] =
                 IF w \in LoopIds THEN NewJob(job[w].m, "none") ELSE NoJob]

Goto(w, label) == pc' = [pc EXCEPT ![w] = label] /\ UNCHANGED job

(* A row read into the worker's copy of the machine. *)
ReadRow(w, label) ==
    /\ pc' = [pc EXCEPT ![w] = label]
    /\ job' = [job EXCEPT ![w].view = row[job[w].m]]

(* SetMachineEnabled: the row it writes. *)
Switched(r, on) == [r EXCEPT !.enabled = on]

(* SetMachineCredentials: the row it writes; the password is a new one or  *)
(* the one that was read before.                                           *)
WithCredentials(r, pass) == [r EXCEPT !.user = TRUE, !.pass = pass]

(* A plausible bug: the switch does not ask for credentials. *)
MayWriteAlways(o, view) ==
    CASE o = "recreds" -> view.pass
      [] OTHER         -> TRUE

(* What a handler asks of the row it has read before it goes on. *)
MayWrite(o, view) ==
    CASE o = "enable"  -> view.user
      [] o = "recreds" -> view.pass
      [] OTHER         -> TRUE

-----------------------------------------------------------------------------
(* Discovery and requests *)

(* UpsertMachineFromDiscovery, for one proxy of the dashboard.  The name   *)
(* is unique: a second insert fails and changes nothing.                   *)
Discover(m) ==
    /\ up /\ ~row[m].known
    /\ row' = [row EXCEPT ![m] = [NoRow EXCEPT !.known = TRUE]]
    /\ UNCHANGED <<snap, up, loops, workers, bounds, history>>

(* A request arrives: set credentials with a password ("creds") or without *)
(* one ("recreds"), switch monitoring on or off, collect now.              *)
Request(h, m, o) ==
    /\ up /\ pc[h] = "free" /\ row[m].known /\ requests < MaxRequests
    /\ requests' = requests + 1
    /\ pc' = [pc EXCEPT ![h] = "read"]
    /\ job' = [job EXCEPT ![h] = NewJob(m, o)]
    /\ UNCHANGED <<db, up, loops, rounds, fails, history>>

(* The GetMachineByID each of them starts with, and the checks on it. *)
Read(h) ==
    /\ pc[h] = "read"
    /\ LET view == row[job[h].m]
       IN  CASE job[h].op = "now" /\ view.user /\ view.pass -> Goto(h, "reload")
             [] job[h].op # "now" /\ MayWrite(job[h].op, view) -> ReadRow(h, "write")
             [] OTHER -> Return(h)
    /\ UNCHANGED <<db, up, loops, bounds, history>>

(* The UPDATE of SetMachineEnabled. *)
WriteSwitch(h) ==
    /\ pc[h] = "write" /\ job[h].op \in {"enable", "disable"}
    /\ LET m == job[h].m
           on == job[h].op = "enable"
       IN  /\ row' = [row EXCEPT ![m] = Switched(row[m], on)]
           /\ offSeen' = [offSeen EXCEPT ![m] = @ \/ ~on]
    /\ Goto(h, "reread")
    /\ UNCHANGED <<snap, up, loops, bounds, unsynced>>

(* The UPDATE of SetMachineCredentials. *)
WriteCredentials(h) ==
    /\ pc[h] = "write" /\ job[h].op \in {"creds", "recreds"}
    /\ LET m == job[h].m
       IN  row' = [row EXCEPT ![m] =
                     WithCredentials(row[m], job[h].op = "creds" \/ job[h].view.pass)]
    /\ Return(h)
    /\ UNCHANGED <<snap, up, loops, bounds, history>>

(* SetMachineEnabled returns the row as it is after its UPDATE. *)
Reread(h) ==
    /\ pc[h] = "reread"
    /\ ReadRow(h, "sync")
    /\ UNCHANGED <<db, up, loops, bounds, history>>

(* SyncMachine with a row that is switched on: a loop for the machine,     *)
(* unless it has one; h is handleMachineEnable.                            *)
StartLoop(h, m) ==
    /\ loops' = loops \cup {m}
    /\ \E s \in LoopIds :
          /\ pc[s] = "free"
          /\ pc' = [pc EXCEPT ![h] = "free", ![s] = "reload"]
          /\ job' = [job EXCEPT ![h] = NoJob,
                       ![s] = NewJob(m, "fast")]

(* A plausible bug: SyncMachine does not look whether there is a loop.     *)
SyncOnAlways(h) ==
    /\ pc[h] = "sync" /\ job[h].view.enabled
    /\ StartLoop(h, job[h].m)
    /\ unsynced' = [unsynced EXCEPT ![job[h].m] = FALSE]
    /\ UNCHANGED <<db, up, bounds, offSeen>>

SyncOn(h) ==
    /\ pc[h] = "sync" /\ job[h].view.enabled
    /\ IF job[h].m \in loops THEN Return(h) /\ UNCHANGED loops
       ELSE StartLoop(h, job[h].m)
    /\ unsynced' = [unsynced EXCEPT ![job[h].m] = FALSE]
    /\ UNCHANGED <<db, up, bounds, offSeen>>

(* SyncMachine with a row that is switched off, for handleMachineEnable or *)
(* for a round that has met it ("drop").                                   *)
SyncOff(w) ==
    /\ pc[w] \in {"sync", "drop"} /\ ~job[w].view.enabled
    /\ loops' = loops \ {job[w].m}
    /\ Return(w)
    /\ UNCHANGED <<db, up, bounds, history>>

-----------------------------------------------------------------------------
(* collect: one round, of a loop or of CollectNow *)

(* A plausible bug: the round goes on although the switch is off. *)
ReloadAlways(w) ==
    /\ pc[w] = "reload"
    /\ ReadRow(w, "probe")
    /\ UNCHANGED <<db, up, loops, bounds, history>>

(* The row is read again: the switch may be off, credentials may be new. *)
Reload(w) ==
    /\ pc[w] = "reload"
    /\ LET m == job[w].m
       IN  /\ ReadRow(w, IF row[m].enabled THEN "probe" ELSE "drop")
           /\ offSeen' = [offSeen EXCEPT ![m] = @ \/ ~row[m].enabled]
    /\ UNCHANGED <<db, up, loops, bounds, unsynced>>

(* The machine does not answer, or a credential cannot be decrypted. *)
ProbeFails(w) ==
    /\ pc[w] = "probe"
    /\ Return(w)
    /\ UNCHANGED <<db, up, loops, bounds, history>>

(* A fast round is about to keep the slow part of the last snapshot, a     *)
(* slow round has got its own.                                             *)
Probe(w) ==
    /\ pc[w] = "probe"
    /\ IF job[w].op = "fast"
       THEN Goto(w, "merge") /\ UNCHANGED rounds
       ELSE /\ rounds < MaxSlow
            /\ rounds' = rounds + 1
            /\ pc' = [pc EXCEPT ![w] = "save"]
            /\ job' = [job EXCEPT ![w].data = rounds']
    /\ UNCHANGED <<db, up, loops, requests, fails, history>>

(* GetSnapshot; then the tunnel is probed. *)
Merge(w) ==
    /\ pc[w] = "merge"
    /\ pc' = [pc EXCEPT ![w] = "save"]
    /\ job' = [job EXCEPT ![w].data = snap[job[w].m]]
    /\ UNCHANGED <<db, up, loops, bounds, history>>

(* SaveSnapshot, SaveMetricFor and TouchMachine: nobody reads the metrics  *)
(* and the times to decide anything, so that one step stands for all.      *)
Save(w) ==
    /\ pc[w] = "save"
    /\ snap' = [snap EXCEPT ![job[w].m] = job[w].data]
    /\ Return(w)
    /\ UNCHANGED <<row, up, loops, bounds, history>>

-----------------------------------------------------------------------------
(* Failures of the database *)

(* A worker's statement fails: a handler answers with the error, a round   *)
(* gives up.  When it is the re-read after the UPDATE of SetMachineEnabled,*)
(* SyncMachine is not called although the row is written.                  *)
Fails(w) ==
    /\ pc[w] \in {"read", "write", "reread", "reload", "save"} /\ fails < MaxFails
    /\ fails' = fails + 1
    /\ Return(w)
    /\ unsynced' = [unsynced EXCEPT ![job[w].m] =
                      @ \/ (pc[w] = "reread" /\ job[w].m \notin loops)]
    /\ UNCHANGED <<db, up, loops, requests, rounds, offSeen>>

(* GetSnapshot fails: the round goes on without the slow part. *)
MergeFails(w) ==
    /\ pc[w] = "merge" /\ fails < MaxFails
    /\ fails' = fails + 1
    /\ Goto(w, "save")
    /\ UNCHANGED <<db, up, loops, requests, rounds, history>>

-----------------------------------------------------------------------------
(* loop, and the life of the process *)

(* A plausible bug: the loop asks the machine table instead of the map.    *)
TickExitByRow(s) ==
    /\ pc[s] = "select" /\ ~row[job[s].m].enabled
    /\ pc' = [pc EXCEPT ![s] = "free"]
    /\ job' = [job EXCEPT ![s] = NoJob]
    /\ UNCHANGED <<db, up, loops, bounds, history>>

(* A ticker fires: the loop ends itself if its machine is no longer in the *)
(* map, and runs a fast or a slow round otherwise.                         *)
TickExit(s) ==
    /\ pc[s] = "select" /\ job[s].m \notin loops
    /\ pc' = [pc EXCEPT ![s] = "free"]
    /\ job' = [job EXCEPT ![s] = NoJob]
    /\ UNCHANGED <<db, up, loops, bounds, history>>

Tick(s, o) ==
    /\ pc[s] = "select" /\ job[s].m \in loops
    /\ pc' = [pc EXCEPT ![s] = "reload"]
    /\ job' = [job EXCEPT ![s].op = o]
    /\ UNCHANGED <<db, up, loops, bounds, history>>

(* The process ends, by a signal or by a crash, with all its goroutines. *)
Down ==
    /\ up /\ up' = FALSE
    /\ loops' = {}
    /\ pc' = [w \in Workers |-> "free"]
    /\ job' = [w \in Workers |-> NoJob]
    /\ UNCHANGED <<db, bounds, history>>

EnabledRows == {m \in Machines : row[m].enabled}

(* startLoop for each of these machines: f[s] is the machine of loop s. *)
StartLoops(used, f) ==
    /\ \A m \in EnabledRows : \E s \in used : f[s] = m
    /\ \A s, t \in used : f[s] = f[t] => s = t
    /\ pc' = [w \in Workers |-> IF w \in used THEN "reload" ELSE "free"]
    /\ job' = [w \in Workers |-> IF w \in used THEN NewJob(f[w], "fast") ELSE NoJob]

(* Start: a loop for each machine that is switched on. *)
Start ==
    /\ ~up /\ up' = TRUE
    /\ loops' = EnabledRows
    /\ \E used \in SUBSET LoopIds :
          \E f \in [used -> EnabledRows] : StartLoops(used, f)
    /\ offSeen' = [m \in Machines |-> FALSE]
    /\ unsynced' = [m \in Machines |-> FALSE]
    /\ UNCHANGED <<db, bounds>>

(* Start when ListMachines fails: the server runs, without a loop. *)
StartFails ==
    /\ ~up /\ up' = TRUE
    /\ fails < MaxFails /\ fails' = fails + 1
    /\ offSeen' = [m \in Machines |-> FALSE]
    /\ unsynced' = [m \in Machines |-> row[m].enabled]
    /\ UNCHANGED <<db, loops, workers, requests, rounds>>

-----------------------------------------------------------------------------
Init ==
    /\ row = [m \in Machines |-> NoRow] /\ snap = [m \in Machines |-> 0]
    /\ up = FALSE /\ loops = {}
    /\ pc = [w \in Workers |-> "free"] /\ job = [w \in Workers |-> NoJob]
    /\ requests = 0 /\ rounds = 0 /\ fails = 0
    /\ offSeen = [m \in Machines |-> FALSE] /\ unsynced = [m \in Machines |-> FALSE]

Handle(h) == Read(h) \/ WriteSwitch(h) \/ WriteCredentials(h) \/ Reread(h) \/ SyncOn(h)
Collect(w) == SyncOff(w) \/ Reload(w) \/ Merge(w) \/ Save(w)
Session(w) == Probe(w) \/ ProbeFails(w)
Loop(s) == TickExit(s) \/ \E o \in {"fast", "slow"} : Tick(s, o)

Next ==
    \/ \E m \in Machines : Discover(m)
    \/ \E h \in Handlers, m \in Machines,
          o \in {"enable", "disable", "creds", "recreds", "now"} : Request(h, m, o)
    \/ \E h \in Handlers : Handle(h)
    \/ \E w \in Workers : Collect(w) \/ Session(w) \/ Fails(w) \/ MergeFails(w)
    \/ \E s \in LoopIds : Loop(s)
    \/ Down \/ Start \/ StartFails

Spec == Init /\ [][Next]_vars

(* Goroutines run and tickers fire.  Nothing makes a request arrive or the *)
(* process start, and nothing ends an SSH session: sshx.go:18-29 bounds the*)
(* TCP connect but not the handshake, and sshx.go:43-51 sets the timer of a*)
(* command only where the machine grants a pty.                            *)
FairSpec ==
    /\ Spec
    /\ \A h \in Handlers : WF_vars(Handle(h))
    /\ \A w \in Workers : WF_vars(Collect(w))
    /\ \A s \in LoopIds : WF_vars(Loop(s))

-----------------------------------------------------------------------------
(* Properties *)

(* The goroutines that run a loop for machine m. *)
LoopsOf(m) == {s \in LoopIds : pc[s] # "free" /\ job[s].m = m}

(* README.md:13: machines without credentials are never probed; nor are    *)
(* they ever switched on, however the requests overlap.                    *)
HasCredentials ==
    /\ \A m \in Machines : row[m].enabled => row[m].user /\ row[m].pass
    /\ \A w \in Workers : pc[w] = "probe" => job[w].view.user /\ job[w].view.pass

(* IsCollecting tells the truth: a machine that is in the map has a loop,  *)
(* although loops end on their own and the map is written by others.       *)
CollectingIsReal == \A m \in loops : LoopsOf(m) # {}

(* A request that is about to start the loop of m. *)
SyncPending(m) ==
    \E h \in Handlers : job[h].m = m /\ pc[h] \in {"reread", "sync"}

(* A machine that is switched on has exactly one loop, and is in the map,  *)
(* until it is switched off or a round meets it switched off; concurrent   *)
(* requests to switch it on make no difference.  Two statements must not   *)
(* have failed: the re-read of handleMachineEnable (machines.go:162) and   *)
(* the list of Start (collector.go:49); after such a failure the next      *)
(* request to switch it on puts things right.                              *)
CollectedUntilOff ==
    \A m \in Machines :
        up /\ row[m].enabled /\ ~offSeen[m] /\ ~SyncPending(m) /\ ~unsynced[m] =>
            m \in loops /\ \E s \in LoopIds : LoopsOf(m) = {s}

(* The loops of m that wait for a machine to answer. *)
InSession(m) == {s \in LoopsOf(m) : pc[s] = "probe"}

(* A machine that stays switched off has no loop in the end, and is not in *)
(* the map, whatever late SyncMachine calls and failing statements have    *)
(* done; only a loop whose SSH session never ends can stay.                *)
DisabledStops ==
    \A m \in Machines :
        <>[](~row[m].enabled) =>
            <>[](LoopsOf(m) = InSession(m) /\ (m \in loops => InSession(m) # {}))

-----------------------------------------------------------------------------
(* Why the safety properties hold: the invariant that implies them *)

(* Where the workers can be. *)
WorkerInv ==
    /\ \A w \in Workers :
          /\ pc[w] = "free" => job[w] = NoJob
          /\ pc[w] # "free" => up /\ job[w].m \in Machines
    /\ \A h \in Handlers : pc[h] # "select"
    /\ \A s \in LoopIds : pc[s] \notin {"read", "write", "reread", "sync"}
    /\ ~up => loops = {}

(* Credentials come together, and only a machine that has them is on. *)
RowInv(m) ==
    /\ row[m].user => row[m].known /\ row[m].pass
    /\ row[m].enabled => row[m].user

(* What a worker has found out about credentials stays true. *)
FoundInv(w) ==
    /\ pc[w] # "free" => row[job[w].m].known
    /\ pc[w] = "write" /\ job[w].op = "enable" => row[job[w].m].user
    /\ pc[w] = "write" /\ job[w].op = "recreds" => job[w].view.pass
    /\ pc[w] = "probe" => job[w].view.user /\ job[w].view.pass

CredentialInv ==
    /\ \A m \in Machines : RowInv(m)
    /\ \A w \in Workers : FoundInv(w)

(* As long as machine m has not been seen off, only its start is pending.  *)
Following(m) ==
    /\ \A s, t \in LoopsOf(m) : s = t
    /\ LoopsOf(m) # {} => m \in loops /\ row[m].enabled
    /\ row[m].enabled => m \in loops \/ SyncPending(m) \/ unsynced[m]
    /\ \A w \in Workers : job[w].m = m =>
          /\ pc[w] # "drop"
          /\ pc[w] = "sync" => job[w].view.enabled /\ row[m].enabled
          /\ pc[w] = "reread" => row[m].enabled

IInv ==
    /\ TypeOK /\ WorkerInv /\ CredentialInv /\ CollectingIsReal
    /\ \A m \in Machines : up /\ ~offSeen[m] => Following(m)

-----------------------------------------------------------------------------
(* What the documents say, and the code does not do *)

(* machines.go:13: a machine that is switched on is being monitored, once  *)
(* no request and no round is at work.                                     *)
EnabledIsCollected ==
    up /\ (\A w \in Workers : pc[w] \in {"free", "select"}) =>
        \A m \in Machines : row[m].enabled => m \in loops

=============================================================================
