-------------------------- MODULE CollectorProofs --------------------------
(***************************************************************************)
(* Proofs about Collector: types, credentials, the truth of IsCollecting,  *)
(* and one loop per machine until it is seen switched off; for any number  *)
(* of machines, loops and concurrent requests.                             *)
(***************************************************************************)
EXTENDS Collector, TLAPS

USE DEF Row, NoRow, Job, NoJob, Ops, Workers, history

(* A job that has just begun is a job. *)
LEMMA NewJobType ==
    ASSUME NEW m \in Machines \cup {NoMachine}, NEW o \in Ops
    PROVE  NewJob(m, o) \in Job
  BY DEF NewJob

(* The fields of a job that has just begun. *)
LEMMA NewJobFields ==
    \A m, o : NewJob(m, o).m = m /\ NewJob(m, o).op = o /\ NewJob(m, o).view = NoRow
  BY DEF NewJob

(* Return takes a worker out of its round and changes nobody else. *)
LEMMA ReturnType ==
    ASSUME TypeOK, NEW w \in Workers, Return(w)
    PROVE  /\ pc' \in [Workers -> {"free", "select", "read", "write", "reread",
                                   "sync", "reload", "drop", "probe", "merge", "save"}]
           /\ job' \in [Workers -> Job]
  <1>1. job[w] \in Job
    BY DEF TypeOK
  <1>2. NewJob(job[w].m, "none") \in Job /\ NoJob \in Job
    BY <1>1, NewJobType
  <1>3. QED
    BY <1>2 DEF Return, TypeOK

(* A row that is read into a worker's copy keeps the types. *)
LEMMA ReadRowType ==
    ASSUME TypeOK, NEW w \in Workers, job[w].m \in Machines,
           NEW l \in {"write", "sync", "probe", "drop"}, ReadRow(w, l)
    PROVE  /\ pc' \in [Workers -> {"free", "select", "read", "write", "reread",
                                   "sync", "reload", "drop", "probe", "merge", "save"}]
           /\ job' \in [Workers -> Job]
  <1>1. job[w] \in Job /\ row[job[w].m] \in Row
    BY DEF TypeOK
  <1>2. [job[w] EXCEPT !.view = row[job[w].m]] \in Job
    BY <1>1
  <1>3. QED
    BY <1>2 DEF ReadRow, TypeOK

(* The rows that the two UPDATEs write are rows. *)
LEMMA RowTypes ==
    ASSUME NEW r \in Row, NEW b \in BOOLEAN
    PROVE  Switched(r, b) \in Row /\ WithCredentials(r, b) \in Row
  BY DEF Switched, WithCredentials

(* Every step keeps the types. *)
LEMMA TypeNext ==
    ASSUME TypeOK, WorkerInv, [Next]_vars
    PROVE  TypeOK'
  <1> USE CollectorBounds
  <1>1. ASSUME NEW m \in Machines, Discover(m) PROVE TypeOK'
    <2>1. [NoRow EXCEPT !.known = TRUE] \in Row
      OBVIOUS
    <2>2. QED
      BY <1>1, <2>1 DEF Discover, TypeOK, workers, bounds
  <1>2. ASSUME NEW h \in Handlers, NEW m \in Machines,
               NEW o \in {"enable", "disable", "creds", "recreds", "now"}, Request(h, m, o)
        PROVE  TypeOK'
    <2>1. NewJob(m, o) \in Job
      BY NewJobType
    <2>2. requests' \in 0..MaxRequests
      BY <1>2 DEF Request, TypeOK
    <2>3. QED
      BY <1>2, <2>1, <2>2 DEF Request, TypeOK, db
  <1>3. ASSUME NEW h \in Handlers, Read(h) PROVE TypeOK'
    <2>1. job[h].m \in Machines
      BY <1>3 DEF Read, WorkerInv
    <2>2. CASE Goto(h, "reload")
      BY <1>3, <2>2 DEF Read, Goto, TypeOK, db, bounds
    <2>3. CASE ReadRow(h, "write")
      BY <1>3, <2>1, <2>3, ReadRowType DEF Read, TypeOK, db, bounds
    <2>4. CASE Return(h)
      BY <1>3, <2>4, ReturnType DEF Read, TypeOK, db, bounds
    <2>5. QED
      BY <1>3, <2>2, <2>3, <2>4 DEF Read
  <1>4. ASSUME NEW h \in Handlers, WriteSwitch(h) PROVE TypeOK'
    <2>1. job[h].m \in Machines /\ row[job[h].m] \in Row
      BY <1>4 DEF WriteSwitch, WorkerInv, TypeOK
    <2>2. Switched(row[job[h].m], job[h].op = "enable") \in Row
      BY <2>1, RowTypes
    <2>3. row' \in [Machines -> Row]
      BY <1>4, <2>2 DEF WriteSwitch, TypeOK
    <2>4. offSeen' \in [Machines -> BOOLEAN]
      BY <1>4 DEF WriteSwitch, WorkerInv, TypeOK
    <2>5. QED
      BY <1>4, <2>3, <2>4 DEF WriteSwitch, Goto, TypeOK, bounds
  <1>5. ASSUME NEW h \in Handlers, WriteCredentials(h) PROVE TypeOK'
    <2>1. job[h].m \in Machines /\ row[job[h].m] \in Row /\ job[h] \in Job
      BY <1>5 DEF WriteCredentials, WorkerInv, TypeOK
    <2>2. (job[h].op = "creds" \/ job[h].view.pass) \in BOOLEAN
      OBVIOUS
    <2>3. WithCredentials(row[job[h].m], job[h].op = "creds" \/ job[h].view.pass) \in Row
      BY <2>1, <2>2, RowTypes
    <2>4. row' \in [Machines -> Row]
      BY <1>5, <2>3 DEF WriteCredentials, TypeOK
    <2>5. QED
      BY <1>5, <2>4, ReturnType DEF WriteCredentials, TypeOK, bounds
  <1>6. ASSUME NEW h \in Handlers, Reread(h) PROVE TypeOK'
    <2>1. job[h].m \in Machines
      BY <1>6 DEF Reread, WorkerInv
    <2>2. QED
      BY <1>6, <2>1, ReadRowType DEF Reread, TypeOK, db, bounds
  <1>7. ASSUME NEW h \in Handlers, SyncOn(h) PROVE TypeOK'
    <2>1. job[h].m \in Machines
      BY <1>7 DEF SyncOn, WorkerInv
    <2>5. unsynced' \in [Machines -> BOOLEAN]
      BY <1>7 DEF SyncOn, TypeOK
    <2>2. CASE Return(h) /\ UNCHANGED loops
      BY <1>7, <2>2, <2>5, ReturnType DEF SyncOn, TypeOK, db, bounds
    <2>3. CASE StartLoop(h, job[h].m)
      <3>1. NewJob(job[h].m, "fast") \in Job /\ NoJob \in Job
        BY <2>1, NewJobType
      <3>2. PICK s \in LoopIds :
              /\ pc' = [pc EXCEPT ![h] = "free", ![s] = "reload"]
              /\ job' = [job EXCEPT ![h] = NoJob,
                           ![s] = NewJob(job[h].m, "fast")]
              /\ loops' = loops \cup {job[h].m}
        BY <2>3 DEF StartLoop
      <3>4. job' \in [Workers -> Job]
        BY <3>1, <3>2 DEF TypeOK
      <3>5. pc' \in [Workers -> {"free", "select", "read", "write", "reread",
                "sync", "reload", "drop", "probe", "merge", "save"}]
        BY <3>2 DEF TypeOK
      <3>6. QED
        BY <1>7, <2>1, <2>5, <3>2, <3>4, <3>5 DEF SyncOn, TypeOK, db, bounds
    <2>4. QED
      BY <1>7, <2>2, <2>3 DEF SyncOn
  <1>8. ASSUME NEW w \in Workers, SyncOff(w) PROVE TypeOK'
    BY <1>8, ReturnType DEF SyncOff, TypeOK, db, bounds
  <1>9. ASSUME NEW w \in Workers, Reload(w) PROVE TypeOK'
    <2>1. job[w].m \in Machines
      BY <1>9 DEF Reload, WorkerInv
    <2>2. offSeen' \in [Machines -> BOOLEAN]
      BY <1>9 DEF Reload, TypeOK
    <2>3. QED
      BY <1>9, <2>1, <2>2, ReadRowType DEF Reload, TypeOK, db, bounds
  <1>10. ASSUME NEW w \in Workers, ProbeFails(w) PROVE TypeOK'
    BY <1>10, ReturnType DEF ProbeFails, TypeOK, db, bounds
  <1>11. ASSUME NEW w \in Workers, Probe(w) PROVE TypeOK'
    <2>1. CASE job[w].op = "fast"
      BY <1>11, <2>1 DEF Probe, Goto, TypeOK, db
    <2>2. CASE job[w].op # "fast"
      <3>1. rounds' \in 0..MaxSlow
        BY <1>11, <2>2 DEF Probe, TypeOK
      <3>2. [job[w] EXCEPT !.data = rounds'] \in Job
        <4>1. job[w] \in Job /\ rounds' \in Nat
          BY <3>1 DEF TypeOK
        <4>2. QED
          BY <4>1
      <3>3. job' = [job EXCEPT ![w] = [job[w] EXCEPT !.data = rounds']]
            /\ pc' = [pc EXCEPT ![w] = "save"]
        BY <1>11, <2>2 DEF Probe
      <3>4. job' \in [Workers -> Job]
        BY <3>2, <3>3 DEF TypeOK
      <3>5. QED
        BY <1>11, <2>2, <3>1, <3>3, <3>4 DEF Probe, TypeOK, db
    <2>3. QED
      BY <2>1, <2>2
  <1>12. ASSUME NEW w \in Workers, Merge(w) PROVE TypeOK'
    <2>1. job[w].m \in Machines
      BY <1>12 DEF Merge, WorkerInv
    <2>2. [job[w] EXCEPT !.data = snap[job[w].m]] \in Job
      BY <2>1, SMTT(30) DEF TypeOK
    <2>3. QED
      BY <1>12, <2>2 DEF Merge, TypeOK, db, bounds
  <1>13. ASSUME NEW w \in Workers, Save(w) PROVE TypeOK'
    <2>1. job[w] \in Job
      BY DEF TypeOK
    <2>2. QED
      BY <1>13, <2>1, ReturnType DEF Save, TypeOK, bounds
  <1>14. ASSUME NEW s \in LoopIds, TickExit(s) PROVE TypeOK'
    <2>1. NoJob \in Job
      BY NewJobType
    <2>2. QED
      BY <1>14, <2>1 DEF TickExit, TypeOK, db, bounds
  <1>15. ASSUME NEW s \in LoopIds, NEW o \in {"fast", "slow"}, Tick(s, o) PROVE TypeOK'
    <2>1. [job[s] EXCEPT !.op = o] \in Job
      BY DEF TypeOK
    <2>2. QED
      BY <1>15, <2>1 DEF Tick, TypeOK, db, bounds
  <1>16. CASE Down
    <2>1. NoJob \in Job
      BY NewJobType
    <2>2. /\ pc' = [w \in Workers |-> "free"] /\ job' = [w \in Workers |-> NoJob]
          /\ up' \in BOOLEAN /\ loops' \subseteq Machines
          /\ UNCHANGED <<row, snap, requests, rounds, fails, offSeen, unsynced>>
      BY <1>16 DEF Down, db, bounds
    <2>3. job' \in [Workers -> Job]
      BY <2>1, <2>2
    <2>4. QED
      BY <2>2, <2>3 DEF TypeOK
  <1>17. CASE Start
    <2>1. PICK used \in SUBSET LoopIds : \E f \in [used -> EnabledRows] : StartLoops(used, f)
      BY <1>17 DEF Start
    <2>2. PICK f \in [used -> EnabledRows] : StartLoops(used, f)
      BY <2>1
    <2>6. \A w \in used : NewJob(f[w], "fast") \in Job
      BY <2>2, NewJobType DEF EnabledRows
    <2>3. NoJob \in Job
      BY NewJobType
    <2>4. job' \in [Workers -> Job]
      BY <2>2, <2>3, <2>6 DEF StartLoops
    <2>5. QED
      BY <1>17, <2>2, <2>4 DEF Start, StartLoops, EnabledRows, TypeOK, db, bounds
  <1>20. ASSUME NEW w \in Workers, Fails(w) PROVE TypeOK'
    <2>1. /\ fails' = fails + 1 /\ fails < MaxFails
          /\ UNCHANGED <<row, snap, up, loops, requests, rounds, offSeen>>
      BY <1>20 DEF Fails, db
    <2>3. fails' \in 0..MaxFails
      BY <2>1 DEF TypeOK
    <2>4. unsynced' \in [Machines -> BOOLEAN]
      BY <1>20 DEF Fails, TypeOK
    <2>2. QED
      BY <1>20, <2>1, <2>3, <2>4, ReturnType DEF Fails, TypeOK
  <1>21. ASSUME NEW w \in Workers, MergeFails(w) PROVE TypeOK'
    BY <1>21 DEF MergeFails, Goto, TypeOK, db
  <1>22. CASE StartFails
    BY <1>22 DEF StartFails, TypeOK, db, workers
  <1>18. CASE UNCHANGED vars
    BY <1>18 DEF vars, TypeOK, db, workers, bounds
  <1>19. QED
    BY <1>1, <1>2, <1>3, <1>4, <1>5, <1>6, <1>7, <1>8, <1>9, <1>10, <1>11, <1>12,
       <1>13, <1>14, <1>15, <1>16, <1>17, <1>18, <1>20, <1>21, <1>22
       DEF Next, Handle, Collect, Session, Loop

-----------------------------------------------------------------------------
(* What the steps do to the workers *)

(* A worker that returns selects or is free; the others go on. *)
LEMMA Returning ==
    ASSUME TypeOK, NEW w \in Workers, Return(w)
    PROVE  /\ \A v \in Workers \ {w} : pc'[v] = pc[v] /\ job'[v] = job[v]
           /\ w \in LoopIds => /\ pc'[w] = "select"
                               /\ job'[w].m = job[w].m /\ job'[w].op = "none"
           /\ w \notin LoopIds => pc'[w] = "free" /\ job'[w] = NoJob
  <1>1. /\ \A v \in Workers \ {w} : pc'[v] = pc[v] /\ job'[v] = job[v]
        /\ pc'[w] = IF w \in LoopIds THEN "select" ELSE "free"
        /\ job'[w] = IF w \in LoopIds THEN NewJob(job[w].m, "none") ELSE NoJob
    BY DEF Return, TypeOK
  <1>2. QED
    BY <1>1 DEF NewJob

(* A worker that reads the row keeps its machine and its operation. *)
LEMMA Reading ==
    ASSUME TypeOK, NEW w \in Workers, NEW l, ReadRow(w, l)
    PROVE  /\ \A v \in Workers \ {w} : pc'[v] = pc[v] /\ job'[v] = job[v]
           /\ pc'[w] = l
           /\ job'[w].m = job[w].m /\ job'[w].op = job[w].op
           /\ job'[w].view = row[job[w].m]
  <1>1. job[w] \in Job
    BY DEF TypeOK
  <1>2. /\ \A v \in Workers \ {w} : pc'[v] = pc[v] /\ job'[v] = job[v]
        /\ pc'[w] = l
        /\ job'[w] = [job[w] EXCEPT !.view = row[job[w].m]]
    BY DEF ReadRow, TypeOK
  <1>3. QED
    BY <1>1, <1>2

(* A started loop belongs to the machine of the request that starts it. *)
LEMMA Starting ==
    ASSUME TypeOK, WorkerInv, NEW h \in Handlers, NEW m, StartLoop(h, m)
    PROVE  \E s \in LoopIds :
              /\ pc[s] = "free" /\ pc'[s] = "reload"
              /\ job'[s] = NewJob(m, "fast")
              /\ pc'[h] = "free" /\ job'[h] = NoJob
              /\ \A v \in Workers \ {h, s} : pc'[v] = pc[v] /\ job'[v] = job[v]
              /\ loops' = loops \cup {m}
  BY WorkerAssumption DEF StartLoop, TypeOK

(* One step of one worker: it goes from label to label with its machine,   *)
(* and the other workers keep still.                                       *)
Moves(w, from, to) ==
    /\ pc[w] = from /\ pc'[w] = to /\ job'[w].m = job[w].m
    /\ \A v \in Workers \ {w} : pc'[v] = pc[v] /\ job'[v] = job[v]

(* The steps that neither start a loop nor end a worker's life. *)
LEMMA Moving ==
    ASSUME TypeOK, NEW w \in Workers
    PROVE  /\ WriteSwitch(w) => Moves(w, "write", "reread")
           /\ Reread(w) => Moves(w, "reread", "sync")
           /\ Reload(w) => Moves(w, "reload", "probe") \/ Moves(w, "reload", "drop")
           /\ Probe(w) => Moves(w, "probe", "merge") \/ Moves(w, "probe", "save")
           /\ Merge(w) => Moves(w, "merge", "save")
           /\ MergeFails(w) => Moves(w, "merge", "save")
           /\ \A o \in {"fast", "slow"} : Tick(w, o) => Moves(w, "select", "reload")
  <1> USE DEF Moves
  <1>0. job[w] \in Job
    BY DEF TypeOK
  <1>1. WriteSwitch(w) => Moves(w, "write", "reread")
    BY DEF WriteSwitch, Goto, TypeOK
  <1>2. Reread(w) => Moves(w, "reread", "sync")
    BY Reading DEF Reread
  <1>3. Reload(w) => Moves(w, "reload", "probe") \/ Moves(w, "reload", "drop")
    BY Reading DEF Reload
  <1>4. Probe(w) => Moves(w, "probe", "merge") \/ Moves(w, "probe", "save")
    <2>1. CASE job[w].op = "fast"
      BY <2>1 DEF Probe, Goto, TypeOK
    <2>2. CASE job[w].op # "fast"
      BY <1>0, <2>2 DEF Probe, TypeOK
    <2>3. QED
      BY <2>1, <2>2
  <1>5. Merge(w) => Moves(w, "merge", "save")
    BY <1>0 DEF Merge, TypeOK
  <1>6. ASSUME NEW o \in {"fast", "slow"}, Tick(w, o) PROVE Moves(w, "select", "reload")
    BY <1>0, <1>6 DEF Tick, TypeOK
  <1>8. MergeFails(w) => Moves(w, "merge", "save")
    BY DEF MergeFails, Goto, TypeOK
  <1>7. QED
    BY <1>1, <1>2, <1>3, <1>4, <1>5, <1>6, <1>8

-----------------------------------------------------------------------------
(* Where the workers can be *)

(* Workers that move along the labels of their kind stay where they can be. *)
LEMMA WorkerMoves ==
    ASSUME TypeOK, WorkerInv, NEW w \in Workers, NEW from, NEW to,
           Moves(w, from, to), from # "free", to \notin {"free", "select"},
           w \in LoopIds => to \notin {"read", "write", "reread", "sync"},
           UNCHANGED <<up, loops>>
    PROVE  WorkerInv'
  <1>1. \A v \in Workers : v # w => pc'[v] = pc[v] /\ job'[v] = job[v]
    BY DEF Moves
  <1>2. pc'[w] = to /\ job'[w].m = job[w].m /\ job[w].m \in Machines /\ up
    BY DEF Moves, WorkerInv
  <1>3. \A v \in Workers : /\ pc'[v] = "free" => job'[v] = NoJob
                           /\ pc'[v] # "free" => up' /\ job'[v].m \in Machines
    BY <1>1, <1>2 DEF WorkerInv
  <1>4. \A h \in Handlers : pc'[h] # "select"
    BY <1>1, <1>2 DEF WorkerInv
  <1>5. \A s \in LoopIds : pc'[s] \notin {"read", "write", "reread", "sync"}
    BY <1>1, <1>2 DEF WorkerInv
  <1>6. QED
    BY <1>3, <1>4, <1>5 DEF WorkerInv

(* A worker that returns ends where workers of its kind rest. *)
LEMMA WorkerReturns ==
    ASSUME TypeOK, WorkerInv, NEW w \in Workers, pc[w] # "free", Return(w),
           up' = up, loops' \subseteq loops
    PROVE  WorkerInv'
  <1>1. \A v \in Workers \ {w} : pc'[v] = pc[v] /\ job'[v] = job[v]
    BY Returning
  <1>2. \A v \in Workers \ {w} :
          /\ pc'[v] = "free" => job'[v] = NoJob
          /\ pc'[v] # "free" => up' /\ job'[v].m \in Machines
    BY <1>1 DEF WorkerInv
  <1>3. /\ pc'[w] = "free" => job'[w] = NoJob
        /\ pc'[w] # "free" => up' /\ job'[w].m \in Machines
    BY Returning DEF WorkerInv
  <1>4. \A h \in Handlers : pc'[h] # "select"
    BY <1>1, Returning, WorkerAssumption DEF WorkerInv
  <1>5. \A s \in LoopIds : pc'[s] \notin {"read", "write", "reread", "sync"}
    BY <1>1, Returning DEF WorkerInv
  <1>6. \A v \in Workers : /\ pc'[v] = "free" => job'[v] = NoJob
                           /\ pc'[v] # "free" => up' /\ job'[v].m \in Machines
    BY <1>2, <1>3
  <1>7. ~up' => loops' = {}
    BY DEF WorkerInv
  <1>8. QED
    BY <1>4, <1>5, <1>6, <1>7 DEF WorkerInv

(* Free workers have no job, the others work for the running process. *)
LEMMA WorkerInvNext ==
    ASSUME TypeOK, WorkerInv, [Next]_vars
    PROVE  WorkerInv'
  <1>1. ASSUME NEW m \in Machines, Discover(m) PROVE WorkerInv'
    BY <1>1 DEF Discover, WorkerInv, workers
  <1>2. ASSUME NEW h \in Handlers, NEW m \in Machines,
               NEW o \in {"enable", "disable", "creds", "recreds", "now"}, Request(h, m, o)
        PROVE  WorkerInv'
    <2>1. /\ pc'[h] = "read" /\ job'[h].m = m
          /\ \A v \in Workers \ {h} : pc'[v] = pc[v] /\ job'[v] = job[v]
          /\ up /\ UNCHANGED <<up, loops>>
      BY <1>2 DEF Request, TypeOK, NewJob
    <2>2. QED
      BY <2>1, WorkerAssumption DEF WorkerInv
  <1>3. ASSUME NEW h \in Handlers, Read(h) PROVE WorkerInv'
    <2>1. h \notin LoopIds
      BY WorkerAssumption
    <2>2. CASE Goto(h, "reload")
      <3>1. Moves(h, "read", "reload")
        BY <1>3, <2>2 DEF Read, Goto, Moves, TypeOK
      <3>2. QED
        BY <1>3, <2>1, <3>1, WorkerMoves DEF Read
    <2>3. CASE ReadRow(h, "write")
      <3>1. Moves(h, "read", "write")
        BY <1>3, <2>3, Reading DEF Read, Moves
      <3>2. QED
        BY <1>3, <2>1, <3>1, WorkerMoves DEF Read
    <2>4. CASE Return(h)
      BY <1>3, <2>4, WorkerReturns DEF Read
    <2>5. QED
      BY <1>3, <2>2, <2>3, <2>4 DEF Read
  <1>4. ASSUME NEW h \in Handlers, WriteSwitch(h) PROVE WorkerInv'
    BY <1>4, Moving, WorkerMoves, WorkerAssumption DEF WriteSwitch
  <1>5. ASSUME NEW h \in Handlers, WriteCredentials(h) PROVE WorkerInv'
    BY <1>5, WorkerReturns DEF WriteCredentials
  <1>6. ASSUME NEW h \in Handlers, Reread(h) PROVE WorkerInv'
    BY <1>6, Moving, WorkerMoves, WorkerAssumption DEF Reread
  <1>7. ASSUME NEW h \in Handlers, SyncOn(h) PROVE WorkerInv'
    <2>1. CASE Return(h) /\ UNCHANGED loops
      BY <1>7, <2>1, WorkerReturns DEF SyncOn
    <2>2. CASE StartLoop(h, job[h].m)
      <3>1. PICK s \in LoopIds :
              /\ pc[s] = "free" /\ pc'[s] = "reload"
              /\ job'[s] = NewJob(job[h].m, "fast")
              /\ pc'[h] = "free" /\ job'[h] = NoJob
              /\ \A v \in Workers \ {h, s} : pc'[v] = pc[v] /\ job'[v] = job[v]
              /\ loops' = loops \cup {job[h].m}
        BY <2>2, Starting
      <3>2. job'[s].m = job[h].m /\ job[h].m \in Machines /\ up /\ up' = up
        BY <1>7, <3>1 DEF SyncOn, WorkerInv, NewJob
      <3>3. QED
        BY <3>1, <3>2 DEF WorkerInv
    <2>3. QED
      BY <1>7, <2>1, <2>2 DEF SyncOn
  <1>8. ASSUME NEW w \in Workers, SyncOff(w) PROVE WorkerInv'
    BY <1>8, WorkerReturns DEF SyncOff
  <1>9. ASSUME NEW w \in Workers, Reload(w) PROVE WorkerInv'
    BY <1>9, Moving, WorkerMoves DEF Reload
  <1>10. ASSUME NEW w \in Workers, ProbeFails(w) PROVE WorkerInv'
    BY <1>10, WorkerReturns DEF ProbeFails
  <1>11. ASSUME NEW w \in Workers, Probe(w) PROVE WorkerInv'
    BY <1>11, Moving, WorkerMoves DEF Probe
  <1>12. ASSUME NEW w \in Workers, Merge(w) PROVE WorkerInv'
    BY <1>12, Moving, WorkerMoves DEF Merge
  <1>13. ASSUME NEW w \in Workers, Save(w) PROVE WorkerInv'
    BY <1>13, WorkerReturns DEF Save
  <1>14. ASSUME NEW s \in LoopIds, TickExit(s) PROVE WorkerInv'
    BY <1>14 DEF TickExit, WorkerInv, TypeOK
  <1>15. ASSUME NEW s \in LoopIds, NEW o \in {"fast", "slow"}, Tick(s, o) PROVE WorkerInv'
    BY <1>15, Moving, WorkerMoves DEF Tick
  <1>16. CASE Down
    BY <1>16 DEF Down, WorkerInv
  <1>17. CASE Start
    <2>1. PICK used \in SUBSET LoopIds : \E f \in [used -> EnabledRows] : StartLoops(used, f)
      BY <1>17 DEF Start
    <2>2. PICK f \in [used -> EnabledRows] : StartLoops(used, f)
      BY <2>1
    <2>3. \A w \in Workers :
             /\ w \in used => pc'[w] = "reload" /\ job'[w] = NewJob(f[w], "fast")
             /\ w \notin used => pc'[w] = "free" /\ job'[w] = NoJob
      BY <2>2 DEF StartLoops
    <2>4. \A w \in used : job'[w].m \in Machines
      <3>1. \A w \in used : job'[w].m = f[w]
        BY <2>3, NewJobFields
      <3>2. \A w \in used : f[w] \in EnabledRows
        OBVIOUS
      <3>3. QED
        BY <3>1, <3>2 DEF EnabledRows
    <2>5. QED
      BY <1>17, <2>3, <2>4 DEF Start, WorkerInv
  <1>20. ASSUME NEW w \in Workers, Fails(w) PROVE WorkerInv'
    BY <1>20, WorkerReturns DEF Fails
  <1>21. ASSUME NEW w \in Workers, MergeFails(w) PROVE WorkerInv'
    BY <1>21, Moving, WorkerMoves DEF MergeFails
  <1>22. CASE StartFails
    BY <1>22 DEF StartFails, WorkerInv, workers
  <1>18. CASE UNCHANGED vars
    BY <1>18 DEF vars, WorkerInv, workers
  <1>19. QED
    BY <1>1, <1>2, <1>3, <1>4, <1>5, <1>6, <1>7, <1>8, <1>9, <1>10, <1>11, <1>12,
       <1>13, <1>14, <1>15, <1>16, <1>17, <1>18, <1>20, <1>21, <1>22
       DEF Next, Handle, Collect, Session, Loop

-----------------------------------------------------------------------------
(* Credentials *)

(* No step takes back that a machine is known or has a user. *)
Grows == \A m \in Machines : /\ row[m].known => row'[m].known
                             /\ row[m].user => row'[m].user

(* What a worker has found out is not undone by the others. *)
LEMMA FoundKept ==
    ASSUME WorkerInv, CredentialInv, Grows, NEW w \in Workers,
           pc'[w] = pc[w], job'[w] = job[w]
    PROVE  FoundInv(w)'
  BY DEF WorkerInv, CredentialInv, FoundInv, Grows

(* A worker that moves to a label without a claim of its own. *)
LEMMA FoundMoves ==
    ASSUME WorkerInv, CredentialInv, Grows, NEW w \in Workers, NEW from, NEW to,
           Moves(w, from, to), from # "free", to \notin {"free", "write", "probe"}
    PROVE  \A v \in Workers : FoundInv(v)'
  <1>1. FoundInv(w)'
    BY DEF Moves, WorkerInv, CredentialInv, FoundInv, Grows
  <1>2. \A v \in Workers \ {w} : FoundInv(v)'
    BY FoundKept DEF Moves
  <1>3. QED
    BY <1>1, <1>2

(* A worker that returns makes no claim but to know its machine. *)
LEMMA FoundReturns ==
    ASSUME TypeOK, WorkerInv, CredentialInv, Grows, NEW w \in Workers,
           pc[w] # "free", Return(w)
    PROVE  \A v \in Workers : FoundInv(v)'
  <1>1. FoundInv(w)'
    BY Returning DEF WorkerInv, CredentialInv, FoundInv, Grows
  <1>2. \A v \in Workers \ {w} : FoundInv(v)'
    BY FoundKept, Returning
  <1>3. QED
    BY <1>1, <1>2

(* Rows and workers agree on who has credentials, after every step. *)
LEMMA CredentialInvNext ==
    ASSUME TypeOK, WorkerInv, CredentialInv, [Next]_vars
    PROVE  CredentialInv'
  <1>0. ASSUME UNCHANGED row
        PROVE  Grows /\ \A m \in Machines : RowInv(m)'
    BY <1>0 DEF Grows, RowInv, CredentialInv
  <1>1. ASSUME NEW m \in Machines, Discover(m) PROVE CredentialInv'
    <2>1. /\ \A n \in Machines \ {m} : row'[n] = row[n]
          /\ row'[m].known /\ ~row'[m].user /\ ~row'[m].enabled
      BY <1>1 DEF Discover, TypeOK
    <2>2. Grows /\ \A n \in Machines : RowInv(n)'
      BY <1>1, <2>1 DEF Discover, Grows, RowInv, CredentialInv
    <2>3. QED
      BY <1>1, <2>2, FoundKept DEF Discover, CredentialInv, workers
  <1>2. ASSUME NEW h \in Handlers, NEW m \in Machines,
               NEW o \in {"enable", "disable", "creds", "recreds", "now"}, Request(h, m, o)
        PROVE  CredentialInv'
    <2>1. /\ pc'[h] = "read" /\ job'[h].m = m /\ row'[m].known
          /\ \A v \in Workers \ {h} : pc'[v] = pc[v] /\ job'[v] = job[v]
      BY <1>2, NewJobFields DEF Request, TypeOK, db
    <2>2. FoundInv(h)'
      BY <2>1 DEF FoundInv
    <2>3. QED
      BY <1>0, <1>2, <2>1, <2>2, FoundKept DEF Request, CredentialInv, db
  <1>3. ASSUME NEW h \in Handlers, Read(h) PROVE CredentialInv'
    <2>0. Grows /\ \A m \in Machines : RowInv(m)'
      BY <1>0, <1>3 DEF Read, db
    <2>1. CASE Goto(h, "reload")
      <3>1. Moves(h, "read", "reload")
        BY <1>3, <2>1 DEF Read, Goto, Moves, TypeOK
      <3>2. QED
        BY <2>0, <3>1, FoundMoves DEF CredentialInv
    <2>2. CASE MayWrite(job[h].op, row[job[h].m]) /\ ReadRow(h, "write")
      <3>1. FoundInv(h)'
        BY <1>3, <2>0, <2>2, Reading
           DEF Read, db, FoundInv, MayWrite, CredentialInv
      <3>2. QED
        BY <2>0, <2>2, <3>1, FoundKept, Reading DEF CredentialInv
    <2>3. CASE Return(h)
      BY <1>3, <2>0, <2>3, FoundReturns DEF Read, CredentialInv
    <2>4. QED
      BY <1>3, <2>1, <2>2, <2>3 DEF Read
  <1>4. ASSUME NEW h \in Handlers, WriteSwitch(h) PROVE CredentialInv'
    <2>9. PICK m \in Machines, on \in BOOLEAN : m = job[h].m /\ on = (job[h].op = "enable")
      BY <1>4 DEF WriteSwitch, WorkerInv
    <2>1. /\ m \in Machines /\ row[m] \in Row /\ on \in BOOLEAN
          /\ \A n \in Machines \ {m} : row'[n] = row[n]
          /\ row'[m] = Switched(row[m], on)
      BY <1>4, <2>9 DEF WriteSwitch, TypeOK
    <2>2. on => row[m].user
      BY <1>4, <2>9 DEF WriteSwitch, CredentialInv, FoundInv
    <2>3. /\ row'[m].enabled = on /\ row'[m].user = row[m].user
          /\ row'[m].pass = row[m].pass /\ row'[m].known = row[m].known
      BY <2>1 DEF Switched
    <2>5. Grows
      BY <2>1, <2>3 DEF Grows
    <2>6. RowInv(m)'
      BY <2>1, <2>2, <2>3 DEF RowInv, CredentialInv
    <2>7. \A n \in Machines \ {m} : RowInv(n)'
      BY <2>1 DEF RowInv, CredentialInv
    <2>8. \A n \in Machines : RowInv(n)'
      BY <2>6, <2>7
    <2>4. QED
      BY <1>4, <2>5, <2>8, Moving, FoundMoves DEF CredentialInv
  <1>5. ASSUME NEW h \in Handlers, WriteCredentials(h) PROVE CredentialInv'
    <2>9. PICK m \in Machines, p \in BOOLEAN :
               m = job[h].m /\ p = (job[h].op = "creds" \/ job[h].view.pass)
      BY <1>5 DEF WriteCredentials, WorkerInv
    <2>1. /\ m \in Machines /\ row[m] \in Row /\ p \in BOOLEAN
          /\ \A n \in Machines \ {m} : row'[n] = row[n]
          /\ row'[m] = WithCredentials(row[m], p)
      BY <1>5, <2>9 DEF WriteCredentials, TypeOK
    <2>2. p /\ row[m].known
      BY <1>5, <2>9 DEF WriteCredentials, CredentialInv, FoundInv
    <2>3. /\ row'[m].enabled = row[m].enabled /\ row'[m].user = TRUE
          /\ row'[m].pass = p /\ row'[m].known = row[m].known
      BY <2>1 DEF WithCredentials
    <2>5. Grows
      BY <2>1, <2>3 DEF Grows
    <2>6. RowInv(m)'
      BY <2>1, <2>2, <2>3 DEF RowInv, CredentialInv
    <2>7. \A n \in Machines \ {m} : RowInv(n)'
      BY <2>1 DEF RowInv, CredentialInv
    <2>8. \A n \in Machines : RowInv(n)'
      BY <2>6, <2>7
    <2>4. QED
      BY <1>5, <2>5, <2>8, FoundReturns DEF WriteCredentials, CredentialInv
  <1>6. ASSUME NEW h \in Handlers, Reread(h) PROVE CredentialInv'
    BY <1>0, <1>6, Moving, FoundMoves DEF Reread, CredentialInv, db
  <1>7. ASSUME NEW h \in Handlers, SyncOn(h) PROVE CredentialInv'
    <2>0. Grows /\ \A m \in Machines : RowInv(m)'
      BY <1>0, <1>7 DEF SyncOn, db
    <2>1. CASE Return(h) /\ UNCHANGED loops
      BY <1>7, <2>0, <2>1, FoundReturns DEF SyncOn, CredentialInv
    <2>2. CASE StartLoop(h, job[h].m)
      <3>1. PICK s \in LoopIds :
              /\ pc[s] = "free" /\ pc'[s] = "reload"
              /\ job'[s] = NewJob(job[h].m, "fast")
              /\ pc'[h] = "free" /\ job'[h] = NoJob
              /\ \A v \in Workers \ {h, s} : pc'[v] = pc[v] /\ job'[v] = job[v]
              /\ loops' = loops \cup {job[h].m}
        BY <2>2, Starting
      <3>2. FoundInv(s)' /\ FoundInv(h)'
        BY <1>7, <3>1, NewJobFields DEF SyncOn, FoundInv, CredentialInv, db
      <3>3. QED
        BY <2>0, <3>1, <3>2, FoundKept DEF CredentialInv
    <2>3. QED
      BY <1>7, <2>1, <2>2 DEF SyncOn
  <1>8. ASSUME NEW w \in Workers, SyncOff(w) PROVE CredentialInv'
    BY <1>0, <1>8, FoundReturns DEF SyncOff, CredentialInv, db
  <1>9. ASSUME NEW w \in Workers, Reload(w) PROVE CredentialInv'
    <2>0. Grows /\ \A m \in Machines : RowInv(m)'
      BY <1>0, <1>9 DEF Reload, db
    <2>1. /\ pc'[w] = IF row[job[w].m].enabled THEN "probe" ELSE "drop"
          /\ job'[w].m = job[w].m /\ job'[w].view = row[job[w].m]
          /\ \A v \in Workers \ {w} : pc'[v] = pc[v] /\ job'[v] = job[v]
          /\ job[w].m \in Machines
      BY <1>9, Reading DEF Reload, WorkerInv
    <2>2. FoundInv(w)'
      BY <1>9, <2>1 DEF Reload, FoundInv, RowInv, CredentialInv, db
    <2>3. QED
      BY <2>0, <2>1, <2>2, FoundKept DEF CredentialInv
  <1>10. ASSUME NEW w \in Workers, ProbeFails(w) PROVE CredentialInv'
    BY <1>0, <1>10, FoundReturns DEF ProbeFails, CredentialInv, db
  <1>11. ASSUME NEW w \in Workers, Probe(w) PROVE CredentialInv'
    BY <1>0, <1>11, Moving, FoundMoves DEF Probe, CredentialInv, db
  <1>12. ASSUME NEW w \in Workers, Merge(w) PROVE CredentialInv'
    BY <1>0, <1>12, Moving, FoundMoves DEF Merge, CredentialInv, db
  <1>13. ASSUME NEW w \in Workers, Save(w) PROVE CredentialInv'
    BY <1>0, <1>13, FoundReturns DEF Save, CredentialInv
  <1>14. ASSUME NEW s \in LoopIds, TickExit(s) PROVE CredentialInv'
    <2>1. pc'[s] = "free" /\ \A v \in Workers \ {s} : pc'[v] = pc[v] /\ job'[v] = job[v]
      BY <1>14 DEF TickExit, TypeOK
    <2>2. FoundInv(s)'
      BY <2>1 DEF FoundInv
    <2>3. QED
      BY <1>0, <1>14, <2>1, <2>2, FoundKept DEF TickExit, CredentialInv, db
  <1>15. ASSUME NEW s \in LoopIds, NEW o \in {"fast", "slow"}, Tick(s, o) PROVE CredentialInv'
    BY <1>0, <1>15, Moving, FoundMoves DEF Tick, CredentialInv, db
  <1>16. CASE Down
    <2>1. \A w \in Workers : pc'[w] = "free"
      BY <1>16 DEF Down
    <2>2. \A w \in Workers : FoundInv(w)'
      BY <2>1 DEF FoundInv
    <2>3. QED
      BY <1>0, <1>16, <2>2 DEF Down, CredentialInv, db
  <1>17. CASE Start
    <2>1. PICK used \in SUBSET LoopIds : \E f \in [used -> EnabledRows] : StartLoops(used, f)
      BY <1>17 DEF Start
    <2>2. PICK f \in [used -> EnabledRows] : StartLoops(used, f)
      BY <2>1
    <2>3. \A w \in Workers :
             /\ w \in used => pc'[w] = "reload" /\ job'[w] = NewJob(f[w], "fast")
             /\ w \notin used => pc'[w] = "free"
      BY <2>2 DEF StartLoops
    <2>4. \A w \in used : row[f[w]].known
      <3>1. \A m \in EnabledRows : row[m].known
        BY DEF EnabledRows, CredentialInv, RowInv
      <3>2. QED
        BY <3>1
    <2>5. row' = row
      BY <1>17 DEF Start, db
    <2>6. \A w \in used : row'[job'[w].m].known
      BY <2>3, <2>4, <2>5, NewJobFields
    <2>7. \A w \in Workers : FoundInv(w)'
      BY <2>3, <2>6 DEF FoundInv
    <2>8. QED
      BY <1>0, <2>5, <2>7 DEF CredentialInv
  <1>20. ASSUME NEW w \in Workers, Fails(w) PROVE CredentialInv'
    BY <1>0, <1>20, FoundReturns DEF Fails, CredentialInv, db
  <1>21. ASSUME NEW w \in Workers, MergeFails(w) PROVE CredentialInv'
    BY <1>0, <1>21, Moving, FoundMoves DEF MergeFails, CredentialInv, db
  <1>22. CASE StartFails
    BY <1>0, <1>22, FoundKept DEF StartFails, CredentialInv, db, workers
  <1>18. CASE UNCHANGED vars
    BY <1>0, <1>18, FoundKept DEF vars, CredentialInv, db, workers
  <1>19. QED
    BY <1>1, <1>2, <1>3, <1>4, <1>5, <1>6, <1>7, <1>8, <1>9, <1>10, <1>11, <1>12,
       <1>13, <1>14, <1>15, <1>16, <1>17, <1>18, <1>20, <1>21, <1>22
       DEF Next, Handle, Collect, Session, Loop

-----------------------------------------------------------------------------
(* Loops *)

(* A machine of the map keeps its loop while none ends and none is added. *)
LEMMA CollectingKept ==
    ASSUME CollectingIsReal, loops' \subseteq loops,
           \A s \in LoopIds : pc[s] # "free" => pc'[s] # "free" /\ job'[s].m = job[s].m
    PROVE  CollectingIsReal'
  BY DEF CollectingIsReal, LoopsOf

(* No loop ends on a move or a return of a worker. *)
LEMMA LoopsStay ==
    ASSUME TypeOK, NEW w \in Workers,
           \/ Return(w)
           \/ \E from, to : to # "free" /\ Moves(w, from, to)
    PROVE  \A s \in LoopIds : pc[s] # "free" => pc'[s] # "free" /\ job'[s].m = job[s].m
  <1>1. CASE Return(w)
    BY <1>1, Returning
  <1>2. CASE \E from, to : to # "free" /\ Moves(w, from, to)
    BY <1>2 DEF Moves
  <1>3. QED
    BY <1>1, <1>2

(* Every machine of the map has a loop after every step. *)
LEMMA CollectingNext ==
    ASSUME TypeOK, WorkerInv, CollectingIsReal, [Next]_vars
    PROVE  CollectingIsReal'
  <1>1. ASSUME NEW m \in Machines, Discover(m) PROVE CollectingIsReal'
    BY <1>1, CollectingKept DEF Discover, workers
  <1>2. ASSUME NEW h \in Handlers, NEW m \in Machines,
               NEW o \in {"enable", "disable", "creds", "recreds", "now"}, Request(h, m, o)
        PROVE  CollectingIsReal'
    <2>1. \A v \in Workers \ {h} : pc'[v] = pc[v] /\ job'[v] = job[v]
      BY <1>2 DEF Request, TypeOK
    <2>2. QED
      BY <1>2, <2>1, CollectingKept, WorkerAssumption DEF Request
  <1>3. ASSUME NEW h \in Handlers, Read(h) PROVE CollectingIsReal'
    <2>1. \A v \in Workers \ {h} : pc'[v] = pc[v] /\ job'[v] = job[v]
      BY <1>3, Reading, Returning DEF Read, Goto, TypeOK
    <2>2. QED
      BY <1>3, <2>1, CollectingKept, WorkerAssumption DEF Read
  <1>4. ASSUME NEW h \in Handlers, WriteSwitch(h) PROVE CollectingIsReal'
    BY <1>4, Moving, LoopsStay, CollectingKept DEF WriteSwitch
  <1>5. ASSUME NEW h \in Handlers, WriteCredentials(h) PROVE CollectingIsReal'
    BY <1>5, LoopsStay, CollectingKept DEF WriteCredentials
  <1>6. ASSUME NEW h \in Handlers, Reread(h) PROVE CollectingIsReal'
    BY <1>6, Moving, LoopsStay, CollectingKept DEF Reread
  <1>7. ASSUME NEW h \in Handlers, SyncOn(h) PROVE CollectingIsReal'
    <2>1. CASE Return(h) /\ UNCHANGED loops
      BY <1>7, <2>1, LoopsStay, CollectingKept DEF SyncOn
    <2>2. CASE StartLoop(h, job[h].m)
      BY <2>2, Starting, NewJobFields, WorkerAssumption DEF CollectingIsReal, LoopsOf
    <2>3. QED
      BY <1>7, <2>1, <2>2 DEF SyncOn
  <1>8. ASSUME NEW w \in Workers, SyncOff(w) PROVE CollectingIsReal'
    BY <1>8, LoopsStay, CollectingKept DEF SyncOff
  <1>9. ASSUME NEW w \in Workers, Reload(w) PROVE CollectingIsReal'
    BY <1>9, Moving, LoopsStay, CollectingKept DEF Reload
  <1>10. ASSUME NEW w \in Workers, ProbeFails(w) PROVE CollectingIsReal'
    BY <1>10, LoopsStay, CollectingKept DEF ProbeFails
  <1>11. ASSUME NEW w \in Workers, Probe(w) PROVE CollectingIsReal'
    BY <1>11, Moving, LoopsStay, CollectingKept DEF Probe
  <1>12. ASSUME NEW w \in Workers, Merge(w) PROVE CollectingIsReal'
    BY <1>12, Moving, LoopsStay, CollectingKept DEF Merge
  <1>13. ASSUME NEW w \in Workers, Save(w) PROVE CollectingIsReal'
    BY <1>13, LoopsStay, CollectingKept DEF Save
  <1>14. ASSUME NEW s \in LoopIds, TickExit(s) PROVE CollectingIsReal'
    BY <1>14 DEF TickExit, CollectingIsReal, LoopsOf, TypeOK
  <1>15. ASSUME NEW s \in LoopIds, NEW o \in {"fast", "slow"}, Tick(s, o)
         PROVE  CollectingIsReal'
    BY <1>15, Moving, LoopsStay, CollectingKept DEF Tick
  <1>16. CASE Down
    BY <1>16 DEF Down, CollectingIsReal
  <1>17. CASE Start
    <2>1. PICK used \in SUBSET LoopIds : \E f \in [used -> EnabledRows] : StartLoops(used, f)
      BY <1>17 DEF Start
    <2>2. PICK f \in [used -> EnabledRows] : StartLoops(used, f)
      BY <2>1
    <2>3. \A s \in used : pc'[s] = "reload" /\ job'[s].m = f[s]
      BY <2>2, NewJobFields DEF StartLoops
    <2>4. \A m \in loops' : \E s \in used : f[s] = m
      BY <1>17, <2>2 DEF Start, StartLoops
    <2>5. QED
      BY <2>3, <2>4 DEF CollectingIsReal, LoopsOf
  <1>20. ASSUME NEW w \in Workers, Fails(w) PROVE CollectingIsReal'
    BY <1>20, LoopsStay, CollectingKept DEF Fails
  <1>21. ASSUME NEW w \in Workers, MergeFails(w) PROVE CollectingIsReal'
    BY <1>21, Moving, LoopsStay, CollectingKept DEF MergeFails
  <1>22. CASE StartFails
    BY <1>22, CollectingKept DEF StartFails, workers
  <1>18. CASE UNCHANGED vars
    BY <1>18, CollectingKept DEF vars, workers
  <1>19. QED
    BY <1>1, <1>2, <1>3, <1>4, <1>5, <1>6, <1>7, <1>8, <1>9, <1>10, <1>11, <1>12,
       <1>13, <1>14, <1>15, <1>16, <1>17, <1>18, <1>20, <1>21, <1>22
       DEF Next, Handle, Collect, Session, Loop

(* A move of a worker that does not touch the machine's switch, and goes   *)
(* to no label that speaks of it.                                          *)
LEMMA FollowMoves ==
    ASSUME TypeOK, WorkerInv, NEW m \in Machines, Following(m),
           NEW w \in Workers, NEW from, NEW to, Moves(w, from, to),
           from \notin {"free", "reread", "sync"},
           to \notin {"free", "drop", "reread", "sync"},
           loops' = loops, row'[m].enabled = row[m].enabled,
           unsynced' = unsynced
    PROVE  Following(m)'
  <1>1. \A v \in Workers : v # w => pc'[v] = pc[v] /\ job'[v] = job[v]
    BY DEF Moves
  <1>2. pc[w] = from /\ pc'[w] = to /\ job'[w].m = job[w].m
    BY DEF Moves
  <1>3. LoopsOf(m)' = LoopsOf(m)
    BY <1>1, <1>2 DEF LoopsOf
  <1>4. SyncPending(m) => SyncPending(m)'
    BY <1>1, <1>2 DEF SyncPending
  <1>5. \A v \in Workers : job'[v].m = m =>
          /\ pc'[v] # "drop"
          /\ pc'[v] = "sync" => job'[v].view.enabled /\ row'[m].enabled
          /\ pc'[v] = "reread" => row'[m].enabled
    BY <1>1, <1>2 DEF Following
  <1>6. QED
    BY <1>3, <1>4, <1>5 DEF Following

(* A return of a worker that leaves the machine's switch and its place in  *)
(* the map as they are.                                                    *)
LEMMA FollowReturns ==
    ASSUME TypeOK, WorkerInv, NEW m \in Machines, Following(m),
           NEW w \in Workers, pc[w] # "free", Return(w),
           job[w].m = m /\ pc[w] \in {"reread", "sync"} => m \in loops \/ unsynced'[m],
           m \in loops <=> m \in loops', row'[m].enabled = row[m].enabled,
           unsynced[m] => unsynced'[m] \/ m \in loops
    PROVE  Following(m)'
  <1>1. \A v \in Workers : v # w => pc'[v] = pc[v] /\ job'[v] = job[v]
    BY Returning
  <1>2. pc'[w] \in {"free", "select"} /\ (w \in LoopIds => pc'[w] # "free" /\ job'[w].m = job[w].m)
    BY Returning
  <1>3. LoopsOf(m)' = LoopsOf(m)
    BY <1>1, <1>2 DEF LoopsOf
  <1>4. SyncPending(m) => SyncPending(m)' \/ m \in loops' \/ unsynced'[m]
    BY <1>1 DEF SyncPending
  <1>5. \A v \in Workers : job'[v].m = m =>
          /\ pc'[v] # "drop"
          /\ pc'[v] = "sync" => job'[v].view.enabled /\ row'[m].enabled
          /\ pc'[v] = "reread" => row'[m].enabled
    BY <1>1, <1>2 DEF Following
  <1>6. QED
    BY <1>3, <1>4, <1>5 DEF Following

(* One loop per machine, until it is seen off. *)
LEMMA FollowingNext ==
    ASSUME TypeOK, WorkerInv, CredentialInv, [Next]_vars, NEW m \in Machines,
           up /\ ~offSeen[m] => Following(m), up', ~offSeen'[m]
    PROVE  Following(m)'
  <1>0. ASSUME ~Start, ~StartFails
        PROVE  Following(m)
    <2>1. up
      BY <1>0 DEF Next, Discover, Request, Handle, Read, WriteSwitch, WriteCredentials,
         Reread, SyncOn, SyncOff, Collect, Reload, Session, ProbeFails, Probe, Merge,
         Save, Fails, MergeFails, Loop, TickExit, Tick, Down, vars, WorkerInv
    <2>2. offSeen' = offSeen \/ (\E h \in Handlers : WriteSwitch(h))
                            \/ (\E w \in Workers : Reload(w))
      BY <1>0 DEF Next, Discover, Request, Handle, Read, WriteCredentials,
         Reread, SyncOn, SyncOff, Collect, Session, ProbeFails, Probe, Merge, Save,
         Fails, MergeFails, Loop, TickExit, Tick, Down, vars
    <2>3. ~offSeen[m]
      BY <2>2 DEF WriteSwitch, Reload, TypeOK
    <2>4. QED
      BY <2>1, <2>3
  <1>1. ASSUME NEW n \in Machines, Discover(n), ~Start, ~StartFails PROVE Following(m)'
    <2>1. CASE n = m
      <3>1. \A w \in Workers : pc[w] # "free" => job[w].m # m
        BY <1>1, <2>1 DEF Discover, CredentialInv, FoundInv
      <3>2. ~row'[m].enabled
        BY <1>1, <2>1 DEF Discover, TypeOK
      <3>3. QED
        BY <1>1, <3>1, <3>2 DEF Discover, Following, LoopsOf, workers
    <2>2. CASE n # m
      <3>1. row'[m] = row[m]
        BY <1>1, <2>2 DEF Discover, TypeOK
      <3>2. QED
        BY <1>0, <1>1, <3>1 DEF Discover, Following, LoopsOf, SyncPending, workers
    <2>3. QED
      BY <2>1, <2>2
  <1>2. ASSUME NEW h \in Handlers, NEW n \in Machines,
               NEW o \in {"enable", "disable", "creds", "recreds", "now"},
               Request(h, n, o), ~Start, ~StartFails
        PROVE  Following(m)'
    <2>1. /\ pc[h] = "free" /\ pc'[h] = "read"
          /\ \A v \in Workers : v # h => pc'[v] = pc[v] /\ job'[v] = job[v]
          /\ loops' = loops /\ row' = row /\ unsynced' = unsynced
      BY <1>2 DEF Request, TypeOK, db
    <2>2. LoopsOf(m)' = LoopsOf(m)
      BY <2>1, WorkerAssumption DEF LoopsOf
    <2>3. SyncPending(m) => SyncPending(m)'
      BY <2>1 DEF SyncPending
    <2>4. QED
      BY <1>0, <1>2, <2>1, <2>2, <2>3 DEF Following
  <1>3. ASSUME NEW h \in Handlers, Read(h), ~Start, ~StartFails PROVE Following(m)'
    <2>0. row' = row /\ loops' = loops /\ unsynced' = unsynced /\ pc[h] = "read"
      BY <1>3 DEF Read, db
    <2>1. CASE Goto(h, "reload")
      <3>1. Moves(h, "read", "reload")
        BY <1>3, <2>1 DEF Read, Goto, Moves, TypeOK
      <3>2. QED
        BY <1>0, <1>3, <2>0, <3>1, FollowMoves
    <2>2. CASE ReadRow(h, "write")
      <3>1. Moves(h, "read", "write")
        BY <1>3, <2>2, Reading DEF Read, Moves
      <3>2. QED
        BY <1>0, <1>3, <2>0, <3>1, FollowMoves
    <2>3. CASE Return(h)
      BY <1>0, <1>3, <2>0, <2>3, FollowReturns
    <2>4. QED
      BY <1>3, <2>1, <2>2, <2>3 DEF Read
  <1>4. ASSUME NEW h \in Handlers, WriteSwitch(h), ~Start, ~StartFails PROVE Following(m)'
    <2>1. /\ pc[h] = "write" /\ pc'[h] = "reread" /\ job' = job /\ loops' = loops
          /\ unsynced' = unsynced
          /\ \A v \in Workers : v # h => pc'[v] = pc[v]
      BY <1>4 DEF WriteSwitch, Goto, TypeOK
    <2>2. LoopsOf(m)' = LoopsOf(m)
      BY <2>1 DEF LoopsOf
    <2>3. SyncPending(m) => SyncPending(m)'
      BY <2>1 DEF SyncPending
    <2>4. CASE job[h].m = m
      <3>1. job[h].op = "enable"
        BY <1>4, <2>4 DEF WriteSwitch, TypeOK
      <3>2. row'[m].enabled
        BY <1>4, <2>4, <3>1 DEF WriteSwitch, Switched, TypeOK
      <3>3. SyncPending(m)'
        BY <2>1, <2>4 DEF SyncPending
      <3>4. QED
        BY <1>0, <1>4, <2>1, <2>2, <3>2, <3>3 DEF Following
    <2>5. CASE job[h].m # m
      <3>1. row'[m] = row[m]
        BY <1>4, <2>5 DEF WriteSwitch, TypeOK
      <3>2. QED
        BY <1>0, <1>4, <2>1, <2>2, <2>3, <2>5, <3>1 DEF Following
    <2>6. QED
      BY <2>4, <2>5
  <1>5. ASSUME NEW h \in Handlers, WriteCredentials(h), ~Start, ~StartFails PROVE Following(m)'
    <2>1. row'[m].enabled = row[m].enabled
      BY <1>5 DEF WriteCredentials, WithCredentials, TypeOK
    <2>2. QED
      BY <1>0, <1>5, <2>1, FollowReturns DEF WriteCredentials
  <1>6. ASSUME NEW h \in Handlers, Reread(h), ~Start, ~StartFails PROVE Following(m)'
    <2>1. /\ pc[h] = "reread" /\ pc'[h] = "sync" /\ job'[h].m = job[h].m
          /\ job'[h].view = row[job[h].m]
          /\ \A v \in Workers : v # h => pc'[v] = pc[v] /\ job'[v] = job[v]
          /\ loops' = loops /\ row' = row
      BY <1>6, Reading DEF Reread, db
    <2>2. LoopsOf(m)' = LoopsOf(m)
      BY <2>1 DEF LoopsOf
    <2>3. SyncPending(m) => SyncPending(m)'
      BY <2>1 DEF SyncPending
    <2>4. \A v \in Workers : job'[v].m = m =>
            /\ pc'[v] # "drop"
            /\ pc'[v] = "sync" => job'[v].view.enabled /\ row'[m].enabled
            /\ pc'[v] = "reread" => row'[m].enabled
      BY <1>0, <1>6, <2>1 DEF Following
    <2>5. QED
      BY <1>0, <1>6, <2>1, <2>2, <2>3, <2>4 DEF Following, Reread
  <1>7. ASSUME NEW h \in Handlers, SyncOn(h), ~Start, ~StartFails PROVE Following(m)'
    <2>0. row' = row /\ pc[h] = "sync" /\ (job[h].m # m => unsynced'[m] = unsynced[m])
      BY <1>7 DEF SyncOn, TypeOK, db
    <2>1. CASE job[h].m \in loops
      BY <1>0, <1>7, <2>0, <2>1, FollowReturns DEF SyncOn
    <2>2. CASE job[h].m \notin loops
      <3>1. PICK s \in LoopIds :
              /\ pc[s] = "free" /\ pc'[s] = "reload"
              /\ job'[s] = NewJob(job[h].m, "fast")
              /\ pc'[h] = "free" /\ job'[h] = NoJob
              /\ \A v \in Workers \ {h, s} : pc'[v] = pc[v] /\ job'[v] = job[v]
              /\ loops' = loops \cup {job[h].m}
        BY <1>7, <2>2, Starting DEF SyncOn
      <3>2. \A v \in Workers : job'[v].m = m =>
              /\ pc'[v] # "drop"
              /\ pc'[v] = "sync" => job'[v].view.enabled /\ row'[m].enabled
              /\ pc'[v] = "reread" => row'[m].enabled
        BY <1>0, <1>7, <2>0, <3>1 DEF Following
      <3>3. job'[s].m = job[h].m /\ h \notin LoopIds
        BY <3>1, NewJobFields, WorkerAssumption
      <3>4. CASE job[h].m = m
        <4>1. LoopsOf(m) = {} /\ row[m].enabled
          BY <1>0, <1>7, <2>0, <2>2, <3>4 DEF Following
        <4>2. LoopsOf(m)' = {s}
          BY <3>1, <3>3, <3>4, <4>1 DEF LoopsOf
        <4>3. QED
          BY <2>0, <3>1, <3>2, <3>4, <4>1, <4>2 DEF Following
      <3>5. CASE job[h].m # m
        <4>1. LoopsOf(m)' = LoopsOf(m)
          BY <3>1, <3>3, <3>5 DEF LoopsOf
        <4>2. SyncPending(m) => SyncPending(m)'
          BY <3>1, <3>5, WorkerAssumption DEF SyncPending
        <4>3. m \in loops' <=> m \in loops
          BY <3>1, <3>5
        <4>4. QED
          BY <1>0, <1>7, <2>0, <3>2, <3>5, <4>1, <4>2, <4>3 DEF Following
      <3>6. QED
        BY <3>4, <3>5
    <2>3. QED
      BY <2>1, <2>2
  <1>8. ASSUME NEW w \in Workers, SyncOff(w), ~Start, ~StartFails PROVE Following(m)'
    <2>1. row' = row /\ pc[w] # "free" /\ Return(w)
      BY <1>8 DEF SyncOff, db
    <2>2. job[w].m # m
      BY <1>0, <1>8 DEF SyncOff, Following
    <2>3. m \in loops' <=> m \in loops
      BY <1>8, <2>2 DEF SyncOff
    <2>4. QED
      BY <1>0, <1>8, <2>1, <2>2, <2>3, FollowReturns DEF SyncOff
  <1>9. ASSUME NEW w \in Workers, Reload(w), ~Start, ~StartFails PROVE Following(m)'
    <2>1. /\ pc[w] = "reload" /\ job'[w].m = job[w].m
          /\ pc'[w] = IF row[job[w].m].enabled THEN "probe" ELSE "drop"
          /\ \A v \in Workers : v # w => pc'[v] = pc[v] /\ job'[v] = job[v]
          /\ row' = row /\ loops' = loops
      BY <1>9, Reading DEF Reload, db
    <2>2. LoopsOf(m)' = LoopsOf(m)
      BY <2>1 DEF LoopsOf
    <2>3. SyncPending(m) => SyncPending(m)'
      BY <2>1 DEF SyncPending
    <2>4. job[w].m = m => row[m].enabled
      BY <1>9 DEF Reload, TypeOK
    <2>5. \A v \in Workers : job'[v].m = m =>
            /\ pc'[v] # "drop"
            /\ pc'[v] = "sync" => job'[v].view.enabled /\ row'[m].enabled
            /\ pc'[v] = "reread" => row'[m].enabled
      BY <1>0, <1>9, <2>1, <2>4 DEF Following
    <2>6. QED
      BY <1>0, <1>9, <2>1, <2>2, <2>3, <2>5 DEF Following, Reload
  <1>10. ASSUME NEW w \in Workers, ProbeFails(w), ~Start, ~StartFails PROVE Following(m)'
    BY <1>0, <1>10, FollowReturns DEF ProbeFails, db
  <1>11. ASSUME NEW w \in Workers, Probe(w), ~Start, ~StartFails PROVE Following(m)'
    BY <1>0, <1>11, Moving, FollowMoves DEF Probe, db
  <1>12. ASSUME NEW w \in Workers, Merge(w), ~Start, ~StartFails PROVE Following(m)'
    BY <1>0, <1>12, Moving, FollowMoves DEF Merge, db
  <1>13. ASSUME NEW w \in Workers, Save(w), ~Start, ~StartFails PROVE Following(m)'
    BY <1>0, <1>13, FollowReturns DEF Save
  <1>14. ASSUME NEW s \in LoopIds, TickExit(s), ~Start, ~StartFails PROVE Following(m)'
    <2>1. /\ pc'[s] = "free" /\ job'[s] = NoJob /\ pc[s] = "select"
          /\ \A v \in Workers : v # s => pc'[v] = pc[v] /\ job'[v] = job[v]
          /\ loops' = loops /\ row' = row
      BY <1>14 DEF TickExit, TypeOK, db
    <2>2. job[s].m # m
      BY <1>0, <1>14, <2>1 DEF TickExit, Following, LoopsOf
    <2>3. LoopsOf(m)' = LoopsOf(m)
      BY <2>1, <2>2 DEF LoopsOf
    <2>4. SyncPending(m) => SyncPending(m)'
      BY <2>1 DEF SyncPending
    <2>5. QED
      BY <1>0, <1>14, <2>1, <2>3, <2>4 DEF Following, TickExit
  <1>15. ASSUME NEW s \in LoopIds, NEW o \in {"fast", "slow"}, Tick(s, o), ~Start, ~StartFails
         PROVE  Following(m)'
    BY <1>0, <1>15, Moving, FollowMoves DEF Tick, db
  <1>16. CASE Down
    BY <1>16 DEF Down
  <1>17. CASE Start
    <2>1. PICK used \in SUBSET LoopIds : \E f \in [used -> EnabledRows] : StartLoops(used, f)
      BY <1>17 DEF Start
    <2>2. PICK f \in [used -> EnabledRows] : StartLoops(used, f)
      BY <2>1
    <2>3. \A w \in Workers :
             /\ w \in used => pc'[w] = "reload" /\ job'[w].m = f[w]
             /\ w \notin used => pc'[w] = "free"
      BY <2>2, NewJobFields DEF StartLoops
    <2>4. loops' = EnabledRows /\ row' = row
      BY <1>17 DEF Start, db
    <2>5. \A s \in LoopsOf(m)' : s \in used /\ f[s] = m
      BY <2>3 DEF LoopsOf
    <2>6. \A s, t \in LoopsOf(m)' : s = t
      BY <2>2, <2>5 DEF StartLoops
    <2>7. LoopsOf(m)' # {} => m \in EnabledRows
      BY <2>5
    <2>8. QED
      BY <2>3, <2>4, <2>6, <2>7 DEF Following, EnabledRows
  <1>20. ASSUME NEW w \in Workers, Fails(w), ~Start, ~StartFails PROVE Following(m)'
    <2>1. row' = row /\ loops' = loops /\ pc[w] # "free" /\ pc[w] # "sync" /\ Return(w)
      BY <1>20 DEF Fails, db
    <2>2. /\ job[w].m = m /\ pc[w] = "reread" => m \in loops \/ unsynced'[m]
          /\ unsynced[m] => unsynced'[m]
      BY <1>20 DEF Fails, TypeOK
    <2>3. QED
      BY <1>0, <1>20, <2>1, <2>2, FollowReturns
  <1>21. ASSUME NEW w \in Workers, MergeFails(w), ~Start, ~StartFails PROVE Following(m)'
    BY <1>0, <1>21, Moving, FollowMoves DEF MergeFails, db
  <1>22. CASE StartFails
    <2>1. /\ row' = row /\ pc' = pc /\ job' = job /\ loops' = loops
          /\ ~up /\ unsynced'[m] = row[m].enabled
      BY <1>22 DEF StartFails, db, workers
    <2>2. (\A w \in Workers : pc[w] = "free" /\ job[w] = NoJob) /\ loops = {}
      BY <2>1 DEF WorkerInv
    <2>4. \A w \in Workers : pc'[w] = "free"
      BY <2>1, <2>2
    <2>3. QED
      BY <2>1, <2>4 DEF Following, LoopsOf
  <1>18. CASE UNCHANGED vars
    <2>1. Following(m)
      BY <1>18 DEF vars
    <2>2. QED
      BY <1>18, <2>1 DEF vars, db, workers, Following, LoopsOf, SyncPending
  <1>19. QED
    BY <1>1, <1>2, <1>3, <1>4, <1>5, <1>6, <1>7, <1>8, <1>9, <1>10, <1>11, <1>12,
       <1>13, <1>14, <1>15, <1>16, <1>17, <1>18, <1>20, <1>21, <1>22
       DEF Next, Handle, Collect, Session, Loop

-----------------------------------------------------------------------------
(* Theorems *)

(* The invariant holds initially. *)
LEMMA IInvInit == Init => IInv
  <1> SUFFICES ASSUME Init PROVE IInv
    OBVIOUS
  <1>1. NoJob \in Job /\ NoRow \in Row
    BY NewJobType
  <1>2. TypeOK
    <2>1. /\ row \in [Machines -> Row] /\ job \in [Workers -> Job]
          /\ snap \in [Machines -> Nat]
      BY <1>1 DEF Init
    <2>2. /\ pc \in [Workers -> {"free", "select", "read", "write", "reread", "sync",
                               "reload", "drop", "probe", "merge", "save"}]
          /\ up \in BOOLEAN /\ loops \subseteq Machines
          /\ offSeen \in [Machines -> BOOLEAN] /\ unsynced \in [Machines -> BOOLEAN]
      BY DEF Init
    <2>3. requests \in 0..MaxRequests /\ rounds \in 0..MaxSlow /\ fails \in 0..MaxFails
      BY CollectorBounds DEF Init
    <2>4. QED
      BY <2>1, <2>2, <2>3, Zenon DEF TypeOK
  <1>3. WorkerInv /\ CredentialInv /\ CollectingIsReal
    BY DEF Init, WorkerInv, CredentialInv, RowInv, FoundInv, CollectingIsReal
  <1>4. QED
    BY <1>2, <1>3 DEF Init, IInv

(* The invariant of the component holds in every reachable state. *)
THEOREM Invariance == Spec => []IInv
  <1>1. IInv /\ [Next]_vars => IInv'
    <2> SUFFICES ASSUME IInv, [Next]_vars PROVE IInv'
      OBVIOUS
    <2>1. TypeOK /\ WorkerInv /\ CredentialInv /\ CollectingIsReal
      BY DEF IInv
    <2>2. TypeOK'
      BY <2>1, TypeNext
    <2>3. WorkerInv' /\ CredentialInv' /\ CollectingIsReal'
      BY <2>1, WorkerInvNext, CredentialInvNext, CollectingNext
    <2>4. \A m \in Machines : up' /\ ~offSeen'[m] => Following(m)'
      BY <2>1, FollowingNext DEF IInv
    <2>5. QED
      BY <2>2, <2>3, <2>4 DEF IInv
  <1>2. QED
    BY IInvInit, <1>1, PTL DEF Spec

(* Every variable keeps its type. *)
THEOREM TypeCorrect == Spec => []TypeOK
  <1>1. IInv => TypeOK
    BY DEF IInv
  <1>2. QED
    BY Invariance, <1>1, PTL

(* Machines without credentials are never switched on and never probed,    *)
(* for any number of requests and rounds in any order (machines.go:142-163,*)
(* registry.go:61-86, collector.go:150-174).                               *)
THEOREM NeverWithoutCredentials == Spec => []HasCredentials
  <1>1. ASSUME IInv PROVE HasCredentials
    <2>1. \A m \in Machines : row[m].enabled => row[m].user /\ row[m].pass
      BY <1>1 DEF IInv, CredentialInv, RowInv
    <2>2. \A w \in Workers : pc[w] = "probe" => job[w].view.user /\ job[w].view.pass
      BY <1>1 DEF IInv, CredentialInv, FoundInv
    <2>3. QED
      BY <2>1, <2>2 DEF HasCredentials
  <1>2. QED
    BY Invariance, <1>1, PTL

(* A machine that IsCollecting reports has a loop, however loops and       *)
(* requests overlap (collector.go:71-98 and 115-145).                      *)
THEOREM CollectingTruth == Spec => []CollectingIsReal
  <1>1. IInv => CollectingIsReal
    BY DEF IInv
  <1>2. QED
    BY Invariance, <1>1, PTL

(* A machine that is on has exactly one loop until it is switched off or   *)
(* met switched off, with any number of concurrent requests to switch it   *)
(* on (collector.go:48-91, handlers.go:83-103).                            *)
THEOREM OneLoopUntilOff == Spec => []CollectedUntilOff
  <1>1. ASSUME IInv PROVE CollectedUntilOff
    <2> SUFFICES ASSUME NEW m \in Machines, up, row[m].enabled, ~offSeen[m],
                        ~SyncPending(m), ~unsynced[m]
                 PROVE  m \in loops /\ \E s \in LoopIds : LoopsOf(m) = {s}
      BY DEF CollectedUntilOff
    <2>1. Following(m) /\ CollectingIsReal
      BY <1>1 DEF IInv
    <2>2. m \in loops
      BY <2>1 DEF Following
    <2>3. PICK s \in LoopIds : s \in LoopsOf(m)
      BY <2>1, <2>2 DEF CollectingIsReal, LoopsOf
    <2>4. \A t \in LoopsOf(m) : t = s
      BY <2>1, <2>3 DEF Following
    <2>5. LoopsOf(m) = {s}
      BY <2>3, <2>4
    <2>6. QED
      BY <2>2, <2>5
  <1>2. QED
    BY Invariance, <1>1, PTL
=============================================================================
