# FRPilot in TLA+

FRPilot (`src/`) is one Go process next to an frp server. It finds machines
through the dashboard of frps, collects data from them over SSH, shapes their
bandwidth with `tc`, runs cleanup and virus-scan tasks on them, and serves a
web interface and a command line client. This directory holds TLA+ models of
its core logic, the TLC configurations that check them, and proofs that TLAPS
checks.

    tlc -workers 2 -config QosAuto.cfg MCQos        # model-check one run
    tlapm TasksProofs.tla                           # check the proofs of a module

`PROJECT.json` lists the components, the runs, for each definition the lines of
code it translates, the hazards, the findings and the theorems.

## 1. Inventory

| component | state | operations | modelled by |
|---|---|---|---|
| bandwidth shaping, `internal/qos` | activity of the machines, class tables, ids, last error; the kernel's qdiscs, classes and filters | a round every poll interval; `Stop` | `Qos`, `Tc` |
| collection loops, `internal/collector` | map of loops, one goroutine per enabled machine | tick, `SyncMachine`, `CollectNow`, `Start` | `Collector` |
| machine table, `internal/store/machines.go`, `internal/registry` | rows: credentials, switch, last snapshot | discover, set credentials, enable, disable | `Collector` |
| background tasks, `internal/actions` | map of tasks, progress, results, one goroutine per task, one mutex | start a cleanup or a scan, list, preview | `Tasks`, `TaskBoard` |
| users and sessions, `internal/auth`, `internal/store/users.go` | users, roles, sessions | register, log in and out, approve, promote, change the password, delete | `Accounts` |
| login limits, `internal/auth/auth.go` | table of failures per account and per address: count, last failure, end of the lock | count, lock, clear, forget | `LoginLimit` |
| configuration, `internal/config` | configuration in memory, file, encrypted secrets | `Get`, `Update` with a hook, load, save | `Settings`, `ConfigStore` |
| snapshots, `collector.go`, `parser.go`, `internal/store/metrics.go` | the previous frame of a machine, the row of its last snapshot | a round: read, compare, merge, save | `Telemetry` |
| health check, `internal/actions/health.go` | none (finished reports are appended) | score a snapshot | `Health`, `Telemetry` |
| traffic, `internal/traffic`, `internal/store/traffic.go` | previous totals, last flow of each proxy, rows of history | poll, save, judge, forget | `Traffic` |
| audit log, metrics, retention | append-only tables | append, delete by age | no |
| AI diagnosis, frps client, SSH client | none | I/O | no: nondeterministic answers where other parts use them |
| HTTP server, command line client, web interface, scripts | none of their own | route, call, show | only handlers that change modelled state |
| process, `main.go` | none | start, deferred stops, end | start, end and crash in `Qos` and `Collector` |

How they interact. The loops of `qos`, `collector` and `traffic` are goroutines
on tickers, HTTP handlers are goroutines of `net/http`; they meet in the
database (one connection, so SQL statements do not overlap), in the
`config.Manager` (one mutex) and in maps that each component guards with a
mutex of its own. A handler that changes a machine writes the row and then calls
`SyncMachine`; saving the settings runs the configuration hook; the shaper reads
the configuration at the start of each round. Only the database, the files and
the kernel's traffic control outlive the process.

What is hard, and so what the properties are about:

- *Shaping.* A round is ten to twenty `tc` commands. Each of them can fail, the
  process can die between any two, and the kernel keeps what has been done. The
  next round must converge from there. `Stop` races the loop. Class ids are
  taken and given back while machines come and go.
- *Monitoring.* Rows are read in one statement and acted on later, after SSH
  sessions of seconds; loops end themselves when they meet a changed map; two
  loops and a manual round can work for one machine.
- *Tasks.* A task outlives its request and its place in the list; one machine
  of several fails; progress is computed in two ways; a panic in a critical
  section leaves the mutex locked.
- *Settings.* The configuration is in memory, in a file and, for its secrets, in a
  table; an update writes the three one after the other and may fail or be cut off
  between any two; the first start after an upgrade moves secrets from the file to the
  table; two requests rewrite the whole of it at once.
- *Accounts.* A request is several SQL statements, and others make theirs in between: a count
  of administrators is old when the row is deleted, a password is compared before the session
  is stored, a row is deleted in one statement and its sessions in the next, which may fail.
- *Login limits.* Logins overlap between the check of a lock, the comparison of the password and
  the counting of a failure; a failure carries the time at which it began to wait for the
  connection; rows are forgotten in between.
- *Traffic.* frps counts since midnight or its own start; proxies leave the list and come
  back; polls, saves and reads fail; a restart forgets the totals and keeps the history. No
  volume may be counted twice or be lost, and an alarm must come from the history.
- *Snapshots and health.* A loop's fast and slow rounds and manual ones exchange one previous
  frame and replace one row, in any order; the machine boots, devices come, go and are renamed
  between two frames. The health check trusts the age of the row, and thresholds that nobody
  compares with one another.

## 2. Modules

    Tc  <-  Qos  <-  MCQos        QosProofs
            Collector  <-  MCCollector     CollectorProofs
    TaskBoard  <-  Tasks  <-  MCTasks      TasksProofs
    ConfigStore  <-  Settings  <-  MCSettings   SettingsProofs
            Accounts  <-  MCAccounts       AccountsProofs
            LoginLimit  <-  MCLoginLimit   LoginLimitProofs
            Traffic  <-  MCTraffic         TrafficProofs
    Health  <-  Telemetry  <-  MCTelemetry TelemetryProofs

`Tc` holds the kernel (external: modelled from the commands that `qos.go` issues
and the errors it expects), `Qos` the service that drives it. `TaskBoard` and
`ConfigStore` are abstract specifications, which `Tasks` and `Settings` implement. The `MC` modules name machines
and build constants; the `Proofs` modules hold theorems only. Definitions whose
comment begins "A plausible bug" are not used by the specifications: each is a
changed form of the definition that follows it, and shows, put in its place,
that the properties notice.

### Qos and Tc

| state | in the code |
|---|---|
| `cfg` | the `qos` section that `config.Manager` serves |
| `iface`, `seen`, `active`, `age`, `applied`, `ids`, `nextID`, `lastErr` | fields of `Service`; `age` stands for the time of last activity, in poll rounds |
| `pc`, `watch`, `mu`, `proc` | the loop of `Start`, the stop channel its `select` holds, `s.mu`, `main` with its deferred `Stop` |
| `rc`, `samples`, `want`, `plan`, `dir`, `dev`, `step`, `todo`, `gone` | locals of a round; `step` and `todo` are the place in the command list |
| `root`, `class`, `filter`, `ingress` (`Tc`) | what `tc` shows, per device |

`ReadConfig`, `Sample`/`SampleFails`, `ReconcileLock`, `Build`, `RunCmd`, `Skip`
and `Unlock` are one round of `reconcile`; each `tc` or `ip` command is one
`RunCmd`, which may fail (`MaxFails`). Commands issued in the order of a Go map
are issued in every order. `CleanupLock` begins `cleanupAll`, for off mode and
for `Stop`. `Crash` loses every variable of the service and none of the kernel.
A machine is a proxy name and also stands for its port; rates are kbit/s, rounded
as `%.0f` rounds. Filters are matched by device and parent, their priorities and
match words are left out.

Beyond `qos.go`: `SaveConfig` is the effect of saving the settings on this
section, and is taken just before a round reads it (no other step looks at it).

### Collector

A worker is a goroutine: a collection loop (`LoopIds`) or a request
(`Handlers`). Each SQL statement and each SSH session is one step, what is done
under `c.mu` is part of one step. A credential is present or missing; the slow
part of a snapshot is the number of the slow round that has got it. `Reload`,
`Probe`/`ProbeFails`, `Merge` and `Save` are `collect`; `Tick` and `TickExit` the
loop; `Discover`, `Request`, `Read`, `WriteSwitch`, `WriteCredentials`,
`Reread`, `SyncOn`, `SyncOff` the registry and its handlers; `Down` and
`Start` the life of the process. `Fails` is a statement of a request or a round that fails,
`MergeFails` the read of a round's old snapshot, `StartFails` the list of machines at the start
(the server then serves without loops). A session that hangs stays at "probe" for ever. The name
of a machine is unique in the database, so that discovery of a proxy is one step. `offSeen` (a
round or a request has met the machine off) and `unsynced` (the statement whose answer should
have started the loop has failed) are history variables of the properties. What a round reads and compares is in `Telemetry`;
status texts, times, metrics and tunnel ports are left out.

### Tasks and TaskBoard

| state | in the code |
|---|---|
| `mu` | `tm.mu`: free, or "lost": locked by a handler that has panicked |
| `nextID`, `listed` | `tm.nextID`, the keys of `tm.tasks` |
| `task` | every `Task` ever made; its goroutine keeps the pointer after eviction |
| `job` | the goroutine: the place in its loop, machine, command |

Critical sections are steps. `StartCleanup`, `StartScan` and
`StartCleanupPanics` enter a task; `Launch` is the rest of the handler;
`BeginClean` and `Clean` are one machine of a cleanup; `NoSecret` (its password cannot be
decrypted), `OpenScan`, `Dialled` and a `Phase` for each command are one of a scan, each ending
in `CloseScan` when it is the last of the machine; `Finish` ends both. `Clean`, `Dialled` and
`Phase` wait for the machine's answer, which may never come. Machines and commands
fail at any point. An item that needs root is skipped exactly when the login
cannot become root. Output text, labels, durations and audit entries are left out;
a machine has the login it had when the task was started. Percentages are exact;
the code computes them in `float64`, which can show one less where the share is a
whole number of percent (29 of 100 machines), and never reaches 100 early or falls.
Listing and preview only read and are left out.

`TaskBoard` is what people who look at the list may rely on: tasks are numbered
in order, the newest `MaxKept` are listed, a task reports on its machines one by
one in the order of the request, and is done when it has reported on all.
`KeepsPromises` says that `Tasks` implements it; the refinement mapping hides
goroutines, progress and the mutex.

### Settings and ConfigStore

| state | in the code |
|---|---|
| `phase` | the process: down, in `LoadOrCreateAt`, in `SyncEncryptedSecrets`, serving |
| `file` | `config.json`; "torn": created and not yet written |
| `stored` | the rows of the settings table that hold secrets |
| `mem`, `writer` | `m.cfg`, and who holds `m.mu` for writing |
| `actor` | a request, or the start: its place, the copy it read, the candidate, the secrets still to be done |

A configuration gives each field a value, `Empty` standing for "" and 0. A request
gives values to the fields it names. `Refused` are the values of a field that a save stores and
a start replaces by the default (a negative port or threshold); a start loads `Normalised`
configurations. What the handlers refuse, ignore or normalise themselves never gets in. `Start`, `CreateFile`, `FillFile` and `LoadSecret`
are the start of the server up to its first update; `Save` and `Detect` the handlers up to
theirs (`Ask` is the read they begin with); `Begin`, `Sync` (one secret), `Persist` and
`Install` are `Update`. `Fail` is an error of a statement or of the file, `Crash` the
end of the process at any point. Encryption with an unchanged key is the identity;
validation of requests and the temporary file of `persist` are left out (a rename is
atomic), as is the key of the AI service, which has a row of its own.

`ConfigStore` is what those who read and save settings may rely on, with three variables: whether
the server serves, the configuration that it shows and the one it keeps for its next start. A
request (`Change`) takes effect at once and as a whole, on what the requests before it have
left; a start (`Serve`) shows what is kept and changes nothing of it; the end of the process
(`End`) loses only what is not kept. `KeepSecret` is the part of a request that may remain
although the request is refused or cut off. `ActsAtOnce` says that `Settings` implements it. The
mapping: what is kept is what a start would make of file and table (`Reloaded`); what is shown is
the memory, and from the rename of the file on the candidate (`Shown`), since nobody can read
before the lock is free again. The rename is where a request takes effect; every other step is
a `KeepSecret` or none, a start with all its migration included.

### Accounts

| state | in the code |
|---|---|
| `user`, `lastId` | the table users and its AUTOINCREMENT sequence; a row is absent, pending or approved |
| `session`, `lastToken` | the table sessions; a token that is random in the code is a fresh number |
| `req` | the requests in progress: the place of each in its handler, and what it has read |

`Register` and `Insert` are a registration (the count of the users, the row), `Login` and
`OpenSession` a login, `Authenticate` and `LoadUser` what every other request begins with
(`Auth` and `requireAdmin`). From there `FindTarget`, `CountAdmins`, `Remove`, `Purge`,
`Logout` are the deletion of an account (by an administrator, or one's own); `Remove`, `Purge`
a rejection; `ChangePassword`, `Revoke` a new password; `Approve` and `SetRole` one statement
each. The database has one connection, so that each statement is a step. `Fail` is a failing
statement of some requests, or the end of the process with several: what has been written
stays. `Expire` and `Janitor` are the time. A password is the number of its changes;
`name`, `ver` and `late` of a session and `unguarded` are history variables of the properties.
Requests refused by their first statement, limits of failed logins, audit entries and the
comparison of hashes are left out. `Databases` are what a process may find: a new
installation, or tables as earlier processes have left them (`Sound`).

### LoginLimit

| state | in the code |
|---|---|
| `now` | `time.Now`, in units |
| `limit` | the table login_limits; `NoRow` is an absent row |
| `pc`, `job` | the logins in progress: the place of each, its account and address, the time it has read |
| `counted` | history: the failures counted for a key since its last success |

`Login`, `CheckAccount`, `CheckClient`, `Compare` are `LoginWithClient` up to the comparison of
the password. `ReadClock` is a step of its own, because `RegisterLoginFailure` takes the time
before it waits for the database's connection; `CountAccount` and `CountClient` are its
transactions. `ClearAccount` and `ClearClient` follow a right password, `Janitor` is the cleanup
of old rows. `Fail` is an error of a statement or the end of the process: the login ends, the
rows stay. `Tick` lets nobody wait longer than `Delay`. The assumption `Window + Delay <=
Retention` (by default a quarter of an hour and seconds against a day) is what `LockComes`
needs: the configuration does not limit the window, and one of more than a day would be cut
short by the cleanup. The users themselves and the session that a login opens are those of
`Accounts`; which of several errors a caller sees is left out.

### Traffic

| state | in the code |
|---|---|
| `online`, `counter` | what the frps dashboard shows: the proxies and their bytes of today |
| `now`, `due` | the poll ticker, and its channel of one place |
| `sampled`, `prevTotals`, `lastSample` | `Service.prevTotals` and `lastSample`; both have the keys `sampled` |
| `table`, `nextId` | the rows of `traffic_history`, per proxy, and the `AUTOINCREMENT` sequence of their ids (one number for the rows of a round, which are of different proxies) |
| `pc`, `batch`, `average` | the goroutine of `Start`: where its round is, the flows it saves, the averages it has read |
| `carried`, `measured`, `steady`, `unseen` | history of the properties |

`Sample` is `pollWithProxies` up to the unlocking of `s.mu`, `Save` the transaction of its rows,
`Load` and `Mark` are `detectAnomalies`. `SampleFails`, `SaveFails` and `LoadFails` are the
errors, all of which the code passes over; `CleanupTraffic` runs in the same goroutine.
`Tick` is time with what is carried in it; a tick that nobody fetches swallows the next one, as
`time.Ticker` does. `Reset`, `GoOffline` and `ComeBack` are frps. A rate is the volume per
interval, which is what the code divides by however late a poll is.

### Health and Telemetry

`Health` is `RunHealth` as operators, one for each group of items (`CPUPoints`, `LoadPoints`,
`MemPoints`, `DiskPoints`, `GPUPoints`, `SecurityPoints`, ...), over the contents of a snapshot;
`Points` adds them up, `Score` cuts at zero. An item costs 0, 3 or 10 points. Percentages are
compared without dividing, where the code compares `float64`.

| state of `Telemetry` | in the code |
|---|---|
| `now`, `boot`, `busy`, `idle`, `listed`, `bytes` | the machine: its CPU line and its devices |
| `prevStat`, `prevNet`, `up` | `Collector.prevStat` and `prevNet` of the machine, the process |
| `snap` | the row in `machine_snapshots`: `at` its time, `readAt` and `got` the times of its two parts |
| `pc`, `job` | the rounds under way: the loop's and a manual one |
| `carried`, `moved`, `measured`, `disordered`, `company` | history of the properties |

`ReadFrame` is the fast script on the machine, `cpuPct` and `netRates` are the two critical
sections that exchange the previous frame, `ReadSlow` or `Merge` gets the slow part, `Save` is
the probe of the tunnel with `SaveSnapshot`. When rounds run is the matter of `Collector`, what
they find that of `Health`; here a reading is known by its time or its number. The machine
may boot (`Reboot`) or change its devices (`PlugIn`, `Unplug`, `Rename`) at any point, a frame may
lack its CPU line, the snapshot may not be read (`MergeFails`) or saved (`SaveFails`), the
process may end. Both directions of a device are computed alike, so a device has one counter.

## 3. Runs

| run | question | bounds |
|---|---|---|
| `qos_auto` | Do kernel, ids and hysteresis agree with the service after each clean round, do rules go away under off mode, do active machines get shaped, does a stop clean up? Also the inductive invariant | 2 machines, 1 interface, an off configuration and an auto one with an egress budget, 1 failing command, 1 crash, up to 2 rounds' time between samples |
| `qos_manual` | Does each machine get its class at its rate, and an equal share in auto mode, also when ids have clashed before? | 3 machines, manual caps on egress and ingress-only auto mode |
| `collector` | Who may be probed, is there one loop per machine, do loops of a machine that is off end unless they hang in a session? Also the inductive invariant | 1 machine, 3 loops, 3 requests at a time, 4 in all, 1 slow round, 1 failing statement, restarts |
| `tasks` | Is progress true and monotone, does the manager implement the board, does every task end while the mutex works and its machines answer? | 2 tasks on up to 2 of 3 machines, a list of 1, a scan of 7 commands |
| `settings` | Does a restart find what was running, does every request take effect in one step or in none and every start keep what there is (refinement), do requests leave each other's fields alone, does every request end? Also the inductive invariant | 2 public fields, 2 secrets, 3 values, one of which a start refuses for one of the fields, 2 requests, 1 failure, 2 crashes, all old files and tables |
| `accounts` | Whom do sessions speak for, when do they end, does an administrator remain? Also the inductive invariant | 2 requests at a time, 3 in all, 3 accounts, 2 sessions, 3 names, 1 failure; a new installation, and one with an administrator and a second account, logged in or not |
| `login_limit` | Is every lock deserved, does it come, is it left alone by failures under way? Also the inductive invariant | 1 account and 1 address or none, 2 logins at a time, 4 in all, 2 and 3 failures to a lock, times 0 to 5 with a window and a lock of 2 |
| `traffic` | Do rates add up to what was carried, never more and between resets never less? Is an alarm deserved by the rows before it? Also the inductive invariant | 2 proxies, one that works or surges and one that is steady, 6 ticks, an hour of 5 ticks, 1 fault (reset, absence, failing poll, save or read, restart) |
| `telemetry` | Is CPU usage a percentage, do rates never count twice, is old data warned of, is slow data lost only to a round beside, does the score never rise as a reading gets worse? Also the inductive invariant | 2 devices, a loop's round and a manual one, 3 frames, 2 ticks, 1 fault (reboot, device change, frame without CPU line, failing read or save, restart); 1,080 contents around the limits, 2 settings |
| `qos_collision`, `collector_lost`, `tasks_lost` | one disagreement of code and documentation each (section 5) | the least that shows it |

Why the bounds suffice. Two machines are needed to share a budget, to keep one
class while another goes, and to give back an id; with a third, ids can clash (finding 1),
which is why `qos_manual` and `qos_collision` have three. The safety properties are proved for
any number of machines. One failing command and one crash can fall between any two commands
and meet each other; what they leave is repaired or not in the next round, so a second adds no
kernel state of a new kind (the proof of `KernelInSync` has no bound). Hysteresis
of one round and gaps of two give the states "recent", "just expired" and "jumped
over". Machines of `Collector` share nothing but the map, whose entries are
independent, so one machine with several loops and requests has all conflicts; a third
loop slot is what an old and a new loop and one too many need. Two tasks with a list
of one make the older one run after it has left the list. `Settings` needs two requests to
interleave, two secrets for an update that is half done, a public field with a default and
one that is read before the update; two crashes interrupt a start and its repetition.
The hazards of `Accounts` are between two requests, so two at a time; a third one after them
sees what they have left (a session of a deleted account, a name that is free again), and the
tables the process starts with stand for the requests before; the proofs have no bound.
Four logins of `LoginLimit` lock an account twice, or lock an address with one to spare; the
times suffice for a row to be forgotten and for a failure after the end of a lock.
An alarm of `Traffic` takes as many earlier rows as the threshold, five, and a sixth to be
judged; the first rows leave the hour in the last tick. Of its failures one at a time shows what
it leaves for the next rounds, and all four properties are proved for any number. Three frames of
`Telemetry` are compared twice, which is what the wrong order of two rounds takes, and two ticks
make data older than the limit and than one session; the settings of the health check include one with its limits crossed.

Deadlock is checked except in `Tasks.cfg` and `TasksLost.cfg`, where nothing moves once
all tasks allowed by the bound are done or the mutex is lost, in
`Settings.cfg`, `Accounts.cfg`, `LoginLimit.cfg`, `Traffic.cfg` and `Telemetry.cfg`, where the
requests, crashes, sessions, frames and time allowed by the bounds are used up.

### Fairness

- `Qos`: weak fairness of the loop, of whoever holds the mutex, and of the cleanup of
  `Stop`: the Go scheduler runs what can run, the ticker keeps firing, every command
  returns. Failures are finitely many (`MaxFails`): a kernel that refuses for ever
  cannot be shaped. Nothing makes a start, a crash, a stop or a configuration happen.
- `Collector`: weak fairness of every worker's step but the answer of an SSH session
  (goroutines run, tickers fire); not of sessions, requests, discovery or the life of the
  process. The 8 s of `sshx.go:23` bound the TCP connect and not the handshake after it, the
  timer of a command is set only where the machine grants a pty (`sshx.go:43-51`), and `Run`
  waits for the other side even after the timer has closed the session.
- `Tasks`: weak fairness of each task's goroutine, except where it waits for a machine, for the
  same reason; not of requests. `tasks_lost` assumes as well that machines answer
  (`AnsweredSpec`), so that only the lost mutex can hold a task up.
- `Settings`: weak fairness of the start (the service manager starts the process again)
  and of the steps of an update; strong fairness of taking the lock, because Go hands
  a mutex to a waiter that has starved. Not of requests.
- `Accounts`, `LoginLimit`, `Traffic`, `Telemetry`: none; only safety is stated. `Tick` of
  `Telemetry` assumes that a round takes no longer than `SessionTicks`, which `sshx` does not
  enforce: `FreshOrWarned` holds up to that length, whatever it is.

### Liveness checked

`OffCleansUp` (off mode ignores the errors of its cleanup; repetition still clears the
kernel), `ActiveGetsShaped`, `DisabledStops` (except for loops in a session
that never ends), `FinishesUnlessStuck` (no task waits for ever but for a machine), `SavesEnd` (no error path
keeps the lock), `ComesUp` (an interrupted start is taken up again, except one that was cut off
while it created the file).

## 4. Proofs

TLAPS checks the safety properties below for all values of the constants, from the named
assumptions on them (finite set of machines, numbers are natural, logins and scan modes
are those of the code). In each module the shape is the same: an inductive invariant
`IInv`, preserved by each action, that implies the properties; TLC checks `IInv` first.

- **`QosProofs`** — `Invariance`, `TypeCorrect`, `RoundsConverge` (`KernelInSync`),
  `ClassIdsCompact` (`PrefixHeld`), `ClassIdsBounded`, `HysteresisHolds`
  (`ShapedWhileRecentlyBusy`), `SharesReachKernel` (`SharesInKernel`), `StopLeavesNothing`
  (`StopCleansUp`). `KernelInSync`
  speaks of the end of a round; the invariant adds what the commands of the round have
  achieved so far (`Progress`), that the command list belongs to the tables it was built
  from (`StepInv`), and what the kernel itself guarantees (`KernelInv`): convergence from
  any state is then a matter of each command's pre- and postcondition. `HystInv` carries the
  ages of the sample through the round to the sleeping loop, past a Stop that forgets them, and
  `ShareInv` the classes issued so far past those that are issued or deleted later: this is
  where ids that clash break the round, so the property excludes them; `StopInv` follows the
  cleanup of a Stop while the loop is asleep. The bound on ids
  follows from `PrefixHeld` by counting: the ids below `nextID` are held by different
  machines.
- **`CollectorProofs`** — `Invariance`, `TypeCorrect`, `NeverWithoutCredentials`,
  `CollectingTruth`, `OneLoopUntilOff`. The invariant says what a worker may rely on
  although it has read a row some steps ago: credentials, once complete, stay complete;
  as long as nobody has met the machine off, nothing can be pending but its start. A machine
  that is on without a loop is then one whose start is pending, or one whose re-read or list of
  machines has failed (`unsynced`).
- **`TasksProofs`** — `Invariance`, `ProgressIsTrue`, `BarNeverFalls`,
  `ImplementsBoard`. `Consistent` ties the goroutine to its task, `BarFits` bounds the
  bar by the machines done and the next one; that these bounds hold is arithmetic on
  quotients (`DivMono`, `ShareFacts`). `ImplementsBoard` proves the refinement: each
  critical section is one step of the board or none; that eviction keeps exactly the newest
  is a counting argument (`KeepsNewest`).

- **`SettingsProofs`** — `Invariance`, `TypeCorrect`, `RestartBringsBack`
  (`RestartRestores`), `StartIsHarmless` (`StartKeepsSecrets`), `RequestsIndependent`
  (`UnnamedUnchanged`), `RequestsTakeEffectAtOnce` (`ActsAtOnce`). The invariant says who may be
  active while the lock is held (`LockInv`), what an update has written so far (`UpdateInv`),
  that file and table agree with the memory of a running server except for what the update in
  progress has done (`DiskInv`), that a start puts a secret into the table before the file
  loses it (`MigrationInv`), and that a candidate is the memory with the request applied to it as
  long as the lock is held (`RequestInv`). The last part makes requests independent. The
  Values that a start refuses are the reason why `RestartRestores` compares with the
  normalised memory and not with the memory; `Refused` is any set of values for each field. The
  refinement takes one lemma for each kind of step: before the server is up nothing that counts
  changes (`StartStutters`), its last step is `Serve` (`BootServes`), a secret is kept
  (`SyncKeepsSecret`), the rename is `Change` (`PersistChanges`), and `ShownKept` says when readers
  see no difference. `StartKeepsSecrets` follows from the refinement as well, so the run
  checks only that.

- **`AccountsProofs`** — `Invariance`, `TypeCorrect`, `SessionsKeepOwner` (`SessionOfOwner`),
  `SessionsEnd` (`SessionsCurrent`), `AdministratorRemains` (`AdminRemains`). What a request has
  read is old when it acts, so the invariant says what stays true meanwhile: a number once given
  out is never that of another account (`NumbersInv`), so who was entitled to log in is entitled
  or gone (`OwnerInv`, `StaysEntitled`); ending an account's sessions goes on until they are
  gone (`EndingStep`); and while deletions do not overlap, one that is past the guard has an
  administrator besides its target (`AdminInv`), by the count, or because it is the caller.
  Lemmas say what a step can do to a row, a session, a request (`Rows`, `Sessions`, `Requests`).

- **`LoginLimitProofs`** — `Invariance`, `TypeCorrect`, `LocksDeserved` (`LockDeserved`),
  `LocksCome` (`LockComes`), `LocksKept` (`LockKept`). A row has no memory of single failures, so
  the invariant says what it stands for: the longest run of close failures at the end of the
  history, which began after a lock or a gap (`StandsFor`), and an absent row for a history too
  old for a run to go on (`Forgotten`). A failure begins a run (`NewRun`) or makes it longer
  (`LongerRun`); whoever stands for a run deserves its lock and does not miss it (`RunsLock`).
  That a failure under way finds the lock is because it took the time before (`TimeInv`).

- **`TrafficProofs`** — `Invariance`, `TypeCorrect`, `RatesNeverTooHigh` (`NeverOvercounts`),
  `RatesExact` (`ExactBetweenResets`), `AlarmsDeserved` (`AlarmDeserved`). The two accounts are
  each other's induction hypothesis (`AccountInv`): what a counter shows since the last sample is
  still to be measured (`Pending`), and a reset gives it up. An alarm compares averages read at
  one time with a flow of an earlier time and rows that may or may not include its own.
  `OrderInv` says that a poll which can find a rate meets no row of its own tick (only a process
  that has just started polls twice in one tick, and it has no totals), `RowInv` that the row of
  a flow under judgement is then the newest and the only one of its time, and `AverageInv` that
  the averages are those of a table that nobody has changed since. The mean of the code is
  therefore that of the earlier rows and, if the save went well, of the judged one
  (`SumRemove`), and `MeanOfOthers` is the arithmetic: more than K times a mean that takes in
  the rate itself is more than K times the mean of the others, of which there are at least K.

- **`TelemetryProofs`** — `Invariance`, `UsageIsPercentage` (`CpuInRange`), `FreshnessHonest`
  (`FreshOrWarned`), `RatesArePaid` (`NetNeverOvercounts`), `SlowDataStays`
  (`SlowDataKeptAlone`), `ScoreMonotone`, `HealthMonotone` (`WorseNeverBetter`). Frames of one
  boot are ordered whichever round holds them (`FrameInv`), so a difference has one sign in all
  its parts, and `RoundInRange` bounds its rounded quotient; rounds are young (`ClockInv`), so
  what they save is. What a rate may count is bounded by how much the counters have grown
  between its two frames (`RateIsGrowth`); `BillInv` says that all growth between any two frames
  which rounds still hold has been paid for, by what the devices have carried and by what has
  moved along with a rename. `RatesArePaid` therefore bounds the rates by the sum of both, and only
  as long as frames have been applied in order; the invariant holds without that and is about
  every pair of them, and each frame carries what had been paid when it was read (`paid`, a
  history field). `KeptInv` ties the slow data that a round has read or merged to the row it will
  replace, as long as it is alone. The score needs no induction: each part is monotone
  (`CPUPart`, `DiskPart`, `ItemPart`, ...), a list by counting (`WeighMonotone`: a failure is a
  warning and seven points more), for all thresholds, also crossed ones.

The last two add up sets of rows and of devices with the fold of the community modules, whose
definition is recursive on sets. What is needed of it (`SumEquation`, `SumNat`, `SumRemove`,
`SumMonotone`, `SumPlus`) is proved in both modules, from the minimal element that a set of
subsets of a finite set has (`MinimalSubset`, by the library's `WFMin`): this takes the place of
an induction theorem, with the property given as the set of those subsets that have it
(`SubsetInduction`).

Only model-checked: the liveness properties, since fairness and ENABLED are outside of the
prover's reach. Every invariant and action property of the passing runs is proved. No module has
a recursive operator.

## 5. Findings

Disagreements of code and documentation that a run shows:

1. `qos_collision` — `qos.go:286` hands out an id that another machine holds, against the
   comment at `qos.go:281`: after a machine with a low id has gone and come back, two
   machines share one class, and when one of them leaves, the other has none for a round
   (`IdsClash` in `SharesInKernel`).
2. `collector_lost` — a round that has read the switch as off removes the machine after
   it has been switched on again (`collector.go:157`): on, and nobody collects.
3. `tasks_lost` — a cleanup without machines panics while it holds `tm.mu`
   (`cleanup.go:143`): the task is in the list for ever, all others stop.

Noticed while modelling, without a run of their own: `Stop` (`qos.go:135`) does not wait for a
round under way, which may apply its rules after the cleanup and then waits on a nil channel
for ever (`qos.go:140`; `StopCleansUp` says when the rules are gone); a fast round overwrites
newer slow data (`collector.go:201`; `SlowDataKeptAlone` says when); a saved interface is used only after
a restart, because it is looked up only while none is cached (`qos.go:181`); the commands
of a direction that is not shaped remove any root qdisc that is there (`qos.go:423`); an id
may be released by one direction while the other plans to use it, which the next round
repairs (`qos.go:393`); off and on again between two ticks leaves two loops for a machine
(`collector.go:75`); a manual collection of a machine that is off collects nothing and returns an error
(`collector.go:156`), although `CollectNow` does not depend on monitoring by its comment
(`collector.go:100`); a list of machines that cannot be read at the start
(`collector.go:49`), or a machine that cannot be read after its switch has been written
(`machines.go:162`, `handlers.go:89`), leaves machines on without a loop until somebody switches
them on again (`unsynced`); a machine that accepts the connection and then says nothing, or that grants no
pty, can hold a collection loop or a task for ever (`sshx.go:23`, `sshx.go:43`); editing credentials of a machine that is on sets
its status to "configured" while the switch stays on (`machines.go:130`); a rootkit scan
without rkhunter does not run chkrootkit, and one without chkrootkit drops what rkhunter has
found (`scan.go:213`); `StartScan` writes `task.Progress` outside of the mutex after the
task has been published (`scan.go:128`). A save that does not name the registration mode
puts back the one it read before it took the lock (`handlers.go:270`). The first
`config.json` is not written atomically (`config.go:246`): cut off in between, it is empty and
no later start succeeds. Emptying a setting may not survive a restart: an empty secret
leaves its row as it is (`secrets.go:79`), a zero threshold becomes the default
(`config.go:320`). A save accepts negative ports and thresholds (`handlers.go:293`,
`handlers.go:309`), which run until the next start replaces them by the defaults
(`config.go:360`); `RestartRestores` says what comes back.
The save hook stores secrets one by one before the file is written (`config.go:266`): after a
failure in between, the refused save is half durable, against the comment at `config.go:261`.
Deleting the last administrator is forbidden (`auth.go:255`), but the count and the deletion
are two statements (`auth.go:264`, `auth.go:280`), and the guard only refuses a deletion of
oneself (`auth.go:273`): two administrators who delete themselves, or one another, at the same
time leave none, which is why `AdminRemains` is about deletions that do not overlap.
Demotion and rejection do not guard the last administrator (`auth.go:291`, `auth.go:284`),
and administrators who wait for approval count in the guard that there is (`auth.go:266`); two first
registrations at the same time both become administrators (`auth.go:62`); a login that has
compared the old password opens its session after a change of the password has revoked all
(`late` in `SessionsCurrent`).

In traffic and health: rates are divided by 30 s also after missed polls and between rounds that
follow each other at once, although the comment says bytes per second (`traffic.go:35`,
`collector.go:285`). The mean of an anomaly takes in the judged sample, so that an alarm needs as
many earlier rows as the threshold, five by default, where the code asks for three
(`traffic.go:183`). `lastSample` keeps proxies that have gone. Between a sample and its judgement
readers see flows that are not marked yet, and `handleTraffic` encodes the shared flows outside of
the lock. `parseNetDevLine` takes the multicast column of a device for what it has
sent (`parser.go:234`). A device that gets a new name is counted again with its whole counter, as are
all devices after a frame that lists none (`collector.go:263`). A CPU usage from the frames of
two boots may be below zero or above a hundred. A snapshot that cannot be read wipes the slow
data; slow commands that fail read as "no GPU" and no security software. In the health check
missing data costs nothing or little, while a missing `MemAvailable` counts as all memory in use;
removing a tool that does not run improves the score (10 points become 3); the slow part of a
snapshot may be older than the age that is checked; a single failure still gives "pass"; limits
for failures below those for warnings are accepted; EXTRA lines replace one another although
`rkhunterAge` expects them joined (`health.go:228`, `modules.go:86`).

## 6. Plan

Done: `Tc` and `Qos`; `Collector`; `Tasks` and `TaskBoard`; `Settings` and `ConfigStore`; `Accounts`;
`LoginLimit`; `Traffic`; `Health` and `Telemetry`; their proofs. Open, in this order:

1. An abstract shaper ("the kernel shapes the machines of the last clean round") that `Qos`
   implements; the refinement proved from `SyncInv`.
2. An atomic user table that `Accounts` implements as long as deletions do not overlap.

## 7. Not modelled, and why

Collector scripts and parsers, AI prompts, summaries of scans: text, character by
character. Audit log, metrics, finished health reports, retention: appended and deleted by
age, nothing decides on them. frps and SSH clients, HTTP routing, TLS, the command line client, the web interface and
the shell scripts: I/O and presentation; their answers and failures are nondeterministic
inputs of the models. Data races that only affect what is displayed (`Status` of the
shaper, tasks being marshalled) change no modelled state; the runtime's answer to a
concurrent map access, the end of the process, is the crash the models have.
