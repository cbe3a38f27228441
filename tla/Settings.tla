------------------------------ MODULE Settings ------------------------------
(***************************************************************************)
(* The configuration of internal/config: a Manager that keeps it in memory *)
(* under a lock, the file config.json, and the secrets, encrypted in the   *)
(* settings table.  Saving the settings and detecting frps are requests;   *)
(* starting the server is the first update of all.                         *)
(*                                                                         *)
(* One statement on the table and one change of the file is a step, so     *)
(* that a failure or the end of the process may come between any two.      *)
(*                                                                         *)
(* Data: a configuration gives each field a value; Empty is "" or 0.  A    *)
(* start does not accept every value (Refused): a save stores a negative   *)
(* port or threshold as it is, the next start replaces it.  (The numbers   *)
(* of QoS and of the AI service a save replaces or ignores itself.)        *)
(* Encryption is the identity as long as the key of the data directory     *)
(* stays.  The key of the AI service, in a row of its own that nothing     *)
(* here reads, is left out, and so are the temporary files of persist.     *)
(***************************************************************************)
EXTENDS Naturals

CONSTANTS
    Public,        \* fields that are written to the file
    Registration,  \* the one that a save request reads before it updates
    Secrets,       \* fields that are written to the table
    Values,
    Empty,         \* "" or 0
    Keep,          \* in a request: the field is not in it
    OldConfigs,    \* what the file of an older version may hold
    Default,       \* of the public fields; Empty for one without a default
    Refused,       \* per public field: the values that a start replaces
    SaveRequests, DetectRequests,
    Savers,        \* requests in progress at a time
    Boot,          \* the start of the server
    NoOne,
    MaxSaves, MaxFailures, MaxCrashes  \* bounds: of a behaviour

Fields == Public \cup Secrets
Configs == [Fields -> Values \cup {Empty}]
Actors == Savers \cup {Boot}

ASSUME FieldAssumption ==
    Registration \in Public /\ Public \cap Secrets = {} /\ Secrets # {}
ASSUME ValueAssumption ==
    /\ Empty \notin Values /\ Keep \notin Values \cup {Empty}
    /\ Default \in [Public -> Values \cup {Empty}] /\ OldConfigs \subseteq Configs
(* A start accepts its own defaults. *)
ASSUME DefaultAssumption ==
    Refused \in [Public -> SUBSET Values] /\ \A f \in Public : Default[f] \notin Refused[f]
(* A save leaves a secret alone that is not in it, empty or masked; its    *)
(* registration is one of the three modes.  Detection names no             *)
(* registration, and what frps.ini does not say it empties.                *)
ASSUME RequestAssumption ==
    /\ SaveRequests \cup DetectRequests \subseteq [Fields -> Values \cup {Empty, Keep}]
    /\ \A r \in SaveRequests : \A f \in Secrets \cup {Registration} : r[f] # Empty
    /\ \A r \in DetectRequests : r[Registration] = Keep
ASSUME ActorAssumption == Boot \notin Savers /\ NoOne \notin Actors
ASSUME BoundAssumption == MaxSaves \in Nat /\ MaxFailures \in Nat /\ MaxCrashes \in Nat

VARIABLES
    phase,     \* of the process
    file,      \* config.json
    stored,    \* the settings table: the secrets
    mem,       \* m.cfg
    writer,    \* who holds m.mu for writing
    actor,     \* per request, and for the start: where it is
    saves, failures, crashes

vars == <<phase, file, stored, mem, writer, actor, saves, failures, crashes>>

Nothing == [f \in Fields |-> Empty]
Untouched == [f \in Fields |-> Keep]

File == [state : {"absent", "torn", "whole"}, is : Configs]

(* seen: the copy a save request takes first; cand: the candidate of       *)
(* Update; todo: the secrets still to be loaded or written.                *)
Actor == [pc : {"idle", "load", "begin", "sync", "install"},
          req : [Fields -> Values \cup {Empty, Keep}],
          seen : Configs, cand : Configs, todo : SUBSET Secrets]
Idle == [pc |-> "idle", req |-> Untouched, seen |-> Nothing, cand |-> Nothing, todo |-> {}]

(* Every variable has its type. *)
TypeOK ==
    /\ phase \in {"down", "creating", "loading", "running"}
    /\ file \in File
    /\ stored \in [Secrets -> Values \cup {Empty}]
    /\ mem \in Configs
    /\ writer \in Actors \cup {NoOne}
    /\ actor \in [Actors -> Actor]
    /\ saves \in 0..MaxSaves /\ failures \in 0..MaxFailures /\ crashes \in 0..MaxCrashes

-----------------------------------------------------------------------------
(* Helpers *)

(* applyDefaults: a field without a value, or with one that it does not    *)
(* accept, gets its default.                                               *)
Normalised(c) ==
    [f \in Fields |-> IF f \in Public /\ c[f] \in Refused[f] \cup {Empty} THEN Default[f] ELSE c[f]]

(* A plausible bug: the secrets go into the file like any other field. *)
SavedInFull(c) == [state |-> "whole", is |-> c]

(* MarshalJSON: the file has no secrets. *)
Saved(c) == [state |-> "whole", is |-> [f \in Fields |-> IF f \in Secrets THEN Empty ELSE c[f]]]

(* A plausible bug: the file has precedence over the table. *)
FoundInFile(k) == IF mem[k] # Empty THEN mem[k] ELSE stored[k]

(* loadOrMigrateSecret: from the table, or else from an old file. *)
Found(k) == IF stored[k] # Empty THEN stored[k] ELSE mem[k]

(* saveSecretIfChanged: an empty value leaves the row as it is. *)
Synced(k, value) == IF value = Empty THEN stored[k] ELSE value

(* A plausible bug: the update starts from the copy taken before. *)
StaleBase(a) == IF a = Boot THEN mem ELSE actor[a].seen

(* Update starts from what is in memory while it holds the lock. *)
Base(a) == mem

(* The request of a applied to a configuration. *)
Applied(a, base) ==
    [f \in Fields |-> IF actor[a].req[f] # Keep THEN actor[a].req[f] ELSE base[f]]

(* A plausible bug: an error path without Unlock. *)
LockedAfter(a) == writer

(* The lock after an update of a that failed. *)
UnlockedAfter(a) == IF writer = a THEN NoOne ELSE writer

(* A plausible bug: the candidate is installed although it was not saved. *)
CandidateAfterFailure(a) == IF actor[a].pc = "sync" THEN actor[a].cand ELSE mem

(* What is in memory after an update of a that failed. *)
AfterFailure(a) == mem

(* A plausible bug: an interrupted start is not taken up again. *)
StartableOnce == crashes = 0 /\ file.state # "torn"

(* LoadOrCreateAt: a file that is not JSON is an error. *)
Startable == file.state # "torn"

-----------------------------------------------------------------------------
(* The start of the server *)

Load(c) ==
    /\ phase' = "loading"
    /\ mem' = Normalised(c)
    /\ actor' = [actor EXCEPT ![Boot] = [Idle EXCEPT !.pc = "load", !.todo = Secrets]]

(* LoadOrCreateAt with a configuration file. *)
Start ==
    /\ phase = "down" /\ Startable /\ file.state = "whole"
    /\ Load(file.is)
    /\ UNCHANGED <<file, stored, writer, saves, failures, crashes>>

(* LoadOrCreateAt without one: os.WriteFile creates it first ... *)
CreateFile ==
    /\ phase = "down" /\ Startable /\ file.state = "absent"
    /\ phase' = "creating"
    /\ file' = [file EXCEPT !.state = "torn"]
    /\ UNCHANGED <<stored, mem, writer, actor, saves, failures, crashes>>

(* ... and then writes an empty configuration. *)
FillFile ==
    /\ phase = "creating"
    /\ file' = [state |-> "whole", is |-> Nothing]
    /\ Load(Nothing)
    /\ UNCHANGED <<stored, writer, saves, failures, crashes>>

(* SyncEncryptedSecrets, one secret; after the last, the update. *)
LoadSecret(k) ==
    /\ actor[Boot].pc = "load" /\ k \in actor[Boot].todo
    /\ stored' = [stored EXCEPT ![k] = Found(k)]
    /\ LET boot == actor[Boot]
       IN  actor' = [actor EXCEPT ![Boot] =
                       [boot EXCEPT !.pc = IF boot.todo = {k} THEN "begin" ELSE "load",
                                    !.req = [boot.req EXCEPT ![k] = Found(k)],
                                    !.todo = boot.todo \ {k}]]
    /\ UNCHANGED <<phase, file, mem, writer, saves, failures, crashes>>

-----------------------------------------------------------------------------
(* Requests *)

(* A request reads the configuration, for which it waits for a writer, and *)
(* goes on to update it.                                                   *)
Ask(s, r) ==
    /\ phase = "running" /\ actor[s].pc = "idle" /\ writer = NoOne
    /\ saves < MaxSaves
    /\ saves' = saves + 1
    /\ actor' = [actor EXCEPT ![s] = [Idle EXCEPT !.pc = "begin", !.req = r, !.seen = mem]]
    /\ UNCHANGED <<phase, file, stored, mem, writer, failures, crashes>>

(* handleSaveSettings: a registration that is not in the request is set to *)
(* the one just read.                                                      *)
Save(s, r) ==
    Ask(s, IF r[Registration] # Keep THEN r
           ELSE [r EXCEPT ![Registration] = mem[Registration]])

(* AutoDetectFrpsInfo, when frps can be reached. *)
Detect(s, r) == Ask(s, r)

-----------------------------------------------------------------------------
(* Manager.Update *)

Begin(a) ==
    /\ actor[a].pc = "begin" /\ writer = NoOne
    /\ writer' = a
    /\ actor' = [actor EXCEPT ![a] =
                    [@ EXCEPT !.pc = "sync", !.cand = Applied(a, Base(a)), !.todo = Secrets]]
    /\ UNCHANGED <<phase, file, stored, mem, saves, failures, crashes>>

(* The save hook, one secret; the order of a Go map is arbitrary. *)
Sync(a, k) ==
    /\ actor[a].pc = "sync" /\ k \in actor[a].todo
    /\ stored' = [stored EXCEPT ![k] = Synced(k, actor[a].cand[k])]
    /\ actor' = [actor EXCEPT ![a].todo = @ \ {k}]
    /\ UNCHANGED <<phase, file, mem, writer, saves, failures, crashes>>

(* persist: the rename. *)
Persist(a) ==
    /\ actor[a].pc = "sync" /\ actor[a].todo = {}
    /\ file' = Saved(actor[a].cand)
    /\ actor' = [actor EXCEPT ![a].pc = "install"]
    /\ UNCHANGED <<phase, stored, mem, writer, saves, failures, crashes>>

(* The candidate replaces the configuration in memory. *)
Install(a) ==
    /\ actor[a].pc = "install"
    /\ mem' = actor[a].cand
    /\ writer' = NoOne
    /\ actor' = [actor EXCEPT ![a] = Idle]
    /\ phase' = "running"
    /\ UNCHANGED <<file, stored, saves, failures, crashes>>

(* The process has ended: only the file and the table are left. *)
Down ==
    /\ phase' = "down" /\ writer' = NoOne /\ mem' = Nothing
    /\ actor' = [a \in Actors |-> Idle]

(* A statement on the table, or writing the file, fails: the request       *)
(* returns the error; the server does not start.                           *)
Fail(a) ==
    /\ actor[a].pc \in {"load", "sync"} /\ failures < MaxFailures
    /\ failures' = failures + 1
    /\ IF a = Boot
       THEN Down
       ELSE /\ writer' = UnlockedAfter(a) /\ mem' = AfterFailure(a)
            /\ actor' = [actor EXCEPT ![a] = Idle]
            /\ phase' = phase
    /\ UNCHANGED <<file, stored, saves, crashes>>

(* The process is killed, or ends. *)
Crash ==
    /\ phase # "down" /\ crashes < MaxCrashes
    /\ crashes' = crashes + 1
    /\ Down
    /\ UNCHANGED <<file, stored, saves, failures>>

-----------------------------------------------------------------------------
(* A new installation has no file; that of an older version has secrets in *)
(* it, and the table may have been written by a start that was cut off.    *)
Init ==
    /\ phase = "down" /\ writer = NoOne /\ mem = Nothing
    /\ actor = [a \in Actors |-> Idle]
    /\ stored \in [Secrets -> Values \cup {Empty}]
    /\ file \in {[state |-> "whole", is |-> c] : c \in OldConfigs}
               \cup {[state |-> "absent", is |-> Nothing]}
    /\ saves = 0 /\ failures = 0 /\ crashes = 0

StartStep == Start \/ CreateFile \/ FillFile \/ \E k \in Secrets : LoadSecret(k)
UpdateStep(a) == (\E k \in Secrets : Sync(a, k)) \/ Persist(a) \/ Install(a)

Next ==
    \/ Start \/ CreateFile \/ FillFile
    \/ \E k \in Secrets : LoadSecret(k)
    \/ \E s \in Savers :
          \/ \E r \in SaveRequests : Save(s, r)
          \/ \E r \in DetectRequests : Detect(s, r)
    \/ \E a \in Actors :
          \/ Begin(a) \/ Persist(a) \/ Install(a) \/ Fail(a)
          \/ \E k \in Secrets : Sync(a, k)
    \/ Crash

Spec == Init /\ [][Next]_vars

(* The service manager starts the server again; goroutines run; a mutex of *)
(* Go is given to the one that has waited for too long.                    *)
FairSpec ==
    /\ Spec
    /\ WF_vars(StartStep)
    /\ \A a \in Actors : WF_vars(UpdateStep(a)) /\ SF_vars(Begin(a))

-----------------------------------------------------------------------------
(* Properties *)

(* The configuration that a restart would work with. *)
Reloaded ==
    [f \in Fields |-> IF f \in Secrets /\ stored[f] # Empty THEN stored[f]
                      ELSE Normalised(file.is)[f]]

(* No update is in progress. *)
Quiet == phase = "running" /\ writer = NoOne

(* Whenever the lock is free, a restart brings back the settings that the  *)
(* server works with, whatever failed and wherever the process was cut off *)
(* before: those in the file as applyDefaults leaves them, that is, each   *)
(* value it accepts, and the default for any other; each secret that has a *)
(* value, as long as no update failed half-way.                            *)
RestartRestores ==
    Quiet =>
        /\ \A f \in Public : Reloaded[f] = Normalised(mem)[f]
        /\ failures = 0 => \A k \in Secrets : mem[k] # Empty => Reloaded[k] = mem[k]

(* Start-up, with its migration from an old file, never changes the value  *)
(* a secret is found to have, even when it is interrupted and repeated.    *)
Durable(k) == IF stored[k] # Empty THEN stored[k] ELSE file.is[k]
StartKeepsSecrets == [][phase # "running" => \A k \in Secrets : Durable(k)' = Durable(k)]_vars

(* Two requests at a time do not undo each other: a field that a request   *)
(* does not name keeps the value that others have given it meanwhile.      *)
(* (Registration is not among them: a save puts back what it has read.)    *)
UnnamedUnchanged ==
    [][\A s \in Savers, f \in Fields \ {Registration} :
          Install(s) /\ actor[s].req[f] = Keep => mem'[f] = mem[f]]_vars

(* What a request may ask Update for: a save that names no registration    *)
(* asks for the one it has read.                                           *)
Changes ==
    DetectRequests \cup {r \in SaveRequests : r[Registration] # Keep}
    \cup {[r EXCEPT ![Registration] = v] :
             r \in {q \in SaveRequests : q[Registration] = Keep}, v \in Values \cup {Empty}}

(* The configuration that readers will find: a request that has renamed    *)
(* the file has taken effect, because nobody reads before the lock is free.*)
Shown ==
    IF phase # "running" THEN Nothing
    ELSE IF writer # NoOne /\ actor[writer].pc = "install" THEN actor[writer].cand ELSE mem

(* Requests that overlap, fail or are cut off, starts that are repeated:   *)
(* the configuration changes as if each request took effect in one step,   *)
(* the rename of the file, or in none (ConfigStore); config.go:261-283.    *)
Store == INSTANCE ConfigStore WITH
    serving <- phase = "running", shown <- Shown, kept <- Reloaded
ActsAtOnce == Store!StoreSpec

(* Every request is answered, whichever of its steps fails. *)
SavesEnd == \A s \in Savers : actor[s].pc # "idle" ~> actor[s].pc = "idle"

(* The server comes up again, unless its first start was cut off between   *)
(* creating the file and writing it.                                       *)
ComesUp == phase = "down" ~> (phase = "running" \/ file.state = "torn")

-----------------------------------------------------------------------------
(* The inductive invariant *)

(* Who holds the lock, and who may be active. *)
LockInv ==
    /\ \A a \in Actors : writer = a <=> actor[a].pc \in {"sync", "install"}
    /\ actor[Boot].pc # "idle" <=> phase = "loading"
    /\ phase # "running" => \A s \in Savers : actor[s].pc = "idle"
    /\ \A s \in Savers : actor[s].pc # "load"

(* What an update has achieved so far. *)
UpdateInv ==
    \A a \in Actors :
        /\ actor[a].pc \in {"sync", "install"} =>
              \A k \in Secrets \ actor[a].todo :
                  actor[a].cand[k] # Empty => stored[k] = actor[a].cand[k]
        /\ actor[a].pc = "install" => actor[a].todo = {} /\ file = Saved(actor[a].cand)

(* What the file and the table are to the memory of a running server. *)
DiskInv ==
    phase = "running" =>
        /\ \A k \in Secrets : file.is[k] = Empty
        /\ file.state = "whole"
        /\ \A f \in Public : file.is[f] = mem[f]
              \/ \E s \in Savers : actor[s].pc = "install"
        /\ failures = 0 => \A k \in Secrets :
              \/ mem[k] \in {Empty, stored[k]}
              \/ \E s \in Savers : actor[s].pc \in {"sync", "install"} /\ k \notin actor[s].todo

(* Behind RestartRestores. *)
CoreInv == TypeOK /\ LockInv /\ UpdateInv /\ DiskInv

(* How far a start has come: what it has loaded is in the table, so that   *)
(* the file may lose it.                                                   *)
MigrationInv ==
    /\ phase = "creating" => file.state = "torn"
    /\ file.state # "whole" => file.is = Nothing
    /\ phase = "loading" =>
        /\ actor[Boot].pc # "install" => \A k \in Secrets : mem[k] = file.is[k]
        /\ \A k \in Secrets : (actor[Boot].pc = "load" => k \notin actor[Boot].todo)
              => stored[k] = actor[Boot].req[k] /\ stored[k] = Durable(k)
        /\ actor[Boot].pc \in {"sync", "install"} =>
              \A k \in Secrets : actor[Boot].cand[k] = stored[k]

(* What requests ask for, and that nobody changes the memory under one     *)
(* that holds the lock; a start asks for secrets only, on top of the file. *)
RequestInv ==
    /\ \A s \in Savers : actor[s].pc # "idle" => actor[s].req \in Changes
    /\ \A a \in Actors : actor[a].pc \in {"sync", "install"} =>
          actor[a].cand = Applied(a, mem)
    /\ phase = "loading" => \A f \in Public :
          mem[f] = Normalised(file.is)[f] /\ actor[Boot].req[f] = Keep

(* The inductive invariant of the proofs. *)
IInv == CoreInv /\ MigrationInv /\ RequestInv
=============================================================================
