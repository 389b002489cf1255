------------------------------ MODULE Ingestion ------------------------------
(***************************************************************************)
(* Ingestion runs of one tenant: IngestionService over the SQL repository  *)
(* and committer.  Every API call is a process that executes the service   *)
(* method one database transaction at a time; between two transactions     *)
(* other calls run, and a call may die at any point (its open transaction  *)
(* is rolled back).  A call keeps the IngestionRun object it read at the   *)
(* start (copy), which is stale from then on.                              *)
(*                                                                         *)
(* Row locks are not variables: a call holds the FOR UPDATE lock of a row  *)
(* exactly while its program counter is inside commit_success, so the lock *)
(* holders are read off the program counters.                              *)
(***************************************************************************)
EXTENDS Integers, Sequences, FiniteSets

CONSTANTS Calls,       \* API calls that may be in progress at once
          Runs,        \* identifiers of ingestion runs (bounds the runs created)
          Jobs,        \* sync jobs; all are ACTIVE, no operation changes that
          Keys,        \* values of the Idempotency-Key header
          Datasets,    \* logical dataset names
          Hashes,      \* result hashes a worker may report
          Target,      \* the dataset each job writes (target_dataset_name)
          Operations,  \* the API operations the clients use
          None         \* NULL

ASSUME TargetAssumption == Target \in [Jobs -> Datasets]
ASSUME NoneAssumption == None \notin Runs \union Jobs \union Keys \union Hashes

VARIABLES runs,        \* ingestion_runs: the row of each run, NoRun if absent
          versions,    \* dataset_versions: the set of rows
          datasets,    \* datasets: active version number and row version
          outbox,      \* domain_outbox rows in commit order
          call         \* the state of each API call in progress

db == <<runs, versions, datasets, outbox>>
vars == <<runs, versions, datasets, outbox, call>>

------------------------------------------------------------------------------
(* Rows and objects *)

RunStatus == {"QUEUED", "RUNNING", "SUCCEEDED", "FAILED", "QUARANTINED",
              "CANCEL_REQUESTED", "CANCELLED"}

Run == [job : Jobs, key : Keys, status : RunStatus,
        hash : Hashes \union {None}, version : Nat]

\* The absent row.  A version of 0 in a row is a NULL dataset_version_id.
NoRun == [job |-> None, key |-> None, status |-> "ABSENT",
          hash |-> None, version |-> 0]

\* Mutant: a run is stored with a status the enumeration does not have.
UnknownStatusRun(j, k) == [job |-> j, key |-> k, status |-> "STARTED",
                           hash |-> None, version |-> 0]

NewRun(j, k) == [job |-> j, key |-> k, status |-> "RUNNING",
                 hash |-> None, version |-> 0]

Version == [dataset : Datasets, number : Nat \ {0}, run : Runs, hash : Hashes]

\* active = 0: there is no row of that logical name.
Dataset == [active : Nat, version : Nat]
NoDataset == [active |-> 0, version |-> 0]

Event == [type : {"DatasetVersionReady"}, dataset : Datasets, number : Nat \ {0},
          run : Runs, hash : Hashes]
           \union [type : {"IngestionRunQuarantined"}, run : Runs]

Ready(v) == [type |-> "DatasetVersionReady", dataset |-> v.dataset,
             number |-> v.number, run |-> v.run, hash |-> v.hash]
Quarantined(r) == [type |-> "IngestionRunQuarantined", run |-> r]

(* The state of a call: where it is (the next transaction step), the run it is
   about, the IngestionRun object it holds, the row save_run loaded, the
   callback's hash and quality verdict, and the version number it was given. *)
Idle == [pc |-> "idle", run |-> None, copy |-> NoRun, loaded |-> NoRun,
         hash |-> None, pass |-> FALSE, number |-> 0]

NewRunCall == [pc : {"find", "insert"}, run : Runs, copy : Run, loaded : {NoRun},
               hash : {None}, pass : {FALSE}, number : {0}]
SaveCall == [pc : {"select", "update"}, run : Runs, copy : Run,
             loaded : Run \union {NoRun}, hash : {None}, pass : {FALSE}, number : {0}]
CallbackCall == [pc : {"lockRun", "lockDataset", "insertDataset", "nextNumber"},
                 run : Runs, copy : Run, loaded : {NoRun},
                 hash : Hashes, pass : BOOLEAN, number : {0}]
CommitCall == [pc : {"commit"}, run : Runs, copy : Run, loaded : {NoRun},
               hash : Hashes, pass : BOOLEAN, number : Nat \ {0}]
Call == {Idle} \union NewRunCall \union SaveCall \union CallbackCall \union CommitCall

TypeOK ==
    /\ runs \in [Runs -> Run \union {NoRun}]
    /\ versions \subseteq Version
    /\ datasets \in [Datasets -> Dataset]
    /\ outbox \in Seq(Event)
    /\ call \in [Calls -> Call]

Init ==
    /\ runs = [r \in Runs |-> NoRun]
    /\ versions = {}
    /\ datasets = [d \in Datasets |-> NoDataset]
    /\ outbox = <<>>
    /\ call = [c \in Calls |-> Idle]

------------------------------------------------------------------------------
(* Constraints, locks and control of a call *)

\* A committed row that find_run_by_idempotency_key finds and that
\* uq_run_idempotency protects.
KeyTaken(j, k) == \E r \in Runs : runs[r].job = j /\ runs[r].key = k

Unused(r) == runs[r] = NoRun /\ \A c \in Calls : call[c].run # r

\* The dataset the call commits to.
Goal(c) == Target[call[c].copy.job]

HoldsRun(c, r) ==
    /\ call[c].run = r
    /\ call[c].pc \in {"lockDataset", "insertDataset", "nextNumber", "commit"}

\* Mutant: the row is claimed before the insert, so two inserters wait for
\* each other.
HoldsDatasetEarly(c, d) ==
    call[c].pc \in {"insertDataset", "nextNumber", "commit"} /\ Goal(c) = d

\* Holds the row, or the unique-index entry of a row not committed yet.
HoldsDataset(c, d) == call[c].pc \in {"nextNumber", "commit"} /\ Goal(c) = d

RunLocked(r) == \E c \in Calls : HoldsRun(c, r)

\* A transaction does not wait for itself.
DatasetLocked(c, d) == \E b \in Calls \ {c} : HoldsDataset(b, d)

Begin(c, op) == op \in Operations /\ call[c] = Idle
Goto(c, pc) == call' = [call EXCEPT ![c].pc = pc]
Return(c) == call' = [call EXCEPT ![c] = Idle]

------------------------------------------------------------------------------
(* start_run and retry_run *)

\* An existing run for the key is returned as it is: no step.
StartRun(c, j, k, r) ==
    /\ Begin(c, "start")
    /\ ~KeyTaken(j, k)
    /\ Unused(r)
    /\ call' = [call EXCEPT ![c] =
                  [Idle EXCEPT !.pc = "insert", !.run = r, !.copy = NewRun(j, k)]]
    /\ UNCHANGED db

\* r is the identifier drawn for the new run.
RetryRun(c, previous, k, r) ==
    /\ Begin(c, "retry")
    /\ runs[previous].status \in {"FAILED", "QUARANTINED"}
    /\ Unused(r)
    /\ call' = [call EXCEPT ![c] =
                  [Idle EXCEPT !.pc = "find", !.run = r,
                               !.copy = NewRun(runs[previous].job, k)]]
    /\ UNCHANGED db

FindRun(c) ==
    /\ call[c].pc = "find"
    /\ IF KeyTaken(call[c].copy.job, call[c].copy.key)
       THEN Return(c)
       ELSE Goto(c, "insert")
    /\ UNCHANGED db

\* Mutant: there is no unique constraint on (job, idempotency key).
InsertUnchecked(c) ==
    /\ call[c].pc = "insert"
    /\ runs' = [runs EXCEPT ![call[c].run] = call[c].copy]
    /\ Return(c)
    /\ UNCHANGED <<versions, datasets, outbox>>

\* save_run of a new run: one INSERT, refused by uq_run_idempotency.
InsertRun(c) ==
    /\ call[c].pc = "insert"
    /\ runs' = IF KeyTaken(call[c].copy.job, call[c].copy.key)
               THEN runs
               ELSE [runs EXCEPT ![call[c].run] = call[c].copy]
    /\ Return(c)
    /\ UNCHANGED <<versions, datasets, outbox>>

------------------------------------------------------------------------------
(* cancel_run and fail_run: read, transition, save_run *)

Transition(c, op, r, from, to) ==
    /\ Begin(c, op)
    /\ runs[r].status \in from
    /\ call' = [call EXCEPT ![c] =
                  [Idle EXCEPT !.pc = "select", !.run = r,
                               !.copy = [runs[r] EXCEPT !.status = to]]]
    /\ UNCHANGED db

CancelRun(c, r) ==
    Transition(c, "cancel", r, {"QUEUED", "RUNNING"}, "CANCEL_REQUESTED")

FailRun(c, r) == Transition(c, "fail", r, {"RUNNING"}, "FAILED")

\* save_run of an existing run reads the row without a lock ...
SelectRun(c) ==
    /\ call[c].pc = "select"
    /\ call' = [call EXCEPT ![c].pc = "update", ![c].loaded = runs[call[c].run]]
    /\ UNCHANGED db

\* Mutant: dataset_version_id is not written back.
FlushWithoutVersion(row, loaded, copy) ==
    [row EXCEPT
       !.status = IF copy.status # loaded.status THEN copy.status ELSE @,
       !.hash = IF copy.hash # loaded.hash THEN copy.hash ELSE @]

\* ... and then updates the columns that differ from what it read.
Flush(row, loaded, copy) ==
    [row EXCEPT
       !.status = IF copy.status # loaded.status THEN copy.status ELSE @,
       !.hash = IF copy.hash # loaded.hash THEN copy.hash ELSE @,
       !.version = IF copy.version # loaded.version THEN copy.version ELSE @]

UpdateRun(c) ==
    LET r == call[c].run IN
    /\ call[c].pc = "update"
    /\ ~RunLocked(r)
    /\ runs' = [runs EXCEPT ![r] = Flush(@, call[c].loaded, call[c].copy)]
    /\ Return(c)
    /\ UNCHANGED <<versions, datasets, outbox>>

------------------------------------------------------------------------------
(* complete_run and commit_success *)

\* A payload that contradicts its manifest is refused without a step.
CompleteRun(c, r, h, pass) ==
    /\ Begin(c, "complete")
    /\ runs[r] # NoRun
    /\ ~(runs[r].status = "SUCCEEDED" /\ runs[r].hash = h)
    /\ call' = [call EXCEPT ![c] =
                  [Idle EXCEPT !.pc = "lockRun", !.run = r, !.copy = runs[r],
                               !.hash = h, !.pass = pass]]
    /\ UNCHANGED db

\* Mutant: the status is checked on the run read before the lock.
SucceededWhenRead(c) == call[c].copy.status = "SUCCEEDED"

\* The locked row says that an earlier callback committed.
AlreadySucceeded(c) == runs[call[c].run].status = "SUCCEEDED"

\* Mutant: events are put before the older ones.
EmitFirst(e) == outbox' = <<e>> \o outbox

Emit(e) == outbox' = Append(outbox, e)

\* SELECT the run FOR UPDATE.  A run that succeeded ends the call, with its
\* result or with ConflictError.  A failed quality gate is recorded, if the
\* run was RUNNING when the call read it, and committed at once.
LockRun(c) ==
    LET r == call[c].run IN
    /\ call[c].pc = "lockRun"
    /\ ~RunLocked(r)
    /\ UNCHANGED <<versions, datasets>>
    /\ \/ /\ AlreadySucceeded(c)
          /\ Return(c)
          /\ UNCHANGED <<runs, outbox>>
       \/ /\ ~AlreadySucceeded(c)
          /\ ~call[c].pass
          /\ IF call[c].copy.status = "RUNNING"
             THEN /\ runs' = [runs EXCEPT ![r].status = "QUARANTINED"]
                  /\ Emit(Quarantined(r))
             ELSE UNCHANGED <<runs, outbox>>
          /\ Return(c)
       \/ /\ ~AlreadySucceeded(c)
          /\ call[c].pass
          /\ Goto(c, "lockDataset")
          /\ UNCHANGED <<runs, outbox>>

\* SELECT the dataset FOR UPDATE.  A row another call inserted and has not
\* committed is invisible.
LockDataset(c) ==
    /\ call[c].pc = "lockDataset"
    /\ IF datasets[Goal(c)] = NoDataset
       THEN Goto(c, "insertDataset")
       ELSE ~DatasetLocked(c, Goal(c)) /\ Goto(c, "nextNumber")
    /\ UNCHANGED db

\* INSERT the dataset and flush: waits for an uncommitted row of that name
\* and is refused by uq_dataset_logical_name if that row is committed.
InsertDataset(c) ==
    /\ call[c].pc = "insertDataset"
    /\ ~DatasetLocked(c, Goal(c))
    /\ IF datasets[Goal(c)] = NoDataset
       THEN call' = [call EXCEPT ![c].pc = "commit", ![c].number = 1]
       ELSE Return(c)
    /\ UNCHANGED db

Numbers(d) == {v.number : v \in {w \in versions : w.dataset = d}}

IsMaxNumber(d, n) ==
    IF Numbers(d) = {} THEN n = 0
    ELSE n \in Numbers(d) /\ \A m \in Numbers(d) : m <= n

\* Mutant: the next number is taken from the row version of the dataset.
NumberFromRowVersion(c) ==
    /\ call[c].pc = "nextNumber"
    /\ call' = [call EXCEPT ![c].pc = "commit",
                            ![c].number = datasets[Goal(c)].version + 1]
    /\ UNCHANGED db

NextNumber(c) ==
    /\ call[c].pc = "nextNumber"
    /\ \E n \in Numbers(Goal(c)) \union {0} :
         /\ IsMaxNumber(Goal(c), n)
         /\ call' = [call EXCEPT ![c].pc = "commit", ![c].number = n + 1]
    /\ UNCHANGED db

NewVersion(c) == [dataset |-> Goal(c), number |-> call[c].number,
                  run |-> call[c].run, hash |-> call[c].hash]

\* Mutant: the status of the run the call read is not checked.
RefusedNumber(c) == call[c].number \in Numbers(Goal(c))

\* What makes the transaction roll back at its end: the run the call read was
\* not RUNNING, or uq_dataset_version refuses the number.
Refused(c) ==
    \/ call[c].copy.status # "RUNNING"
    \/ call[c].number \in Numbers(Goal(c))

\* Mutant: the pointer moves only when the dataset is created.
ActivateFirst(row, n) ==
    [active |-> IF row = NoDataset THEN n ELSE row.active,
     version |-> (IF row = NoDataset THEN 1 ELSE row.version) + 1]

\* The dataset row, new (row version 1) or locked, points at version n.
Activate(row, n) ==
    [active |-> n, version |-> (IF row = NoDataset THEN 1 ELSE row.version) + 1]

\* The transaction commits: version and serving rows, active pointer, run,
\* outbox.
CommitSuccess(c) ==
    LET v == NewVersion(c) IN
    /\ call[c].pc = "commit"
    /\ ~Refused(c)
    /\ versions' = versions \union {v}
    /\ datasets' = [datasets EXCEPT ![v.dataset] = Activate(@, v.number)]
    /\ runs' = [runs EXCEPT ![v.run].status = "SUCCEEDED", ![v.run].hash = v.hash,
                            ![v.run].version = v.number]
    /\ Emit(Ready(v))
    /\ Return(c)

RollbackCommit(c) ==
    /\ call[c].pc = "commit"
    /\ Refused(c)
    /\ Return(c)
    /\ UNCHANGED db

------------------------------------------------------------------------------

\* The process or its connection dies: PostgreSQL rolls back and unlocks.
Crash(c) ==
    /\ call[c] # Idle
    /\ Return(c)
    /\ UNCHANGED db

Request(c) ==
    \/ \E j \in Jobs, k \in Keys, r \in Runs : StartRun(c, j, k, r)
    \/ \E p \in Runs, k \in Keys, r \in Runs : RetryRun(c, p, k, r)
    \/ \E r \in Runs : CancelRun(c, r)
    \/ \E r \in Runs : FailRun(c, r)
    \/ \E r \in Runs, h \in Hashes, pass \in BOOLEAN : CompleteRun(c, r, h, pass)

Step(c) ==
    \/ FindRun(c)
    \/ InsertRun(c)
    \/ SelectRun(c)
    \/ UpdateRun(c)
    \/ LockRun(c)
    \/ LockDataset(c)
    \/ InsertDataset(c)
    \/ NextNumber(c)
    \/ CommitSuccess(c)
    \/ RollbackCommit(c)

Next == \E c \in Calls : Request(c) \/ Step(c) \/ Crash(c)

Spec == Init /\ [][Next]_vars

\* Server threads keep running and PostgreSQL queues the waiters of a row, so
\* a call whose next transaction step is possible again and again takes it.
\* Clients owe no requests and nothing has to crash.
FairSpec == Spec /\ \A c \in Calls : SF_vars(Step(c))
------------------------------------------------------------------------------
(* Properties *)

\* The versions of a dataset are numbered 1..n without gap or duplicate, the
\* active one is the last, and the row version of the dataset counts the
\* commits, whatever callbacks, retries and crashes interleave with the
\* read of max(version_number) in commit_success.
VersionNumbering ==
    /\ \A d \in Datasets :
         /\ Numbers(d) = 1..datasets[d].active
         /\ datasets[d].version =
              IF datasets[d].active = 0 THEN 0 ELSE datasets[d].active + 1
    /\ \A v, w \in versions :
         v.dataset = w.dataset /\ v.number = w.number => v = w

\* Every published version has a DatasetVersionReady event in the outbox,
\* every such event names a published version, and the events of a dataset
\* were committed in version order, which the relay's order relies on.
EventsMatchVersions ==
    /\ \A v \in versions : \E i \in DOMAIN outbox : outbox[i] = Ready(v)
    /\ \A i \in DOMAIN outbox :
         outbox[i].type = "DatasetVersionReady" => \E v \in versions : outbox[i] = Ready(v)
    /\ \A i, j \in DOMAIN outbox :
         /\ i < j
         /\ outbox[i].type = "DatasetVersionReady"
         /\ outbox[j].type = "DatasetVersionReady"
         /\ outbox[i].dataset = outbox[j].dataset
         => outbox[i].number < outbox[j].number

\* start_run and retry_run look a key up and insert later, in another
\* transaction; still no two runs of a job share an idempotency key.
OneRunPerKey ==
    \A r, s \in Runs :
        /\ runs[r] # NoRun
        /\ runs[r].job = runs[s].job
        /\ runs[r].key = runs[s].key
        => r = s

\* The result a run row records is a version that this run published, in the
\* dataset of its job, with that content: save_run, commit_success and their
\* partial updates never mix the results of two commits.
ResultIsAVersion ==
    \A r \in Runs :
        runs[r].hash # None \/ runs[r].version # 0 =>
            \E v \in versions : /\ v.run = r
                                /\ v.dataset = Target[runs[r].job]
                                /\ v.number = runs[r].version
                                /\ v.hash = runs[r].hash

\* A run publishes at most one dataset version, however often and with
\* whatever hashes its callback is repeated.  Holds for callbacks and retries;
\* the stale saves of cancel_run and fail_run break it.
OneVersionPerRun == \A v, w \in versions : v.run = w.run => v = w

VersionsOf(r) == {v \in versions : v.run = r}

\* save_run of the run as cancel_run or fail_run read it before it succeeded.
SavesStale(c, r) == call[c].pc = "update" /\ call[c].run = r /\ call'[c] = Idle

\* While a run is SUCCEEDED no callback, whenever it read the run, publishes a
\* version for it, and its row changes in one way only: a cancel_run or
\* fail_run that read the run before it succeeded saves what it read.
OnlyStaleSavesUndo ==
    [][\A r \in Runs :
         runs[r].status = "SUCCEEDED" =>
            /\ VersionsOf(r)' = VersionsOf(r)
            /\ runs'[r] = runs[r] \/ \E c \in Calls : SavesStale(c, r)]_vars

\* A call that read the run when it was still RUNNING (or QUEUED, for a cancel).
ReadAsRunning(c, r) ==
    call[c].run = r /\ (call[c].pc = "update" \/ call[c].copy.status = "RUNNING")

\* A run that is cancelling, failed or quarantined is changed only by the last
\* step of a call that read it before: a call that reads it afterwards never
\* moves it on, so a requested cancel never ends in any other way.
StoppedRunsStay ==
    [][\A r \in Runs :
         runs[r].status \in {"CANCEL_REQUESTED", "FAILED", "QUARANTINED", "CANCELLED"} =>
            runs'[r] = runs[r] \/ \E c \in Calls : ReadAsRunning(c, r) /\ call'[c] = Idle]_vars

WaitsForRun(c, r) == call[c].pc \in {"update", "lockRun"} /\ call[c].run = r

\* The insert of a dataset waits for the transaction that inserted it first.
WaitsForDataset(c, d) ==
    /\ call[c].pc = "insertDataset" \/ (call[c].pc = "lockDataset" /\ datasets[d] # NoDataset)
    /\ Goal(c) = d

WaitsFor(c, b) ==
    /\ c # b
    /\ \/ \E r \in Runs : WaitsForRun(c, r) /\ HoldsRun(b, r)
       \/ \E d \in Datasets : WaitsForDataset(c, d) /\ HoldsDataset(b, d)

\* No calls wait for each other in a circle, so PostgreSQL never has to break a
\* deadlock: of any calls at least one does not wait for any of them.
\* commit_success locks the run before the dataset and inserts the dataset's row
\* after it has looked for it; save_run locks one row.
WaitsAreAcyclic ==
    \A S \in (SUBSET Calls) \ {{}} : \E c \in S : \A b \in S : ~WaitsFor(c, b)

\* Every call comes back: the row locks of commit_success and save_run never
\* block each other for good.
EveryCallReturns == \A c \in Calls : call[c] # Idle ~> call[c] = Idle

------------------------------------------------------------------------------
(* The catalog that readers and event consumers see *)

VersionAt(d, n) == CHOOSE v \in versions : v.dataset = d /\ v.number = n

Catalog == INSTANCE DatasetCatalog WITH
    Entries <- [run : Runs, hash : Hashes],
    log <- [d \in Datasets |-> [n \in 1..datasets[d].active |->
              [run |-> VersionAt(d, n).run, hash |-> VersionAt(d, n).hash]]],
    active <- [d \in Datasets |-> datasets[d].active],
    announced <- {<<outbox[i].dataset, outbox[i].number>> :
                    i \in {j \in DOMAIN outbox : outbox[j].type = "DatasetVersionReady"}}

\* The committed tables implement the abstract catalog: each step publishes one
\* version, moves the active pointer to it and announces it, or changes nothing
\* readers can see.
ImplementsCatalog == Catalog!CatalogSpec
=============================================================================
