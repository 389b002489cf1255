---------------------------- MODULE DataSources ----------------------------
(***************************************************************************)
(* Data sources and sync jobs: create_data_source, test_data_source,       *)
(* discover_schema and create_sync_job of IngestionApplicationService.     *)
(* Each reads the source in one transaction, calls the connector, which    *)
(* may take seconds, and saves the whole object in another one.  The save  *)
(* is a SELECT without a lock and an UPDATE of the columns that differ.    *)
(***************************************************************************)

CONSTANTS Sources,  \* ids of data sources
          Jobs,     \* ids of sync jobs
          Calls,    \* threads that serve requests
          Schemas,  \* what discovery may find
          None      \* no schema, no source

ASSUME NoneAssumption == None \notin Schemas /\ None \notin Sources

VARIABLES sources,  \* data_sources
          jobs,     \* the data source of each row of sync_jobs
          call      \* the state of each call

vars == <<sources, jobs, call>>

\* Nothing activates, pauses or archives a source.
Source == [status : {"ABSENT", "DRAFT", "TESTED"}, schema : Schemas \union {None}]

Absent == [status |-> "ABSENT", schema |-> None]

Call == [pc : {"idle", "test", "discover", "job", "load", "update"},
         source : Sources \union {None}, copy : Source, loaded : Source]

Idle == [pc |-> "idle", source |-> None, copy |-> Absent, loaded |-> Absent]

TypeOK ==
    /\ sources \in [Sources -> Source]
    /\ jobs \in [Jobs -> Sources \union {None}]
    /\ call \in [Calls -> Call]

Init ==
    /\ sources = [s \in Sources |-> Absent]
    /\ jobs = [j \in Jobs |-> None]
    /\ call = [c \in Calls |-> Idle]

------------------------------------------------------------------------------
(* Requests *)

\* A new id, one insert.  Arguments that are refused are no step.
CreateDataSource(s) ==
    /\ sources[s] = Absent
    /\ sources' = [sources EXCEPT ![s].status = "DRAFT"]
    /\ UNCHANGED <<jobs, call>>

\* get_data_source of a call that goes on to do op; a missing source is refused.
ReadSource(c, s, op) ==
    /\ call[c] = Idle
    /\ sources[s] # Absent
    /\ call' = [call EXCEPT ![c] = [Idle EXCEPT !.pc = op, !.source = s, !.copy = sources[s]]]
    /\ UNCHANGED <<sources, jobs>>

\* Mutant: the condition on the next status is the wrong way round.
MarkActive(source) == [source EXCEPT !.status = "ACTIVE"]

MarkTested(source) == [source EXCEPT !.status = "TESTED"]

\* The connection test succeeds.
TestDataSource(c) ==
    /\ call[c].pc = "test"
    /\ call' = [call EXCEPT ![c].pc = "load", ![c].copy = MarkTested(@)]
    /\ UNCHANGED <<sources, jobs>>

\* Mutant: discovery does not ask for a test.
AnySource(source) == TRUE

MayDiscover(source) == source.status = "TESTED"

WithSchema(source, objects) == [source EXCEPT !.schema = objects]

\* The connector returns a schema; a source that was not tested is refused then.
DiscoverSchema(c) ==
    /\ call[c].pc = "discover"
    /\ MayDiscover(call[c].copy)
    /\ \E schema \in Schemas :
          call' = [call EXCEPT ![c].pc = "load", ![c].copy = WithSchema(@, schema)]
    /\ UNCHANGED <<sources, jobs>>

\* save_data_source reads the row ...
LoadSource(c) ==
    /\ call[c].pc = "load"
    /\ call' = [call EXCEPT ![c].pc = "update", ![c].loaded = sources[call[c].source]]
    /\ UNCHANGED <<sources, jobs>>

\* ... and updates the columns that differ from what it read.
Flush(row, loaded, copy) ==
    [row EXCEPT !.status = IF copy.status # loaded.status THEN copy.status ELSE @,
                !.schema = IF copy.schema # loaded.schema THEN copy.schema ELSE @]

UpdateSource(c) ==
    /\ call[c].pc = "update"
    /\ sources' = [sources EXCEPT ![call[c].source] = Flush(@, call[c].loaded, call[c].copy)]
    /\ call' = [call EXCEPT ![c] = Idle]
    /\ UNCHANGED jobs

\* Mutant: a job may be created for any source.
CreateJobUnchecked(c, j) ==
    /\ call[c].pc = "job"
    /\ jobs[j] = None
    /\ jobs' = [jobs EXCEPT ![j] = call[c].source]
    /\ call' = [call EXCEPT ![c] = Idle]
    /\ UNCHANGED sources

\* The check on the source that was read, then one insert.
CreateSyncJob(c, j) ==
    /\ call[c].pc = "job"
    /\ call[c].copy.status = "TESTED"
    /\ jobs[j] = None
    /\ jobs' = [jobs EXCEPT ![j] = call[c].source]
    /\ call' = [call EXCEPT ![c] = Idle]
    /\ UNCHANGED sources

\* The connector or the database fails, the state is refused, or the server
\* dies: nothing was written.
Abort(c) ==
    /\ call[c] # Idle
    /\ call' = [call EXCEPT ![c] = Idle]
    /\ UNCHANGED <<sources, jobs>>

Next ==
    \/ \E s \in Sources : CreateDataSource(s)
    \/ \E c \in Calls :
          \/ \E s \in Sources, op \in {"test", "discover", "job"} : ReadSource(c, s, op)
          \/ TestDataSource(c) \/ DiscoverSchema(c) \/ LoadSource(c) \/ UpdateSource(c)
          \/ \E j \in Jobs : CreateSyncJob(c, j)
          \/ Abort(c)

Spec == Init /\ [][Next]_vars

------------------------------------------------------------------------------
(* Properties *)

\* The source of every job is a tested one and stays tested, although calls of
\* test and discover write back what they read before.
JobsBindTested == \A j \in Jobs : jobs[j] # None => sources[jobs[j]].status = "TESTED"

\* A source with a discovered schema has been tested, also when a discovery that
\* read it before the test is the last to save.
DiscoveryFollowsTest ==
    \A s \in Sources : sources[s].schema # None => sources[s].status = "TESTED"
=============================================================================
