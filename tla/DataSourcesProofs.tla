------------------------- MODULE DataSourcesProofs --------------------------
(***************************************************************************)
(* Proofs about DataSources, for any sources, jobs, calls and schemas.     *)
(* TESTED is never undone, because whatever is saved was TESTED when its   *)
(* call got that far: CallInv.                                             *)
(***************************************************************************)
EXTENDS DataSources, TLAPS

Tested(s) == sources[s].status = "TESTED"

CallInv(c) ==
    LET k == call[c] IN
    /\ k.pc # "idle" => k.source \in Sources
    /\ k.pc \in {"discover", "job"} /\ k.copy.status = "TESTED" => Tested(k.source)
    /\ k.pc \in {"load", "update"} => k.copy.status = "TESTED"
    /\ k.pc = "update" /\ k.loaded.status = "TESTED" => Tested(k.source)

Inv == TypeOK /\ JobsBindTested /\ DiscoveryFollowsTest /\ \A c \in Calls : CallInv(c)

\* There are no sources, jobs and calls initially.
LEMMA InitInv == Init => Inv
  BY NoneAssumption
  DEF Init, Inv, TypeOK, Source, Absent, Call, Idle, JobsBindTested, DiscoveryFollowsTest, CallInv

\* A step that writes no source and moves one call.
LEMMA OneCallMoves ==
    ASSUME Inv, NEW c \in Calls, NEW k \in Call, call' = [call EXCEPT ![c] = k],
           UNCHANGED <<sources, jobs>>, CallInv(c)'
    PROVE  Inv'
  <1>1. TypeOK' /\ JobsBindTested' /\ DiscoveryFollowsTest'
    BY DEF Inv, TypeOK, JobsBindTested, DiscoveryFollowsTest
  <1>2. ASSUME NEW d \in Calls, d # c PROVE CallInv(d)'
    BY <1>2 DEF Inv, TypeOK, CallInv, Tested
  <1>3. QED BY <1>1, <1>2 DEF Inv

\* What a save leaves in the row is a tested source.
LEMMA FlushIsTested ==
    ASSUME NEW row \in Source, NEW loaded \in Source, NEW copy \in Source, copy.status = "TESTED",
           loaded.status = "TESTED" => row.status = "TESTED"
    PROVE  Flush(row, loaded, copy) \in Source /\ Flush(row, loaded, copy).status = "TESTED"
  BY DEF Flush, Source

\* A save keeps the invariant: its row is TESTED afterwards.
LEMMA UpdateInv ==
    ASSUME Inv, NEW c \in Calls, UpdateSource(c)
    PROVE  Inv'
  <1> DEFINE s == call[c].source
             row == Flush(sources[s], call[c].loaded, call[c].copy)
  <1>1. /\ s \in Sources /\ sources[s] \in Source /\ call[c].loaded \in Source
        /\ call[c].copy \in Source /\ call[c].copy.status = "TESTED"
        /\ call[c].loaded.status = "TESTED" => sources[s].status = "TESTED"
    BY DEF Inv, TypeOK, Call, CallInv, Tested, UpdateSource
  <1>2. row \in Source /\ row.status = "TESTED"
    BY <1>1, FlushIsTested
  <1> HIDE DEF row
  <1>3. sources' = [sources EXCEPT ![s] = row] /\ call' = [call EXCEPT ![c] = Idle] /\ jobs' = jobs
    BY DEF UpdateSource, row
  <1>4. Idle \in Call
    BY DEF Idle, Call, Absent, Source
  <1>5. TypeOK'
    BY <1>1, <1>2, <1>3, <1>4 DEF Inv, TypeOK
  <1>6. \A r \in Sources : Tested(r) => Tested(r)'
    BY <1>1, <1>2, <1>3 DEF Inv, TypeOK, Tested
  <1>7. JobsBindTested'
    BY <1>3, <1>6 DEF Inv, TypeOK, JobsBindTested, Tested
  <1>8. DiscoveryFollowsTest'
    BY <1>1, <1>2, <1>3 DEF Inv, TypeOK, DiscoveryFollowsTest
  <1>9. ASSUME NEW d \in Calls PROVE CallInv(d)'
    <2>1. CASE d = c
      BY <1>3, <2>1 DEF Inv, TypeOK, CallInv, Idle
    <2>2. CASE d # c
      BY <1>3, <1>6, <2>2 DEF Inv, TypeOK, CallInv
    <2>3. QED BY <2>1, <2>2
  <1>10. QED BY <1>5, <1>7, <1>8, <1>9 DEF Inv

\* A new source is bound to no job and read by no call.
LEMMA CreateInv ==
    ASSUME Inv, NEW s \in Sources, CreateDataSource(s)
    PROVE  Inv'
  <1>1. /\ sources[s].status = "ABSENT" /\ sources[s].schema = None /\ sources[s] \in Source
        /\ sources' = [sources EXCEPT ![s].status = "DRAFT"] /\ UNCHANGED <<jobs, call>>
    BY DEF Inv, TypeOK, CreateDataSource, Absent
  <1>2. TypeOK'
    BY <1>1 DEF Inv, TypeOK, Source
  <1>3. \A r \in Sources : /\ Tested(r) => Tested(r)'
                           /\ sources'[r].schema = sources[r].schema
    BY <1>1 DEF Inv, TypeOK, Source, Tested
  <1>4. JobsBindTested' /\ DiscoveryFollowsTest'
    BY <1>1, <1>3 DEF Inv, TypeOK, JobsBindTested, DiscoveryFollowsTest, Tested
  <1>5. \A c \in Calls : CallInv(c)'
    BY <1>1, <1>3 DEF Inv, CallInv
  <1>6. QED BY <1>2, <1>4, <1>5 DEF Inv

\* Reading, the connector and the first half of a save move one call.
LEMMA CallStepInv ==
    ASSUME Inv, NEW c \in Calls,
           \/ \E s \in Sources, op \in {"test", "discover", "job"} : ReadSource(c, s, op)
           \/ TestDataSource(c) \/ DiscoverSchema(c) \/ LoadSource(c) \/ Abort(c)
    PROVE  Inv'
  <1> USE DEF Inv, TypeOK
  <1>1. ASSUME NEW s \in Sources, NEW op \in {"test", "discover", "job"}, ReadSource(c, s, op)
        PROVE  Inv'
    <2> DEFINE k == [Idle EXCEPT !.pc = op, !.source = s, !.copy = sources[s]]
    <2>1. k \in Call /\ call' = [call EXCEPT ![c] = k] /\ UNCHANGED <<sources, jobs>>
      BY <1>1 DEF ReadSource, Call, Idle, Absent, Source
    <2>2. CallInv(c)'
      BY <2>1 DEF CallInv, Tested, Idle
    <2> HIDE DEF k
    <2>3. QED BY <2>1, <2>2, OneCallMoves
  <1>2. CASE TestDataSource(c)
    <2> DEFINE k == [call[c] EXCEPT !.pc = "load", !.copy = MarkTested(call[c].copy)]
    <2>1. k \in Call /\ call' = [call EXCEPT ![c] = k] /\ UNCHANGED <<sources, jobs>>
      BY <1>2 DEF TestDataSource, MarkTested, Call, Source
    <2>2. /\ k.pc = "load" /\ k.source = call[c].source /\ k.copy.status = "TESTED"
          /\ k.source \in Sources
      BY <1>2 DEF TestDataSource, MarkTested, Call, Source, CallInv
    <2> HIDE DEF k
    <2>3. CallInv(c)'
      BY <2>1, <2>2 DEF CallInv
    <2>4. QED BY <2>1, <2>3, OneCallMoves
  <1>3. CASE DiscoverSchema(c)
    <2>1. PICK schema \in Schemas :
            call' = [call EXCEPT ![c].pc = "load", ![c].copy = WithSchema(@, schema)]
      BY <1>3 DEF DiscoverSchema
    <2> DEFINE k == [call[c] EXCEPT !.pc = "load", !.copy = WithSchema(call[c].copy, schema)]
    <2>2. k \in Call /\ call' = [call EXCEPT ![c] = k] /\ UNCHANGED <<sources, jobs>>
      <3>1. call[c] \in Call /\ call[c].copy \in Source /\ schema \in Schemas \union {None}
        BY DEF Call
      <3>2. WithSchema(call[c].copy, schema) \in Source
        BY <3>1 DEF WithSchema, Source
      <3>3. k \in Call
        BY <3>1, <3>2 DEF Call
      <3>4. QED BY <1>3, <2>1, <3>3 DEF DiscoverSchema
    <2>3. /\ k.pc = "load" /\ k.source = call[c].source /\ k.copy.status = "TESTED"
          /\ k.source \in Sources
      BY <1>3 DEF DiscoverSchema, MayDiscover, WithSchema, Call, Source, CallInv
    <2> HIDE DEF k
    <2>4. CallInv(c)'
      BY <2>2, <2>3 DEF CallInv
    <2>5. QED BY <2>2, <2>4, OneCallMoves
  <1>4. CASE LoadSource(c)
    <2> DEFINE k == [call[c] EXCEPT !.pc = "update", !.loaded = sources[call[c].source]]
    <2>1. call[c].source \in Sources /\ call[c].copy.status = "TESTED"
      BY <1>4 DEF LoadSource, CallInv
    <2>2. k \in Call /\ call' = [call EXCEPT ![c] = k] /\ UNCHANGED <<sources, jobs>>
      BY <1>4, <2>1 DEF LoadSource, Call
    <2>3. /\ k.pc = "update" /\ k.source = call[c].source /\ k.copy = call[c].copy
          /\ k.loaded = sources[call[c].source]
      BY DEF Call
    <2> HIDE DEF k
    <2>4. CallInv(c)'
      BY <2>1, <2>2, <2>3 DEF CallInv, Tested
    <2>5. QED BY <2>2, <2>4, OneCallMoves
  <1>5. CASE Abort(c)
    <2>1. Idle \in Call /\ call' = [call EXCEPT ![c] = Idle] /\ UNCHANGED <<sources, jobs>>
      BY <1>5 DEF Abort, Idle, Call, Absent, Source
    <2>2. CallInv(c)'
      BY <2>1 DEF CallInv, Idle
    <2>3. QED BY <2>1, <2>2, OneCallMoves
  <1>6. QED BY <1>1, <1>2, <1>3, <1>4, <1>5

\* A job is created for a source that is TESTED by then.
LEMMA CreateSyncJobInv ==
    ASSUME Inv, NEW c \in Calls, NEW j \in Jobs, CreateSyncJob(c, j)
    PROVE  Inv'
  <1>1. /\ call[c].source \in Sources /\ Tested(call[c].source)
        /\ jobs' = [jobs EXCEPT ![j] = call[c].source] /\ call' = [call EXCEPT ![c] = Idle]
        /\ sources' = sources
    BY DEF Inv, CallInv, CreateSyncJob
  <1>2. TypeOK'
    BY <1>1 DEF Inv, TypeOK, Idle, Call, Absent, Source
  <1>3. JobsBindTested' /\ DiscoveryFollowsTest'
    BY <1>1 DEF Inv, TypeOK, JobsBindTested, DiscoveryFollowsTest, Tested
  <1>4. ASSUME NEW d \in Calls PROVE CallInv(d)'
    BY <1>1 DEF Inv, TypeOK, CallInv, Tested, Idle
  <1>5. QED BY <1>2, <1>3, <1>4 DEF Inv

\* Every step keeps the invariant.
LEMMA NextInv == Inv /\ [Next]_vars => Inv'
  <1>1. ASSUME Inv, UNCHANGED vars PROVE Inv'
    BY <1>1 DEF Inv, TypeOK, JobsBindTested, DiscoveryFollowsTest, CallInv, Tested, vars
  <1>2. ASSUME Inv, Next PROVE Inv'
    BY <1>2, CreateInv, CallStepInv, UpdateInv, CreateSyncJobInv DEF Next
  <1>3. QED BY <1>1, <1>2

\* Inv is an invariant of the data sources.
LEMMA AlwaysInv == Spec => []Inv
  <1>1. QED BY InitInv, NextInv, PTL DEF Spec

\* Sources, jobs and calls keep their types: no status but DRAFT and TESTED.
THEOREM TypeCorrect == Spec => []TypeOK
  <1>1. Inv => TypeOK
    BY DEF Inv
  <1>2. QED BY <1>1, AlwaysInv, PTL

\* create_sync_job checks a source it read earlier, and test and discover
\* write back what they read: jobs are bound to tested sources all the same.
THEOREM JobsAreBoundToTested == Spec => []JobsBindTested
  <1>1. Inv => JobsBindTested
    BY DEF Inv
  <1>2. QED BY <1>1, AlwaysInv, PTL

\* A discovered schema is only ever found in a tested source.
THEOREM DiscoveriesFollowTests == Spec => []DiscoveryFollowsTest
  <1>1. Inv => DiscoveryFollowsTest
    BY DEF Inv
  <1>2. QED BY <1>1, AlwaysInv, PTL

------------------------------------------------------------------------------
(* What a stale save may take back *)

TestedStays == [][\A s \in Sources : Tested(s) => Tested(s)']_vars

\* The source has a schema, and so has what any call at work on it will save.
SchemaKnown(s) ==
    /\ sources[s].schema # None
    /\ \A c \in Calls : call[c].source = s /\ call[c].pc \in {"test", "load", "update"} =>
          call[c].copy.schema # None

SchemasStay == [][\A s \in Sources : SchemaKnown(s) => SchemaKnown(s)']_vars

\* One call moves on and is about to save a schema if it is at work on s.
LEMMA CallKeepsSchema ==
    ASSUME Inv, NEW s \in Sources, SchemaKnown(s), NEW c \in Calls, NEW k \in Call,
           call' = [call EXCEPT ![c] = k], sources'[s].schema # None,
           k.source = s /\ k.pc \in {"test", "load", "update"} => k.copy.schema # None
    PROVE  SchemaKnown(s)'
  BY DEF Inv, TypeOK, SchemaKnown

\* No step of a call takes the schema from a source whose calls all know it.
LEMMA StepKeepsSchema ==
    ASSUME Inv, Next, NEW s \in Sources, SchemaKnown(s)
    PROVE  SchemaKnown(s)'
  <1> USE DEF Inv, TypeOK
  <1>1. ASSUME NEW r \in Sources, CreateDataSource(r)
        PROVE  SchemaKnown(s)'
    BY <1>1 DEF CreateDataSource, SchemaKnown, Absent, Source
  <1>2. ASSUME NEW c \in Calls, NEW r \in Sources, NEW op \in {"test", "discover", "job"},
               ReadSource(c, r, op)
        PROVE  SchemaKnown(s)'
    <2> DEFINE k == [Idle EXCEPT !.pc = op, !.source = r, !.copy = sources[r]]
    <2>1. k \in Call /\ call' = [call EXCEPT ![c] = k] /\ UNCHANGED sources
      BY <1>2 DEF ReadSource, Call, Idle, Absent, Source
    <2>2. k.source = r /\ k.copy = sources[r]
      BY DEF Idle
    <2> HIDE DEF k
    <2>3. QED BY <2>1, <2>2, CallKeepsSchema DEF SchemaKnown
  <1>3. ASSUME NEW c \in Calls, TestDataSource(c)
        PROVE  SchemaKnown(s)'
    <2> DEFINE k == [call[c] EXCEPT !.pc = "load", !.copy = MarkTested(call[c].copy)]
    <2>1. k \in Call /\ call' = [call EXCEPT ![c] = k] /\ UNCHANGED sources
      BY <1>3 DEF TestDataSource, MarkTested, Call, Source
    <2>2. k.source = call[c].source /\ k.copy.schema = call[c].copy.schema
      BY DEF MarkTested, Call, Source
    <2> HIDE DEF k
    <2>3. call[c].source = s => call[c].copy.schema # None
      BY <1>3 DEF TestDataSource, SchemaKnown
    <2>4. sources'[s].schema # None
      BY <2>1 DEF SchemaKnown
    <2>5. QED BY <2>1, <2>2, <2>3, <2>4, CallKeepsSchema
  <1>4. ASSUME NEW c \in Calls, DiscoverSchema(c)
        PROVE  SchemaKnown(s)'
    <2>1. PICK schema \in Schemas :
            call' = [call EXCEPT ![c].pc = "load", ![c].copy = WithSchema(@, schema)]
      BY <1>4 DEF DiscoverSchema
    <2> DEFINE copy == WithSchema(call[c].copy, schema)
               k == [call[c] EXCEPT !.pc = "load", !.copy = copy]
    <2>2. copy \in Source /\ copy.schema = schema
      BY DEF WithSchema, Source, Call
    <2>3. call' = [call EXCEPT ![c] = k]
      BY <2>1
    <2> HIDE DEF copy
    <2>4. k \in Call /\ k.copy = copy
      BY <2>2 DEF Call
    <2> HIDE DEF k
    <2>5. schema # None /\ UNCHANGED sources
      BY <1>4, NoneAssumption DEF DiscoverSchema
    <2>6. QED BY <2>2, <2>3, <2>4, <2>5, CallKeepsSchema DEF SchemaKnown
  <1>5. ASSUME NEW c \in Calls, LoadSource(c)
        PROVE  SchemaKnown(s)'
    <2> DEFINE k == [call[c] EXCEPT !.pc = "update", !.loaded = sources[call[c].source]]
    <2>1. call[c].source \in Sources
      BY <1>5 DEF LoadSource, CallInv
    <2>2. k \in Call /\ call' = [call EXCEPT ![c] = k] /\ UNCHANGED sources
      BY <1>5, <2>1 DEF LoadSource, Call
    <2>3. k.source = call[c].source /\ k.copy = call[c].copy
      BY DEF Call
    <2> HIDE DEF k
    <2>4. QED BY <1>5, <2>2, <2>3, CallKeepsSchema DEF SchemaKnown, LoadSource
  <1>6. ASSUME NEW c \in Calls, UpdateSource(c)
        PROVE  SchemaKnown(s)'
    <2>1. sources' = [sources EXCEPT ![call[c].source] =
                        Flush(sources[call[c].source], call[c].loaded, call[c].copy)]
      BY <1>6 DEF UpdateSource
    <2>2. sources'[s].schema # None
      <3>1. CASE call[c].source = s
        <4>1. call[c].copy.schema # None /\ sources[s].schema # None
          BY <1>6, <3>1 DEF UpdateSource, SchemaKnown
        <4>2. Flush(sources[s], call[c].loaded, call[c].copy).schema # None
          BY <4>1 DEF Flush, Source
        <4>3. QED BY <2>1, <3>1, <4>2
      <3>2. CASE call[c].source # s
        BY <2>1, <3>2 DEF SchemaKnown
      <3>3. QED BY <3>1, <3>2
    <2>3. Idle \in Call /\ Idle.pc = "idle" /\ call' = [call EXCEPT ![c] = Idle]
      BY <1>6 DEF UpdateSource, Idle, Call, Absent, Source
    <2>4. QED BY <2>2, <2>3, CallKeepsSchema
  <1>7. ASSUME NEW c \in Calls, Abort(c) \/ \E j \in Jobs : CreateSyncJob(c, j)
        PROVE  SchemaKnown(s)'
    <2>1. Idle \in Call /\ Idle.pc = "idle" /\ call' = [call EXCEPT ![c] = Idle]
          /\ UNCHANGED sources
      BY <1>7 DEF CreateSyncJob, Abort, Idle, Call, Absent, Source
    <2>2. QED BY <2>1, CallKeepsSchema DEF SchemaKnown
  <1>8. QED BY <1>1, <1>2, <1>3, <1>4, <1>5, <1>6, <1>7 DEF Next

\* A stale save can lose a discovered schema (test_data_source writes its old
\* copy back), but only one of a test that read the source before the schema
\* was saved: a schema that every call at work on its source knows stays.
THEOREM OnlyStaleTestsForget == Spec => SchemasStay
  <1>1. Inv /\ [Next]_vars => \A s \in Sources : SchemaKnown(s) => SchemaKnown(s)'
    BY StepKeepsSchema DEF vars, SchemaKnown
  <1>2. QED BY <1>1, AlwaysInv, PTL DEF Spec, SchemasStay

\* No stale save takes the status of a tested source back.
THEOREM TestsAreFinal == Spec => TestedStays
  <1>1. ASSUME Inv, [Next]_vars, NEW s \in Sources, Tested(s)
        PROVE  Tested(s)'
    <2> USE <1>1 DEF Inv, TypeOK, Tested
    <2>1. CASE UNCHANGED vars
      BY <2>1 DEF vars
    <2>2. ASSUME NEW r \in Sources, CreateDataSource(r)
          PROVE  Tested(s)'
      BY <2>2 DEF CreateDataSource, Absent
    <2>3. ASSUME NEW c \in Calls, UpdateSource(c)
          PROVE  Tested(s)'
      <3>1. /\ call[c].source \in Sources /\ sources[call[c].source] \in Source
            /\ call[c].loaded \in Source /\ call[c].copy \in Source
            /\ call[c].copy.status = "TESTED"
            /\ call[c].loaded.status = "TESTED" => sources[call[c].source].status = "TESTED"
        BY <2>3 DEF Call, CallInv, UpdateSource
      <3>2. Flush(sources[call[c].source], call[c].loaded, call[c].copy).status = "TESTED"
        BY <3>1, FlushIsTested
      <3>3. QED BY <2>3, <3>1, <3>2 DEF UpdateSource
    <2>4. CASE Next /\ (\A r \in Sources : ~CreateDataSource(r)) /\ (\A c \in Calls : ~UpdateSource(c))
      <3>1. sources' = sources
        BY <2>4 DEF Next, ReadSource, TestDataSource, DiscoverSchema, LoadSource, CreateSyncJob, Abort
      <3>2. QED BY <3>1
    <2>5. QED BY <2>1, <2>2, <2>3, <2>4
  <1>2. Inv /\ [Next]_vars => \A s \in Sources : Tested(s) => Tested(s)'
    BY <1>1
  <1>3. QED BY <1>2, AlwaysInv, PTL DEF Spec, TestedStays
=============================================================================
