# Agent Data OS in TLA+

This directory holds a TLA+ development of Agent Data OS (the FastAPI service under
`src/src/agent_data_os`): modules that model its components one database transaction at a
time, TLC configurations that check them on small instances, and theorems that TLAPS proves
for every value of the constants. Paths below are relative to the repository; `persistence/`
stands for `infrastructure/persistence/`.

## 1. The system

Agent Data OS is a multi-tenant data service. External workers ingest data and call back;
every successful run publishes a new version of a dataset. Agents read datasets through
governed query APIs, and documents through knowledge APIs. Every change that others must hear
of goes through an outbox. Handlers are synchronous, run in a thread pool and in several
processes, and share nothing but PostgreSQL, the vector index and the broker. Every repository
call opens its own transaction (`tenant_session`, `persistence/database.py:52-70`), so a
service method is a sequence of transactions with other calls in between: this is where almost
everything hard in the code comes from.

### Components

| Component | State | Operations | Status |
|---|---|---|---|
| Ingestion runs and atomic commit (`application/ingestion_service.py`, `domains/ingestion`, `persistence/ingestion.py`) | `ingestion_runs`, `dataset_versions`, `datasets`, `serving_datasets`, `domain_outbox` | `start_run`, `retry_run`, `cancel_run`, `fail_run`, `complete_run` with `save_run` and `commit_success` | modelled: `Ingestion` |
| Outbox relay (`infrastructure/outbox.py`) | status, attempts and `available_at` of outbox rows; the broker | `_relay` for audit and domain events | modelled: `OutboxRelay` |
| Knowledge (`application/knowledge_service.py`, `domains/knowledge`, `persistence/knowledge.py`, `infrastructure/knowledge.py`) | documents, versions, chunks, index versions, knowledge base, vectors | `create_knowledge_base`, `create_upload`, `process_document`, `publish_index`, `retrieve` | modelled: `KnowledgeIndex` (building and publishing indexes), `ChunkWindows` (cutting texts), `Retrieval` (the knowledge API) |
| Data sources and sync jobs (`application/ingestion_service.py:38-123`) | `data_sources`, `sync_jobs` | create, test, discover schema, create job | modelled: `DataSources` |
| Query API (`application/query_service.py`, `persistence/ingestion.py`) | none of its own; reads the API definition, grants and the active dataset version, writes audit rows | `execute` | modelled: `QueryService`; field selection and filter operators are not |
| Policy (`domains/policy`) | grants (read) | `decide` | modelled: `Decide` in `QueryService` |
| Audit recorder (`persistence/repositories.py`) | `audit_outbox` | one INSERT per event | modelled: a step of `QueryService` and `Retrieval`; its row is `OutboxRelay`'s `Enqueue` |
| HTTP routes, identity, middleware | none | identity and scope before the service, errors and answers after it | partly: for `retrieve`, in `Retrieval`; the other handlers are one service call |
| Catalog and metadata values, configuration, container | none | value types, start-up wiring | not modelled: no state that changes |
| In-memory adapters (`infrastructure/memory.py`, most of `infrastructure/knowledge.py`) | dictionaries | the same ports | partly: the in-memory vector index and the parser; the others are development doubles, and the SQL adapters are the system |

### How they interact

- `complete_run` commits data, version, run, dataset pointer and a `DatasetVersionReady` event in
  one transaction; the relay picks the event up later, in `created_at` order. `Ingestion` writes
  the outbox, `OutboxRelay` empties it; the only thing shared is the row.
- The query API reads the active version that `commit_success` switches: `QueryService` extends
  `DatasetCatalog`, the promise that `Ingestion` is shown to keep.
- `process_document` builds an index in the vector store outside any transaction and records it
  in several; `publish_index` switches the knowledge base; `retrieve` reads the knowledge base,
  the index, the vectors and the chunks in four separate steps. `KnowledgeIndex` is about what is
  in an index, `Retrieval` about what a call makes of it. What one promises the other is
  `PublishedIndexes`, which `KnowledgeIndex` is shown to implement whatever calls overlap: a released
  index keeps its content. `Retrieval` takes that content as a constant. The promise ends at two
  places: an index whose number two calls of `process_document` held at once is no release, and where
  chunk ids are the vector store's primary key a release may lose chunks. There the constant is an
  idealisation, and the violated runs of section 4 show what can happen instead.
- Both agent APIs write an audit record before they answer: `QueryService` and `Retrieval` are
  shown to implement the same `AuditedCall`.

### What is hard, and what makes each component correct

- **Stale objects.** Services load an immutable object, call something slow, and save the whole
  object: `cancel_run`/`fail_run` against callbacks, `process_document` against revocation,
  `publish_index`'s knowledge base. Correct would be: a run that published stays published, a
  revoked document stays revoked.
- **Check, then act in another transaction.** Idempotency keys, version numbers and index numbers
  are looked up before the transaction that uses them. Correct: keys unique per job, versions
  `1..n`, an index number used once (the code does not manage the last one).
- **Locks.** `commit_success` takes run, then dataset, then a unique index entry; the relay claims
  rows with `SKIP LOCKED`; `publish_index` locks the knowledge base. Correct: no deadlock, claims
  disjoint, at most one published index.
- **Filters in a row.** A chunk passes the ACL filter of the vector index, a limit, the ACL and status
  filter of the database, the injection guard, `top_k`, a score and, for the model, the
  classification. Correct: nothing slips through an order of filters, and no limit loses a better chunk.
- **Partial failure.** The model is called before the audit record is written. Correct: no answer without
  its record, and nothing restricted at the model even if the call fails.
- **Crashes.** Between any two transactions, and between a broker call and the commit. Correct:
  a version, its pointer and its event appear together; an event is published at least once.

The full list, with source lines, is `hazards` in `PROJECT.json`.

## 2. Plan

Order, most important first; all but the last are done.

1. `Ingestion` with the abstract `DatasetCatalog`, which it implements.
2. `OutboxRelay` with the abstract `EventDelivery`, which it implements.
3. `KnowledgeIndex`.
4. `QueryService` with the policy decision, on top of `DatasetCatalog`.
5. `DataSources`: the read-connect-save cycles of `test_data_source` and `discover_schema`.
6. `Retrieval` with the abstract `AuditedCall`, which `QueryService` implements as well.
7. `ChunkWindows`: the overlapping windows of `_chunk`.
8. `PublishedIndexes`, the contract between `KnowledgeIndex` and `Retrieval`.
9. A composition of `Ingestion` and `OutboxRelay`. The relay treats all events alike, so it would
   say no more than the two refinements together, unless consumers are promised an order; the
   repository promises none.

## 3. The modules

| Module | What it is |
|---|---|
| `DatasetCatalog` | abstract: an append-only log of versions per dataset, the active one is the last, each is announced when it is published |
| `Ingestion` | the ingestion service, one transaction or lock wait per action |
| `MCIngestion` | its instance for TLC |
| `IngestionProofs` | theorems |
| `EventDelivery` | abstract: accepted events are delivered any number of times and settled after a delivery |
| `OutboxRelay` | `_relay`, one broker call per action |
| `MCOutboxRelay`, `OutboxRelayProofs` | instance and theorems |
| `PublishedIndexes` | abstract: a release adds one index with its whole content and makes it the active one; it is never released again and its content stays, but for items that move |
| `KnowledgeIndex` | knowledge base, documents and index versions, one repository or vector call per action |
| `MCKnowledgeIndex` | its instance |
| `KnowledgeIndexProofs`, `KnowledgeRaceProofs` | theorems: types, the publish lock and documents; what index numbers and contents keep while calls of `process_document` overlap |
| `ChunkWindows` | how the text of a document becomes chunks, one window per action |
| `MCChunkedIndex` | `ChunkWindows` and then `MCKnowledgeIndex`, which share no variable, with the bound on calls at work |
| `ChunkWindowsProofs` | theorems |
| `AuditedCall` | abstract: one audit record per call, durable before a reply that says the same |
| `Retrieval` | `create_knowledge_base` and `retrieve`, one repository, vector, model or audit call per action |
| `MCRetrieval`, `RetrievalProofs` | instance and theorems |
| `QueryService` | `execute` over a `DatasetCatalog`, one transaction per action |
| `MCQueryService`, `QueryServiceProofs` | instance and theorems |
| `DataSources` | data sources and sync jobs, one transaction or connector call per action |
| `MCDataSources`, `DataSourcesProofs` | instance and theorems |

Operators whose comment starts with "Mutant" are plausible bugs of the definition that follows
them. No specification uses them; each shows that a property fails when the code is wrong.

### Ingestion

*State.* `runs` are rows of `ingestion_runs` (job, key, status, result hash and version),
`versions` rows of `dataset_versions`, `datasets` the active version and row version,
`outbox` the rows of `domain_outbox` in commit order, and `call` one API call each: program
counter, the `IngestionRun` object it holds (`copy`, stale from the moment it is read) and, in
`save_run`, the row the session loaded. An action is one transaction, or the part of
`commit_success` up to the next row that can block: `LockRun`, `LockDataset` or `InsertDataset`,
`NextNumber`, `CommitSuccess`. Locks are not variables: a call holds a row exactly while its
program counter is in that part (`HoldsRun`, `HoldsDataset`). `Crash` ends a call anywhere; what
it has not committed is gone because nothing uncommitted is in the tables.

*What is worth knowing.* `save_run` writes only the columns that differ from what its session
loaded, as SQLAlchemy does, so `Flush` mixes the row in the table with the object. `commit_success`
locks the row but completes the *object* that was read before the lock.

*Abstracted.* `error_code`, checkpoint, manifest and row count (they follow the status, and
nothing branches on them except the quality result, which is the parameter `pass`). A run's id is drawn
when the request arrives. Answers to clients are not modelled: returning an existing run, 404 or
an invalid manifest is no step. `serving_datasets` is written with the version row in the same
transaction and is part of it. Tenants are isolated by row-level security: one tenant is
modelled.

*Noted in passing.* `CANCEL_REQUESTED` is left only through a late callback; nothing ever sets
`CANCELLED`. `retry_run` with the key of the failed run returns that run. A run can show
`SUCCEEDED` without a result after a stale save, which the model reaches with four calls. A
callback that read the run as RUNNING makes it SUCCEEDED although the locked row is FAILED by then.
`OnlyStaleSavesUndo` and `StoppedRunsStay` say exactly how far this goes: a success is undone by a
`cancel_run` or `fail_run` that had read the run before, and by nothing else; a stopped run moves on
only with a call that had read it before.

### OutboxRelay

*State.* `rows` (status, attempts, and what is left until `available_at`), the open transaction
`batch` of each worker (rows to do, sent and failed, and its age, because backoff counts from the
time the batch began), `deliveries` to the broker, and `faults`. `Claim` is the SELECT with
`SKIP LOCKED`: the oldest due rows nobody holds. `Publish` and `Fail` are one turn of the loop;
`Fail` may or may not have reached the broker. `Commit` writes the outcome of all rows. `Crash`
rolls back the rows but not the broker. Time is relative, in ticks of a second.

*Noted in passing.* `min(300, 2 ** min(attempts, 8))` is at most 256, so the cap of 300 seconds
is never reached. A crash also rolls back `attempts`.

### KnowledgeIndex

*State.* The status of documents, status and index of document versions, whose chunks are
stored, the status of index versions by number, the knowledge base row, `vectors` as pairs of
index and document, and one record per running call. `create_upload` gives a document exactly
one version, and its chunks are a function of it, so one identifier stands for all three. The id
of an index version is a hash of knowledge base, number and embedding model, so its number
identifies it.

Three things are remembered for the properties and never read by a guard: `shared`, the numbers that
were drawn while another call held them (between `next_index_version_number` and
`save_index_version`); `listed`, the indexes there were when a call listed its corpus; and `seen`,
which `Upsert` copies from it for the index it fills. With them the properties say what is promised
*although* calls share numbers, and of which indexes.

*Steps.* Each repository call is one transaction and one action. For save operations this is
exact although they SELECT first, because SQLAlchemy writes only changed columns: a save either
writes the status or finds it already there, as it would in one step. An insert that loses a race
fails on the primary key, which is `AbortProcessing`. `publish_index` is split at its row
lock: between `LockForPublish` and `CommitPublish` other calls may save index rows it has not
locked. `Search` picks any hits of the index; which ones the vectors and ACL tokens select does
not matter to the properties.

*Revocation* has no endpoint; `src/tests/test_knowledge_api.py:212` revokes by saving the
document, and `Revoke` is that.

*Vector index.* `ChunkIsKey = FALSE` is `InMemoryVectorIndex`, which replaces the partition of
one index; `TRUE` is Milvus with `chunk_id` as primary key, as the installation guide sets it
up (`src/docs/installation-deployment.md:226`), where an upsert replaces the entity of a chunk
wherever it was.

*Noted in passing.* A crash between `save_document_version` and `save_document` leaves a version
INDEXED whose document never becomes INDEXED, because a repeated call returns early; the document
stays invisible, and `NothingRepairs` proves that no other operation brings it back. A revocation is
undone only by a `process_document` that had read the document before (`OnlyStaleCallsUndo`). A retired index cannot be published again (`publish_index` wants READY), although the
installation guide speaks of switching back. A `retrieve` that overlaps a publish may fail with
`INDEX_VERSION_UNAVAILABLE`, which the API design documents (line 908). A call that lists
the corpus early and draws its number late builds the later index from the older corpus, so a higher
number alone says nothing about completeness; `NewerIsComplete` says what does. Two calls that share a
number can leave the active index READY, which `ActiveIsPublished` excepts. Two publishers that read
the knowledge base before either locks it leave the same version number for two different active
indexes (`knowledge_service.py:290-300`).

### ChunkWindows

*State.* `file`, a sequence of pages, each a text; `page` and `start`, where the loop of `_chunk` is;
`result`, the chunks so far. A text is a sequence of marks, blank or not.

*Steps.* `CutWindow` is one turn of the loop: it ends a window, strips it, makes it a chunk if
anything is left, and goes to the next window or page. `SkipPage` passes a page without text, which the
development parser drops and which has no window if another parser keeps it. The id of a chunk is a
digest of its version, ordinal and content, and digests are taken not to collide. That a file
without any chunk is refused belongs to `process_document` in `KnowledgeIndex`.

### Retrieval

*State.* `base`, the row of one knowledge base code, and its `active` index; the status of `indexes`;
the documents that are `indexed`; one record per call of `create_knowledge_base` (`creating`) and of
`retrieve` (`call`), and the `audit` rows of each call. `during` records which documents were INDEXED at
some time, and which all the time, until `Authorize`; only properties read it.

*Steps.* `Receive` is the middleware, the scope check and the checks of query and `top_k`;
`ReadBase`, `ReadIndex` and `Search` the calls of those names; `Authorize` is
`get_authorized_chunks` with the guard and the selection that follow it without another call; `Generate` is
the model. `Fail` is any of them raising, by a timeout or an adapter that is not configured; a model that fails may
have had its input. `RecordAudit` commits the record, then `Reply` returns. `AuditUnavailable` is the
INSERT failing, or its commit not being acknowledged: then the record is there and the caller gets an
error. `Crash` ends a call anywhere, also between record and reply. Meanwhile `PublishIndex` commits and `SaveDocument` makes a document INDEXED or takes that
status away.

*Data.* `Holds`, `ChunkAcl`, `DocumentOf`, `Restricted`, `Suspicious` and `Score` are constants: the
content of a published index does not change (`KnowledgeIndex` says when), and no operation changes
the ACL or the classification of a document after its upload. A list ordered by score is the set of its
chunks, as different chunks have different scores. A request is `clean` when its query matches no
injection pattern.

*Noted in passing.* The model is given every chunk that was selected, also those with a score of 0
or less that the answer does not cite; the egress check looks at all of them, so nothing restricted leaves.
The model is called before the record is written: an unavailable audit channel can follow a model
call, which then has no record. A request that is turned away for its identity or scope has no record
either.

### QueryService

*State.* The catalog's `log`, `active` and `announced`; `label`, the `dataset_version` column of the
API's row; the `grants` that are ACTIVE and valid now; `audit`, the audit rows of each call; and one
record per call of `execute`: program counter, command, what it read (`label`, `granted`) and its
result. `since` is the version active when the call began and only serves a property.

*Steps.* `Validate` is `get_published` with the checks of the command, `Authorize` is `find_grants`
with the decision and the limits, `Query` the serving read, `RecordAudit` the commit of the audit row
and `Reply` what the caller gets; `Fail`, `AuditUnavailable` and `Crash` end a call early. As in
`Retrieval`, a record without a reply is possible, when the process dies after the commit or the
commit is not acknowledged; a reply without its record, and a second record, are not. `Query` runs two SELECTs, but the rows of a
published version never change, so only the first one matters. Between the steps versions are
published, grants change, and an operator adds a version of the API.

*Data.* A version is a set of rows and a command's filters the set of rows they keep. Which of
the rows within the limit are returned depends on the order the caller asks for, so any may be.
`decide` combines row filters only through the region, the one filter a `Grant` can carry. The
grants and the command are inputs, chosen freely. A command is `valid` if it passes all
checks before the policy is asked; which check fails does not matter.

*Promise.* `KeepsPromise` maps the audit rows and the program counter of each call to `AuditedCall`.

*Noted in passing.* `command.limit or default_limit` turns a limit of 0 into the default. A dataset
without a published version answers with no rows and SUCCESS.

### DataSources

*State.* `sources` are the status and schema of the rows of `data_sources`, `jobs` the source of
each row of `sync_jobs`, and `call` one request each with the `DataSource` object it holds (`copy`)
and, in `save_data_source`, the row its session loaded. As in `Ingestion`, the save writes the columns
that differ from that row, with no lock between its SELECT and its UPDATE.

*Abstracted.* Names are unique by constraint, and a duplicate is no step. `version` is written and
read by nothing. No operation of the service activates, pauses or archives a source, so ACTIVE does
not occur.

*Noted in passing.* A test that read the source before a discovery was saved puts the old schema
back, and the two saves leave the same `version`. No other call takes a schema away
(`OnlyStaleTestsForget`).

## 4. The runs

| Run | Instance | Shows |
|---|---|---|
| `ingestion_safety` | 3 calls, 2 runs, 2 keys, 1 hash, all operations | types, version numbering, events match versions, one run per key, results are versions, only stale saves undo a success, stopped runs stay, waits never form a circle, implements `DatasetCatalog` |
| `ingestion_liveness` | 2 calls, 2 runs, fairness | every call returns |
| `ingestion_republish` | 3 calls, 1 run, 2 hashes, all operations | **violated**: a run publishes twice after a stale cancel or fail |
| `outbox_relay` | 2 workers, 3 events, batches of 2, 2 faults, fairness | exclusive claims, duplicates need faults, implements `EventDelivery`, every event is published |
| `knowledge_index` | 2 documents, 2 processors, 2 publishers, 1 reader, 2 numbers, 2 calls at work | types, one published index, the active one; INDEXED versions are in their index, an index has all that was in use when its corpus was listed, published ones of unshared numbers are immutable; implements `PublishedIndexes`; cutting a text loses nothing, for windows of 4 with overlap 1, texts of up to 9 marks and files of two pages of up to 3 |
| `knowledge_overwritten` | 2 documents, 2 processors | **violated**: a published index is overwritten |
| `knowledge_moved_vectors` | 2 documents, 1 processor, `ChunkIsKey` | **violated**: building an index empties the published one |
| `knowledge_revocation` | 2 documents, 1 processor, 1 reader | **violated**: a revoked document is returned |
| `query_service` | 1 call, 3 rows, 2 versions, 4 grants, 5 commands | one audit record per answer, rows are permitted and from one version, `truncated` is exact, grants only narrow, implements `AuditedCall` |
| `retrieval` | 1 call, 9 requests, 2 creators, 2 contracts, 2 indexes, 2 documents, 4 chunks | evidence is permitted and the best, the model sees only what may leave, the record tells the answer, one contract per code, implements `AuditedCall` |
| `query_label` | the same | **violated**: the audit record names another version than the one served |
| `data_sources` | 2 sources, 2 jobs, 3 calls, 2 schemas | jobs are bound to tested sources, a discovered schema means a tested source |

The violated properties are statements of the repository's documentation; `findings` in
`PROJECT.json` quotes them.

### Bounds

- *Ingestion.* Two calls are enough for a read to go stale; the third is the second callback or
  the canceller between them. Two runs of one job meet in one dataset row, which is the only row
  different runs share, so one dataset and one job suffice; two keys and two runs let a key collide
  and differ. Hashes matter only when one run is called back twice with different ones, hence two
  in `ingestion_republish`. That callbacks alone publish a run once, for any hashes, is a theorem.
- *Outbox.* Three events and batches of two make batches overlap, split and leave a rest; two
  faults allow a crash after an error. A batch stays open for at most two ticks (`MaxAge`), and
  `MaxFaults` also keeps the wait finite.
- *Knowledge.* Two documents are the least for which a corpus can be incomplete, two publishers
  for which a publish is overtaken, two processors for which a number is shared and a corpus listed
  too early, and two numbers for which a published index is replaced. Each call idles after it ends,
  so calls repeat without bound; the numbers bound the run. `WorkBound` lets any two calls
  (`MaxAtWork`) be at work at once, of whatever kind, a `retrieve` alone because it writes nothing,
  and at most one document be taken back. The theorems lift all these bounds. `ChunkIsKey` is FALSE in
  this run; the case TRUE is in `knowledge_moved_vectors` and in the theorems.
- *Texts.* Windows of 4 that overlap by 1 and texts of 9 give up to three windows, with a blank or not
  at every place; two pages let ordinals and page numbers go on over a page, blank or not.
- *Retrieval.* Calls write only their own record, so one call among publications, saved documents
  and creators shows what many would; two creators race for the code. Of the four chunks one is suspicious
  and ranks above another that is not, one is restricted and not similar to the query, two need a
  department; limits of 2 and 3 candidates and `top_k` of 1 to 3 cut above, at and below what there is.
- *Query.* Calls of `execute` share nothing they write, so one call among publications and grants
  shows what many would. Two versions let the active one change during the call; three rows and
  effective limits of 1 and 2 put the limit below, at and above what matches; the grants hold two
  limits, one of 0 rows and one of more, a region and one that does not match, present in any combination.
- *Data sources.* Three calls let a discovery and a test straddle the creation of a job; calls
  repeat without bound.

Symmetry is used in safety runs only. `CHECK_DEADLOCK FALSE` appears where the system really
stops: when everything the bounds allow has been created and clients ask for nothing new.

### Fairness

- `Ingestion`: strong fairness of the steps of each call. The web server finishes a handler it
  has started, and PostgreSQL grants a row lock to a waiter in its queue; a call waiting for a
  lock that others take and release repeatedly is enabled again and again, hence strong.
  Requests and crashes are not fair.
- `OutboxRelay`: weak fairness of time and of each worker's work. Workers poll for ever. Whether
  the broker fails is not fair either way, and there are at most `MaxFaults` faults: an event a broker
  refuses for ever is never published, and no relay could change that.

## 5. The proofs

| Theorem | Says |
|---|---|
| `IngestionProofs!TypeCorrect` | types, and a row is absent or a whole run |
| `IngestionProofs!VersionsNumbered` | versions of a dataset are `1..n`, the last is active |
| `IngestionProofs!KeysUnique` | one run per job and key |
| `IngestionProofs!ResultsAreVersions` | a recorded result is one published version of that run |
| `IngestionProofs!EventsAreVersions` | the outbox holds the events of all versions, in order |
| `IngestionProofs!CatalogImplemented` | implements `DatasetCatalog` |
| `IngestionProofs!OnlyStaleSaves`, `StoppedStay` | how far a stale object can change a finished run |
| `IngestionProofs!CallbacksPublishOnce` | without cancel and fail a run publishes once |
| `IngestionProofs!LocksExclude`, `NoDeadlock` | one holder per run row and per dataset row; calls never wait in a circle |
| `IngestionProofs!CallsEndInTime` | a call that has begun ends after at most four steps of its own |
| `OutboxRelayProofs!TypeCorrect`, `ClaimsExclusive` | types; no two workers hold a row |
| `OutboxRelayProofs!DuplicatesBounded` | at most one delivery more than faults |
| `OutboxRelayProofs!DeliversAtLeastOnce` | implements `EventDelivery` |
| `OutboxRelayProofs!EffortBounded` | batches, backoff and attempts are bounded |
| `OutboxRelayProofs!BatchesGetDone` | each step of a worker finishes one row, and a batch ends by a fault or with an attempt for each row |
| `KnowledgeIndexProofs!TypeCorrect`, `OnePublished` | types; at most one PUBLISHED index, the active one |
| `KnowledgeIndexProofs!NothingRepairs`, `OnlyStaleCallsUndo` | a document that a crash left behind stays so; only a stale call undoes a revocation |
| `KnowledgeRaceProofs!RaceActive` | the active index is PUBLISHED, unless its number was shared |
| `KnowledgeRaceProofs!RaceSearchable`, `RaceComplete`, `RaceImmutability` | INDEXED versions are searchable, an index has all that was in use when its corpus was listed, a published one of an unshared number is immutable; with `ChunkIsKey` as far as upserts leave chunks where they were |
| `KnowledgeRaceProofs!PublicationsImplemented` | implements `PublishedIndexes` |
| `ChunkWindowsProofs!CuttingComplete`, `ChunksCite` | no phrase is lost, no id is shared, and offsets lead to the text they cite, for any window, overlap and file |
| `ChunkWindowsProofs!CuttingEnds` | no window is cut twice, so the loop ends |
| `RetrievalProofs!TypeCorrect`, `EvidencePermitted`, `EvidenceBest`, `ModelInputReleasable`, `RecordTells`, `ContractIsUnique`, `PromiseKept` | what `retrieval` checks |
| `QueryServiceProofs!TypeCorrect`, `AnswersAreRecorded`, `AnswersArePermitted`, `AnswersComeFromOneVersion`, `TruncationIsExact`, `GrantsNarrow`, `PromiseKept` | what `query_service` checks |
| `DataSourcesProofs!TypeCorrect`, `JobsAreBoundToTested`, `DiscoveriesFollowTests` | what `data_sources` checks |
| `DataSourcesProofs!TestsAreFinal`, `OnlyStaleTestsForget` | what a stale save never takes back, and what only a stale test can |

They hold for any sets and bounds, under the named assumptions of the modules (a target dataset
for each job, `None` is no identifier, events are numbers in a finite set, positive limits, finitely
many chunks with different scores).

*Ingestion.* `RowInv` strengthens types: the id of a run about to be inserted belongs to nobody
else, what `save_run` writes has no result, and a callback works on an existing run for its job's
dataset. Version numbering needs the locks: at most one call holds a dataset (`DatasetLockInv`), by
its row lock or by its uncommitted index entry, and the number that call has computed is one more
than the active version (`NumberInv`). Keys are unique because the insert tests the constraint.
Results follow because only a commit writes a hash, and it writes hash and version of the version it
inserts. The outbox follows the versions because version and event enter in one step, and
`VersionNumbering` makes the new event the last of its dataset; the refinement of `DatasetCatalog`
uses both. For `OnlyStaleSavesUndo`, `SuccessInv` says that a call which is past the check of
`commit_success` on a run holds its row, so the row cannot become SUCCEEDED behind it. No circle of
waits arises because every call asks for its run row first and for its dataset second, the row or
the entry in the unique index: what it waits for is held by a call that is strictly further
(`WaitsUpwards`), and the holders of both are unique (`LocksExclude`). `StepsLeft` counts the steps
a call may still take; every step of its own lowers it and no other call changes it.

*Outbox.* `ClaimsAreExclusive` is inductive with the parts of a batch being disjoint. For the
duplicates, `Accounted` adds what a bound alone misses: a row that is neither PUBLISHED nor sent in
an open batch has been delivered at most `faults` times, so the next delivery keeps the bound. For
the refinement, `SentIsDelivered` gives what `Commit` needs to settle a row. `RetriesNeedFaults`
needs `FailuresAreFaults`: a failure in an open batch is a fault that the row's `attempts` do not
count yet. `FS_Subset` of the library keeps `BatchesFit`.

*Knowledge.* `CommitsRetire`: the publisher that holds the lock is alone, and every PUBLISHED index
is among those it will retire. Other calls can only take an index *out* of PUBLISHED, so the set it
read stays sufficient. The theorems of `KnowledgeRaceProofs` have no hypothesis about how many calls
of `process_document` overlap, nor about the vector store; what the code does not promise is in the
properties, as `shared` and `ChunkIsKey`. `OrderInv` is about the rows: an unshared number is held by
one call at most, and is not in use before that call has saved its index (`Numbered`); so what a
publisher has locked stays READY, what it will retire stays PUBLISHED unless shared (`Lockable`), and
the active index is in use and PUBLISHED unless shared (`Active`). `PlaceInv` follows the chunks of a
document: stored, then listed, then in the index the call fills (with `ChunkIsKey`, in some index).
`SnapshotInv` says that a corpus covers the indexes that were in use when it was listed, and also
what calls still at work are about to put into them (`Covers`): this is why an overwritten index does
not outgrow a later one. The refinement of
`PublishedIndexes` follows from the first: `CommitPublish` of an unshared number maps to a release
of an index that was READY and so never released, of a shared one to an unreleased publication, an
upsert with `ChunkIsKey` takes chunks away, and every other step maps to a stutter. The violated runs
show that neither exception can be dropped.
`CallsTouchTheirOwn` says what a call can do to a document: it takes one
up only from READY and writes only the one it works on, and past its check only.

*Texts.* `Progress`: the phrases of the pages before this one are in chunks, and so are those of
this page that begin before the next window. A phrase that begins later than the window's start and
no later than the next start ends inside the window, because it is at most one character longer than
the overlap; the window then holds a mark and is not dropped as blank. Ids differ because ordinals
are places in `result` (`Ordered`). The loop ends because page and start grow in their lexical
order, for which the overlap must be shorter than the window (`CuttingMovesOn`).

*Retrieval.* `CallInv` follows a call: what it is bound to (`BoundInv`), that what it found, was
granted and selected is what the code computes from its request (`SelectionInv`), what it may have
sent (`SentInv`), and what it recorded (`RecordInv`). That a cut loses nothing better is about
finite sets: the best `n` are at most `n` because a better chunk has fewer better ones
(`BetterShrinks`, `TopBound`), and a chunk outside has `n` better ones, all of them kept.
`EvidenceBest` applies this to both cuts, and what is filtered between them only takes better ones
away.

*Query.* `Inv` follows a call: until its record commits it has none, and from then on just the one
that repeats its outcome and row count, wherever the call ends (`RecordInv`); from the
decision on, its limit is within every matching grant (`Permitted`); its result is a selection of
the version it read, and that version stays in the log as it was (`ResultInv`). That the strictest
limit exists for any set of grants comes from the well-foundedness of the numbers (`LeastNat`).

*Data sources.* What a call saves was TESTED when it got that far, and a row it loaded as TESTED
still is (`CallInv`), so no save takes TESTED back and every check made on a copy remains true. A
schema that all copies at work on its source know (`SchemaKnown`) cannot be lost, since later copies
are read with it.

*Only model-checked.* Liveness (`EveryCallReturns`, `EventuallyPublished`): liveness under fairness
and ENABLED are beyond the prover. What they rest on is proved: no circle of waits and a bounded
number of steps per call for the first, bounded batches, backoff and retries and batches that get
done for the second. That fairness turns this into an answer stays with TLC. Induction over data and
RECURSIVE operators do not occur in the modules. Every other property of a
passing run is a theorem.

## 6. Not modelled

- *Values and wiring.* Catalog and metadata values, configuration and container keep no state that
  changes. Of the HTTP API only what decides about a call of `retrieve` is modelled; schemas, status codes,
  headers and the syntax of tokens are not. The resolver used in production refuses everybody until one is configured.
- *External systems.* Connectors, object storage, scanners, embedding and generation models are
  external: they succeed, or the call fails. Encryption of chunks and schema migrations are not modelled.
  SQLite, used in tests, serialises writers and has fewer behaviours than PostgreSQL.
- *Tenants.* Every statement of the repositories carries the tenant of its request, and row-level
  security repeats the condition; one tenant is modelled. A module about it would restate those conditions.
- *Changing ACLs.* `src/docs/iteration4-knowledge.md:39` speaks of checking the document's current ACL at
  retrieval, while `persistence/knowledge.py:212-236` checks the copy in the chunk. No operation changes a
  document's ACL after its upload, so the two cannot differ in a state the program reaches.
- *Lost updates nothing contradicts.* The version number that two publishers lose, the schema that a slow test
  puts back, the document that stays invisible after a crash, and the run that `retry_run` returns for the key of the failed one: no
  document or test promises otherwise, so there is no property to check (section 3 notes each).
- *Grants revoked during a call.* The decision holds for the call; nothing promises more.

## 7. Running

    tlc -config IngestionSafety.cfg MCIngestion
    tlapm IngestionProofs.tla

`PROJECT.json` maps every definition to the source lines it models and lists runs, mutants, hazards,
findings and theorems.
