--------------------------- MODULE KnowledgeIndex ---------------------------
(***************************************************************************)
(* One knowledge base of one tenant: KnowledgeApplicationService over the  *)
(* SQL repository and a vector index.  process_document, publish_index and *)
(* retrieve run as processes that take one repository call (a transaction) *)
(* or one vector index call at a time, and may die between two of them.    *)
(*                                                                         *)
(* create_upload gives every document one version, and the chunks of a     *)
(* version are a function of it, so a document also stands for its version *)
(* and for its chunks.  An index version is identified by its number: its  *)
(* id is a hash of knowledge base, number and embedding model.             *)
(***************************************************************************)
EXTENDS Integers, FiniteSets

CONSTANTS Documents,   \* documents uploaded to the knowledge base
          Processors,  \* calls of process_document that may run at once
          Publishers,  \* calls of publish_index that may run at once
          Readers,     \* calls of retrieve that may run at once
          MaxIndex,    \* bound on the index version numbers drawn
          ChunkIsKey   \* the vector collection has chunk_id as primary key

ASSUME KnowledgeAssumption == MaxIndex \in Nat /\ ChunkIsKey \in BOOLEAN

VARIABLES documents,   \* documents.status
          versions,    \* document_versions: status and index_version_id
          chunks,      \* the documents whose chunks are in knowledge_chunks
          indexes,     \* knowledge_index_versions.status by version number
          kb,          \* the knowledge_bases row: active index and version
          vectors,     \* the vector index: which index holds which chunks
          shared,      \* the numbers that two calls held at once
          seen,        \* what was in use when the corpus in an index was listed
          processing,  \* the state of each process_document call
          publishing,  \* the state of each publish_index call
          reading      \* the state of each retrieve call

docVars == <<documents, versions, chunks>>
indexVars == <<indexes, kb, vectors, shared, seen>>
vars == <<documents, versions, chunks, indexes, kb, vectors, shared, seen,
          processing, publishing, reading>>

------------------------------------------------------------------------------
Numbers == 1..MaxIndex

DocumentStatus == {"ABSENT", "UPLOADING", "INDEXED", "QUARANTINED", "REVOKED"}
VersionRow == [status : {"ABSENT", "READY", "INDEXED"}, index : Nat]
IndexStatus == {"ABSENT", "READY", "PUBLISHED", "RETIRED"}
KnowledgeBase == [active : Nat, version : Nat]

Processing == [pc : {"idle", "document", "inspect", "corpus", "number", "upsert", "index",
                     "version", "indexed"},
               doc : SUBSET Documents, corpus : SUBSET Documents, listed : SUBSET Numbers,
               number : Nat]
Publishing == [pc : {"idle", "index", "lock", "commit"}, number : Nat, version : Nat,
               old : SUBSET Numbers]
Reading == [pc : {"idle", "index", "search", "authorize", "answer"}, index : Nat,
            found : SUBSET Documents, revoked : SUBSET Documents]

NotProcessing == [pc |-> "idle", doc |-> {}, corpus |-> {}, listed |-> {},
                  number |-> 0]
NotPublishing == [pc |-> "idle", number |-> 0, version |-> 0, old |-> {}]
NotReading == [pc |-> "idle", index |-> 0, found |-> {}, revoked |-> {}]

TypeOK ==
    /\ documents \in [Documents -> DocumentStatus]
    /\ versions \in [Documents -> VersionRow]
    /\ chunks \subseteq Documents
    /\ indexes \in [Numbers -> IndexStatus]
    /\ kb \in KnowledgeBase
    /\ vectors \subseteq Numbers \X Documents
    /\ shared \subseteq Numbers
    /\ seen \in [Numbers -> SUBSET Numbers]
    /\ processing \in [Processors -> Processing]
    /\ publishing \in [Publishers -> Publishing]
    /\ reading \in [Readers -> Reading]

Init ==
    /\ documents = [d \in Documents |-> "ABSENT"]
    /\ versions = [d \in Documents |-> [status |-> "ABSENT", index |-> 0]]
    /\ chunks = {}
    /\ indexes = [n \in Numbers |-> "ABSENT"]
    /\ kb = [active |-> 0, version |-> 1]
    /\ vectors = {}
    /\ shared = {}
    /\ seen = [n \in Numbers |-> {}]
    /\ processing = [p \in Processors |-> NotProcessing]
    /\ publishing = [p \in Publishers |-> NotPublishing]
    /\ reading = [r \in Readers |-> NotReading]

------------------------------------------------------------------------------
(* create_upload, and revocation *)

SaveDocument(d, status) == documents' = [documents EXCEPT ![d] = status]

CreateDocument(d) ==
    /\ documents[d] = "ABSENT"
    /\ SaveDocument(d, "UPLOADING")
    /\ UNCHANGED <<versions, chunks, indexVars, processing, publishing, reading>>

CreateVersion(d) ==
    /\ documents[d] # "ABSENT"
    /\ versions[d].status = "ABSENT"
    /\ versions' = [versions EXCEPT ![d].status = "READY"]
    /\ UNCHANGED <<documents, chunks, indexVars, processing, publishing, reading>>

\* A document is revoked by saving it with that status.
Revoke(d) ==
    /\ documents[d] \notin {"ABSENT", "REVOKED"}
    /\ SaveDocument(d, "REVOKED")
    /\ UNCHANGED <<versions, chunks, indexVars, processing, publishing, reading>>

------------------------------------------------------------------------------
(* process_document *)

Step(p, from, to) ==
    /\ processing[p].pc = from
    /\ processing' = [processing EXCEPT ![p].pc = to]

\* An indexed version returns its index: no step.
ReadVersion(p, d) ==
    /\ processing[p].pc = "idle"
    /\ versions[d].status = "READY"
    /\ processing' = [processing EXCEPT ![p].pc = "document", ![p].doc = {d}]
    /\ UNCHANGED <<docVars, indexVars, publishing, reading>>

ReadDocument(p, d) ==
    /\ processing[p].doc = {d}
    /\ processing[p].pc = "document"
    /\ processing' = [processing EXCEPT ![p] =
                        IF documents[d] = "REVOKED" THEN NotProcessing
                        ELSE [@ EXCEPT !.pc = "inspect"]]
    /\ UNCHANGED <<docVars, indexVars, publishing, reading>>

\* Size, digest, signature or scan fail.
Quarantine(p, d) ==
    /\ processing[p].doc = {d}
    /\ processing[p].pc = "inspect"
    /\ SaveDocument(d, "QUARANTINED")
    /\ processing' = [processing EXCEPT ![p] = NotProcessing]
    /\ UNCHANGED <<versions, chunks, indexVars, publishing, reading>>

SaveChunks(p, d) ==
    /\ processing[p].doc = {d}
    /\ Step(p, "inspect", "corpus")
    /\ chunks' = chunks \union {d}
    /\ UNCHANGED <<documents, versions, indexVars, publishing, reading>>

\* Mutant: numbers are counted over the READY indexes only.
UsedByReady == {n \in Numbers : indexes[n] = "READY"}

Used == {n \in Numbers : indexes[n] # "ABSENT"}

\* listed remembers the indexes there were, like shared and seen for properties.
ReadCorpus(p, corpus) ==
    /\ processing[p].pc = "corpus"
    /\ processing' = [processing EXCEPT ![p].pc = "number", ![p].corpus = corpus,
                                       ![p].listed = Used]
    /\ UNCHANGED <<docVars, indexVars, publishing, reading>>

\* Mutant: the corpus is that of the documents already INDEXED.
ListIndexedChunks(p) == ReadCorpus(p, {d \in chunks : documents[d] = "INDEXED"})

\* Mutant: only the chunks of the document itself are indexed.
ListOwnChunks(p) == ReadCorpus(p, processing[p].doc)

ListChunks(p) == ReadCorpus(p, chunks)

\* Mutant: numbers of retired indexes are given out again.
IsNextNumberOfLive(n) ==
    /\ n \notin {m \in Used : indexes[m] # "RETIRED"}
    /\ \A m \in Numbers : m < n => m \in {k \in Used : indexes[k] # "RETIRED"}

IsNextNumber(n) == n \notin Used /\ \A m \in Numbers \ Used : n <= m

\* The call has drawn n and has not saved the index yet.
Holds(p, n) == processing[p].pc \in {"upsert", "index"} /\ processing[p].number = n

\* The number stays the next one until an index of that number is saved.
DrawNumber(p, n) ==
    /\ processing[p].pc = "number"
    /\ IsNextNumber(n)
    /\ processing' = [processing EXCEPT ![p].pc = "upsert", ![p].number = n]
    /\ shared' = IF \E q \in Processors : Holds(q, n) THEN shared \union {n} ELSE shared
    /\ UNCHANGED <<docVars, indexes, kb, vectors, seen, publishing, reading>>

\* What an upsert of the corpus replaces: the partition of the index
\* (InMemoryVectorIndex), or every entity with the primary key of a chunk.
Replaced(n, corpus) ==
    {e \in vectors : IF ChunkIsKey THEN e[2] \in corpus ELSE e[1] = n}

Upsert(p) ==
    LET n == processing[p].number
        corpus == processing[p].corpus IN
    /\ processing[p].pc = "upsert"
    /\ processing' = [processing EXCEPT ![p].pc = "index", ![p].corpus = {},
                                       ![p].listed = {}]
    /\ vectors' = (vectors \ Replaced(n, corpus)) \union ({n} \X corpus)
    /\ seen' = [seen EXCEPT ![n] = processing[p].listed]
    /\ UNCHANGED <<docVars, indexes, kb, shared, publishing, reading>>

\* Mutant: the index is saved in the status a new entity has.
SaveIndexBuilding(p) ==
    /\ Step(p, "index", "version")
    /\ indexes' = [indexes EXCEPT ![processing[p].number] = "BUILDING"]
    /\ UNCHANGED <<docVars, kb, vectors, shared, seen, publishing, reading>>

\* The row of that id is inserted, or overwritten whatever its status.
SaveIndex(p) ==
    /\ Step(p, "index", "version")
    /\ indexes' = [indexes EXCEPT ![processing[p].number] = "READY"]
    /\ UNCHANGED <<docVars, kb, vectors, shared, seen, publishing, reading>>

SaveVersion(p, d) ==
    /\ processing[p].doc = {d}
    /\ Step(p, "version", "indexed")
    /\ versions' = [versions EXCEPT ![d] = [status |-> "INDEXED",
                                            index |-> processing[p].number]]
    /\ UNCHANGED <<documents, chunks, indexVars, publishing, reading>>

SaveIndexedDocument(p, d) ==
    /\ processing[p].doc = {d}
    /\ processing[p].pc = "indexed"
    /\ SaveDocument(d, "INDEXED")
    /\ processing' = [processing EXCEPT ![p] = NotProcessing]
    /\ UNCHANGED <<versions, chunks, indexVars, publishing, reading>>

\* The process dies, or an external call (storage, parser, embedding) raises.
AbortProcessing(p) ==
    /\ processing[p].pc # "idle"
    /\ processing' = [processing EXCEPT ![p] = NotProcessing]
    /\ UNCHANGED <<docVars, indexVars, publishing, reading>>

ProcessDocument(p) ==
    \/ \E d \in Documents :
         \/ ReadVersion(p, d) \/ ReadDocument(p, d) \/ Quarantine(p, d) \/ SaveChunks(p, d)
         \/ SaveVersion(p, d) \/ SaveIndexedDocument(p, d)
    \/ ListChunks(p)
    \/ \E n \in Numbers : DrawNumber(p, n)
    \/ Upsert(p)
    \/ SaveIndex(p)
    \/ AbortProcessing(p)

------------------------------------------------------------------------------
(* publish_index *)

ReadBaseToPublish(p, n) ==
    /\ publishing[p].pc = "idle"
    /\ publishing' = [publishing EXCEPT ![p] =
                        [NotPublishing EXCEPT !.pc = "index", !.number = n,
                                              !.version = kb.version]]
    /\ UNCHANGED <<docVars, indexVars, processing, reading>>

ReadIndexToPublish(p) ==
    /\ publishing[p].pc = "index"
    /\ publishing' = [publishing EXCEPT ![p] =
                        IF indexes[publishing[p].number] = "READY"
                        THEN [@ EXCEPT !.pc = "lock"]
                        ELSE NotPublishing]
    /\ UNCHANGED <<docVars, indexVars, processing, reading>>

\* Mutant: the knowledge base is read without FOR UPDATE.
BaseNotLocked == FALSE

\* A publish holds the knowledge base row from its lock to its commit.
BaseLocked == \E p \in Publishers : publishing[p].pc = "commit"

\* Mutant: the status of the index is not checked again under the lock.
LockUnchecked(p) ==
    /\ publishing[p].pc = "lock"
    /\ ~BaseLocked
    /\ publishing' = [publishing EXCEPT ![p].pc = "commit",
                                       ![p].old = {n \in Numbers : indexes[n] = "PUBLISHED"}]
    /\ UNCHANGED <<docVars, indexVars, processing, reading>>

\* The transaction locks the rows and selects the indexes to retire.
LockForPublish(p) ==
    /\ publishing[p].pc = "lock"
    /\ ~BaseLocked
    /\ publishing' = [publishing EXCEPT ![p] =
                        IF indexes[publishing[p].number] = "READY"
                        THEN [@ EXCEPT !.pc = "commit",
                                       !.old = {n \in Numbers : indexes[n] = "PUBLISHED"}]
                        ELSE NotPublishing]
    /\ UNCHANGED <<docVars, indexVars, processing, reading>>

\* It writes the statuses and the knowledge base read before the lock.
CommitPublish(p) ==
    LET n == publishing[p].number IN
    /\ publishing[p].pc = "commit"
    /\ indexes' = [m \in Numbers |-> IF m = n THEN "PUBLISHED"
                                     ELSE IF m \in publishing[p].old THEN "RETIRED"
                                     ELSE indexes[m]]
    /\ kb' = [active |-> n, version |-> publishing[p].version + 1]
    /\ publishing' = [publishing EXCEPT ![p] = NotPublishing]
    /\ UNCHANGED <<docVars, vectors, shared, seen, processing, reading>>

AbortPublishing(p) ==
    /\ publishing[p].pc # "idle"
    /\ publishing' = [publishing EXCEPT ![p] = NotPublishing]
    /\ UNCHANGED <<docVars, indexVars, processing, reading>>

PublishIndex(p) ==
    \/ \E n \in Used : ReadBaseToPublish(p, n)
    \/ ReadIndexToPublish(p)
    \/ LockForPublish(p)
    \/ CommitPublish(p)
    \/ AbortPublishing(p)

------------------------------------------------------------------------------
(* retrieve *)

\* revoked remembers what was revoked before the call began.
ReadBase(r) ==
    /\ reading[r].pc = "idle"
    /\ kb.active # 0
    /\ reading' = [reading EXCEPT ![r] =
                     [NotReading EXCEPT !.pc = "index", !.index = kb.active,
                                        !.revoked = {d \in Documents : documents[d] = "REVOKED"}]]
    /\ UNCHANGED <<docVars, indexVars, processing, publishing>>

ReadIndex(r) ==
    /\ reading[r].pc = "index"
    /\ reading' = [reading EXCEPT ![r] =
                     IF indexes[reading[r].index] = "PUBLISHED"
                     THEN [@ EXCEPT !.pc = "search"]
                     ELSE NotReading]
    /\ UNCHANGED <<docVars, indexVars, processing, publishing>>

Entries(n) == {d \in Documents : <<n, d>> \in vectors}

\* The query vector, the subject's ACL tokens and the limit select some hits.
Search(r) ==
    /\ reading[r].pc = "search"
    /\ \E hits \in SUBSET Entries(reading[r].index) :
         reading' = [reading EXCEPT ![r].pc = "authorize", ![r].found = hits]
    /\ UNCHANGED <<docVars, indexVars, processing, publishing>>

\* get_authorized_chunks keeps the chunks of documents that are INDEXED now.
Authorize(r) ==
    /\ reading[r].pc = "authorize"
    /\ reading' = [reading EXCEPT
                     ![r].pc = "answer",
                     ![r].found = {d \in @ : d \in chunks /\ documents[d] = "INDEXED"}]
    /\ UNCHANGED <<docVars, indexVars, processing, publishing>>

Answer(r) ==
    /\ reading[r].pc = "answer"
    /\ reading' = [reading EXCEPT ![r] = NotReading]
    /\ UNCHANGED <<docVars, indexVars, processing, publishing>>

Retrieve(r) == ReadBase(r) \/ ReadIndex(r) \/ Search(r) \/ Authorize(r) \/ Answer(r)

------------------------------------------------------------------------------

Next ==
    \/ \E d \in Documents : CreateDocument(d) \/ CreateVersion(d) \/ Revoke(d)
    \/ \E p \in Processors : ProcessDocument(p)
    \/ \E p \in Publishers : PublishIndex(p)
    \/ \E r \in Readers : Retrieve(r)

Spec == Init /\ [][Next]_vars

------------------------------------------------------------------------------
(* Properties *)

\* At most one index is PUBLISHED and it is the active one, however many
\* publishes interleave with each other and with calls that save indexes:
\* the lock on the knowledge base row covers the choice of what to retire.
PublishedIsActive ==
    \A n \in Numbers : indexes[n] = "PUBLISHED" => kb.active = n

\* The active index is PUBLISHED, so retrieve finds it, except one whose number
\* two calls of process_document held at once: the second of them saves it as
\* READY again.
ActiveIsPublished == kb.active \notin {0} \union shared => indexes[kb.active] = "PUBLISHED"

\* A published index is immutable: it can only retire, and neither then nor
\* later do its vectors change.
PublishedIsImmutable ==
    [][\A n \in Numbers :
         indexes[n] \in {"PUBLISHED", "RETIRED"} =>
           /\ indexes'[n] \in {indexes[n], "RETIRED"}
           /\ Entries(n)' = Entries(n)]_<<indexes, vectors>>

\* How far that is true: a published index whose number no two calls held at
\* once only retires, whatever else is built or published; it never gains
\* vectors, and it loses some only to an upsert of the same chunks elsewhere.
UnsharedIsImmutable ==
    [][\A n \in Numbers \ shared :
         indexes[n] \in {"PUBLISHED", "RETIRED"} =>
           /\ indexes'[n] \in {indexes[n], "RETIRED"}
           /\ Entries(n)' \subseteq Entries(n)
           /\ ChunkIsKey \/ Entries(n)' = Entries(n)]_<<indexes, vectors, shared>>

Searchable(d, n) == IF ChunkIsKey THEN \E m \in Numbers : d \in Entries(m)
                    ELSE n \in shared \/ d \in Entries(n)

\* A version that is marked INDEXED will not be processed again, so its chunks
\* must not be missing: they are in the index it names, unless that number was
\* shared, or in some index if an upsert moves them.
IndexedIsSearchable ==
    \A d \in Documents :
        versions[d].status = "INDEXED" => Searchable(d, versions[d].index)

\* An index holds all that the indexes hold that were in use when its corpus was
\* listed, also when one of those is overwritten later.  It may lack what an
\* index holds that was saved between list_chunks and next_index_version_number,
\* although its number is the later one.
NewerIsComplete ==
    ~ChunkIsKey => \A n \in Numbers : \A m \in seen[n] : Entries(m) \subseteq Entries(n)

\* The indexes that were ever published under a number that was not shared.
Released == {m \in Numbers \ shared : indexes[m] \in {"PUBLISHED", "RETIRED"}}

\* The releases, with what they hold.
Publications == INSTANCE PublishedIndexes WITH
    Indexes <- Numbers, Items <- Documents, NoIndex <- 0, Moves <- ChunkIsKey,
    content <- [n \in Released |-> Entries(n)],
    active <- kb.active

\* What retrieve may rely on: only a commit of publish_index moves the active
\* index, to one that was never released before and that keeps what it holds
\* unless the vector index moves chunks; a save, an upsert of another index or a
\* crash in between is invisible to readers.  Of a shared number nothing is
\* promised.
ImplementsPublications == Publications!PublicationSpec

\* A document revoked before a retrieve begins is not in its answer.
RevocationIsImmediate ==
    \A r \in Readers : reading[r].pc = "answer" => reading[r].found \intersect reading[r].revoked = {}
=============================================================================
