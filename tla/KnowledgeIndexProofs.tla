------------------------ MODULE KnowledgeIndexProofs ------------------------
(***************************************************************************)
(* For any number of documents, processes and index numbers: the tables    *)
(* keep their types, and publish_index keeps at most one index PUBLISHED,  *)
(* the active one, however its calls interleave with process_document.     *)
(***************************************************************************)
EXTENDS KnowledgeIndex, TLAPS

\* A call of process_document that upserts has drawn its number.
NumbersDrawn ==
    \A p \in Processors : processing[p].pc = "upsert" => processing[p].number \in Numbers

\* The publisher that holds the row lock is alone, and what it is about to
\* retire covers every PUBLISHED index.
CommitsRetire ==
    \A p \in Publishers : publishing[p].pc = "commit" =>
        /\ \A q \in Publishers : publishing[q].pc = "commit" => q = p
        /\ \A n \in Numbers : indexes[n] = "PUBLISHED" => n \in publishing[p].old

Inv == TypeOK /\ NumbersDrawn /\ CommitsRetire /\ PublishedIsActive

------------------------------------------------------------------------------
(* The idle states of the calls are values of their types. *)

\* The idle states are states of a call.
LEMMA IdleTypes ==
    /\ NotProcessing \in Processing
    /\ NotPublishing \in Publishing
    /\ NotReading \in Reading
BY DEF NotProcessing, Processing, NotPublishing, Publishing, NotReading, Reading

\* The initial tables are empty and every call is idle.
LEMMA InitInv == Init => Inv
<1> SUFFICES ASSUME Init PROVE Inv
    OBVIOUS
<1>1. TypeOK
    BY IdleTypes DEF Init, TypeOK, DocumentStatus, VersionRow, IndexStatus, KnowledgeBase
<1>2. NumbersDrawn
    BY DEF Init, NumbersDrawn, NotProcessing
<1>3. CommitsRetire
    BY DEF Init, CommitsRetire, NotPublishing
<1>4. PublishedIsActive
    BY DEF Init, PublishedIsActive
<1> QED BY <1>1, <1>2, <1>3, <1>4 DEF Inv

\* create_upload and revocation change documents and versions only.
LEMMA UploadInv ==
    ASSUME Inv, NEW d \in Documents, CreateDocument(d) \/ CreateVersion(d) \/ Revoke(d)
    PROVE  Inv'
<1>1. TypeOK'
  <2>1. documents' \in [Documents -> DocumentStatus]
      BY DEF Inv, TypeOK, CreateDocument, CreateVersion, Revoke, SaveDocument, DocumentStatus
  <2>2. versions' \in [Documents -> VersionRow]
      BY DEF Inv, TypeOK, CreateDocument, CreateVersion, Revoke, VersionRow
  <2> QED BY <2>1, <2>2 DEF Inv, TypeOK, CreateDocument, CreateVersion, Revoke, indexVars
<1>2. UNCHANGED <<indexes, kb, processing, publishing>>
    BY DEF CreateDocument, CreateVersion, Revoke, indexVars
<1> QED BY <1>1, <1>2 DEF Inv, NumbersDrawn, CommitsRetire, PublishedIsActive

------------------------------------------------------------------------------
(* process_document *)

\* A step of a call leaves a call's state of the right type behind.
LEMMA ProcessingType ==
    ASSUME Inv, NEW p \in Processors, ProcessDocument(p)
    PROVE  processing' \in [Processors -> Processing]
<1> USE IdleTypes DEF Inv, TypeOK
<1>1. ASSUME NEW d \in Documents, ReadVersion(p, d)
      PROVE  processing' \in [Processors -> Processing]
    BY <1>1 DEF ReadVersion, Processing
<1>2. ASSUME NEW d \in Documents, ReadDocument(p, d)
      PROVE  processing' \in [Processors -> Processing]
    BY <1>2 DEF ReadDocument, Processing
<1>3. ASSUME NEW d \in Documents, Quarantine(p, d) \/ SaveIndexedDocument(p, d)
      PROVE  processing' \in [Processors -> Processing]
    BY <1>3 DEF Quarantine, SaveIndexedDocument
<1>4. ASSUME NEW d \in Documents, SaveChunks(p, d) \/ SaveVersion(p, d)
      PROVE  processing' \in [Processors -> Processing]
    BY <1>4 DEF SaveChunks, SaveVersion, Step, Processing
<1>5. CASE ListChunks(p)
    BY <1>5 DEF ListChunks, ReadCorpus, Used, Processing
<1>6. ASSUME NEW n \in Numbers, DrawNumber(p, n)
      PROVE  processing' \in [Processors -> Processing]
  <2>1. n \in Nat
      BY DEF Numbers
  <2>2. [processing[p] EXCEPT !.pc = "upsert", !.number = n] \in Processing
      BY <2>1 DEF Processing
  <2> QED BY <1>6, <2>2 DEF DrawNumber
<1>7. CASE Upsert(p)
    BY <1>7 DEF Upsert, Processing
<1>8. CASE SaveIndex(p)
    BY <1>8 DEF SaveIndex, Step, Processing
<1>9. CASE AbortProcessing(p)
    BY <1>9 DEF AbortProcessing
<1> QED BY <1>1, <1>2, <1>3, <1>4, <1>5, <1>6, <1>7, <1>8, <1>9 DEF ProcessDocument

\* A step of a call leaves rows and vectors of the right type behind.
LEMMA ProcessingRows ==
    ASSUME Inv, NEW p \in Processors, ProcessDocument(p)
    PROVE  /\ documents' \in [Documents -> DocumentStatus]
           /\ versions' \in [Documents -> VersionRow]
           /\ chunks' \subseteq Documents
           /\ indexes' \in [Numbers -> IndexStatus]
           /\ vectors' \subseteq Numbers \X Documents
           /\ shared' \subseteq Numbers
           /\ seen' \in [Numbers -> SUBSET Numbers]
<1> DEFINE Rows == /\ documents' \in [Documents -> DocumentStatus]
                   /\ versions' \in [Documents -> VersionRow]
                   /\ chunks' \subseteq Documents
                   /\ indexes' \in [Numbers -> IndexStatus]
                   /\ vectors' \subseteq Numbers \X Documents
                   /\ shared' \subseteq Numbers
                   /\ seen' \in [Numbers -> SUBSET Numbers]
<1> USE DEF Inv, TypeOK
<1>1. ASSUME NEW d \in Documents, ReadVersion(p, d) \/ ReadDocument(p, d)
      PROVE  Rows
    BY <1>1 DEF ReadVersion, ReadDocument, docVars, indexVars
<1>2. ASSUME NEW d \in Documents, Quarantine(p, d) \/ SaveIndexedDocument(p, d)
      PROVE  Rows
    BY <1>2 DEF Quarantine, SaveIndexedDocument, SaveDocument, DocumentStatus, indexVars
<1>3. ASSUME NEW d \in Documents, SaveChunks(p, d)
      PROVE  Rows
    BY <1>3 DEF SaveChunks, indexVars
<1>4. ASSUME NEW d \in Documents, SaveVersion(p, d)
      PROVE  Rows
  <2>1. processing[p].number \in Nat
      BY DEF Processing
  <2>2. versions' \in [Documents -> VersionRow]
      BY <1>4, <2>1 DEF SaveVersion, VersionRow
  <2> QED BY <1>4, <2>2 DEF SaveVersion, indexVars
<1>5. CASE ListChunks(p) \/ AbortProcessing(p)
    BY <1>5 DEF ListChunks, ReadCorpus, AbortProcessing, docVars, indexVars
<1>6. ASSUME NEW n \in Numbers, DrawNumber(p, n)
      PROVE  Rows
    BY <1>6 DEF DrawNumber, docVars, indexVars
<1>7. CASE Upsert(p)
  <2>1. processing[p].number \in Numbers
      BY <1>7 DEF Upsert, NumbersDrawn
  <2>2. processing[p].corpus \subseteq Documents
      BY DEF Processing
  <2>3. vectors' \subseteq Numbers \X Documents
      BY <1>7, <2>1, <2>2 DEF Upsert
  <2>4. seen' \in [Numbers -> SUBSET Numbers]
      BY <1>7, <2>1 DEF Upsert, Processing
  <2> QED BY <1>7, <2>3, <2>4 DEF Upsert, docVars
<1>8. CASE SaveIndex(p)
    BY <1>8 DEF SaveIndex, IndexStatus, docVars
<1> QED BY <1>1, <1>2, <1>3, <1>4, <1>5, <1>6, <1>7, <1>8 DEF ProcessDocument

\* Only DrawNumber leads to the upsert.
LEMMA DrawnBeforeUpsert ==
    ASSUME Inv, NEW p \in Processors, ProcessDocument(p)
    PROVE  NumbersDrawn'
<1> USE DEF Inv, TypeOK, NumbersDrawn, NotProcessing
<1>1. ASSUME NEW d \in Documents,
             ReadVersion(p, d) \/ ReadDocument(p, d) \/ Quarantine(p, d)
               \/ SaveChunks(p, d) \/ SaveVersion(p, d) \/ SaveIndexedDocument(p, d)
      PROVE  NumbersDrawn'
    BY <1>1 DEF ReadVersion, ReadDocument, Quarantine, SaveChunks, SaveVersion,
                SaveIndexedDocument, Step, Processing
<1>2. ASSUME NEW n \in Numbers, DrawNumber(p, n)
      PROVE  NumbersDrawn'
    BY <1>2 DEF DrawNumber, Processing
<1>3. CASE ListChunks(p) \/ Upsert(p) \/ SaveIndex(p) \/ AbortProcessing(p)
    BY <1>3 DEF ListChunks, ReadCorpus, Upsert, SaveIndex, AbortProcessing, Step, Processing
<1> QED BY <1>1, <1>2, <1>3 DEF ProcessDocument

\* process_document takes indexes out of PUBLISHED at most, never into it.
LEMMA ProcessingNeverPublishes ==
    ASSUME Inv, NEW p \in Processors, ProcessDocument(p)
    PROVE  /\ UNCHANGED <<kb, publishing, reading>>
           /\ \A n \in Numbers : indexes'[n] = "PUBLISHED" => indexes[n] = "PUBLISHED"
<1>1. CASE SaveIndex(p)
    BY <1>1 DEF SaveIndex, Inv, TypeOK
<1>2. CASE ~SaveIndex(p)
    BY <1>2 DEF ProcessDocument, ReadVersion, ReadDocument, Quarantine, SaveChunks, ListChunks,
                ReadCorpus, DrawNumber, Upsert, SaveVersion, SaveIndexedDocument, AbortProcessing, indexVars
<1> QED BY <1>1, <1>2

\* process_document preserves the invariant.
LEMMA ProcessInv ==
    ASSUME Inv, NEW p \in Processors, ProcessDocument(p)
    PROVE  Inv'
<1>1. UNCHANGED <<kb, publishing, reading>>
    BY ProcessingNeverPublishes
<1>2. \A n \in Numbers : indexes'[n] = "PUBLISHED" => indexes[n] = "PUBLISHED"
    BY ProcessingNeverPublishes
<1>3. TypeOK'
    BY <1>1, ProcessingType, ProcessingRows DEF Inv, TypeOK
<1>4. CommitsRetire'
    BY <1>1, <1>2 DEF Inv, CommitsRetire
<1>5. PublishedIsActive'
    BY <1>1, <1>2 DEF Inv, PublishedIsActive
<1> QED BY <1>3, <1>4, <1>5, DrawnBeforeUpsert DEF Inv

------------------------------------------------------------------------------
(* publish_index *)

\* The steps before the transaction and the abort neither commit nor write.
LEMMA PublishPreambleInv ==
    ASSUME Inv, NEW p \in Publishers,
           (\E n \in Used : ReadBaseToPublish(p, n)) \/ ReadIndexToPublish(p)
             \/ AbortPublishing(p)
    PROVE  Inv'
<1> USE DEF Inv, TypeOK
<1>1. UNCHANGED <<documents, versions, chunks, indexes, kb, vectors, shared, seen,
                 processing, reading>>
    BY DEF ReadBaseToPublish, ReadIndexToPublish, AbortPublishing, docVars, indexVars
<1>2. publishing' \in [Publishers -> Publishing] /\ publishing'[p].pc # "commit"
  <2>1. ASSUME NEW n \in Used, ReadBaseToPublish(p, n)
        PROVE  publishing' \in [Publishers -> Publishing] /\ publishing'[p].pc # "commit"
    <3>1. n \in Nat /\ kb.version \in Nat
        BY DEF Used, Numbers, KnowledgeBase
    <3>2. [NotPublishing EXCEPT !.pc = "index", !.number = n, !.version = kb.version]
            \in Publishing
        BY <3>1 DEF NotPublishing, Publishing
    <3> QED BY <2>1, <3>2 DEF ReadBaseToPublish, NotPublishing
  <2>2. CASE ReadIndexToPublish(p)
      BY <2>2, IdleTypes DEF ReadIndexToPublish, Publishing, NotPublishing
  <2>3. CASE AbortPublishing(p)
      BY <2>3, IdleTypes DEF AbortPublishing, NotPublishing
  <2> QED BY <2>1, <2>2, <2>3
<1>3. \A q \in Publishers : q # p => publishing'[q] = publishing[q]
    BY DEF ReadBaseToPublish, ReadIndexToPublish, AbortPublishing
<1>4. CommitsRetire'
    BY <1>1, <1>2, <1>3 DEF CommitsRetire
<1> QED BY <1>1, <1>2, <1>4 DEF NumbersDrawn, PublishedIsActive

\* The lock is free when it is taken, and old is what is PUBLISHED then.
LEMMA LockInv ==
    ASSUME Inv, NEW p \in Publishers, LockForPublish(p)
    PROVE  Inv'
<1> USE DEF Inv, TypeOK
<1>1. UNCHANGED <<documents, versions, chunks, indexes, kb, vectors, shared, seen,
                 processing, reading>>
    BY DEF LockForPublish, docVars, indexVars
<1>2. publishing' \in [Publishers -> Publishing]
    BY IdleTypes DEF LockForPublish, Publishing
<1>3. \A q \in Publishers : publishing'[q].pc = "commit" =>
         q = p /\ publishing'[q].old = {n \in Numbers : indexes[n] = "PUBLISHED"}
    BY DEF LockForPublish, BaseLocked, NotPublishing, Publishing
<1>4. CommitsRetire'
    BY <1>1, <1>3 DEF CommitsRetire
<1> QED BY <1>1, <1>2, <1>4 DEF NumbersDrawn, PublishedIsActive

\* The commit leaves its own index PUBLISHED and active, and the lock free.
LEMMA CommitInv ==
    ASSUME Inv, NEW p \in Publishers, CommitPublish(p)
    PROVE  Inv'
<1> USE DEF Inv, TypeOK
<1> DEFINE n == publishing[p].number
<1>1. UNCHANGED <<documents, versions, chunks, vectors, shared, seen, processing, reading>>
    BY DEF CommitPublish, docVars
<1>2. n \in Nat /\ publishing[p].version \in Nat
    BY DEF Publishing
<1>3. kb' \in KnowledgeBase /\ kb'.active = n
    BY <1>2 DEF CommitPublish, KnowledgeBase
<1>4. indexes' \in [Numbers -> IndexStatus]
    BY DEF CommitPublish, IndexStatus
<1>5. publishing' \in [Publishers -> Publishing]
    BY IdleTypes DEF CommitPublish
<1>6. \A m \in Numbers : indexes'[m] = "PUBLISHED" => m = n
    BY DEF CommitPublish, CommitsRetire
<1>7. PublishedIsActive'
    BY <1>3, <1>6 DEF PublishedIsActive
<1>8. \A q \in Publishers : publishing'[q].pc # "commit"
    BY DEF CommitPublish, CommitsRetire, NotPublishing
<1>9. CommitsRetire'
    BY <1>8 DEF CommitsRetire
<1> QED BY <1>1, <1>3, <1>4, <1>5, <1>7, <1>9 DEF NumbersDrawn

------------------------------------------------------------------------------
(* retrieve only changes its own state. *)

\* A step of retrieve preserves the invariant.
LEMMA RetrieveInv ==
    ASSUME Inv, NEW r \in Readers, Retrieve(r)
    PROVE  Inv'
<1> USE DEF Inv, TypeOK
<1>1. UNCHANGED <<documents, versions, chunks, indexes, kb, vectors, shared, seen,
                 processing, publishing>>
    BY DEF Retrieve, ReadBase, ReadIndex, Search, Authorize, Answer, docVars, indexVars
<1>2. reading' \in [Readers -> Reading]
  <2>1. CASE ReadBase(r)
    <3> DEFINE revoked == {d \in Documents : documents[d] = "REVOKED"}
    <3>1. [NotReading EXCEPT !.pc = "index", !.index = kb.active, !.revoked = revoked] \in Reading
        BY DEF NotReading, Reading, KnowledgeBase
    <3> QED BY <2>1, <3>1 DEF ReadBase
  <2>2. CASE ReadIndex(r)
      BY <2>2, IdleTypes DEF ReadIndex, Reading
  <2>3. CASE Search(r)
    <3>1. PICK hits \in SUBSET Documents :
            reading' = [reading EXCEPT ![r].pc = "authorize", ![r].found = hits]
        BY <2>3 DEF Search, Entries
    <3>2. [reading[r] EXCEPT !.pc = "authorize", !.found = hits] \in Reading
        BY DEF Reading
    <3> QED BY <3>1, <3>2
  <2>4. CASE Authorize(r)
    <3> DEFINE found == {d \in reading[r].found : d \in chunks /\ documents[d] = "INDEXED"}
    <3>1. [reading[r] EXCEPT !.pc = "answer", !.found = found] \in Reading
        BY DEF Reading
    <3> QED BY <2>4, <3>1 DEF Authorize
  <2>5. CASE Answer(r)
      BY <2>5, IdleTypes DEF Answer
  <2> QED BY <2>1, <2>2, <2>3, <2>4, <2>5 DEF Retrieve
<1> QED BY <1>1, <1>2 DEF NumbersDrawn, CommitsRetire, PublishedIsActive

------------------------------------------------------------------------------
\* Every step preserves the invariant.
LEMMA InvStep ==
    ASSUME Inv, [Next]_vars
    PROVE  Inv'
<1>1. CASE UNCHANGED vars
    BY <1>1 DEF vars, Inv, TypeOK, NumbersDrawn, CommitsRetire, PublishedIsActive
<1>2. CASE \E d \in Documents : CreateDocument(d) \/ CreateVersion(d) \/ Revoke(d)
    BY <1>2, UploadInv
<1>3. CASE \E p \in Processors : ProcessDocument(p)
    BY <1>3, ProcessInv
<1>4. CASE \E p \in Publishers : PublishIndex(p)
    BY <1>4, PublishPreambleInv, LockInv, CommitInv DEF PublishIndex
<1>5. CASE \E r \in Readers : Retrieve(r)
    BY <1>5, RetrieveInv
<1> QED BY <1>1, <1>2, <1>3, <1>4, <1>5 DEF Next

\* The types, the numbers, the lock and the one active index hold always.
THEOREM Invariance == Spec => []Inv
BY InitInv, InvStep, PTL DEF Spec

\* Rows, vectors and the states of all calls keep their types: no call writes
\* a chunk into an index whose number was never drawn.
THEOREM TypeCorrect == Spec => []TypeOK
BY Invariance, PTL DEF Inv

\* publish_index never leaves two indexes PUBLISHED, nor one that is not the
\* active one, for any number of concurrent publishers and processors.
THEOREM OnePublished == Spec => []PublishedIsActive
BY Invariance, PTL DEF Inv

------------------------------------------------------------------------------
(* What process_document can no longer change, once its calls are gone *)

\* The version is INDEXED, its document is not, and no call is at work on it.
Stranded(d) ==
    /\ versions[d].status = "INDEXED"
    /\ documents[d] # "INDEXED"
    /\ \A p \in Processors : d \notin processing[p].doc

StrandedStays == [][\A d \in Documents : Stranded(d) => Stranded(d)']_vars

\* The document is revoked, and no call at work on it is past its check.
RevokedInTime(d) ==
    /\ documents[d] = "REVOKED"
    /\ \A p \in Processors : d \in processing[p].doc => processing[p].pc = "document"

RevocationStays == [][\A d \in Documents : RevokedInTime(d) => RevokedInTime(d)']_vars

\* A call of process_document moves on: it takes up d only from READY, writes d
\* only when it works on d, and makes d INDEXED only past its check.
LEMMA CallsTouchTheirOwn ==
    ASSUME Inv, NEW p \in Processors, ProcessDocument(p), NEW d \in Documents
    PROVE  /\ \A q \in Processors \ {p} : processing'[q] = processing[q]
           /\ d \in processing'[p].doc /\ d \notin processing[p].doc =>
                 versions[d].status = "READY" /\ processing'[p].pc = "document"
           /\ d \notin processing[p].doc => documents'[d] = documents[d]
           /\ processing[p].pc = "document" =>
                 /\ documents'[d] = documents[d]
                 /\ d \in processing'[p].doc => documents[d] # "REVOKED"
           /\ d \notin processing[p].doc => versions'[d] = versions[d]
<1> USE DEF Inv, TypeOK
<1>1. ASSUME NEW e \in Documents, ReadVersion(p, e)
      PROVE  /\ processing'[p].doc = {e} /\ processing'[p].pc = "document"
             /\ processing[p].pc = "idle" /\ versions[e].status = "READY"
             /\ UNCHANGED <<documents, versions>>
             /\ \A q \in Processors \ {p} : processing'[q] = processing[q]
    BY <1>1 DEF ReadVersion, Processing, docVars
<1>2. ASSUME NEW e \in Documents, ReadDocument(p, e)
      PROVE  /\ processing[p].doc = {e} /\ UNCHANGED <<documents, versions>>
             /\ \/ processing'[p].doc = {}
                \/ documents[e] # "REVOKED" /\ processing'[p].doc = {e}
             /\ \A q \in Processors \ {p} : processing'[q] = processing[q]
    BY <1>2 DEF ReadDocument, Processing, NotProcessing, docVars
<1>3. ASSUME NEW e \in Documents, Quarantine(p, e) \/ SaveIndexedDocument(p, e)
      PROVE  /\ processing[p].doc = {e} /\ processing[p].pc # "document"
             /\ processing'[p].doc = {} /\ versions' = versions
             /\ \A f \in Documents \ {e} : documents'[f] = documents[f]
             /\ \A q \in Processors \ {p} : processing'[q] = processing[q]
    BY <1>3 DEF Quarantine, SaveIndexedDocument, SaveDocument, NotProcessing
<1>4. ASSUME NEW e \in Documents, SaveChunks(p, e) \/ SaveVersion(p, e)
      PROVE  /\ processing[p].doc = {e} /\ processing[p].pc # "document"
             /\ processing'[p].doc = {e} /\ documents' = documents
             /\ \A f \in Documents \ {e} : versions'[f] = versions[f]
             /\ \A q \in Processors \ {p} : processing'[q] = processing[q]
    BY <1>4 DEF SaveChunks, SaveVersion, Step, Processing
<1>5. CASE ListChunks(p) \/ (\E n \in Numbers : DrawNumber(p, n)) \/ Upsert(p) \/ SaveIndex(p)
  <2>1. /\ processing'[p].doc = processing[p].doc /\ processing[p].pc # "document"
        /\ UNCHANGED <<documents, versions>>
        /\ \A q \in Processors \ {p} : processing'[q] = processing[q]
      BY <1>5 DEF ListChunks, ReadCorpus, DrawNumber, Upsert, SaveIndex, Step, Processing, docVars
  <2> QED BY <2>1
<1>6. CASE AbortProcessing(p)
  <2>1. /\ processing'[p].doc = {} /\ UNCHANGED <<documents, versions>>
        /\ \A q \in Processors \ {p} : processing'[q] = processing[q]
      BY <1>6 DEF AbortProcessing, NotProcessing, docVars
  <2> QED BY <2>1
<1> QED BY <1>1, <1>2, <1>3, <1>4, <1>5, <1>6 DEF ProcessDocument

\* The other steps change no call, index no document and bring none back.
LEMMA OthersTouchNoCall ==
    ASSUME Inv, Next, NEW d \in Documents, \A p \in Processors : ~ProcessDocument(p)
    PROVE  /\ processing' = processing
           /\ versions[d].status = "INDEXED" => versions'[d] = versions[d]
           /\ documents[d] # "INDEXED" => documents'[d] # "INDEXED"
           /\ documents[d] = "REVOKED" => documents'[d] = "REVOKED"
<1> USE DEF Inv, TypeOK
<1>1. ASSUME NEW e \in Documents, CreateDocument(e) \/ CreateVersion(e) \/ Revoke(e)
      PROVE  /\ processing' = processing
             /\ versions[d].status = "INDEXED" => versions'[d] = versions[d]
             /\ documents[d] # "INDEXED" => documents'[d] # "INDEXED"
             /\ documents[d] = "REVOKED" => documents'[d] = "REVOKED"
    BY <1>1 DEF CreateDocument, CreateVersion, Revoke, SaveDocument, VersionRow
<1>2. ASSUME NEW p \in Publishers, PublishIndex(p)
      PROVE  UNCHANGED <<processing, documents, versions>>
    BY <1>2 DEF PublishIndex, ReadBaseToPublish, ReadIndexToPublish, LockForPublish,
                CommitPublish, AbortPublishing, docVars
<1>3. ASSUME NEW r \in Readers, Retrieve(r)
      PROVE  UNCHANGED <<processing, documents, versions>>
    BY <1>3 DEF Retrieve, ReadBase, ReadIndex, Search, Authorize, Answer, docVars
<1> QED BY <1>1, <1>2, <1>3 DEF Next

\* A crash of process_document between save_document_version and save_document
\* is never repaired: no operation, a repeated call included, makes the
\* document of an INDEXED version INDEXED once no call is at work on it.
THEOREM NothingRepairs == Spec => StrandedStays
<1>1. ASSUME Inv, [Next]_vars, NEW d \in Documents, Stranded(d)
      PROVE  Stranded(d)'
  <2>1. CASE UNCHANGED vars
      BY <1>1, <2>1 DEF vars, Stranded
  <2>2. ASSUME NEW p \in Processors, ProcessDocument(p)
        PROVE  Stranded(d)'
    <3>1. d \notin processing[p].doc
        BY <1>1 DEF Stranded
    <3>2. d \notin processing'[p].doc
        BY <1>1, <2>2, <3>1, CallsTouchTheirOwn DEF Stranded
    <3>3. documents'[d] = documents[d] /\ versions'[d] = versions[d]
        BY <1>1, <2>2, <3>1, CallsTouchTheirOwn
    <3>4. \A q \in Processors \ {p} : processing'[q] = processing[q]
        BY <1>1, <2>2, CallsTouchTheirOwn
    <3> QED BY <1>1, <3>2, <3>3, <3>4 DEF Stranded
  <2>3. CASE Next /\ \A p \in Processors : ~ProcessDocument(p)
      BY <1>1, <2>3, OthersTouchNoCall DEF Stranded
  <2> QED BY <1>1, <2>1, <2>2, <2>3
<1>2. Inv /\ [Next]_vars => \A d \in Documents : Stranded(d) => Stranded(d)'
    BY <1>1
<1> QED BY <1>2, Invariance, PTL DEF Spec, StrandedStays

\* A revocation is undone only by a call of process_document that had read the
\* document before: one that no such call overlaps stays for good.
THEOREM OnlyStaleCallsUndo == Spec => RevocationStays
<1>1. ASSUME Inv, [Next]_vars, NEW d \in Documents, RevokedInTime(d)
      PROVE  RevokedInTime(d)'
  <2>1. CASE UNCHANGED vars
      BY <1>1, <2>1 DEF vars, RevokedInTime
  <2>2. ASSUME NEW p \in Processors, ProcessDocument(p)
        PROVE  RevokedInTime(d)'
    <3>1. d \in processing[p].doc => processing[p].pc = "document"
        BY <1>1 DEF RevokedInTime
    <3>2. documents'[d] = documents[d]
        BY <1>1, <2>2, <3>1, CallsTouchTheirOwn
    <3>3. d \in processing'[p].doc => processing'[p].pc = "document"
      <4>1. CASE d \in processing[p].doc
          BY <1>1, <2>2, <3>1, <4>1, CallsTouchTheirOwn DEF RevokedInTime
      <4>2. CASE d \notin processing[p].doc
          BY <1>1, <2>2, <4>2, CallsTouchTheirOwn
      <4> QED BY <4>1, <4>2
    <3>4. \A q \in Processors \ {p} : processing'[q] = processing[q]
        BY <1>1, <2>2, CallsTouchTheirOwn
    <3> QED BY <1>1, <3>2, <3>3, <3>4 DEF RevokedInTime
  <2>3. CASE Next /\ \A p \in Processors : ~ProcessDocument(p)
      BY <1>1, <2>3, OthersTouchNoCall DEF RevokedInTime
  <2> QED BY <1>1, <2>1, <2>2, <2>3
<1>2. Inv /\ [Next]_vars => \A d \in Documents : RevokedInTime(d) => RevokedInTime(d)'
    BY <1>1
<1> QED BY <1>2, Invariance, PTL DEF Spec, RevocationStays
=============================================================================
