------------------------ MODULE KnowledgeRaceProofs ------------------------
(***************************************************************************)
(* What holds of the index versions however many calls of process_document *)
(* build indexes at once, for either kind of vector index.  OrderInv is    *)
(* about the rows: a number that was never shared has one call at most     *)
(* that still saves its index, and none once the index is in use.          *)
(* PlaceInv and SnapshotInv are about the contents: where the chunks of a  *)
(* document are, and that a corpus is a snapshot of chunks that only grow. *)
(***************************************************************************)
EXTENDS KnowledgeIndexProofs

\* Of an unshared number the call that holds it is the only one, and its index
\* is not in use before the call has saved it.
NumberOK(p) ==
    /\ processing[p].pc \in {"upsert", "index", "version", "indexed"} =>
         processing[p].number \in Numbers
    /\ processing[p].pc \in {"version", "indexed"} => processing[p].number \in Used
    /\ \A n \in Numbers \ shared : Holds(p, n) =>
         n \notin Used /\ \A q \in Processors : Holds(q, n) => q = p

Numbered == \A p \in Processors : NumberOK(p)

\* What a publisher has locked stays READY, and what it is about to retire is in
\* use and stays PUBLISHED unless it is shared, until it commits.
Lockable ==
    \A p \in Publishers :
        /\ publishing[p].pc # "idle" => publishing[p].number \in Used
        /\ publishing[p].pc = "commit" => indexes[publishing[p].number] = "READY"
        /\ publishing[p].pc = "commit" =>
             /\ publishing[p].old \subseteq Used
             /\ \A n \in publishing[p].old \ shared : indexes[n] = "PUBLISHED"

Active == (kb.active # 0 => kb.active \in Used) /\ ActiveIsPublished

OrderInv == Inv /\ Numbered /\ Lockable /\ Active

\* A call has stored and listed the chunks of its document, then put them into an
\* index.
PlaceOK(p) ==
    /\ processing[p].pc = "corpus" => processing[p].doc \subseteq chunks
    /\ processing[p].pc \in {"number", "upsert"} => processing[p].doc \subseteq processing[p].corpus
    /\ processing[p].pc \in {"index", "version"} =>
         \A d \in processing[p].doc : Searchable(d, processing[p].number)

PlaceInv ==
    /\ \A p \in Processors : PlaceOK(p)
    /\ \A d \in Documents : versions[d].status = "INDEXED" =>
         versions[d].index \in Used /\ Searchable(d, versions[d].index)

\* S holds all that the indexes L hold, and will hold once the calls at work on
\* them have upserted.
Covers(S, L) ==
    \A m \in L :
        /\ Entries(m) \subseteq S
        /\ \A q \in Processors :
             processing[q].pc = "upsert" /\ processing[q].number = m => processing[q].corpus \subseteq S

SnapshotOK(p) ==
    /\ processing[p].pc \in {"number", "upsert"} =>
         /\ processing[p].corpus \subseteq chunks
         /\ processing[p].listed \subseteq Used
         /\ Covers(processing[p].corpus, processing[p].listed)
    /\ processing[p].pc = "upsert" => processing[p].number \notin processing[p].listed

SnapshotInv ==
    /\ \A p \in Processors : SnapshotOK(p)
    /\ \A n \in Numbers : Entries(n) \subseteq chunks
    /\ \A n \in Numbers : seen[n] \subseteq Used /\ Covers(Entries(n), seen[n])

------------------------------------------------------------------------------
\* Nothing is in use and nobody works initially.
LEMMA InitRace == Init => OrderInv /\ PlaceInv /\ SnapshotInv
<1> SUFFICES ASSUME Init PROVE OrderInv /\ PlaceInv /\ SnapshotInv
    OBVIOUS
<1>1. Inv
    BY InitInv
<1>2. Used = {} /\ kb.active = 0
    BY DEF Init, Used
<1>3. \A p \in Processors : processing[p].pc = "idle"
    BY DEF Init, NotProcessing
<1>4. Numbered /\ Lockable /\ Active
    BY <1>2, <1>3 DEF Init, Numbered, NumberOK, Holds, Lockable, Active, ActiveIsPublished, NotPublishing
<1>5. PlaceInv
    BY <1>3 DEF Init, PlaceInv, PlaceOK
<1>6. SnapshotInv
    BY <1>3 DEF Init, SnapshotInv, SnapshotOK, Covers, Entries
<1> QED BY <1>1, <1>4, <1>5, <1>6 DEF OrderInv

\* A step of one call of process_document leaves the other calls alone.
LEMMA OtherCalls ==
    ASSUME Inv, NEW p \in Processors, ProcessDocument(p), NEW q \in Processors, q # p
    PROVE  processing'[q] = processing[q]
BY DEF Inv, TypeOK, ProcessDocument, ReadVersion, ReadDocument, Quarantine, SaveChunks, ListChunks,
       ReadCorpus, DrawNumber, Upsert, SaveIndex, SaveVersion, SaveIndexedDocument,
       AbortProcessing, Step

\* The steps that write no index, vector or version, and draw no number.
Plain(p) ==
    \/ \E d \in Documents : \/ ReadVersion(p, d) \/ ReadDocument(p, d) \/ Quarantine(p, d)
                           \/ SaveChunks(p, d) \/ SaveIndexedDocument(p, d)
    \/ ListChunks(p) \/ AbortProcessing(p)

\* What such a step leaves behind.
LEMMA PlainStep ==
    ASSUME Inv, NEW p \in Processors, Plain(p)
    PROVE  /\ UNCHANGED <<versions, indexVars, publishing>>
           /\ chunks \subseteq chunks'
           /\ \/ processing'[p].pc \in {"idle", "document", "inspect"}
              \/ processing'[p].pc = "corpus" /\ processing'[p].doc \subseteq chunks'
              \/ /\ processing[p].pc = "corpus" /\ processing'[p].pc = "number"
                 /\ processing'[p].corpus = chunks /\ processing'[p].listed = Used
                 /\ processing'[p].doc = processing[p].doc
<1> USE DEF Inv, TypeOK, Processing
<1>1. UNCHANGED <<versions, indexVars, publishing>> /\ chunks \subseteq chunks'
    BY DEF Plain, ReadVersion, ReadDocument, Quarantine, SaveChunks, SaveIndexedDocument, ListChunks,
           ReadCorpus, AbortProcessing, docVars
<1>2. ASSUME NEW d \in Documents,
             ReadVersion(p, d) \/ ReadDocument(p, d) \/ Quarantine(p, d) \/ SaveIndexedDocument(p, d)
      PROVE  processing'[p].pc \in {"idle", "document", "inspect"}
    BY <1>2 DEF ReadVersion, ReadDocument, Quarantine, SaveIndexedDocument, NotProcessing
<1>3. ASSUME NEW d \in Documents, SaveChunks(p, d)
      PROVE  processing'[p].pc = "corpus" /\ processing'[p].doc \subseteq chunks'
    BY <1>3 DEF SaveChunks, Step
<1>4. CASE ListChunks(p)
    BY <1>1, <1>4 DEF ListChunks, ReadCorpus
<1>5. CASE AbortProcessing(p)
    BY <1>1, <1>5 DEF AbortProcessing, NotProcessing
<1> QED BY <1>1, <1>2, <1>3, <1>4, <1>5 DEF Plain

\* A drawn number is not in use; it is shared from then on if another call holds
\* it.
LEMMA DrawStep ==
    ASSUME Inv, NEW p \in Processors, NEW n \in Numbers, DrawNumber(p, n)
    PROVE  /\ UNCHANGED <<versions, chunks, indexes, kb, vectors, seen, publishing>>
           /\ n \notin Used /\ shared \subseteq shared' /\ shared' \subseteq shared \union {n}
           /\ n \notin shared' => \A q \in Processors : ~Holds(q, n)
           /\ processing[p].pc = "number" /\ processing'[p].pc = "upsert"
           /\ processing'[p].number = n /\ processing'[p].doc = processing[p].doc
           /\ processing'[p].corpus = processing[p].corpus
           /\ processing'[p].listed = processing[p].listed
BY DEF Inv, TypeOK, Processing, DrawNumber, IsNextNumber, docVars

\* The upsert writes what the call has listed into the index it has drawn.
LEMMA UpsertStep ==
    ASSUME Inv, NEW p \in Processors, Upsert(p)
    PROVE  /\ UNCHANGED <<versions, chunks, indexes, kb, shared, publishing>>
           /\ processing[p].pc = "upsert" /\ processing'[p].pc = "index"
           /\ processing'[p].number = processing[p].number
           /\ processing'[p].doc = processing[p].doc
           /\ processing[p].number \in Numbers
           /\ seen' = [seen EXCEPT ![processing[p].number] = processing[p].listed]
<1>1. processing[p].number \in Numbers
    BY DEF Upsert, Inv, NumbersDrawn
<1> QED BY <1>1 DEF Inv, TypeOK, Processing, Upsert, docVars

\* A save puts the index of the call in use and leaves all others alone.
LEMMA SaveIndexStep ==
    ASSUME OrderInv, NEW p \in Processors, SaveIndex(p)
    PROVE  /\ UNCHANGED <<versions, chunks, kb, vectors, shared, seen, publishing>>
           /\ processing[p].pc = "index" /\ processing'[p].pc = "version"
           /\ processing'[p].number = processing[p].number
           /\ processing'[p].doc = processing[p].doc
           /\ Holds(p, processing[p].number)
           /\ processing[p].number \in Numbers
           /\ indexes'[processing[p].number] = "READY"
           /\ \A m \in Numbers : m # processing[p].number => indexes'[m] = indexes[m]
           /\ Used' = Used \union {processing[p].number}
<1>1. processing[p].pc = "index"
    BY DEF SaveIndex, Step
<1>2. processing[p].number \in Numbers
    BY <1>1 DEF OrderInv, Numbered, NumberOK
<1>3. /\ indexes'[processing[p].number] = "READY"
      /\ \A m \in Numbers : m # processing[p].number => indexes'[m] = indexes[m]
    BY <1>2 DEF SaveIndex, OrderInv, Inv, TypeOK
<1>4. Used' = Used \union {processing[p].number}
    BY <1>2, <1>3 DEF Used
<1> QED BY <1>1, <1>2, <1>3, <1>4 DEF SaveIndex, Step, OrderInv, Inv, TypeOK, Processing, docVars, Holds

\* The version of the call's document names the index the call has saved.
LEMMA SaveVersionStep ==
    ASSUME Inv, NEW p \in Processors, NEW d \in Documents, SaveVersion(p, d)
    PROVE  /\ UNCHANGED <<chunks, indexVars, publishing>>
           /\ processing[p].pc = "version" /\ processing'[p].pc = "indexed"
           /\ processing'[p].number = processing[p].number /\ processing[p].doc = {d}
           /\ versions'[d].index = processing[p].number
           /\ \A e \in Documents : e # d => versions'[e] = versions[e]
BY DEF Inv, TypeOK, Processing, SaveVersion, Step

------------------------------------------------------------------------------
(* OrderInv: the rows of the indexes *)

\* Steps that leave indexes and calls alone.
LEMMA FrameOrder ==
    ASSUME OrderInv, Inv', UNCHANGED <<indexes, kb, shared, processing, publishing>>
    PROVE  OrderInv'
BY DEF OrderInv, Numbered, NumberOK, Holds, Lockable, Active, ActiveIsPublished, Used

\* Steps of process_document that save no index and take no unshared number from
\* another call.
LEMMA CallOrder ==
    ASSUME OrderInv, Inv', NEW p \in Processors, ProcessDocument(p),
           UNCHANGED <<indexes, kb, publishing>>, shared \subseteq shared', NumberOK(p)',
           \A n \in Numbers \ shared' : \A q \in Processors :
               q # p /\ Holds(q, n) => ~Holds(p, n)'
    PROVE  OrderInv'
<1>1. Used' = Used
    BY DEF Used
<1>2. \A q \in Processors : q # p => processing'[q] = processing[q]
    BY OtherCalls DEF OrderInv
<1>3. ASSUME NEW q \in Processors PROVE NumberOK(q)'
  <2>1. CASE q = p
      BY <2>1
  <2>2. CASE q # p
    <3>1. NumberOK(q)
        BY DEF OrderInv, Numbered
    <3>2. ASSUME NEW n \in Numbers \ shared', Holds(q, n)'
          PROVE  n \notin Used /\ \A r \in Processors : Holds(r, n)' => r = q
      <4>1. Holds(q, n) /\ n \notin shared
          BY <1>2, <2>2, <3>2 DEF Holds
      <4>2. n \notin Used /\ \A r \in Processors : Holds(r, n) => r = q
          BY <3>1, <4>1 DEF NumberOK
      <4>3. ~Holds(p, n)'
          BY <2>2, <4>1
      <4> QED BY <1>2, <4>2, <4>3 DEF Holds
    <3> QED BY <1>1, <1>2, <2>2, <3>1, <3>2 DEF NumberOK
  <2> QED BY <2>1, <2>2
<1>4. Lockable'
    BY <1>1 DEF OrderInv, Lockable
<1>5. Active'
    BY <1>1 DEF OrderInv, Active, ActiveIsPublished
<1> QED BY <1>3, <1>4, <1>5 DEF OrderInv, Numbered

\* If its number is not shared the index is new, so no published one is touched
\* and no other call still holds the number.
LEMMA SaveIndexOrder ==
    ASSUME OrderInv, Inv', NEW p \in Processors, ProcessDocument(p), SaveIndex(p)
    PROVE  OrderInv'
<1> DEFINE n == processing[p].number
<1>1. /\ UNCHANGED <<kb, shared, publishing>> /\ processing'[p].pc = "version"
      /\ processing'[p].number = n /\ Holds(p, n) /\ n \in Numbers
      /\ indexes'[n] = "READY" /\ \A m \in Numbers : m # n => indexes'[m] = indexes[m]
      /\ Used' = Used \union {n}
    BY SaveIndexStep
<1>2. n \notin shared => n \notin Used /\ \A q \in Processors : Holds(q, n) => q = p
    BY <1>1 DEF OrderInv, Numbered, NumberOK
<1> HIDE DEF n
<1>3. ASSUME NEW q \in Processors PROVE NumberOK(q)'
  <2>1. CASE q = p
      BY <1>1, <2>1 DEF NumberOK, Holds
  <2>2. CASE q # p
    <3>1. processing'[q] = processing[q] /\ NumberOK(q)
        BY <2>2, OtherCalls DEF OrderInv, Numbered
    <3>2. ASSUME NEW m \in Numbers \ shared, Holds(q, m)
          PROVE  m \notin Used' /\ \A r \in Processors : Holds(r, m)' => r = q
      <4>1. m \notin Used /\ \A r \in Processors : Holds(r, m) => r = q
          BY <3>1, <3>2 DEF NumberOK
      <4>2. m # n
          BY <1>2, <2>2, <3>2
      <4>3. \A r \in Processors : r # p => processing'[r] = processing[r]
          BY OtherCalls DEF OrderInv
      <4> QED BY <1>1, <4>1, <4>2, <4>3 DEF Holds
    <3> QED BY <1>1, <3>1, <3>2 DEF NumberOK, Holds
  <2> QED BY <2>1, <2>2
<1>4. Lockable'
  <2>1. \A m \in Numbers : indexes[m] = "READY" => indexes'[m] = "READY"
      BY <1>1
  <2>2. Used \subseteq Used' /\ Used \subseteq Numbers
      BY <1>1 DEF Used
  <2>3. \A m \in Used \ shared : indexes'[m] = indexes[m]
      BY <1>1, <1>2 DEF Used
  <2> QED BY <1>1, <2>1, <2>2, <2>3 DEF OrderInv, Lockable
<1>5. Active'
    BY <1>1, <1>2 DEF OrderInv, Active, ActiveIsPublished, Used
<1> QED BY <1>3, <1>4, <1>5 DEF OrderInv, Numbered

\* process_document preserves OrderInv.
LEMMA ProcessOrder ==
    ASSUME OrderInv, Inv', NEW p \in Processors, ProcessDocument(p)
    PROVE  OrderInv'
<1> USE DEF OrderInv
<1>1. CASE Plain(p)
  <2>1. UNCHANGED <<indexes, kb, shared, publishing>>
      BY <1>1, PlainStep DEF indexVars
  <2>2. processing'[p].pc \notin {"upsert", "index", "version", "indexed"}
      BY <1>1, PlainStep
  <2>3. NumberOK(p)' /\ \A n : ~Holds(p, n)'
      BY <2>2 DEF NumberOK, Holds
  <2> QED BY <2>1, <2>3, CallOrder
<1>2. ASSUME NEW n \in Numbers, DrawNumber(p, n) PROVE OrderInv'
  <2>1. /\ UNCHANGED <<indexes, kb, publishing>> /\ shared \subseteq shared'
        /\ n \notin Used /\ (n \notin shared' => \A q \in Processors : ~Holds(q, n))
        /\ processing'[p].pc = "upsert" /\ processing'[p].number = n
      BY <1>2, DrawStep
  <2>2. \A m : Holds(p, m)' <=> m = n
      BY <2>1 DEF Holds
  <2>3. \A q \in Processors : q # p => processing'[q] = processing[q]
      BY OtherCalls
  <2>4. NumberOK(p)'
      BY <2>1, <2>2, <2>3 DEF NumberOK, Holds, Used
  <2> QED BY <2>1, <2>2, <2>4, CallOrder
<1>3. CASE Upsert(p)
  <2>1. /\ UNCHANGED <<indexes, kb, shared, publishing>>
        /\ processing[p].pc = "upsert" /\ processing'[p].pc = "index"
        /\ processing'[p].number = processing[p].number
      BY <1>3, UpsertStep
  <2>2. \A m : Holds(p, m)' <=> Holds(p, m)
      BY <2>1 DEF Holds
  <2>3. \A q \in Processors : q # p => processing'[q] = processing[q]
      BY OtherCalls
  <2>4. NumberOK(p)
      BY DEF Numbered
  <2>5. \A m : \A q \in Processors : Holds(q, m)' <=> Holds(q, m)
      BY <2>2, <2>3 DEF Holds
  <2>6. Used' = Used
      BY <2>1 DEF Used
  <2>7. NumberOK(p)'
      BY <2>1, <2>4, <2>5, <2>6 DEF NumberOK
  <2>8. \A n \in Numbers \ shared' : \A q \in Processors : q # p /\ Holds(q, n) => ~Holds(p, n)'
      BY <2>1, <2>2, <2>4 DEF NumberOK
  <2> QED BY <2>1, <2>7, <2>8, CallOrder
<1>4. ASSUME NEW d \in Documents, SaveVersion(p, d) PROVE OrderInv'
  <2>1. /\ UNCHANGED <<indexes, kb, shared, publishing>>
        /\ processing[p].pc = "version" /\ processing'[p].pc = "indexed"
        /\ processing'[p].number = processing[p].number
      BY <1>4, SaveVersionStep DEF indexVars
  <2>2. \A n : ~Holds(p, n)'
      BY <2>1 DEF Holds
  <2>3. NumberOK(p)'
      BY <2>1, <2>2 DEF Numbered, NumberOK, Used
  <2> QED BY <2>1, <2>2, <2>3, CallOrder
<1>5. CASE SaveIndex(p)
    BY <1>5, SaveIndexOrder
<1> QED BY <1>1, <1>2, <1>3, <1>4, <1>5 DEF ProcessDocument, Plain

\* Until it commits a publisher only learns and locks a READY index in use.
LEMMA PreambleOrder ==
    ASSUME OrderInv, Inv', NEW p \in Publishers,
           (\E n \in Used : ReadBaseToPublish(p, n)) \/ ReadIndexToPublish(p)
             \/ LockForPublish(p) \/ AbortPublishing(p)
    PROVE  OrderInv' /\ UNCHANGED <<docVars, indexVars, processing>>
<1> USE DEF OrderInv
<1>1. UNCHANGED <<docVars, indexVars, processing>>
    BY DEF ReadBaseToPublish, ReadIndexToPublish, LockForPublish, AbortPublishing
<1>2. \A q \in Publishers : q # p => publishing'[q] = publishing[q]
    BY DEF ReadBaseToPublish, ReadIndexToPublish, LockForPublish, AbortPublishing, Inv, TypeOK
<1>3. /\ publishing'[p].pc # "idle" => publishing'[p].number \in Used
      /\ publishing'[p].pc = "commit" => /\ indexes[publishing'[p].number] = "READY"
                                         /\ publishing'[p].old \subseteq Used
                                         /\ \A n \in publishing'[p].old : indexes[n] = "PUBLISHED"
  <2> USE DEF Lockable, Inv, TypeOK, Publishing
  <2>1. ASSUME NEW n \in Used, ReadBaseToPublish(p, n)
        PROVE  publishing'[p].pc = "index" /\ publishing'[p].number = n
      BY <2>1 DEF ReadBaseToPublish, NotPublishing
  <2>2. CASE ReadIndexToPublish(p)
      BY <2>2 DEF ReadIndexToPublish, NotPublishing
  <2>3. CASE LockForPublish(p)
    <3>1. publishing'[p].pc \in {"idle", "commit"}
        BY <2>3 DEF LockForPublish, NotPublishing
    <3>2. ASSUME publishing'[p].pc = "commit"
          PROVE  /\ indexes[publishing[p].number] = "READY"
                 /\ publishing'[p].number = publishing[p].number
                 /\ publishing'[p].old = {n \in Numbers : indexes[n] = "PUBLISHED"}
        BY <2>3, <3>2 DEF LockForPublish, NotPublishing
    <3>3. publishing[p].number \in Used
        BY <2>3 DEF LockForPublish
    <3> QED BY <3>1, <3>2, <3>3 DEF Used
  <2>4. CASE AbortPublishing(p)
      BY <2>4 DEF AbortPublishing, NotPublishing
  <2> QED BY <2>1, <2>2, <2>3, <2>4
<1>4. Lockable'
    BY <1>1, <1>2, <1>3 DEF Lockable, Used, indexVars
<1>5. Numbered' /\ Active'
    BY <1>1 DEF Numbered, NumberOK, Holds, Active, ActiveIsPublished, Used, indexVars
<1> QED BY <1>1, <1>4, <1>5

\* The commit makes the locked index the active, PUBLISHED one, and retires others
\* that are in use.
LEMMA CommitOrder ==
    ASSUME OrderInv, Inv', NEW p \in Publishers, CommitPublish(p)
    PROVE  OrderInv' /\ Used' = Used
<1> DEFINE n == publishing[p].number
<1>1. UNCHANGED <<versions, chunks, vectors, shared, processing>>
    BY DEF CommitPublish, docVars
<1>2. n \in Used /\ publishing[p].old \subseteq Used /\ kb'.active = n
    BY DEF CommitPublish, OrderInv, Lockable
<1>3. Used' = Used
  <2>1. \A m \in Numbers : indexes'[m] \in {"PUBLISHED", "RETIRED", indexes[m]}
      BY DEF CommitPublish
  <2>2. \A m \in Numbers : indexes'[m] = "ABSENT" <=> indexes[m] = "ABSENT"
      BY <1>2, <2>1 DEF CommitPublish, Used
  <2> QED BY <2>2 DEF Used
<1>4. indexes'[n] = "PUBLISHED"
    BY <1>2 DEF CommitPublish, Used
<1>5. Lockable'
  <2>1. \A q \in Publishers : publishing'[q].pc # "commit"
      BY DEF CommitPublish, NotPublishing, OrderInv, Inv, TypeOK, CommitsRetire
  <2>2. \A q \in Publishers : publishing'[q].pc # "idle" => publishing'[q] = publishing[q]
      BY DEF CommitPublish, NotPublishing, OrderInv, Inv, TypeOK
  <2> QED BY <1>3, <2>1, <2>2 DEF OrderInv, Lockable
<1>6. Active'
    BY <1>2, <1>3, <1>4 DEF Active, ActiveIsPublished
<1>7. Numbered'
    BY <1>1, <1>3 DEF OrderInv, Numbered, NumberOK, Holds
<1> QED BY <1>3, <1>5, <1>6, <1>7 DEF OrderInv

\* The rows of the indexes stay in order in every step.
LEMMA StepOrder ==
    ASSUME OrderInv, [Next]_vars
    PROVE  OrderInv'
<1>1. Inv'
    BY InvStep DEF OrderInv
<1>2. CASE UNCHANGED vars
    BY <1>1, <1>2, FrameOrder DEF vars
<1>3. CASE \E d \in Documents : CreateDocument(d) \/ CreateVersion(d) \/ Revoke(d)
    BY <1>1, <1>3, FrameOrder DEF CreateDocument, CreateVersion, Revoke, indexVars
<1>4. CASE \E p \in Processors : ProcessDocument(p)
    BY <1>1, <1>4, ProcessOrder
<1>5. CASE \E p \in Publishers : PublishIndex(p)
    BY <1>1, <1>5, PreambleOrder, CommitOrder DEF PublishIndex
<1>6. CASE \E r \in Readers : Retrieve(r)
    BY <1>1, <1>6, FrameOrder
    DEF Retrieve, ReadBase, ReadIndex, Search, Authorize, Answer, docVars, indexVars
<1> QED BY <1>2, <1>3, <1>4, <1>5, <1>6 DEF Next

\* So they are always, however many calls are at work.
LEMMA OrderHolds == Spec => []OrderInv
<1>1. Init => OrderInv
    BY InitRace
<1> QED BY <1>1, StepOrder, PTL DEF Spec

------------------------------------------------------------------------------
(* The contents of the indexes *)

\* No other step writes vectors, chunks, versions other than a new one's, or what
\* the calls of process_document know.
LEMMA OutsideStep ==
    ASSUME OrderInv, [Next]_vars, ~\E p \in Processors : ProcessDocument(p)
    PROVE  /\ UNCHANGED <<chunks, vectors, shared, seen, processing>> /\ Used' = Used
           /\ \A d \in Documents : versions'[d].status = "INDEXED" => versions'[d] = versions[d]
<1>1. CASE UNCHANGED vars
    BY <1>1 DEF vars, Used
<1>2. ASSUME NEW d \in Documents, CreateDocument(d) \/ Revoke(d)
      PROVE  UNCHANGED <<versions, chunks, indexes, vectors, shared, seen, processing>>
    BY <1>2 DEF CreateDocument, Revoke, indexVars
<1>3. ASSUME NEW d \in Documents, CreateVersion(d)
      PROVE  /\ UNCHANGED <<chunks, indexes, vectors, shared, seen, processing>>
             /\ \A e \in Documents : versions'[e].status = "INDEXED" => versions'[e] = versions[e]
    BY <1>3 DEF CreateVersion, indexVars, OrderInv, Inv, TypeOK, VersionRow
<1>4. ASSUME NEW p \in Publishers, PublishIndex(p)
      PROVE  UNCHANGED <<versions, chunks, vectors, shared, seen, processing>> /\ Used' = Used
  <2>1. Inv'
      BY InvStep DEF OrderInv
  <2>2. CASE CommitPublish(p)
      BY <2>1, <2>2, CommitOrder DEF CommitPublish, docVars
  <2>3. CASE ~CommitPublish(p)
      BY <1>4, <2>1, <2>3, PreambleOrder DEF PublishIndex, docVars, indexVars, Used
  <2> QED BY <2>2, <2>3
<1>5. ASSUME NEW r \in Readers, Retrieve(r)
      PROVE  UNCHANGED <<versions, chunks, indexes, vectors, shared, seen, processing>>
    BY <1>5 DEF Retrieve, ReadBase, ReadIndex, Search, Authorize, Answer, docVars, indexVars
<1> QED BY <1>1, <1>2, <1>3, <1>4, <1>5 DEF Next, Used

\* What an upsert leaves in each index: the corpus in the drawn one, and in others
\* what they held, less the corpus if an upsert moves chunks.
LEMMA UpsertEntries ==
    ASSUME OrderInv, NEW p \in Processors, Upsert(p), NEW m \in Numbers
    PROVE  /\ processing[p].corpus \subseteq Entries(processing[p].number)'
           /\ ChunkIsKey /\ m # processing[p].number =>
                Entries(m)' = Entries(m) \ processing[p].corpus
           /\ ChunkIsKey => Entries(m) \subseteq Entries(m)' \union processing[p].corpus
           /\ ~ChunkIsKey => /\ Entries(processing[p].number)' = processing[p].corpus
                             /\ m # processing[p].number => Entries(m)' = Entries(m)
<1>1. PICK n \in Numbers : n = processing[p].number
    BY DEF Upsert, OrderInv, Inv, NumbersDrawn
<1>2. PICK corpus \in SUBSET Documents : corpus = processing[p].corpus
    BY DEF OrderInv, Inv, TypeOK, Processing
<1>3. vectors \subseteq Numbers \X Documents
    BY DEF OrderInv, Inv, TypeOK
<1>4. vectors' = (vectors \ Replaced(n, corpus)) \union ({n} \X corpus)
    BY <1>1, <1>2 DEF Upsert
<1>5. \A k \in Numbers, d \in Documents :
         <<k, d>> \in vectors' <=>
           \/ k = n /\ d \in corpus
           \/ /\ <<k, d>> \in vectors
              /\ IF ChunkIsKey THEN d \notin corpus ELSE k # n
    BY <1>1, <1>2, <1>3, <1>4 DEF Replaced
<1>6. processing'[p].number = n
    BY <1>1, UpsertStep DEF OrderInv
<1>7. \A k \in Numbers, d \in Documents : d \in Entries(k)' <=> <<k, d>> \in vectors'
    BY DEF Entries
<1>8. \A k \in Numbers, d \in Documents : d \in Entries(k) <=> <<k, d>> \in vectors
    BY DEF Entries
<1>9. \A k : Entries(k) \subseteq Documents /\ Entries(k)' \subseteq Documents
    BY DEF Entries
<1>10. Entries(processing[p].number)' = Entries(n)'
    BY <1>1, <1>6
<1>11. corpus \subseteq Entries(n)'
    BY <1>1, <1>2, <1>5, <1>7
<1>12. ChunkIsKey /\ m # n => Entries(m)' = Entries(m) \ corpus
    BY <1>5, <1>7, <1>8, <1>9
<1>13. ChunkIsKey => Entries(m) \subseteq Entries(m)' \union corpus
    BY <1>5, <1>7, <1>8, <1>9
<1>14. ~ChunkIsKey => Entries(n)' = corpus /\ (m # n => Entries(m)' = Entries(m))
    BY <1>1, <1>2, <1>5, <1>7, <1>8, <1>9
<1> QED BY <1>1, <1>2, <1>10, <1>11, <1>12, <1>13, <1>14

\* An upsert of p leaves what others may search for: a number that others use and
\* that is not shared is not the number of p.
LEMMA UpsertSearchable ==
    ASSUME OrderInv, NEW p \in Processors, Upsert(p), NEW d \in Documents,
           NEW n \in Numbers, Searchable(d, n), ~ChunkIsKey /\ n \notin shared => n # processing[p].number
    PROVE  Searchable(d, n)'
<1>1. UNCHANGED shared /\ processing[p].number \in Numbers
    BY UpsertStep DEF OrderInv
<1>2. CASE ChunkIsKey
  <2>1. PICK m \in Numbers : d \in Entries(m)
      BY <1>2 DEF Searchable
  <2>2. d \in Entries(m)' \/ d \in Entries(processing[p].number)'
      BY <1>2, <2>1, UpsertEntries
  <2>3. PICK k \in Numbers : k = processing[p].number /\ k = processing'[p].number
      BY <1>1, UpsertStep DEF OrderInv
  <2>4. Entries(processing[p].number)' = Entries(k)'
      BY <2>3
  <2> QED BY <1>2, <2>2, <2>4 DEF Searchable
<1>3. CASE ~ChunkIsKey
    BY <1>1, <1>3, UpsertEntries DEF Searchable
<1> QED BY <1>2, <1>3

\* Its own document an upsert puts where the call will say it is.
LEMMA OwnSearchable ==
    ASSUME OrderInv, NEW p \in Processors, PlaceOK(p), Upsert(p), NEW d \in processing[p].doc
    PROVE  Searchable(d, processing[p].number)'
<1>1. PICK n \in Numbers : n = processing[p].number /\ n = processing'[p].number
    BY UpsertStep DEF OrderInv
<1>2. processing[p].doc \subseteq processing[p].corpus
    BY DEF PlaceOK, Upsert
<1>3. d \in Entries(processing[p].number)'
    BY <1>1, <1>2, UpsertEntries
<1>4. d \in Entries(n)'
    BY <1>1, <1>3
<1> QED BY <1>1, <1>4 DEF Searchable

\* An upsert keeps every document in its place.
LEMMA UpsertPlace ==
    ASSUME OrderInv, PlaceInv, NEW p \in Processors, ProcessDocument(p), Upsert(p)
    PROVE  PlaceInv'
<1>1. /\ UNCHANGED <<versions, chunks, indexes, shared>> /\ Used' = Used
      /\ processing[p].pc = "upsert" /\ processing'[p].pc = "index"
      /\ processing'[p].number = processing[p].number
      /\ processing'[p].doc = processing[p].doc
    BY UpsertStep DEF OrderInv, Used
<1>2. Holds(p, processing[p].number) /\ processing[p].number \in Numbers
    BY <1>1, UpsertStep DEF Holds, OrderInv
<1>3. ASSUME NEW n \in Numbers, n \notin shared, n \in Used \/ \E q \in Processors \ {p} : Holds(q, n)
      PROVE  n # processing[p].number
    BY <1>2, <1>3 DEF OrderInv, Numbered, NumberOK
<1>4. ASSUME NEW q \in Processors, q # p PROVE PlaceOK(q)'
  <2>1. processing'[q] = processing[q] /\ PlaceOK(q) /\ NumberOK(q)
      BY <1>4, OtherCalls DEF OrderInv, PlaceInv, Numbered
  <2>2. ASSUME processing[q].pc \in {"index", "version"}, NEW d \in processing[q].doc
        PROVE  Searchable(d, processing[q].number)'
    <3>1. PICK n \in Numbers : n = processing[q].number
        BY <2>1, <2>2 DEF NumberOK
    <3>2. d \in Documents /\ Searchable(d, n)
        BY <2>1, <2>2, <3>1 DEF PlaceOK, OrderInv, Inv, TypeOK, Processing
    <3>3. Holds(q, n) \/ n \in Used
        BY <2>1, <2>2, <3>1 DEF Holds, NumberOK
    <3>4. Searchable(d, n)'
        BY <1>3, <1>4, <3>2, <3>3, UpsertSearchable
    <3> QED BY <2>1, <3>1, <3>4
  <2> QED BY <1>1, <2>1, <2>2 DEF PlaceOK
<1>5. PlaceOK(p)'
  <2>1. PlaceOK(p)
      BY DEF PlaceInv
  <2>2. \A d \in processing[p].doc : Searchable(d, processing[p].number)'
      BY <2>1, OwnSearchable
  <2> QED BY <1>1, <2>2 DEF PlaceOK
<1>6. ASSUME NEW d \in Documents, versions'[d].status = "INDEXED"
      PROVE  versions'[d].index \in Used' /\ Searchable(d, versions[d].index)'
  <2>1. PICK n \in Numbers : n = versions[d].index /\ n \in Used /\ Searchable(d, n)
      BY <1>1, <1>6 DEF PlaceInv, Used
  <2>2. Searchable(d, n)'
      BY <1>3, <2>1, UpsertSearchable
  <2> QED BY <1>1, <2>1, <2>2
<1> QED BY <1>4, <1>5, <1>6 DEF PlaceInv

\* Steps that leave the vectors alone keep every document in its place, if the
\* call that takes the step promises no more than there is.
LEMMA CallPlace ==
    ASSUME OrderInv, PlaceInv, NEW p \in Processors, ProcessDocument(p),
           vectors' = vectors, shared \subseteq shared', chunks \subseteq chunks',
           Used \subseteq Used', PlaceOK(p)',
           \A d \in Documents : versions'[d].status = "INDEXED" =>
               \/ versions'[d] = versions[d]
               \/ versions'[d].index \in Used /\ Searchable(d, versions'[d].index)
    PROVE  PlaceInv'
<1>1. \A d, n : Searchable(d, n) => Searchable(d, n)'
    BY DEF Searchable, Entries
<1>2. ASSUME NEW q \in Processors PROVE PlaceOK(q)'
  <2>1. CASE q # p
    <3>1. processing'[q] = processing[q] /\ PlaceOK(q)
        BY <2>1, OtherCalls DEF OrderInv, PlaceInv
    <3> QED BY <1>1, <3>1 DEF PlaceOK
  <2> QED BY <2>1
<1>3. ASSUME NEW d \in Documents, versions'[d].status = "INDEXED"
      PROVE  versions'[d].index \in Used /\ Searchable(d, versions'[d].index)
    BY <1>3 DEF PlaceInv
<1>4. \A d \in Documents : versions'[d].status = "INDEXED" =>
         versions'[d].index \in Used' /\ Searchable(d, versions[d].index)'
  <2> SUFFICES ASSUME NEW d \in Documents, versions'[d].status = "INDEXED"
               PROVE  versions'[d].index \in Used' /\ Searchable(d, versions[d].index)'
      OBVIOUS
  <2>1. PICK n : n = versions'[d].index
      OBVIOUS
  <2>2. n \in Used /\ Searchable(d, n)
      BY <1>3, <2>1
  <2>3. Searchable(d, n)'
      BY <1>1, <2>2
  <2> QED BY <2>1, <2>2, <2>3
<1> QED BY <1>2, <1>4 DEF PlaceInv

\* process_document keeps every document in its place.
LEMMA ProcessPlace ==
    ASSUME OrderInv, PlaceInv, NEW p \in Processors, ProcessDocument(p)
    PROVE  PlaceInv'
<1>1. PlaceOK(p) /\ NumberOK(p)
    BY DEF PlaceInv, OrderInv, Numbered
<1>2. \A d, n : vectors' = vectors /\ shared \subseteq shared' =>
                  (Searchable(d, n) => Searchable(d, n)')
    BY DEF Searchable, Entries
<1>3. CASE Plain(p)
  <2>1. UNCHANGED <<versions, indexVars, publishing>> /\ chunks \subseteq chunks' /\ Used' = Used
      BY <1>3, PlainStep DEF OrderInv, indexVars, Used
  <2>2. PlaceOK(p)'
      BY <1>1, <1>3, PlainStep DEF OrderInv, PlaceOK
  <2> QED BY <2>1, <2>2, CallPlace DEF indexVars
<1>4. ASSUME NEW n \in Numbers, DrawNumber(p, n) PROVE PlaceInv'
  <2>1. /\ UNCHANGED <<versions, chunks, vectors>> /\ Used' = Used /\ shared \subseteq shared'
        /\ processing[p].pc = "number" /\ processing'[p].pc = "upsert"
        /\ processing'[p].doc = processing[p].doc /\ processing'[p].corpus = processing[p].corpus
      BY <1>4, DrawStep DEF OrderInv, Used
  <2>2. PlaceOK(p)'
      BY <1>1, <2>1 DEF PlaceOK
  <2> QED BY <2>1, <2>2, CallPlace
<1>5. CASE SaveIndex(p)
  <2>1. /\ UNCHANGED <<versions, chunks, vectors, shared>> /\ Used \subseteq Used'
        /\ processing[p].pc = "index" /\ processing'[p].pc = "version"
        /\ processing'[p].doc = processing[p].doc /\ processing'[p].number = processing[p].number
      BY <1>5, SaveIndexStep
  <2>2. PlaceOK(p)'
      BY <1>1, <1>2, <2>1 DEF PlaceOK
  <2> QED BY <2>1, <2>2, CallPlace
<1>6. ASSUME NEW e \in Documents, SaveVersion(p, e) PROVE PlaceInv'
  <2>1. /\ UNCHANGED <<chunks, vectors, shared>> /\ Used' = Used
        /\ processing[p].pc = "version" /\ processing'[p].pc = "indexed"
        /\ processing[p].doc = {e} /\ versions'[e].index = processing[p].number
        /\ \A d \in Documents : d # e => versions'[d] = versions[d]
      BY <1>6, SaveVersionStep DEF OrderInv, indexVars, Used
  <2>2. versions'[e].index \in Used /\ Searchable(e, versions'[e].index)
      BY <1>1, <2>1 DEF PlaceOK, NumberOK
  <2>3. PlaceOK(p)'
      BY <2>1 DEF PlaceOK
  <2> QED BY <2>1, <2>2, <2>3, CallPlace
<1>7. CASE Upsert(p)
    BY <1>7, UpsertPlace
<1> QED BY <1>3, <1>4, <1>5, <1>6, <1>7 DEF ProcessDocument, Plain

\* Every step keeps every document in its place.
LEMMA StepPlace ==
    ASSUME OrderInv, PlaceInv, [Next]_vars
    PROVE  PlaceInv'
<1>1. CASE \E p \in Processors : ProcessDocument(p)
    BY <1>1, ProcessPlace
<1>2. CASE ~\E p \in Processors : ProcessDocument(p)
  <2>1. /\ UNCHANGED <<chunks, vectors, shared, processing>> /\ Used' = Used
        /\ \A d \in Documents : versions'[d].status = "INDEXED" => versions'[d] = versions[d]
      BY <1>2, OutsideStep
  <2>2. \A d, n : Searchable(d, n)' <=> Searchable(d, n)
      BY <2>1 DEF Searchable, Entries
  <2>3. \A p \in Processors : PlaceOK(p)'
      BY <2>1, <2>2 DEF PlaceInv, PlaceOK
  <2>4. ASSUME NEW d \in Documents, versions'[d].status = "INDEXED"
        PROVE  versions'[d].index \in Used' /\ Searchable(d, versions[d].index)'
    <3>1. PICK n : n = versions[d].index /\ n \in Used /\ Searchable(d, n)
        BY <2>1, <2>4 DEF PlaceInv
    <3> QED BY <2>1, <2>2, <2>4, <3>1
  <2> QED BY <2>3, <2>4 DEF PlaceInv
<1> QED BY <1>1, <1>2

------------------------------------------------------------------------------
(* SnapshotInv: a corpus covers what was in use when it was listed *)

\* What is in the indexes after a step is within the chunks, so a call that lists
\* the chunks covers all of it.
LEMMA ListingCovers ==
    ASSUME OrderInv, SnapshotInv, NEW p \in Processors, processing[p].pc # "upsert"
    PROVE  Covers(chunks, Used)
BY DEF SnapshotInv, SnapshotOK, Covers, Used

\* Steps that leave the vectors alone keep the snapshots, if the call that takes
\* the step keeps its own and covers no less by what it will upsert.
LEMMA CallSnapshot ==
    ASSUME OrderInv, SnapshotInv, NEW p \in Processors, ProcessDocument(p),
           UNCHANGED <<vectors, seen>>, chunks \subseteq chunks', Used \subseteq Used',
           SnapshotOK(p)',
           \A m \in Used : processing'[p].pc = "upsert" => processing'[p].number # m
    PROVE  SnapshotInv'
<1>1. \A n : Entries(n)' = Entries(n)
    BY DEF Entries
<1>2. \A q \in Processors : q # p => processing'[q] = processing[q]
    BY OtherCalls DEF OrderInv
<1>3. ASSUME NEW S, NEW L \in SUBSET Used, Covers(S, L)
      PROVE  \A m \in L :
               /\ Entries(m) \subseteq S
               /\ \A q \in Processors : processing'[q].pc = "upsert" /\ processing'[q].number = m =>
                    processing'[q].corpus \subseteq S
    BY <1>2, <1>3 DEF Covers
<1>4. ASSUME NEW q \in Processors PROVE SnapshotOK(q)'
  <2>1. CASE q # p
    <3>1. processing'[q] = processing[q] /\ SnapshotOK(q)
        BY <1>2, <2>1 DEF SnapshotInv
    <3>2. PICK S, L : S = processing[q].corpus /\ L = processing[q].listed
        OBVIOUS
    <3>3. ASSUME processing[q].pc \in {"number", "upsert"}
          PROVE  Covers(processing[q].corpus, processing[q].listed)'
      <4>1. L \in SUBSET Used /\ Covers(S, L)
          BY <3>1, <3>2, <3>3 DEF SnapshotOK
      <4>2. S = processing'[q].corpus /\ L = processing'[q].listed
          BY <3>1, <3>2
      <4>3. \A m \in L :
               /\ Entries(m)' \subseteq S
               /\ \A r \in Processors : processing'[r].pc = "upsert" /\ processing'[r].number = m =>
                    processing'[r].corpus \subseteq S
          BY <1>1, <1>3, <4>1
      <4> QED BY <4>2, <4>3 DEF Covers
    <3> QED BY <3>1, <3>3 DEF SnapshotOK
  <2> QED BY <2>1
<1>5. \A n \in Numbers : Entries(n)' \subseteq chunks'
    BY <1>1 DEF SnapshotInv
<1>6. ASSUME NEW n \in Numbers PROVE (seen[n] \subseteq Used /\ Covers(Entries(n), seen[n]))'
  <2>1. seen[n] \subseteq Used /\ Covers(Entries(n), seen[n])
      BY DEF SnapshotInv
  <2>2. PICK S, L : S = Entries(n) /\ L = seen[n] /\ S = Entries(n)' /\ L = seen'[n]
      BY <1>1
  <2>3. Covers(Entries(n), seen[n])'
      BY <1>1, <1>3, <2>1, <2>2 DEF Covers
  <2> QED BY <2>1, <2>2, <2>3
<1> QED BY <1>4, <1>5, <1>6 DEF SnapshotInv

\* An upsert writes the snapshot of its call, and those who listed the index it
\* overwrites had listed that snapshot too.
LEMMA UpsertSnapshot ==
    ASSUME ~ChunkIsKey, OrderInv, SnapshotInv,
           NEW p \in Processors, ProcessDocument(p), Upsert(p)
    PROVE  SnapshotInv'
<1>1. PICK k, S, L : /\ k \in Numbers /\ k = processing[p].number
                     /\ S = processing[p].corpus /\ L = processing[p].listed
    BY UpsertStep DEF OrderInv
<1>2. /\ UNCHANGED chunks /\ Used' = Used
      /\ processing[p].pc = "upsert" /\ processing'[p].pc = "index"
      /\ seen' = [seen EXCEPT ![k] = L]
    BY <1>1, UpsertStep DEF OrderInv, Used
<1>3. \A q \in Processors : q # p => processing'[q] = processing[q]
    BY OtherCalls DEF OrderInv
<1>4. Entries(k)' = S /\ \A m \in Numbers : m # k => Entries(m)' = Entries(m)
  <2>1. Entries(processing[p].number)' = S
      BY <1>1, UpsertEntries
  <2>2. processing'[p].number = k
      BY <1>1, UpsertStep DEF OrderInv
  <2> QED BY <1>1, <2>1, <2>2, UpsertEntries
<1>5. S \subseteq chunks /\ L \subseteq Used /\ k \notin L /\ Covers(S, L)
    BY <1>1, <1>2 DEF SnapshotInv, SnapshotOK
<1>6. ASSUME NEW T, NEW M \in SUBSET Used, Covers(T, M)
      PROVE  \A m \in M :
               /\ Entries(m)' \subseteq T
               /\ \A q \in Processors : processing'[q].pc = "upsert" /\ processing'[q].number = m =>
                    processing'[q].corpus \subseteq T
  <2> TAKE m \in M
  <2>1. m \in Numbers /\ Entries(m) \subseteq T /\ (m = k => S \subseteq T)
      BY <1>1, <1>2, <1>6 DEF Covers, Used
  <2>2. Entries(m)' \subseteq T
      BY <1>4, <2>1
  <2>3. ASSUME NEW q \in Processors, processing'[q].pc = "upsert", processing'[q].number = m
        PROVE  processing'[q].corpus \subseteq T
    <3>1. q # p
        BY <1>2, <2>3
    <3> QED BY <1>3, <1>6, <2>3, <3>1 DEF Covers
  <2> QED BY <2>2, <2>3
<1>7. ASSUME NEW q \in Processors PROVE SnapshotOK(q)'
  <2>1. CASE q # p
    <3>1. processing'[q] = processing[q] /\ SnapshotOK(q)
        BY <1>3, <2>1 DEF SnapshotInv
    <3>2. PICK T, M : T = processing[q].corpus /\ M = processing[q].listed
        OBVIOUS
    <3>3. ASSUME processing[q].pc \in {"number", "upsert"}
          PROVE  Covers(processing[q].corpus, processing[q].listed)'
      <4>1. M \in SUBSET Used /\ Covers(T, M)
          BY <3>1, <3>2, <3>3 DEF SnapshotOK
      <4>2. T = processing'[q].corpus /\ M = processing'[q].listed
          BY <3>1, <3>2
      <4>3. \A m \in M :
               /\ Entries(m)' \subseteq T
               /\ \A r \in Processors : processing'[r].pc = "upsert" /\ processing'[r].number = m =>
                    processing'[r].corpus \subseteq T
          BY <1>6, <4>1
      <4> QED BY <4>2, <4>3 DEF Covers
    <3> QED BY <1>2, <3>1, <3>3 DEF SnapshotOK
  <2>2. CASE q = p
      BY <1>2, <2>2 DEF SnapshotOK
  <2> QED BY <2>1, <2>2
<1>8. \A n \in Numbers : Entries(n)' \subseteq chunks'
    BY <1>1, <1>2, <1>4, <1>5 DEF SnapshotInv
<1>9. ASSUME NEW n \in Numbers PROVE (seen[n] \subseteq Used /\ Covers(Entries(n), seen[n]))'
  <2>1. PICK T, M : /\ T = Entries(n)' /\ M = seen'[n]
      OBVIOUS
  <2>2. M \in SUBSET Used /\ Covers(T, M)
    <3>1. CASE n = k
      <4>1. T = S /\ M = L
          BY <1>2, <1>4, <2>1, <3>1 DEF OrderInv, Inv, TypeOK
      <4> QED BY <1>5, <4>1
    <3>2. CASE n # k
      <4>1. T = Entries(n) /\ M = seen[n]
          BY <1>2, <1>4, <2>1, <3>2 DEF OrderInv, Inv, TypeOK
      <4> QED BY <4>1 DEF SnapshotInv
    <3> QED BY <3>1, <3>2
  <2>3. \A m \in M :
               /\ Entries(m)' \subseteq T
               /\ \A r \in Processors : processing'[r].pc = "upsert" /\ processing'[r].number = m =>
                    processing'[r].corpus \subseteq T
      BY <1>6, <2>2
  <2> QED BY <1>2, <2>1, <2>2, <2>3 DEF Covers
<1> QED BY <1>7, <1>8, <1>9 DEF SnapshotInv

\* process_document keeps the snapshots when an upsert spares other indexes.
LEMMA ProcessSnapshot ==
    ASSUME ~ChunkIsKey, OrderInv, SnapshotInv, NEW p \in Processors, ProcessDocument(p)
    PROVE  SnapshotInv'
<1>1. SnapshotOK(p) /\ NumberOK(p)
    BY DEF SnapshotInv, OrderInv, Numbered
<1>2. vectors' = vectors => \A n : Entries(n)' = Entries(n)
    BY DEF Entries
<1>3. \A q \in Processors : q # p => processing'[q] = processing[q]
    BY OtherCalls DEF OrderInv
<1>4. CASE Plain(p)
  <2>1. UNCHANGED <<vectors, seen>> /\ chunks \subseteq chunks' /\ Used' = Used
      BY <1>4, PlainStep DEF OrderInv, indexVars, Used
  <2>2. processing'[p].pc # "upsert"
      BY <1>4, PlainStep DEF OrderInv
  <2>3. SnapshotOK(p)'
    <3>1. CASE processing'[p].pc # "number"
        BY <2>2, <3>1 DEF SnapshotOK
    <3>2. CASE processing'[p].pc = "number"
      <4>1. /\ processing[p].pc = "corpus" /\ processing'[p].corpus = chunks
            /\ processing'[p].listed = Used
          BY <1>4, <3>2, PlainStep DEF OrderInv
      <4>2. Covers(chunks, Used)
          BY <4>1, ListingCovers
      <4>3. PICK S, L : S = chunks /\ L = Used
          OBVIOUS
      <4>4. \A m \in L :
               /\ Entries(m)' \subseteq S
               /\ \A r \in Processors : processing'[r].pc = "upsert" /\ processing'[r].number = m =>
                    processing'[r].corpus \subseteq S
          BY <1>2, <1>3, <2>1, <2>2, <4>2, <4>3 DEF Covers
      <4>5. S = processing'[p].corpus /\ L = processing'[p].listed
          BY <4>1, <4>3
      <4>6. Covers(processing[p].corpus, processing[p].listed)'
          BY <4>4, <4>5 DEF Covers
      <4> QED BY <2>1, <2>2, <4>1, <4>6 DEF SnapshotOK
    <3> QED BY <3>1, <3>2
  <2> QED BY <2>1, <2>2, <2>3, CallSnapshot
<1>5. ASSUME NEW n \in Numbers, DrawNumber(p, n) PROVE SnapshotInv'
  <2>1. /\ UNCHANGED <<chunks, vectors, seen>> /\ Used' = Used /\ n \notin Used
        /\ processing[p].pc = "number" /\ processing'[p].pc = "upsert"
        /\ processing'[p].number = n /\ processing'[p].corpus = processing[p].corpus
        /\ processing'[p].listed = processing[p].listed
      BY <1>5, DrawStep DEF OrderInv, Used
  <2>2. PICK S, L : S = processing[p].corpus /\ L = processing[p].listed
      OBVIOUS
  <2>3. S \subseteq chunks /\ L \subseteq Used /\ Covers(S, L)
      BY <1>1, <2>1, <2>2 DEF SnapshotOK
  <2>4. n \notin L
      BY <2>1, <2>3
  <2>5. \A m \in L :
               /\ Entries(m)' \subseteq S
               /\ \A r \in Processors : processing'[r].pc = "upsert" /\ processing'[r].number = m =>
                    processing'[r].corpus \subseteq S
    <3> TAKE m \in L
    <3>1. Entries(m)' \subseteq S
        BY <1>2, <2>1, <2>3 DEF Covers
    <3>2. \A r \in Processors : r # p /\ processing'[r].pc = "upsert" /\ processing'[r].number = m =>
                    processing'[r].corpus \subseteq S
        BY <1>3, <2>3 DEF Covers
    <3> QED BY <2>1, <2>4, <3>1, <3>2
  <2>6. S = processing'[p].corpus /\ L = processing'[p].listed
      BY <2>1, <2>2
  <2>7. Covers(processing[p].corpus, processing[p].listed)'
      BY <2>5, <2>6 DEF Covers
  <2>8. SnapshotOK(p)'
      BY <2>1, <2>2, <2>3, <2>4, <2>7 DEF SnapshotOK
  <2> QED BY <2>1, <2>8, CallSnapshot
<1>6. CASE SaveIndex(p)
  <2>1. /\ UNCHANGED <<chunks, vectors, seen>> /\ Used \subseteq Used'
        /\ processing'[p].pc = "version"
      BY <1>6, SaveIndexStep
  <2>2. SnapshotOK(p)'
      BY <2>1 DEF SnapshotOK
  <2> QED BY <2>1, <2>2, CallSnapshot
<1>7. ASSUME NEW e \in Documents, SaveVersion(p, e) PROVE SnapshotInv'
  <2>1. UNCHANGED <<chunks, vectors, seen>> /\ Used' = Used /\ processing'[p].pc = "indexed"
      BY <1>7, SaveVersionStep DEF OrderInv, indexVars, Used
  <2>2. SnapshotOK(p)'
      BY <2>1 DEF SnapshotOK
  <2> QED BY <2>1, <2>2, CallSnapshot
<1>8. CASE Upsert(p)
    BY <1>8, UpsertSnapshot
<1> QED BY <1>4, <1>5, <1>6, <1>7, <1>8 DEF ProcessDocument, Plain

\* Every step keeps the snapshots.
LEMMA StepSnapshot ==
    ASSUME ~ChunkIsKey, OrderInv, SnapshotInv, [Next]_vars
    PROVE  SnapshotInv'
<1>1. CASE \E p \in Processors : ProcessDocument(p)
    BY <1>1, ProcessSnapshot
<1>2. CASE ~\E p \in Processors : ProcessDocument(p)
  <2>1. UNCHANGED <<chunks, vectors, seen, processing>> /\ Used' = Used
      BY <1>2, OutsideStep
  <2> QED BY <2>1 DEF SnapshotInv, SnapshotOK, Covers, Entries
<1> QED BY <1>1, <1>2

------------------------------------------------------------------------------
(* What follows *)

\* Every document stays in its place.
LEMMA PlaceHolds == Spec => []PlaceInv
<1>1. Init => PlaceInv
    BY InitRace
<1> QED BY <1>1, StepPlace, OrderHolds, PTL DEF Spec

\* The snapshots hold when an upsert spares other indexes.
LEMMA SnapshotHolds == ASSUME ~ChunkIsKey PROVE Spec => []SnapshotInv
<1>1. Init => SnapshotInv
    BY InitRace
<1> QED BY <1>1, StepSnapshot, OrderHolds, PTL DEF Spec

\* However many calls build and publish indexes at once, a retrieve finds the
\* active index PUBLISHED, unless two calls held its number at once.
THEOREM RaceActive == Spec => []ActiveIsPublished
<1>1. OrderInv => ActiveIsPublished
    BY DEF OrderInv, Active
<1> QED BY <1>1, OrderHolds, PTL

\* However many calls build indexes at once, and wherever an upsert takes chunks
\* from, a version that is marked INDEXED is searchable: in the index it names if
\* that number was never shared.
THEOREM RaceSearchable == Spec => []IndexedIsSearchable
<1>1. PlaceInv => IndexedIsSearchable
    BY DEF PlaceInv, IndexedIsSearchable
<1> QED BY <1>1, PlaceHolds, PTL

\* However many calls build indexes at once, also under one number, an index holds
\* all that those hold that were in use when its corpus was listed.
THEOREM RaceComplete == Spec => []NewerIsComplete
<1>1. CASE ChunkIsKey
  <2>1. NewerIsComplete
      BY <1>1 DEF NewerIsComplete
  <2> QED BY <2>1, PTL
<1>2. CASE ~ChunkIsKey
  <2>1. SnapshotInv => NewerIsComplete
      BY DEF SnapshotInv, Covers, NewerIsComplete
  <2>2. Spec => []SnapshotInv
      BY <1>2, SnapshotHolds
  <2> QED BY <2>1, <2>2, PTL
<1> QED BY <1>1, <1>2

------------------------------------------------------------------------------
(* Published indexes, step by step *)

\* A published or retired index whose number was never shared belongs to no call
\* that still upserts or saves.
LEMMA NobodyHolds ==
    ASSUME OrderInv, NEW n \in Numbers \ shared, n \in Used, NEW p \in Processors
    PROVE  ~Holds(p, n)
BY DEF OrderInv, Numbered, NumberOK

\* process_document leaves the row of such an index alone, and the vectors unless
\* an upsert of the same chunks takes them.
LEMMA ProcessSpares ==
    ASSUME OrderInv, NEW p \in Processors, ProcessDocument(p),
           NEW n \in Numbers \ shared, n \in Used
    PROVE  /\ kb' = kb /\ indexes'[n] = indexes[n]
           /\ n \notin shared'
           /\ Entries(n)' = Entries(n) \/ (ChunkIsKey /\ Upsert(p))
           /\ Upsert(p) /\ ChunkIsKey => Entries(n)' = Entries(n) \ processing[p].corpus
<1>1. ~Holds(p, n)
    BY NobodyHolds
<1>2. CASE Upsert(p)
  <2>1. /\ UNCHANGED <<kb, indexes, shared>> /\ processing[p].pc = "upsert"
      BY <1>2, UpsertStep DEF OrderInv
  <2>2. n # processing[p].number
      BY <1>1, <2>1 DEF Holds
  <2> QED BY <1>2, <2>1, <2>2, UpsertEntries
<1>3. CASE SaveIndex(p)
  <2>1. Holds(p, processing[p].number) /\ UNCHANGED <<kb, vectors, shared>>
      BY <1>3, SaveIndexStep
  <2>2. n # processing[p].number
      BY <1>1, <2>1
  <2>3. indexes'[n] = indexes[n]
      BY <1>3, <2>2, SaveIndexStep
  <2> QED BY <1>3, <2>1, <2>3 DEF Entries, Upsert, SaveIndex, Step
<1>4. ASSUME NEW m \in Numbers, DrawNumber(p, m)
      PROVE  UNCHANGED <<kb, indexes, vectors>> /\ n \notin shared' /\ ~Upsert(p)
  <2>1. /\ UNCHANGED <<kb, indexes, vectors>> /\ m \notin Used
        /\ shared' \subseteq shared \union {m} /\ processing[p].pc = "number"
      BY <1>4, DrawStep DEF OrderInv
  <2> QED BY <2>1 DEF Upsert
<1>5. ASSUME \/ \E d \in Documents : \/ ReadVersion(p, d) \/ ReadDocument(p, d) \/ Quarantine(p, d)
                                    \/ SaveChunks(p, d) \/ SaveIndexedDocument(p, d)
                                    \/ SaveVersion(p, d)
             \/ ListChunks(p) \/ AbortProcessing(p)
      PROVE  UNCHANGED indexVars
    BY <1>5 DEF ReadVersion, ReadDocument, Quarantine, SaveChunks, SaveIndexedDocument, SaveVersion,
                ListChunks, ReadCorpus, AbortProcessing
<1>6. CASE UNCHANGED indexVars /\ ~Upsert(p)
    BY <1>6 DEF indexVars, Entries
<1> QED BY <1>2, <1>3, <1>4, <1>5, <1>6 DEF ProcessDocument, Entries

\* A commit publishes the READY index that was locked, and retires at most.
LEMMA CommitSpares ==
    ASSUME OrderInv, NEW p \in Publishers, CommitPublish(p)
    PROVE  /\ publishing[p].number \in Numbers
           /\ indexes[publishing[p].number] = "READY"
           /\ indexes'[publishing[p].number] = "PUBLISHED"
           /\ kb'.active = publishing[p].number
           /\ \A m \in Numbers :
                m # publishing[p].number /\ indexes'[m] # indexes[m] =>
                  m \in publishing[p].old /\ indexes'[m] = "RETIRED"
           /\ UNCHANGED <<vectors, shared>>
<1>1. /\ publishing[p].number \in Numbers
      /\ indexes[publishing[p].number] = "READY"
    BY DEF CommitPublish, OrderInv, Lockable, Used
<1> QED BY <1>1 DEF CommitPublish

\* All other steps write neither indexes nor the knowledge base.
LEMMA OtherSpares ==
    ASSUME OrderInv, [Next]_vars, ~\E p \in Processors : ProcessDocument(p),
           ~\E p \in Publishers : CommitPublish(p)
    PROVE  UNCHANGED indexVars
<1>1. CASE UNCHANGED vars
    BY <1>1 DEF vars, indexVars
<1>2. CASE \E d \in Documents : CreateDocument(d) \/ CreateVersion(d) \/ Revoke(d)
    BY <1>2 DEF CreateDocument, CreateVersion, Revoke
<1>3. CASE \E p \in Publishers : PublishIndex(p)
    BY <1>3 DEF PublishIndex, ReadBaseToPublish, ReadIndexToPublish, LockForPublish, AbortPublishing
<1>4. CASE \E r \in Readers : Retrieve(r)
    BY <1>4 DEF Retrieve, ReadBase, ReadIndex, Search, Authorize, Answer
<1> QED BY <1>1, <1>2, <1>3, <1>4 DEF Next

\* What a step may do to a published or retired index.
Immutable ==
    \A n \in Numbers \ shared : indexes[n] \in {"PUBLISHED", "RETIRED"} =>
        /\ indexes'[n] \in {indexes[n], "RETIRED"}
        /\ Entries(n)' \subseteq Entries(n)
        /\ ChunkIsKey \/ Entries(n)' = Entries(n)

\* The steps that write an index or vectors spare published and retired ones.
LEMMA ImmutableStep ==
    ASSUME OrderInv, [Next]_vars
    PROVE  Immutable
<1> SUFFICES ASSUME NEW n \in Numbers \ shared, indexes[n] \in {"PUBLISHED", "RETIRED"}
             PROVE  /\ indexes'[n] \in {indexes[n], "RETIRED"}
                    /\ Entries(n)' \subseteq Entries(n)
                    /\ ChunkIsKey \/ Entries(n)' = Entries(n)
    BY DEF Immutable
<1>1. n \in Used
    BY DEF Used
<1>2. CASE \E p \in Processors : ProcessDocument(p)
    BY <1>1, <1>2, ProcessSpares
<1>3. CASE \E p \in Publishers : CommitPublish(p)
    BY <1>3, CommitSpares DEF Entries
<1>4. CASE UNCHANGED indexVars
    BY <1>4 DEF indexVars, Entries
<1> QED BY <1>2, <1>3, <1>4, OtherSpares

\* However many calls build and publish indexes at once, a published index whose
\* number no two of them held at once only retires and never gains vectors; it
\* keeps them all where a chunk may be in several indexes.
THEOREM RaceImmutability == Spec => UnsharedIsImmutable
<1>1. OrderInv /\ [Next]_vars => [Immutable]_<<indexes, vectors, shared>>
    BY ImmutableStep
<1> QED BY <1>1, OrderHolds, PTL DEF Spec, UnsharedIsImmutable, Immutable

\* process_document never moves the active index, and releases nothing.
LEMMA ProcessReleases ==
    ASSUME OrderInv, NEW p \in Processors, ProcessDocument(p)
    PROVE  kb' = kb /\ Released' = Released
<1>1. kb' = kb /\ shared \subseteq shared'
    BY DrawStep DEF OrderInv, ProcessDocument, ReadVersion, ReadDocument, Quarantine, SaveChunks,
                    ListChunks, ReadCorpus, Upsert, SaveIndex, SaveVersion, SaveIndexedDocument,
                    AbortProcessing, indexVars
<1>2. ASSUME NEW n \in Released PROVE n \in Released'
    BY ProcessSpares DEF Released, Used
<1>3. ASSUME NEW n \in Released' PROVE n \in Released
  <2>1. n \in Numbers \ shared /\ indexes'[n] \in {"PUBLISHED", "RETIRED"}
      BY <1>1 DEF Released
  <2>2. indexes'[n] \in {"READY", indexes[n]}
    <3>1. CASE SaveIndex(p)
        BY <2>1, <3>1, SaveIndexStep
    <3>2. CASE ~SaveIndex(p)
      <4>1. indexes' = indexes
          BY <3>2, DrawStep
          DEF OrderInv, ProcessDocument, ReadVersion, ReadDocument, Quarantine, SaveChunks,
              ListChunks, ReadCorpus, Upsert, SaveVersion, SaveIndexedDocument,
              AbortProcessing, indexVars
      <4> QED BY <4>1
    <3> QED BY <3>1, <3>2
  <2> QED BY <2>1, <2>2 DEF Released
<1> QED BY <1>1, <1>2, <1>3

\* A commit is one release of what the locked index holds, or makes an index
\* active of which nothing is promised.
LEMMA CommitPublishes ==
    ASSUME OrderInv, NEW p \in Publishers, CommitPublish(p)
    PROVE  Publications!PublicationNext
<1>1. PICK n \in Numbers : n = publishing[p].number
    BY CommitSpares
<1>2. /\ indexes[n] = "READY" /\ indexes'[n] = "PUBLISHED" /\ kb'.active = n
      /\ \A m \in Numbers \ shared : m # n /\ indexes'[m] # indexes[m] =>
           indexes[m] = "PUBLISHED" /\ indexes'[m] = "RETIRED"
      /\ UNCHANGED <<vectors, shared>>
    BY <1>1, CommitSpares DEF OrderInv, Lockable, CommitPublish
<1>3. n \notin Released /\ Released' = Released \union ({n} \ shared)
    BY <1>2 DEF Released
<1>4. \A m : Entries(m)' = Entries(m)
    BY <1>2 DEF Entries
<1>5. CASE n \notin shared
  <2>1. PICK S \in SUBSET Documents : S = Entries(n)
      BY DEF Entries
  <2>2. [m \in Released' |-> Entries(m)'] =
          [m \in Released \union {n} |-> IF m = n THEN S
                                        ELSE [k \in Released |-> Entries(k)][m]]
      BY <1>3, <1>4, <1>5, <2>1
  <2>3. Publications!Release(n, S)
      BY <1>2, <1>3, <2>2 DEF Publications!Release, Released
  <2> QED BY <2>3 DEF Publications!PublicationNext
<1>6. CASE n \in shared
  <2>1. [m \in Released' |-> Entries(m)'] = [m \in Released |-> Entries(m)]
      BY <1>3, <1>4, <1>6
  <2>2. Publications!PublishUnreleased(n)
      BY <1>2, <1>3, <2>1 DEF Publications!PublishUnreleased, Released
  <2> QED BY <2>2 DEF Publications!PublicationNext
<1> QED BY <1>5, <1>6

\* An upsert that moves chunks takes its corpus from what is released; nothing else
\* that process_document does is visible to readers of released indexes.
LEMMA ProcessPublishes ==
    ASSUME OrderInv, NEW p \in Processors, ProcessDocument(p)
    PROVE  [Publications!PublicationNext]_Publications!publicationVars
<1>1. kb' = kb /\ Released' = Released
    BY ProcessReleases
<1>2. \A n \in Released : n \in Numbers \ shared /\ n \in Used
    BY DEF Released, Used
<1>3. CASE ChunkIsKey /\ Upsert(p)
  <2>1. PICK S \in SUBSET Documents : S = processing[p].corpus
      BY DEF OrderInv, Inv, TypeOK, Processing
  <2>2. \A n \in Released : Entries(n)' = Entries(n) \ S
      BY <1>2, <1>3, <2>1, ProcessSpares
  <2>3. [m \in Released' |-> Entries(m)'] =
          [m \in Released |-> [k \in Released |-> Entries(k)][m] \ S]
      BY <1>1, <2>2
  <2>4. Publications!Take(S)
      BY <1>1, <1>3, <2>3 DEF Publications!Take, Released
  <2> QED BY <2>4 DEF Publications!PublicationNext
<1>4. CASE ~(ChunkIsKey /\ Upsert(p))
  <2>1. \A n \in Released : Entries(n)' = Entries(n)
      BY <1>2, <1>4, ProcessSpares
  <2>2. [m \in Released' |-> Entries(m)'] = [m \in Released |-> Entries(m)]
      BY <1>1, <2>1
  <2> QED BY <1>1, <2>2 DEF Publications!publicationVars, Released
<1> QED BY <1>3, <1>4

\* All that retrieve sees of any number of calls of process_document and
\* publish_index is releases of whole indexes, one after the other, of which
\* nothing but an upsert of the same chunks takes anything away; indexes whose
\* number was shared are no releases.
THEOREM PublicationsImplemented == Spec => ImplementsPublications
<1>1. Init => Publications!PublicationInit
  <2>1. Init => Released = {} /\ kb.active = 0
      BY DEF Init, Released
  <2> QED BY <2>1 DEF Publications!PublicationInit, Released
<1>2. OrderInv /\ [Next]_vars => [Publications!PublicationNext]_Publications!publicationVars
  <2> SUFFICES ASSUME OrderInv, [Next]_vars
               PROVE  [Publications!PublicationNext]_Publications!publicationVars
      OBVIOUS
  <2>1. CASE UNCHANGED indexVars
    <3>1. kb' = kb /\ Released' = Released
        BY <2>1 DEF indexVars, Released
    <3>2. [m \in Released' |-> Entries(m)'] = [m \in Released |-> Entries(m)]
        BY <2>1, <3>1 DEF indexVars, Entries
    <3> QED BY <3>1, <3>2 DEF Publications!publicationVars, Released
  <2> QED BY <2>1, CommitPublishes, ProcessPublishes, OtherSpares
<1> QED BY <1>1, <1>2, OrderHolds, PTL
        DEF Spec, ImplementsPublications, Publications!PublicationSpec
=============================================================================
