------------------------------ MODULE Retrieval ------------------------------
(***************************************************************************)
(* The knowledge API of one knowledge base: create_knowledge_base and      *)
(* retrieve with everything it does to the chunks between the vector index *)
(* and the answer.  A call of retrieve takes one repository, vector index, *)
(* model or audit call at a time, while indexes are published and          *)
(* documents are saved with another status, and it may fail or die.        *)
(*                                                                         *)
(* The vectors of an index that was ever published do not change           *)
(* (KnowledgeIndex says when this is so).  Score is the similarity of the  *)
(* chunks to the query.                                                    *)
(***************************************************************************)
EXTENDS Integers, Sequences, FiniteSets

CONSTANTS Calls,          \* calls of retrieve, each made once
          Creators,       \* calls of create_knowledge_base for the same code
          Documents,
          Chunks,
          Tokens,         \* ACL tokens
          Everyone,       \* the token tenant:all
          Purposes,
          Contracts,      \* contracts a creator may ask for
          Requests,       \* requests a caller may send
          Indexes,        \* index versions, all READY at first
          Holds,          \* the chunks in each index
          DocumentOf,     \* the document of each chunk
          ChunkAcl,       \* the ACL each chunk was stored with
          Restricted,     \* chunks classified CONFIDENTIAL or SECRET
          Suspicious,     \* chunks whose content matches an injection pattern
          Score,          \* similarity of each chunk to the query
          MaxTopK,        \* 50 in the code
          Oversampling,   \* 4 in the code
          MaxCandidates,  \* 100 in the code
          None            \* NULL

ASSUME ChunksAssumption ==
    /\ IsFiniteSet(Chunks)
    /\ Restricted \subseteq Chunks /\ Suspicious \subseteq Chunks
    /\ DocumentOf \in [Chunks -> Documents]
    /\ ChunkAcl \in [Chunks -> SUBSET Tokens]
    /\ Holds \in [Indexes -> SUBSET Chunks]
ASSUME ScoreAssumption ==
    /\ Score \in [Chunks -> Int]
    /\ \A x, y \in Chunks : Score[x] = Score[y] => x = y
ASSUME ContractsAssumption ==
    Contracts \subseteq [purposes : (SUBSET Purposes) \ {{}}, topk : 1..MaxTopK, generate : BOOLEAN]
ASSUME RequestsAssumption ==
    /\ Requests # {}
    /\ Requests \subseteq [actor : {"AGENT", "USER", "SERVICE", None},
                           purpose : Purposes \union {None}, clean : BOOLEAN, topk : Int,
                           tokens : SUBSET Tokens, generate : BOOLEAN, strict : BOOLEAN]
ASSUME LimitsAssumption ==
    MaxTopK \in Nat /\ Oversampling \in Nat \ {0} /\ MaxCandidates \in Nat \ {0}
ASSUME NoneAssumption == None \notin Indexes \union Contracts \union Purposes /\ Everyone \in Tokens

VARIABLES base,      \* the knowledge_bases row of the code: its contract, or None
          active,    \* and its active index
          indexes,   \* knowledge_index_versions.status
          indexed,   \* the documents whose status is INDEXED
          creating,  \* the state of each create_knowledge_base call
          call,      \* the state of each retrieve call
          audit,     \* the audit_outbox rows of each call, oldest first
          during     \* history: what held from the beginning of each call to Authorize

store == <<base, active, indexes, indexed>>
vars == <<base, active, indexes, indexed, creating, call, audit, during>>

------------------------------------------------------------------------------
Classes == {"READY", "PUBLISHED", "RETIRED"}

Call == [pc : {"new", "base", "index", "search", "authorize", "generate", "audit", "reply",
               "answered", "refused", "rejected", "unaudited", "dead"},
         request : Requests, contract : Contracts \union {None}, index : Indexes \union {None},
         found : {S \in SUBSET Chunks : Cardinality(S) <= MaxCandidates},
         granted : SUBSET Chunks, safe : SUBSET Chunks, sent : SUBSET Chunks,
         outcome : {"NONE", "SUCCESS", "DENIED", "FAILED"}]

NewCall == [pc |-> "new", request |-> CHOOSE r \in Requests : TRUE, contract |-> None,
            index |-> None, found |-> {}, granted |-> {}, safe |-> {}, sent |-> {},
            outcome |-> "NONE"]

AuditRow == [outcome : {"SUCCESS", "DENIED", "FAILED"}, index : Indexes \union {None},
             candidates : Nat, authorized : Nat, count : Nat, generated : BOOLEAN]

\* The documents that were INDEXED at some time, and those all the time.
Observed == [ever : SUBSET Documents, always : SUBSET Documents]

TypeOK ==
    /\ base \in Contracts \union {None}
    /\ active \in Indexes \union {None}
    /\ indexes \in [Indexes -> Classes]
    /\ indexed \subseteq Documents
    /\ creating \in [Creators -> {"idle", "insert", "created", "conflict"}]
    /\ call \in [Calls -> Call]
    /\ audit \in [Calls -> Seq(AuditRow)]
    /\ during \in [Calls -> Observed]

Init ==
    /\ base = None
    /\ active = None
    /\ indexes = [n \in Indexes |-> "READY"]
    /\ indexed \in SUBSET Documents
    /\ creating = [k \in Creators |-> "idle"]
    /\ call = [c \in Calls |-> NewCall]
    /\ audit = [c \in Calls |-> <<>>]
    /\ during = [c \in Calls |-> [ever |-> {}, always |-> {}]]

------------------------------------------------------------------------------
(* create_knowledge_base *)

CheckCode(k) ==
    /\ creating[k] = "idle"
    /\ creating' = [creating EXCEPT ![k] = IF base = None THEN "insert" ELSE "conflict"]
    /\ UNCHANGED <<store, call, audit, during>>

\* Mutant: there is no unique constraint on the code.
InsertUnchecked(k, contract) ==
    /\ creating[k] = "insert"
    /\ base' = contract
    /\ creating' = [creating EXCEPT ![k] = "created"]
    /\ UNCHANGED <<active, indexes, indexed, call, audit, during>>

\* uq_knowledge_base_code refuses the second insert.
InsertBase(k, contract) ==
    /\ creating[k] = "insert"
    /\ base' = IF base = None THEN contract ELSE base
    /\ creating' = [creating EXCEPT ![k] = IF base = None THEN "created" ELSE "conflict"]
    /\ UNCHANGED <<active, indexes, indexed, call, audit, during>>

------------------------------------------------------------------------------
(* retrieve *)

Smaller(m, n) == IF m <= n THEN m ELSE n

\* The tokens of the subject: everyone's, and its actor, user and department.
SubjectTokens(request) == {Everyone} \union request.tokens

Visible(x, request) == ChunkAcl[x] \intersect SubjectTokens(request) # {}

Better(S, x) == {y \in S : Score[y] > Score[x]}

Top(n, S) == {x \in S : Cardinality(Better(S, x)) < n}

Raise(c, outcome) == call' = [call EXCEPT ![c].pc = "audit", ![c].outcome = outcome]

\* The scopes that concern knowledge bases, by type of actor.
Scopes == [AGENT |-> {"knowledge_api:invoke"},
           USER |-> {"knowledge_base:create", "knowledge_index:publish", "file:upload"},
           SERVICE |-> {"knowledge:process"}]

\* A request needs a token and a purpose.
Identified(request) == request.actor # None /\ request.purpose # None

Admitted(request) == Identified(request) /\ "knowledge_api:invoke" \in Scopes[request.actor]

Valid(request) == request.clean /\ request.topk \in 1..MaxTopK

\* The middleware and the route turn a request away before the service sees it;
\* then the query and top_k are validated.
Receive(c, request) ==
    /\ call[c].pc = "new"
    /\ call' = [call EXCEPT ![c].request = request,
                            ![c].pc = IF ~Admitted(request) THEN "rejected"
                                      ELSE IF Valid(request) THEN "base" ELSE "audit",
                            ![c].outcome = IF Admitted(request) /\ ~Valid(request)
                                           THEN "DENIED" ELSE @]
    /\ during' = [during EXCEPT ![c] = [ever |-> indexed, always |-> indexed]]
    /\ UNCHANGED <<store, creating, audit>>

\* Mutant: the purpose is not checked.
MayServeAnyPurpose(request) ==
    base # None /\ request.topk <= base.topk /\ active # None

MayServe(request) ==
    /\ base # None
    /\ request.purpose \in base.purposes
    /\ request.topk <= base.topk
    /\ active # None

ReadBase(c) ==
    /\ call[c].pc = "base"
    /\ IF MayServe(call[c].request)
       THEN call' = [call EXCEPT ![c].pc = "index", ![c].contract = base, ![c].index = active]
       ELSE Raise(c, "DENIED")
    /\ UNCHANGED <<store, creating, audit, during>>

ReadIndex(c) ==
    /\ call[c].pc = "index"
    /\ IF indexes[call[c].index] = "PUBLISHED"
       THEN call' = [call EXCEPT ![c].pc = "search"]
       ELSE Raise(c, "DENIED")
    /\ UNCHANGED <<store, creating, audit, during>>

\* Mutant: the number of candidates is not capped.
LimitUncapped(topk) == topk * Oversampling

Limit(topk) == Smaller(topk * Oversampling, MaxCandidates)

\* Mutant: the ACL filter applies to the best entries only.
HitsThenAcl(index, request) ==
    {x \in Top(Limit(request.topk), Holds[index]) : Visible(x, request)}

\* The vector index filters by ACL before it takes the best entries.
Hits(index, request) ==
    Top(Limit(request.topk), {x \in Holds[index] : Visible(x, request)})

Search(c) ==
    /\ call[c].pc = "search"
    /\ call' = [call EXCEPT ![c].pc = "authorize",
                            ![c].found = Hits(call[c].index, call[c].request)]
    /\ UNCHANGED <<store, creating, audit, during>>

\* get_authorized_chunks: the chunk's ACL and the document's status now.
Authorized(found, request) ==
    {x \in found : Visible(x, request) /\ DocumentOf[x] \in indexed}

Select(chunks, topk) == Top(topk, chunks \ Suspicious)

Evidence(safe) == {x \in safe : Score[x] > 0}

\* Mutant: only the cited chunks decide whether the model may be called.
EgressOfEvidence(safe) == Evidence(safe) \intersect Restricted = {}

\* All chunks the model would be given, cited or not.
MayLeave(safe) == safe \intersect Restricted = {}

\* Whether the model is called, and otherwise the outcome that is recorded.
Authorize(c) ==
    LET request == call[c].request
        granted == Authorized(call[c].found, request)
        safe == Select(granted, request.topk)
        sufficient == Evidence(safe) # {} IN
    /\ call[c].pc = "authorize"
    /\ call' = [call EXCEPT
         ![c].granted = granted,
         ![c].safe = safe,
         ![c].pc = IF sufficient /\ request.generate /\ call[c].contract.generate /\ MayLeave(safe)
                   THEN "generate" ELSE "audit",
         ![c].outcome = IF ~sufficient /\ request.strict THEN "DENIED" ELSE "SUCCESS"]
    /\ UNCHANGED <<store, creating, audit, during>>

Generate(c) ==
    /\ call[c].pc = "generate"
    /\ call' = [call EXCEPT ![c].pc = "audit", ![c].sent = call[c].safe]
    /\ UNCHANGED <<store, creating, audit, during>>

\* A repository, the cipher, the embedding, the vector index or the model raises,
\* an AppError or another exception.  The model may have had the chunks by then.
Fail(c) ==
    /\ call[c].pc \in {"base", "index", "search", "authorize", "generate"}
    /\ \E outcome \in {"DENIED", "FAILED"},
          sent \in {{}, IF call[c].pc = "generate" THEN call[c].safe ELSE {}} :
         call' = [call EXCEPT ![c].pc = "audit", ![c].outcome = outcome, ![c].sent = sent]
    /\ UNCHANGED <<store, creating, audit, during>>

\* Mutant: the count is of the chunks selected, cited or not.
RecordSelected(c) ==
    LET served == call[c].outcome = "SUCCESS" IN
    [outcome |-> call[c].outcome,
     index |-> IF served THEN call[c].index ELSE None,
     candidates |-> IF served THEN Cardinality(call[c].found) ELSE 0,
     authorized |-> IF served THEN Cardinality(call[c].granted) ELSE 0,
     count |-> IF served THEN Cardinality(call[c].safe) ELSE 0,
     generated |-> served /\ call[c].sent # {}]

Record(c) ==
    LET served == call[c].outcome = "SUCCESS" IN
    [outcome |-> call[c].outcome,
     index |-> IF served THEN call[c].index ELSE None,
     candidates |-> IF served THEN Cardinality(call[c].found) ELSE 0,
     authorized |-> IF served THEN Cardinality(call[c].granted) ELSE 0,
     count |-> IF served THEN Cardinality(Evidence(call[c].safe)) ELSE 0,
     generated |-> served /\ call[c].sent # {}]

\* Mutant: the reply goes out although its record was not written.
AuditIgnored(c) ==
    /\ call[c].pc = "audit"
    /\ call' = [call EXCEPT ![c].pc = "reply"]
    /\ UNCHANGED <<store, creating, audit, during>>

RecordAudit(c) ==
    /\ call[c].pc = "audit"
    /\ audit' = [audit EXCEPT ![c] = Append(@, Record(c))]
    /\ call' = [call EXCEPT ![c].pc = "reply"]
    /\ UNCHANGED <<store, creating, during>>

\* The row cannot be written, or its commit is not acknowledged:
\* AuditUnavailableError replaces the result.
AuditUnavailable(c) ==
    /\ call[c].pc \in {"audit", "reply"}
    /\ call' = [call EXCEPT ![c].pc = "unaudited"]
    /\ UNCHANGED <<store, creating, audit, during>>

Reply(c) ==
    /\ call[c].pc = "reply"
    /\ call' = [call EXCEPT ![c].pc = IF call[c].outcome = "SUCCESS" THEN "answered" ELSE "refused"]
    /\ UNCHANGED <<store, creating, audit, during>>

Crash(c) ==
    /\ call[c].pc \in {"base", "index", "search", "authorize", "generate", "audit", "reply"}
    /\ call' = [call EXCEPT ![c].pc = "dead"]
    /\ UNCHANGED <<store, creating, audit, during>>

Retrieve(c) ==
    \/ \E request \in Requests : Receive(c, request)
    \/ ReadBase(c) \/ ReadIndex(c) \/ Search(c) \/ Authorize(c) \/ Generate(c)
    \/ Fail(c) \/ RecordAudit(c) \/ AuditUnavailable(c) \/ Reply(c) \/ Crash(c)

------------------------------------------------------------------------------
(* Other operations meanwhile *)

Watch == during' = [c \in Calls |->
    IF call[c].pc \in {"base", "index", "search", "authorize"}
    THEN [ever |-> during[c].ever \union indexed',
          always |-> during[c].always \intersect indexed']
    ELSE during[c]]

\* publish_index commits.
PublishIndex(n) ==
    /\ base # None
    /\ indexes[n] = "READY"
    /\ active' = n
    /\ indexes' = [m \in Indexes |-> IF m = n THEN "PUBLISHED"
                                     ELSE IF indexes[m] = "PUBLISHED" THEN "RETIRED"
                                     ELSE indexes[m]]
    /\ UNCHANGED <<base, indexed, creating, call, audit>>
    /\ Watch

\* save_document: a document becomes INDEXED, or is uploaded again or revoked.
SaveDocument(d) ==
    /\ indexed' \in {indexed \union {d}, indexed \ {d}}
    /\ UNCHANGED <<base, active, indexes, creating, call, audit>>
    /\ Watch

Next ==
    \/ \E k \in Creators : CheckCode(k) \/ \E contract \in Contracts : InsertBase(k, contract)
    \/ \E c \in Calls : Retrieve(c)
    \/ \E n \in Indexes : PublishIndex(n)
    \/ \E d \in Documents : SaveDocument(d)

Spec == Init /\ [][Next]_vars

------------------------------------------------------------------------------
(* Properties *)

HasResult(c) == call[c].outcome = "SUCCESS" /\ call[c].pc \in {"audit", "reply", "answered"}

Result(c) == Evidence(call[c].safe)

\* The chunks a subject may be shown from an index.
Showable(S, request) == {x \in S : Visible(x, request) /\ x \notin Suspicious}

\* Evidence comes from the published index the call was bound to, for a purpose
\* that is allowed; no chunk is hidden from the subject or of a document that was
\* not INDEXED at any time during the call, and there are not more of them than
\* the request and the contract allow.
EvidenceIsPermitted ==
    \A c \in Calls : HasResult(c) =>
        LET request == call[c].request IN
        /\ indexes[call[c].index] # "READY"
        /\ request.purpose \in call[c].contract.purposes
        /\ Cardinality(Result(c)) <= request.topk /\ request.topk <= call[c].contract.topk
        /\ Result(c) \subseteq Showable(Holds[call[c].index], request)
        /\ \A x \in Result(c) : DocumentOf[x] \in during[c].ever

\* The limits of search and top_k lose nothing better than what is returned: a
\* similar chunk of a document INDEXED all the time is left out only if top_k
\* better ones may be shown, or the index has better entries for the subject
\* than the search may return.
EvidenceIsBest ==
    \A c \in Calls : HasResult(c) =>
        LET request == call[c].request
            entries == {x \in Holds[call[c].index] : Visible(x, request)} IN
        \A x \in entries \ (Suspicious \union Result(c)) :
            Score[x] > 0 /\ DocumentOf[x] \in during[c].always =>
                \/ Cardinality(Better(Showable(entries, request), x)) >= request.topk
                \/ Cardinality(Better(entries, x)) >= Limit(request.topk)

\* The model is given nothing restricted, suspicious or hidden from the subject,
\* cited or not, and nothing at all unless the contract and the request ask for
\* it and there is evidence; also when the call fails or dies afterwards.
ModelSeesReleasable ==
    \A c \in Calls : call[c].sent # {} =>
        /\ call[c].contract.generate /\ call[c].request.generate
        /\ call[c].sent \subseteq Showable(Holds[call[c].index], call[c].request) \ Restricted
        /\ Evidence(call[c].sent) # {}

\* The record of an answer names the index it came from and counts its evidence,
\* and the counts tell how far each filter narrowed the candidates.
RecordTellsAnswer ==
    \A c \in Calls : call[c].pc = "answered" =>
        LET row == audit[c][1] IN
        /\ row.index = call[c].index
        /\ row.count = Cardinality(Result(c))
        /\ row.count <= row.authorized /\ row.authorized <= row.candidates
        /\ row.candidates <= Limit(call[c].request.topk)
        /\ row.generated <=> call[c].sent # {}

\* create_knowledge_base looks the code up and inserts in another transaction;
\* still one creator at most is told that the code is its own, and the
\* contract that calls are judged by is never replaced.
OneContract ==
    [][/\ base # None => base' = base
       /\ \A j, k \in Creators :
            creating'[j] = "created" /\ creating'[k] = "created" => j = k]_<<base, creating>>

\* Each call keeps the promise of a governed API: one record, durable before
\* the reply, that says what the reply was.
Promise == INSTANCE AuditedCall WITH
    record <- [c \in Calls |-> CASE Len(audit[c]) = 0 -> "none"
                                 [] Len(audit[c]) = 1 -> audit[c][1].outcome
                                 [] OTHER -> "many"],
    reply <- [c \in Calls |-> CASE call[c].pc = "answered" -> "answer"
                                [] call[c].pc = "refused" -> "error"
                                [] call[c].pc \in {"rejected", "unaudited", "dead"} -> "unanswered"
                                [] OTHER -> "none"]

KeepsPromise == Promise!CallSpec
=============================================================================
