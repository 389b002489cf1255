--------------------------- MODULE RetrievalProofs ---------------------------
(***************************************************************************)
(* Proofs about Retrieval, for any calls, chunks, documents, contracts and *)
(* requests.  CallInv follows a call: what it has read, filtered and sent  *)
(* so far is what the code computes from its request, and what it recorded *)
(* is what it will reply.                                                  *)
(***************************************************************************)
EXTENDS Retrieval, FiniteSetTheorems, TLAPS

(* The call is bound to a contract and an index. *)
Bound(c) == call[c].pc \in {"index", "search", "authorize", "generate"}
            \/ call[c].outcome = "SUCCESS"

(* It has searched, and it has selected its chunks. *)
Searched(c) == call[c].pc \in {"authorize", "generate"} \/ call[c].outcome = "SUCCESS"

Selected(c) == call[c].pc = "generate" \/ call[c].outcome = "SUCCESS"

BoundInv(c) ==
    /\ call[c].pc = "base" \/ Bound(c) => call[c].request.topk \in 1..MaxTopK
    /\ Bound(c) => /\ call[c].contract \in Contracts
                   /\ call[c].index \in Indexes
                   /\ call[c].request.purpose \in call[c].contract.purposes
                   /\ call[c].request.topk <= call[c].contract.topk
    /\ call[c].pc = "search" \/ Searched(c) => indexes[call[c].index] # "READY"

DuringInv(c) ==
    call[c].pc \in {"base", "index", "search", "authorize"} =>
        during[c].always \subseteq indexed /\ indexed \subseteq during[c].ever

SelectionInv(c) ==
    /\ Searched(c) => call[c].found = Hits(call[c].index, call[c].request)
    /\ Selected(c) =>
         /\ call[c].safe = Select(call[c].granted, call[c].request.topk)
         /\ call[c].granted \subseteq call[c].found
         /\ \A x \in call[c].granted : DocumentOf[x] \in during[c].ever
         /\ \A x \in call[c].found : DocumentOf[x] \in during[c].always => x \in call[c].granted

(* Why the model may be given a set of chunks. *)
Releasable(c, S) ==
    /\ call[c].contract.generate /\ call[c].request.generate
    /\ S \subseteq Showable(Holds[call[c].index], call[c].request) \ Restricted
    /\ Evidence(S) # {}

SentInv(c) ==
    /\ call[c].pc \in {"new", "base", "index", "search", "authorize", "generate"} => call[c].sent = {}
    /\ call[c].pc = "generate" => Releasable(c, call[c].safe)
    /\ call[c].sent # {} => Releasable(c, call[c].sent)

RecordInv(c) ==
    /\ call[c].pc \in {"new", "base", "index", "search", "authorize", "rejected"} => call[c].outcome = "NONE"
    /\ call[c].pc \in {"audit", "reply", "answered", "refused"} => call[c].outcome # "NONE"
    /\ call[c].pc \in {"generate", "answered"} => call[c].outcome = "SUCCESS"
    /\ call[c].pc = "refused" => call[c].outcome # "SUCCESS"
    /\ audit[c] = IF call[c].pc \in {"reply", "answered", "refused"} THEN <<Record(c)>>
                  ELSE IF call[c].pc \in {"unaudited", "dead"} THEN audit[c] ELSE <<>>
    /\ call[c].pc \in {"unaudited", "dead"} => audit[c] = <<>> \/ audit[c] = <<Record(c)>>

CallInv(c) == BoundInv(c) /\ DuringInv(c) /\ SelectionInv(c) /\ SentInv(c) /\ RecordInv(c)

Inv == TypeOK /\ \A c \in Calls : CallInv(c)

------------------------------------------------------------------------------
(* Selecting the best *)

\* Sets of chunks are finite.
LEMMA ChunksFinite ==
    ASSUME NEW S \in SUBSET Chunks
    PROVE  IsFiniteSet(S) /\ Cardinality(S) \in Nat
  BY FS_Subset, FS_CardinalityType, ChunksAssumption

\* A better chunk has fewer better ones.
LEMMA BetterShrinks ==
    ASSUME NEW S \in SUBSET Chunks, NEW x \in S, NEW y \in S, Score[y] > Score[x]
    PROVE  Cardinality(Better(S, y)) < Cardinality(Better(S, x))
  <1>1. /\ Better(S, y) \in SUBSET Better(S, x) /\ Better(S, x) \in SUBSET Chunks
        /\ y \in Better(S, x) /\ y \notin Better(S, y)
    <2>1. Score[x] \in Int /\ Score[y] \in Int /\ \A z \in S : Score[z] \in Int
      BY ScoreAssumption
    <2> QED BY <2>1 DEF Better
  <1>2. /\ IsFiniteSet(Better(S, x))
        /\ Cardinality(Better(S, x)) \in Nat /\ Cardinality(Better(S, y)) \in Nat
    BY <1>1, ChunksFinite
  <1>3. /\ Cardinality(Better(S, y)) <= Cardinality(Better(S, x))
        /\ Cardinality(Better(S, x)) = Cardinality(Better(S, y)) => Better(S, x) = Better(S, y)
    BY <1>1, <1>2, FS_Subset
  <1> QED BY <1>1, <1>2, <1>3

\* The best n are at most n: their ranks are different numbers below n.
LEMMA TopBound ==
    ASSUME NEW n \in Nat, NEW S \in SUBSET Chunks
    PROVE  Top(n, S) \in SUBSET S /\ Cardinality(Top(n, S)) <= n
  <1> DEFINE T == Top(n, S)
             rank == [x \in T |-> Cardinality(Better(S, x))]
  <1>1. T \in SUBSET S
    BY DEF Top
  <1>2. \A x \in T : Cardinality(Better(S, x)) \in 0..(n - 1)
    <2> TAKE x \in T
    <2>1. Cardinality(Better(S, x)) < n
      BY DEF Top
    <2>2. Cardinality(Better(S, x)) \in Nat
      BY ChunksFinite DEF Better
    <2> QED BY <2>1, <2>2
  <1>3. ASSUME NEW x \in T, NEW y \in T, x # y PROVE rank[x] # rank[y]
    <2>1. x \in S /\ y \in S
      BY <1>1
    <2>2. /\ Cardinality(Better(S, x)) \in Nat /\ Cardinality(Better(S, y)) \in Nat
          /\ Better(S, x) \in SUBSET Chunks /\ Better(S, y) \in SUBSET Chunks
      BY ChunksFinite DEF Better
    <2>3. CASE Score[x] > Score[y]
      BY <2>1, <2>2, <2>3, BetterShrinks
    <2>4. CASE Score[y] > Score[x]
      BY <2>1, <2>2, <2>4, BetterShrinks
    <2>5. Score[x] # Score[y] /\ Score[x] \in Int /\ Score[y] \in Int
      BY <1>3, <2>1, ScoreAssumption
    <2> QED BY <2>3, <2>4, <2>5
  <1>4. rank \in Injection(T, 0..(n - 1))
    <2>1. rank \in [T -> 0..(n - 1)]
      BY <1>2
    <2> HIDE DEF T, rank
    <2> QED BY <1>3, <2>1 DEF Injection, IsInjective
  <1>5. IsFiniteSet(0..(n - 1)) /\ Cardinality(0..(n - 1)) = n
    BY FS_Interval
  <1> HIDE DEF T, rank
  <1>6. Cardinality(T) <= n
    BY <1>4, <1>5, FS_Injection
  <1> QED BY <1>1, <1>6 DEF T

\* What is not among the best n has n better ones.
LEMMA NotTop ==
    ASSUME NEW n \in Nat, NEW S \in SUBSET Chunks, NEW x \in S, x \notin Top(n, S)
    PROVE  Cardinality(Better(S, x)) >= n
  <1>1. Cardinality(Better(S, x)) \in Nat
    BY ChunksFinite DEF Better
  <1> QED BY <1>1 DEF Top

\* The limit of the search.
LEMMA LimitType ==
    ASSUME NEW n \in Nat
    PROVE  Limit(n) \in Nat /\ Limit(n) <= MaxCandidates
  BY LimitsAssumption DEF Limit, Smaller

\* What the search returns is visible, of the index and limited.
LEMMA HitsBound ==
    ASSUME NEW n \in Indexes, NEW request \in Requests, request.topk \in Nat
    PROVE  /\ Hits(n, request) \in SUBSET Chunks
           /\ Hits(n, request) \subseteq {x \in Holds[n] : Visible(x, request)}
           /\ Cardinality(Hits(n, request)) <= Limit(request.topk)
           /\ Cardinality(Hits(n, request)) <= MaxCandidates
  <1> DEFINE entries == {x \in Holds[n] : Visible(x, request)}
  <1>1. entries \in SUBSET Chunks
    BY ChunksAssumption
  <1>2. /\ Limit(request.topk) \in Nat /\ Limit(request.topk) <= MaxCandidates
        /\ MaxCandidates \in Nat
    BY LimitType, LimitsAssumption
  <1>3. Hits(n, request) = Top(Limit(request.topk), entries)
    BY DEF Hits
  <1> HIDE DEF entries
  <1>4. Hits(n, request) \in SUBSET entries /\ Cardinality(Hits(n, request)) <= Limit(request.topk)
    BY <1>1, <1>2, <1>3, TopBound
  <1>5. Cardinality(Hits(n, request)) \in Nat
    BY <1>1, <1>4, ChunksFinite
  <1> QED BY <1>1, <1>2, <1>4, <1>5 DEF entries

------------------------------------------------------------------------------
(* One step *)

\* Writing one well-typed call state keeps the type of call.
LEMMA CallUpdate ==
    ASSUME TypeOK, NEW c \in Calls, NEW x, call' = [call EXCEPT ![c] = x]
    PROVE  /\ call'[c] = x
           /\ \A d \in Calls : d # c => call'[d] = call[d]
           /\ x \in Call => call' \in [Calls -> Call]
  BY DEF TypeOK

\* The fields of a call have their types.
LEMMA CallFields ==
    ASSUME TypeOK, NEW c \in Calls
    PROVE  /\ call[c].request \in Requests
           /\ call[c].found \in SUBSET Chunks
           /\ call[c].granted \in SUBSET Chunks
           /\ call[c].safe \in SUBSET Chunks
           /\ call[c].sent \in SUBSET Chunks
  BY DEF TypeOK, Call

\* A call to which nothing happens keeps its invariant.
LEMMA Keep ==
    ASSUME Inv, NEW d \in Calls, call'[d] = call[d], audit'[d] = audit[d],
           during'[d] = during[d], UNCHANGED <<indexes, indexed>>
    PROVE  CallInv(d)'
  <1>1. CallInv(d)
    BY DEF Inv
  <1>2. Record(d)' = Record(d)
    BY DEF Record
  <1>3. BoundInv(d)' /\ DuringInv(d)' /\ SelectionInv(d)'
    BY <1>1 DEF CallInv, BoundInv, DuringInv, SelectionInv, Bound, Searched, Selected
  <1>4. SentInv(d)'
    BY <1>1 DEF CallInv, SentInv, Releasable
  <1>5. RecordInv(d)'
    BY <1>1, <1>2 DEF CallInv, RecordInv
  <1> QED BY <1>3, <1>4, <1>5 DEF CallInv

\* A step of one call that leaves the tables alone.
LEMMA CallStep ==
    ASSUME Inv, NEW c \in Calls, NEW x \in Call, call' = [call EXCEPT ![c] = x],
           UNCHANGED <<store, creating>>,
           audit' \in [Calls -> Seq(AuditRow)], during' \in [Calls -> Observed],
           \A d \in Calls : d # c => audit'[d] = audit[d] /\ during'[d] = during[d],
           CallInv(c)'
    PROVE  Inv'
  <1>1. TypeOK
    BY DEF Inv
  <1>2. TypeOK'
    BY <1>1, CallUpdate DEF TypeOK, store
  <1>3. ASSUME NEW d \in Calls, d # c PROVE CallInv(d)'
    BY <1>1, <1>3, CallUpdate, Keep DEF store
  <1> QED BY <1>2, <1>3 DEF Inv

\* A call that only moves on, reading nothing: its invariant is about its state.
LEMMA OwnStep ==
    ASSUME Inv, NEW c \in Calls, NEW x \in Call, call' = [call EXCEPT ![c] = x],
           UNCHANGED <<store, creating, audit, during>>, CallInv(c)'
    PROVE  Inv'
  BY CallStep DEF Inv, TypeOK

\* A call that is refused or fails keeps only what was sent to the model.
LEMMA Ends ==
    ASSUME Inv, NEW c \in Calls, NEW x \in Call, call' = [call EXCEPT ![c] = x],
           call[c].pc \in {"base", "index", "search", "authorize", "generate"},
           x.pc = "audit", x.outcome \in {"DENIED", "FAILED"},
           x.contract = call[c].contract, x.request = call[c].request, x.index = call[c].index,
           x.sent # {} => Releasable(c, x.sent),
           UNCHANGED <<store, creating, audit, during>>
    PROVE  Inv'
  <1>1. TypeOK /\ CallInv(c)
    BY DEF Inv
  <1>2. call'[c] = x /\ audit'[c] = audit[c]
    BY <1>1, CallUpdate
  <1>3. BoundInv(c)' /\ DuringInv(c)' /\ SelectionInv(c)'
    BY <1>2 DEF BoundInv, DuringInv, SelectionInv, Bound, Searched, Selected
  <1>4. SentInv(c)'
    BY <1>2 DEF SentInv, Releasable
  <1>5. RecordInv(c)'
    BY <1>1, <1>2 DEF CallInv, RecordInv
  <1> QED BY <1>3, <1>4, <1>5, OwnStep DEF CallInv

\* A call refused before the search.
LEMMA Refused ==
    ASSUME Inv, NEW c \in Calls, call[c].pc \in {"base", "index"}, Raise(c, "DENIED"),
           UNCHANGED <<store, creating, audit, during>>
    PROVE  Inv'
  <1> DEFINE x == [call[c] EXCEPT !.pc = "audit", !.outcome = "DENIED"]
  <1>1. TypeOK /\ call[c] \in Call /\ call[c].sent = {}
    BY DEF Inv, TypeOK, CallInv, SentInv
  <1>2. call' = [call EXCEPT ![c] = x]
    BY <1>1 DEF Raise, TypeOK
  <1>3. /\ x \in Call /\ x.pc = "audit" /\ x.outcome = "DENIED" /\ x.sent = {}
        /\ x.contract = call[c].contract /\ x.request = call[c].request
        /\ x.index = call[c].index
    BY <1>1 DEF Call
  <1> HIDE DEF x
  <1> QED BY <1>2, <1>3, Ends

\* Reading a request: nothing is bound to it yet.
LEMMA ReceiveStep ==
    ASSUME Inv, NEW c \in Calls, NEW request \in Requests, Receive(c, request)
    PROVE  Inv'
  <1> DEFINE pc == IF ~Admitted(request) THEN "rejected"
                   ELSE IF Valid(request) THEN "base" ELSE "audit"
             outcome == IF Admitted(request) /\ ~Valid(request) THEN "DENIED" ELSE call[c].outcome
             x == [call[c] EXCEPT !.request = request, !.pc = pc, !.outcome = outcome]
  <1>1. TypeOK /\ call[c] \in Call /\ CallInv(c) /\ call[c].pc = "new"
    BY DEF Inv, TypeOK, Receive
  <1>2. call[c].outcome = "NONE" /\ call[c].sent = {} /\ audit[c] = <<>>
    BY <1>1 DEF CallInv, RecordInv, SentInv
  <1>3. \/ pc = "rejected" /\ outcome = "NONE"
        \/ pc = "audit" /\ outcome = "DENIED"
        \/ pc = "base" /\ outcome = "NONE" /\ request.topk \in 1..MaxTopK
    BY <1>2 DEF Valid
  <1>4. call' = [call EXCEPT ![c] = x]
    BY <1>1 DEF Receive, TypeOK
  <1>5. /\ during' = [during EXCEPT ![c] = [ever |-> indexed, always |-> indexed]]
        /\ UNCHANGED <<store, creating, audit>>
    BY DEF Receive
  <1> HIDE DEF pc, outcome
  <1>6. /\ x \in Call /\ x.pc = pc /\ x.outcome = outcome /\ x.sent = {} /\ x.request = request
    BY <1>1, <1>2, <1>3 DEF Call
  <1> HIDE DEF x
  <1>7. call'[c] = x /\ during'[c] = [ever |-> indexed, always |-> indexed] /\ audit'[c] = <<>>
    BY <1>1, <1>2, <1>4, <1>5, CallUpdate DEF TypeOK
  <1>8. /\ during' \in [Calls -> Observed] /\ audit' \in [Calls -> Seq(AuditRow)]
        /\ \A d \in Calls : d # c => audit'[d] = audit[d] /\ during'[d] = during[d]
    BY <1>1, <1>5 DEF TypeOK, Observed
  <1>9. BoundInv(c)' /\ DuringInv(c)' /\ SelectionInv(c)' /\ SentInv(c)' /\ RecordInv(c)'
    BY <1>3, <1>5, <1>6, <1>7
       DEF BoundInv, DuringInv, SelectionInv, SentInv, RecordInv, Bound, Searched, Selected, store
  <1> QED BY <1>4, <1>5, <1>6, <1>8, <1>9, CallStep DEF CallInv

\* Reading the base: the contract in force judges the request.
LEMMA ReadBaseStep ==
    ASSUME Inv, NEW c \in Calls, ReadBase(c)
    PROVE  Inv'
  <1>1. TypeOK /\ call[c] \in Call /\ CallInv(c) /\ call[c].pc = "base"
    BY DEF Inv, TypeOK, ReadBase
  <1>2. CASE MayServe(call[c].request)
    <2> DEFINE x == [call[c] EXCEPT !.pc = "index", !.contract = base, !.index = active]
    <2>1. base \in Contracts /\ active \in Indexes
      BY <1>1, <1>2 DEF MayServe, TypeOK
    <2>2. call' = [call EXCEPT ![c] = x] /\ UNCHANGED <<store, creating, audit, during>>
      BY <1>1, <1>2 DEF ReadBase, TypeOK
    <2>3. /\ x \in Call /\ x.pc = "index" /\ x.contract = base /\ x.index = active
          /\ x.outcome = call[c].outcome /\ x.sent = call[c].sent /\ x.request = call[c].request
      BY <1>1, <2>1 DEF Call
    <2> HIDE DEF x
    <2>4. call'[c] = x /\ audit'[c] = audit[c] /\ during'[c] = during[c]
      BY <1>1, <2>2, CallUpdate
    <2>5. BoundInv(c)'
      BY <1>1, <1>2, <2>1, <2>3, <2>4
         DEF CallInv, BoundInv, RecordInv, Bound, Searched, MayServe
    <2>6. DuringInv(c)' /\ SelectionInv(c)' /\ SentInv(c)'
      BY <1>1, <2>2, <2>3, <2>4
         DEF CallInv, DuringInv, SelectionInv, SentInv, RecordInv, Searched, Selected, store
    <2>7. RecordInv(c)'
      BY <1>1, <2>3, <2>4 DEF CallInv, RecordInv
    <2> QED BY <2>2, <2>3, <2>5, <2>6, <2>7, OwnStep DEF CallInv
  <1>3. CASE ~MayServe(call[c].request)
    BY <1>1, <1>3, Refused DEF ReadBase
  <1> QED BY <1>2, <1>3

\* Reading the index: it was published.
LEMMA ReadIndexStep ==
    ASSUME Inv, NEW c \in Calls, ReadIndex(c)
    PROVE  Inv'
  <1>1. TypeOK /\ call[c] \in Call /\ CallInv(c) /\ call[c].pc = "index"
    BY DEF Inv, TypeOK, ReadIndex
  <1>2. CASE indexes[call[c].index] = "PUBLISHED"
    <2> DEFINE x == [call[c] EXCEPT !.pc = "search"]
    <2>1. call' = [call EXCEPT ![c] = x] /\ UNCHANGED <<store, creating, audit, during>>
      BY <1>1, <1>2 DEF ReadIndex, TypeOK
    <2>2. /\ x \in Call /\ x.pc = "search" /\ x.contract = call[c].contract
          /\ x.index = call[c].index /\ x.outcome = call[c].outcome
          /\ x.sent = call[c].sent /\ x.request = call[c].request
      BY <1>1 DEF Call
    <2> HIDE DEF x
    <2>3. call'[c] = x /\ audit'[c] = audit[c] /\ during'[c] = during[c]
      BY <1>1, <2>1, CallUpdate
    <2>4. BoundInv(c)'
      BY <1>1, <1>2, <2>1, <2>2, <2>3
         DEF CallInv, BoundInv, RecordInv, Bound, Searched, store
    <2>5. DuringInv(c)' /\ SelectionInv(c)' /\ SentInv(c)'
      BY <1>1, <2>1, <2>2, <2>3
         DEF CallInv, DuringInv, SelectionInv, SentInv, RecordInv, Searched, Selected, store
    <2>6. RecordInv(c)'
      BY <1>1, <2>2, <2>3 DEF CallInv, RecordInv
    <2> QED BY <2>1, <2>2, <2>4, <2>5, <2>6, OwnStep DEF CallInv
  <1>3. CASE indexes[call[c].index] # "PUBLISHED"
    BY <1>1, <1>3, Refused DEF ReadIndex
  <1> QED BY <1>2, <1>3

\* Searching the index.
LEMMA SearchStep ==
    ASSUME Inv, NEW c \in Calls, Search(c)
    PROVE  Inv'
  <1> DEFINE hits == Hits(call[c].index, call[c].request)
             x == [call[c] EXCEPT !.pc = "authorize", !.found = hits]
  <1>1. TypeOK /\ call[c] \in Call /\ CallInv(c) /\ call[c].pc = "search"
    BY DEF Inv, TypeOK, Search
  <1>2. call' = [call EXCEPT ![c] = x] /\ UNCHANGED <<store, creating, audit, during>>
    BY <1>1 DEF Search, TypeOK
  <1>3. /\ call[c].index \in Indexes /\ call[c].request \in Requests
        /\ call[c].request.topk \in Nat
    BY <1>1, CallFields, LimitsAssumption DEF CallInv, BoundInv, Bound
  <1>4. hits \in SUBSET Chunks /\ Cardinality(hits) <= MaxCandidates
    BY <1>3, HitsBound
  <1> HIDE DEF hits
  <1>5. /\ x \in Call /\ x.pc = "authorize" /\ x.found = hits /\ x.contract = call[c].contract
        /\ x.index = call[c].index /\ x.outcome = call[c].outcome
        /\ x.sent = call[c].sent /\ x.request = call[c].request
    BY <1>1, <1>4 DEF Call
  <1> HIDE DEF x
  <1>6. call'[c] = x /\ audit'[c] = audit[c] /\ during'[c] = during[c]
    BY <1>1, <1>2, CallUpdate
  <1>7. BoundInv(c)'
    BY <1>1, <1>2, <1>5, <1>6 DEF CallInv, BoundInv, RecordInv, Bound, Searched, store
  <1>8. SelectionInv(c)'
    BY <1>1, <1>5, <1>6 DEF CallInv, RecordInv, SelectionInv, Searched, Selected, hits
  <1>9. DuringInv(c)' /\ SentInv(c)' /\ RecordInv(c)'
    BY <1>1, <1>2, <1>5, <1>6 DEF CallInv, DuringInv, SentInv, RecordInv, store
  <1> QED BY <1>2, <1>5, <1>7, <1>8, <1>9, OwnStep DEF CallInv

\* What is selected was granted, is harmless and not more than asked for.
LEMMA SelectBound ==
    ASSUME NEW S \in SUBSET Chunks, NEW n \in Nat
    PROVE  Select(S, n) \in SUBSET (S \ Suspicious) /\ Cardinality(Select(S, n)) <= n
  <1>1. S \ Suspicious \in SUBSET Chunks
    OBVIOUS
  <1> QED BY <1>1, TopBound DEF Select

\* Authorizing, selecting and deciding on the model.
LEMMA AuthorizeStep ==
    ASSUME Inv, NEW c \in Calls, Authorize(c)
    PROVE  Inv'
  <1> DEFINE request == call[c].request
             granted == Authorized(call[c].found, request)
             safe == Select(granted, request.topk)
             sufficient == Evidence(safe) # {}
             asked == sufficient /\ request.generate /\ call[c].contract.generate /\ MayLeave(safe)
             pc == IF asked THEN "generate" ELSE "audit"
             outcome == IF ~sufficient /\ request.strict THEN "DENIED" ELSE "SUCCESS"
             x == [call[c] EXCEPT !.granted = granted, !.safe = safe, !.pc = pc,
                                  !.outcome = outcome]
  <1>1. TypeOK /\ call[c] \in Call /\ CallInv(c) /\ call[c].pc = "authorize"
    BY DEF Inv, TypeOK, Authorize
  <1>2. call' = [call EXCEPT ![c] = x] /\ UNCHANGED <<store, creating, audit, during>>
    BY <1>1 DEF Authorize, TypeOK
  <1>3. /\ call[c].index \in Indexes /\ request \in Requests /\ request.topk \in Nat
        /\ call[c].found \in SUBSET Chunks
        /\ call[c].found \subseteq {y \in Holds[call[c].index] : Visible(y, request)}
    <2>1. /\ call[c].index \in Indexes /\ request \in Requests /\ request.topk \in Nat
          /\ call[c].found = Hits(call[c].index, request)
      BY <1>1, CallFields, LimitsAssumption
         DEF CallInv, BoundInv, SelectionInv, Bound, Searched
    <2> HIDE DEF request
    <2> QED BY <2>1, HitsBound
  <1>4. /\ granted \in SUBSET call[c].found /\ granted \in SUBSET Chunks
        /\ \A y \in granted : DocumentOf[y] \in indexed
        /\ \A y \in call[c].found : DocumentOf[y] \in indexed => y \in granted
    BY <1>3 DEF Authorized
  <1>5. safe \in SUBSET (granted \ Suspicious)
    BY <1>3, <1>4, SelectBound
  <1>6. asked => Releasable(c, safe)
    <2>1. safe \subseteq Showable(Holds[call[c].index], request)
      BY <1>3, <1>4, <1>5 DEF Showable
    <2>2. MayLeave(safe) => safe \intersect Restricted = {}
      BY DEF MayLeave
    <2> HIDE DEF safe
    <2>3. asked => Evidence(safe) # {} /\ safe \intersect Restricted = {}
      BY <2>2
    <2>4. asked => request.generate /\ call[c].contract.generate
      OBVIOUS
    <2> QED BY <2>1, <2>3, <2>4 DEF Releasable
  <1>7. asked => sufficient
    OBVIOUS
  <1> HIDE DEF asked, sufficient, safe, granted
  <1>8. /\ pc \in {"generate", "audit"} /\ outcome \in {"DENIED", "SUCCESS"}
        /\ pc = "generate" => outcome = "SUCCESS" /\ Releasable(c, safe)
    BY <1>6, <1>7
  <1> HIDE DEF pc, outcome
  <1>9. /\ x \in Call /\ x.pc = pc /\ x.outcome = outcome /\ x.granted = granted
        /\ x.safe = safe /\ x.found = call[c].found /\ x.contract = call[c].contract
        /\ x.index = call[c].index /\ x.sent = call[c].sent /\ x.request = request
    BY <1>1, <1>4, <1>5, <1>8 DEF Call
  <1> HIDE DEF x
  <1>10. call'[c] = x /\ audit'[c] = audit[c] /\ during'[c] = during[c] /\ UNCHANGED indexes
    BY <1>1, <1>2, CallUpdate DEF store
  <1>11. BoundInv(c)'
    BY <1>1, <1>8, <1>9, <1>10 DEF CallInv, BoundInv, Bound, Searched
  <1>12. SelectionInv(c)'
    <2>1. x.found = Hits(x.index, x.request) /\ x.safe = Select(x.granted, x.request.topk)
      BY <1>1, <1>9 DEF CallInv, SelectionInv, Searched, safe
    <2>2. /\ \A y \in x.granted : DocumentOf[y] \in during[c].ever
          /\ \A y \in x.found : DocumentOf[y] \in during[c].always => y \in x.granted
      BY <1>1, <1>4, <1>9 DEF CallInv, DuringInv
    <2> QED BY <1>4, <1>9, <1>10, <2>1, <2>2 DEF SelectionInv, Searched, Selected
  <1>13. SentInv(c)'
    <2>1. x.sent = {}
      BY <1>1, <1>9 DEF CallInv, SentInv
    <2>2. x.pc = "generate" => Releasable(c, x.safe)
      BY <1>8, <1>9
    <2> QED BY <2>1, <2>2, <1>8, <1>9, <1>10 DEF SentInv, Releasable
  <1>14. DuringInv(c)' /\ RecordInv(c)'
    BY <1>1, <1>8, <1>9, <1>10 DEF CallInv, DuringInv, RecordInv
  <1> QED BY <1>2, <1>9, <1>11, <1>12, <1>13, <1>14, OwnStep DEF CallInv

\* The model answers.
LEMMA GenerateStep ==
    ASSUME Inv, NEW c \in Calls, Generate(c)
    PROVE  Inv'
  <1> DEFINE x == [call[c] EXCEPT !.pc = "audit", !.sent = call[c].safe]
  <1>1. TypeOK /\ call[c] \in Call /\ CallInv(c) /\ call[c].pc = "generate"
    BY DEF Inv, TypeOK, Generate
  <1>2. call' = [call EXCEPT ![c] = x] /\ UNCHANGED <<store, creating, audit, during>>
    BY <1>1 DEF Generate, TypeOK
  <1>3. /\ x \in Call /\ x.pc = "audit" /\ x.sent = call[c].safe
        /\ x.outcome = call[c].outcome /\ x.granted = call[c].granted
        /\ x.safe = call[c].safe /\ x.found = call[c].found /\ x.contract = call[c].contract
        /\ x.index = call[c].index /\ x.request = call[c].request
    BY <1>1 DEF Call
  <1> HIDE DEF x
  <1>4. call'[c] = x /\ audit'[c] = audit[c] /\ during'[c] = during[c] /\ UNCHANGED indexes
    BY <1>1, <1>2, CallUpdate DEF store
  <1>5. BoundInv(c)' /\ DuringInv(c)' /\ SelectionInv(c)'
    BY <1>1, <1>3, <1>4
       DEF CallInv, BoundInv, DuringInv, SelectionInv, Bound, Searched, Selected
  <1>6. SentInv(c)'
    BY <1>1, <1>3, <1>4 DEF CallInv, SentInv, Releasable
  <1>7. RecordInv(c)'
    BY <1>1, <1>3, <1>4 DEF CallInv, RecordInv
  <1> QED BY <1>2, <1>3, <1>5, <1>6, <1>7, OwnStep DEF CallInv

\* Something the call depends on fails.
LEMMA FailStep ==
    ASSUME Inv, NEW c \in Calls, Fail(c)
    PROVE  Inv'
  <1>1. /\ call[c].pc \in {"base", "index", "search", "authorize", "generate"}
        /\ UNCHANGED <<store, creating, audit, during>>
    BY DEF Fail
  <1>2. PICK outcome \in {"DENIED", "FAILED"},
             sent \in {{}, IF call[c].pc = "generate" THEN call[c].safe ELSE {}} :
          call' = [call EXCEPT ![c].pc = "audit", ![c].outcome = outcome, ![c].sent = sent]
    BY DEF Fail
  <1> DEFINE x == [call[c] EXCEPT !.pc = "audit", !.outcome = outcome, !.sent = sent]
  <1>3. TypeOK /\ call[c] \in Call /\ CallInv(c)
    BY DEF Inv, TypeOK
  <1>4. sent \in SUBSET Chunks /\ (sent # {} => Releasable(c, sent))
    BY <1>3, CallFields DEF CallInv, SentInv
  <1>5. call' = [call EXCEPT ![c] = x]
    BY <1>2, <1>3 DEF TypeOK
  <1>6. /\ x \in Call /\ x.pc = "audit" /\ x.outcome \in {"DENIED", "FAILED"} /\ x.sent = sent
        /\ x.contract = call[c].contract /\ x.request = call[c].request
        /\ x.index = call[c].index
    BY <1>3, <1>4 DEF Call
  <1> HIDE DEF x
  <1> QED BY <1>1, <1>4, <1>5, <1>6, Ends

(* Moving on after the outcome is known, dying at any time included. *)
LEMMA PcStep ==
    ASSUME Inv, NEW c \in Calls, NEW p \in {"reply", "answered", "refused", "unaudited", "dead"},
           call' = [call EXCEPT ![c].pc = p],
           UNCHANGED <<store, creating, during>>,
           audit' \in [Calls -> Seq(AuditRow)],
           \A d \in Calls : d # c => audit'[d] = audit[d],
           \/ p = "dead" /\ call[c].pc \notin {"answered", "refused", "unaudited", "rejected", "dead", "new"}
              /\ audit'[c] = audit[c]
           \/ p = "reply" /\ call[c].pc = "audit" /\ audit'[c] = <<Record(c)>>
           \/ p = "unaudited" /\ call[c].pc \in {"audit", "reply"} /\ audit'[c] = audit[c]
           \/ p = "answered" /\ call[c].pc = "reply" /\ call[c].outcome = "SUCCESS"
              /\ audit'[c] = audit[c]
           \/ p = "refused" /\ call[c].pc = "reply" /\ call[c].outcome # "SUCCESS"
              /\ audit'[c] = audit[c]
    PROVE  Inv'
  <1> DEFINE x == [call[c] EXCEPT !.pc = p]
  <1>1. TypeOK /\ call[c] \in Call /\ CallInv(c) /\ during' \in [Calls -> Observed]
    BY DEF Inv, TypeOK
  <1>2. call' = [call EXCEPT ![c] = x]
    BY <1>1 DEF TypeOK
  <1>3. /\ x \in Call /\ x.pc = p /\ x.sent = call[c].sent
        /\ x.outcome = call[c].outcome /\ x.granted = call[c].granted
        /\ x.safe = call[c].safe /\ x.found = call[c].found /\ x.contract = call[c].contract
        /\ x.index = call[c].index /\ x.request = call[c].request
    BY <1>1 DEF Call
  <1> HIDE DEF x
  <1>4. call'[c] = x /\ during'[c] = during[c] /\ UNCHANGED indexes
    BY <1>1, <1>2, CallUpdate DEF store
  <1>5. BoundInv(c)' /\ DuringInv(c)' /\ SelectionInv(c)'
    BY <1>1, <1>3, <1>4
       DEF CallInv, BoundInv, DuringInv, SelectionInv, Bound, Searched, Selected
  <1>6. SentInv(c)'
    BY <1>1, <1>3, <1>4 DEF CallInv, SentInv, Releasable
  <1>7. Record(c)' = Record(c)
    BY <1>3, <1>4 DEF Record
  <1>8. RecordInv(c)'
    BY <1>1, <1>3, <1>4, <1>7 DEF CallInv, RecordInv
  <1> QED BY <1>1, <1>2, <1>3, <1>5, <1>6, <1>8, CallStep DEF CallInv

\* The record of a call is a row.
LEMMA RecordType ==
    ASSUME Inv, NEW c \in Calls, call[c].outcome # "NONE"
    PROVE  Record(c) \in AuditRow
  <1>1. /\ TypeOK /\ CallInv(c) /\ call[c].outcome \in {"SUCCESS", "DENIED", "FAILED"}
    BY DEF Inv, TypeOK, Call
  <1>2. /\ Cardinality(call[c].found) \in Nat /\ Cardinality(call[c].granted) \in Nat
        /\ Cardinality(Evidence(call[c].safe)) \in Nat
    BY <1>1, CallFields, ChunksFinite DEF Evidence
  <1>3. call[c].outcome = "SUCCESS" => call[c].index \in Indexes
    BY <1>1 DEF CallInv, BoundInv, Bound
  <1> DEFINE generated == call[c].outcome = "SUCCESS" /\ call[c].sent # {}
  <1>4. generated \in BOOLEAN
    OBVIOUS
  <1>5. Record(c) = [outcome |-> call[c].outcome,
                     index |-> IF call[c].outcome = "SUCCESS" THEN call[c].index ELSE None,
                     candidates |-> IF call[c].outcome = "SUCCESS" THEN Cardinality(call[c].found) ELSE 0,
                     authorized |-> IF call[c].outcome = "SUCCESS" THEN Cardinality(call[c].granted) ELSE 0,
                     count |-> IF call[c].outcome = "SUCCESS"
                               THEN Cardinality(Evidence(call[c].safe)) ELSE 0,
                     generated |-> generated]
    BY DEF Record
  <1> HIDE DEF generated
  <1> QED BY <1>1, <1>2, <1>3, <1>4, <1>5 DEF AuditRow

\* Every step of a call of retrieve.
LEMMA RetrieveStep ==
    ASSUME Inv, NEW c \in Calls, Retrieve(c)
    PROVE  Inv'
  <1>1. TypeOK /\ CallInv(c) /\ call[c] \in Call
    BY DEF Inv, TypeOK
  <1>2. CASE RecordAudit(c)
    <2>1. audit[c] = <<>> /\ call[c].outcome # "NONE"
      BY <1>1, <1>2 DEF CallInv, RecordInv, RecordAudit
    <2>2. Record(c) \in AuditRow
      BY <2>1, RecordType
    <2>3. audit' = [audit EXCEPT ![c] = <<Record(c)>>]
      BY <1>1, <1>2, <2>1, <2>2 DEF RecordAudit, TypeOK
    <2>4. audit' \in [Calls -> Seq(AuditRow)]
      BY <1>1, <2>2, <2>3 DEF TypeOK
    <2>5. audit'[c] = <<Record(c)>> /\ \A d \in Calls : d # c => audit'[d] = audit[d]
      BY <1>1, <2>3 DEF TypeOK
    <2> QED BY <1>2, <2>4, <2>5, PcStep DEF RecordAudit
  <1>3. CASE AuditUnavailable(c)
    BY <1>1, <1>3, PcStep DEF AuditUnavailable, TypeOK
  <1>4. CASE Reply(c)
    <2>1. CASE call[c].outcome = "SUCCESS"
      BY <1>1, <1>4, <2>1, PcStep DEF Reply, TypeOK
    <2>2. CASE call[c].outcome # "SUCCESS"
      BY <1>1, <1>4, <2>2, PcStep DEF Reply, TypeOK
    <2> QED BY <2>1, <2>2
  <1>5. CASE Crash(c)
    BY <1>1, <1>5, PcStep DEF Crash, TypeOK
  <1> QED BY <1>2, <1>3, <1>4, <1>5, ReceiveStep, ReadBaseStep, ReadIndexStep, SearchStep,
             AuthorizeStep, GenerateStep, FailStep DEF Retrieve

\* Other operations move what a call observes along with the tables.
LEMMA Watching ==
    ASSUME Inv, Watch, UNCHANGED <<call, audit>>, indexed' \in SUBSET Documents,
           \A n \in Indexes : indexes[n] # "READY" => indexes'[n] # "READY"
    PROVE  during' \in [Calls -> Observed] /\ \A c \in Calls : CallInv(c)'
  <1> DEFINE working(c) == call[c].pc \in {"base", "index", "search", "authorize"}
             next(c) == [ever |-> during[c].ever \union indexed',
                         always |-> during[c].always \intersect indexed']
  <1>1. TypeOK
    BY DEF Inv
  <1>2. ASSUME NEW c \in Calls
        PROVE  /\ during'[c] = IF working(c) THEN next(c) ELSE during[c]
               /\ next(c) \in Observed /\ during[c] \in Observed
    BY <1>1 DEF Watch, TypeOK, Observed
  <1>3. during' \in [Calls -> Observed]
    <2>1. during' = [c \in Calls |-> IF working(c) THEN next(c) ELSE during[c]]
      BY DEF Watch
    <2> HIDE DEF working, next
    <2> QED BY <1>2, <2>1
  <1>4. ASSUME NEW c \in Calls PROVE CallInv(c)'
    <2>1. CallInv(c) /\ call[c] \in Call /\ Record(c)' = Record(c)
      BY <1>1 DEF Inv, TypeOK, Record
    <2>2. BoundInv(c)'
      BY <2>1 DEF CallInv, BoundInv, Bound, Searched
    <2>3. DuringInv(c)'
      <3>1. CASE working(c)
        <4>1. during'[c] = next(c) /\ next(c).ever = during[c].ever \union indexed'
              /\ next(c).always = during[c].always \intersect indexed'
          BY <1>2, <3>1
        <4> QED BY <4>1 DEF DuringInv
      <3>2. CASE ~working(c)
        BY <3>2 DEF DuringInv
      <3> QED BY <3>1, <3>2
    <2>4. SelectionInv(c)'
      <3>1. Selected(c) => during'[c] = during[c]
        BY <1>2, <2>1 DEF Selected, CallInv, RecordInv
      <3> QED BY <2>1, <3>1 DEF CallInv, SelectionInv, Selected, Searched
    <2>5. SentInv(c)' /\ RecordInv(c)'
      BY <2>1 DEF CallInv, SentInv, RecordInv, Releasable
    <2> QED BY <2>2, <2>3, <2>4, <2>5 DEF CallInv
  <1> QED BY <1>3, <1>4

\* create_knowledge_base does not touch the calls.
LEMMA CreateStep ==
    ASSUME Inv, NEW k \in Creators,
           CheckCode(k) \/ \E contract \in Contracts : InsertBase(k, contract)
    PROVE  Inv'
  <1>1. UNCHANGED <<active, indexes, indexed, call, audit, during>>
    BY DEF CheckCode, InsertBase, store
  <1>2. base' \in Contracts \union {None}
        /\ creating' \in [Creators -> {"idle", "insert", "created", "conflict"}]
    BY DEF Inv, TypeOK, CheckCode, InsertBase, store
  <1>3. TypeOK'
    BY <1>1, <1>2 DEF Inv, TypeOK
  <1>4. \A c \in Calls : CallInv(c)'
    BY <1>1, Keep
  <1> QED BY <1>3, <1>4 DEF Inv

\* Every step.
LEMMA InvStep ==
    ASSUME Inv, [Next]_vars
    PROVE  Inv'
  <1>1. ASSUME NEW k \in Creators,
               CheckCode(k) \/ \E contract \in Contracts : InsertBase(k, contract)
        PROVE  Inv'
    BY <1>1, CreateStep
  <1>2. ASSUME NEW c \in Calls, Retrieve(c) PROVE Inv'
    BY <1>2, RetrieveStep
  <1>3. ASSUME NEW n \in Indexes, PublishIndex(n) PROVE Inv'
    <2>1. /\ Watch /\ UNCHANGED <<base, indexed, creating, call, audit>> /\ active' = n
          /\ indexes' = [m \in Indexes |-> IF m = n THEN "PUBLISHED"
                                           ELSE IF indexes[m] = "PUBLISHED" THEN "RETIRED"
                                           ELSE indexes[m]]
      BY <1>3 DEF PublishIndex
    <2>2. indexes' \in [Indexes -> Classes]
      BY <2>1 DEF Inv, TypeOK, Classes
    <2>3. \A m \in Indexes : indexes[m] # "READY" => indexes'[m] # "READY"
      BY <2>1
    <2>4. during' \in [Calls -> Observed] /\ \A c \in Calls : CallInv(c)'
      BY <2>1, <2>3, Watching DEF Inv, TypeOK
    <2> QED BY <2>1, <2>2, <2>4 DEF Inv, TypeOK
  <1>4. ASSUME NEW d \in Documents, SaveDocument(d) PROVE Inv'
    <2>1. /\ Watch /\ UNCHANGED <<base, active, indexes, creating, call, audit>>
          /\ indexed' \in SUBSET Documents
      BY <1>4 DEF SaveDocument, Inv, TypeOK
    <2>2. during' \in [Calls -> Observed] /\ \A c \in Calls : CallInv(c)'
      BY <2>1, Watching
    <2> QED BY <2>1, <2>2 DEF Inv, TypeOK
  <1>5. CASE UNCHANGED vars
    <2>1. TypeOK'
      BY <1>5 DEF Inv, TypeOK, vars
    <2>2. \A c \in Calls : CallInv(c)'
      BY <1>5, Keep DEF vars
    <2> QED BY <2>1, <2>2 DEF Inv
  <1> QED BY <1>1, <1>2, <1>3, <1>4, <1>5 DEF Next

\* Nothing has happened yet.
LEMMA InvInit == Init => Inv
  <1> SUFFICES ASSUME Init PROVE Inv
    OBVIOUS
  <1>1. NewCall \in Call /\ NewCall.pc = "new" /\ NewCall.outcome = "NONE" /\ NewCall.sent = {}
    <2>1. (CHOOSE r \in Requests : TRUE) \in Requests
      BY RequestsAssumption
    <2>2. {} \in {S \in SUBSET Chunks : Cardinality(S) <= MaxCandidates}
      BY FS_EmptySet, LimitsAssumption
    <2> QED BY <2>1, <2>2 DEF NewCall, Call
  <1>2. TypeOK
    BY <1>1 DEF Init, TypeOK, Classes, Observed
  <1>3. ASSUME NEW c \in Calls PROVE CallInv(c)
    <2>1. call[c] = NewCall /\ audit[c] = <<>>
      BY DEF Init
    <2> QED BY <1>1, <2>1 DEF CallInv, BoundInv, DuringInv, SelectionInv, SentInv, RecordInv,
                              Bound, Searched, Selected
  <1> QED BY <1>2, <1>3 DEF Inv

LEMMA InvHolds == Spec => []Inv
  BY InvInit, InvStep, PTL DEF Spec

------------------------------------------------------------------------------
(* The theorems *)

(* Every variable has its type; a search returns at most MaxCandidates chunks. *)
THEOREM TypeCorrect == Spec => []TypeOK
  <1>1. Inv => TypeOK
    BY DEF Inv
  <1> QED BY <1>1, InvHolds, PTL

(* Facts about a call with a result. *)
LEMMA ResultFacts ==
    ASSUME Inv, NEW c \in Calls, HasResult(c)
    PROVE  LET request == call[c].request
               entries == {x \in Holds[call[c].index] : Visible(x, request)} IN
           /\ call[c].index \in Indexes /\ request \in Requests
           /\ request.topk \in Nat
           /\ entries \in SUBSET Chunks
           /\ call[c].found = Top(Limit(request.topk), entries)
           /\ call[c].found \in SUBSET entries
           /\ Cardinality(call[c].found) <= Limit(request.topk)
           /\ call[c].granted \in SUBSET call[c].found
           /\ call[c].safe = Top(request.topk, call[c].granted \ Suspicious)
           /\ call[c].safe \in SUBSET (call[c].granted \ Suspicious)
           /\ Cardinality(call[c].safe) <= request.topk
  <1> DEFINE request == call[c].request
             entries == {x \in Holds[call[c].index] : Visible(x, request)}
  <1>1. TypeOK /\ CallInv(c) /\ call[c].outcome = "SUCCESS"
    BY DEF Inv, HasResult
  <1>2. /\ call[c].index \in Indexes /\ request \in Requests /\ request.topk \in Nat
        /\ call[c].found = Hits(call[c].index, request)
        /\ call[c].granted \in SUBSET call[c].found
        /\ call[c].safe = Select(call[c].granted, request.topk)
    BY <1>1, CallFields, LimitsAssumption
       DEF CallInv, BoundInv, SelectionInv, Bound, Searched, Selected
  <1>3. entries \in SUBSET Chunks
    BY <1>2, ChunksAssumption
  <1>4. call[c].found = Top(Limit(request.topk), entries)
    BY <1>2 DEF Hits
  <1> HIDE DEF request
  <1>5. call[c].found \in SUBSET entries /\ Cardinality(call[c].found) <= Limit(request.topk)
    BY <1>2, HitsBound
  <1> HIDE DEF entries
  <1>6. call[c].granted \in SUBSET Chunks
    BY <1>2, <1>3, <1>5
  <1>7. /\ call[c].safe = Top(request.topk, call[c].granted \ Suspicious)
        /\ call[c].safe \in SUBSET (call[c].granted \ Suspicious)
        /\ Cardinality(call[c].safe) <= request.topk
    BY <1>2, <1>6, SelectBound DEF Select
  <1> QED BY <1>2, <1>3, <1>4, <1>5, <1>7 DEF request, entries

(* What an answer shows comes from the published index the call was bound to,
   is visible to its subject, harmless, of a document INDEXED during the call,
   and not more than request and contract allow. *)
THEOREM EvidencePermitted == Spec => []EvidenceIsPermitted
  <1>1. Inv => EvidenceIsPermitted
    <2> SUFFICES ASSUME Inv, NEW c \in Calls, HasResult(c)
                 PROVE  LET request == call[c].request IN
                        /\ indexes[call[c].index] # "READY"
                        /\ request.purpose \in call[c].contract.purposes
                        /\ Cardinality(Result(c)) <= request.topk
                        /\ request.topk <= call[c].contract.topk
                        /\ Result(c) \subseteq Showable(Holds[call[c].index], request)
                        /\ \A x \in Result(c) : DocumentOf[x] \in during[c].ever
      BY DEF EvidenceIsPermitted
    <2> DEFINE request == call[c].request
    <2>1. CallInv(c) /\ call[c].outcome = "SUCCESS"
      BY DEF Inv, HasResult
    <2>2. /\ indexes[call[c].index] # "READY"
          /\ request.purpose \in call[c].contract.purposes
          /\ request.topk <= call[c].contract.topk
          /\ \A x \in call[c].granted : DocumentOf[x] \in during[c].ever
      BY <2>1 DEF CallInv, BoundInv, SelectionInv, Bound, Searched, Selected
    <2>3. Result(c) \in SUBSET call[c].safe
      BY DEF Result, Evidence
    <2>4. Cardinality(Result(c)) <= request.topk
      <3>1. /\ call[c].safe \in SUBSET Chunks /\ Cardinality(call[c].safe) <= request.topk
            /\ request.topk \in Nat
        BY ResultFacts, CallFields DEF Inv
      <3>2. /\ IsFiniteSet(call[c].safe) /\ Cardinality(call[c].safe) \in Nat
            /\ Cardinality(Result(c)) \in Nat
        BY <2>3, <3>1, ChunksFinite
      <3>3. Cardinality(Result(c)) <= Cardinality(call[c].safe)
        BY <2>3, <3>2, FS_Subset
      <3> QED BY <3>1, <3>2, <3>3
    <2>5. Result(c) \subseteq Showable(Holds[call[c].index], request)
      BY <2>3, ResultFacts DEF Showable
    <2> QED BY <2>2, <2>3, <2>4, <2>5, ResultFacts
  <1> QED BY <1>1, InvHolds, PTL

(* A chunk that could have been shown is left out only for better ones: the two
   limits and the filters between them lose nothing else. *)
THEOREM EvidenceBest == Spec => []EvidenceIsBest
  <1>1. Inv => EvidenceIsBest
    <2> SUFFICES ASSUME Inv, NEW c \in Calls, HasResult(c),
                        NEW x \in {y \in Holds[call[c].index] : Visible(y, call[c].request)}
                                    \ (Suspicious \union Result(c)),
                        Score[x] > 0, DocumentOf[x] \in during[c].always
                 PROVE  LET request == call[c].request
                            entries == {y \in Holds[call[c].index] : Visible(y, request)} IN
                        \/ Cardinality(Better(Showable(entries, request), x)) >= request.topk
                        \/ Cardinality(Better(entries, x)) >= Limit(request.topk)
      BY DEF EvidenceIsBest
    <2> DEFINE request == call[c].request
               entries == {y \in Holds[call[c].index] : Visible(y, request)}
               harmless == call[c].granted \ Suspicious
    <2>1. CallInv(c) /\ call[c].outcome = "SUCCESS"
      BY DEF Inv, HasResult
    <2>2. /\ request.topk \in Nat /\ entries \in SUBSET Chunks
          /\ call[c].found = Top(Limit(request.topk), entries)
          /\ call[c].found \in SUBSET entries /\ call[c].granted \in SUBSET call[c].found
          /\ call[c].safe = Top(request.topk, harmless)
      BY ResultFacts
    <2>3. CASE x \notin call[c].found
      <3>1. x \in entries /\ Limit(request.topk) \in Nat
        BY <2>2, LimitType
      <3> QED BY <2>2, <2>3, <3>1, NotTop
    <2>4. CASE x \in call[c].found
      <3>1. x \in harmless /\ harmless \in SUBSET Chunks
        BY <2>1, <2>2, <2>4 DEF CallInv, SelectionInv, Selected
      <3>2. x \notin call[c].safe
        BY DEF Result, Evidence
      <3>3. Cardinality(Better(harmless, x)) >= request.topk
        BY <2>2, <3>1, <3>2, NotTop
      <3>4. harmless \subseteq Showable(entries, request)
        BY <2>2 DEF Showable
      <3>5. /\ Better(harmless, x) \in SUBSET Better(Showable(entries, request), x)
            /\ Better(Showable(entries, request), x) \in SUBSET Chunks
            /\ Better(harmless, x) \in SUBSET Chunks
        BY <2>2, <3>4 DEF Better, Showable
      <3>6. /\ Cardinality(Better(harmless, x)) \in Nat
            /\ Cardinality(Better(Showable(entries, request), x)) \in Nat
            /\ Cardinality(Better(harmless, x)) <= Cardinality(Better(Showable(entries, request), x))
        BY <3>5, ChunksFinite, FS_Subset
      <3> QED BY <2>2, <3>3, <3>6
    <2> QED BY <2>3, <2>4
  <1> QED BY <1>1, InvHolds, PTL

(* The model never receives what the contract, the guard, the ACL or the
   classification forbids, whatever becomes of the call afterwards. *)
THEOREM ModelInputReleasable == Spec => []ModelSeesReleasable
  <1>1. Inv => ModelSeesReleasable
    <2> SUFFICES ASSUME Inv, NEW c \in Calls, call[c].sent # {}
                 PROVE  Releasable(c, call[c].sent)
      BY DEF ModelSeesReleasable, Releasable
    <2> QED BY DEF Inv, CallInv, SentInv
  <1> QED BY <1>1, InvHolds, PTL

(* The audit record of an answer tells its index and how the candidates were
   narrowed down to its evidence. *)
THEOREM RecordTells == Spec => []RecordTellsAnswer
  <1>1. Inv => RecordTellsAnswer
    <2> SUFFICES ASSUME Inv, NEW c \in Calls, call[c].pc = "answered"
                 PROVE  LET row == audit[c][1] IN
                        /\ row.index = call[c].index
                        /\ row.count = Cardinality(Result(c))
                        /\ row.count <= row.authorized /\ row.authorized <= row.candidates
                        /\ row.candidates <= Limit(call[c].request.topk)
                        /\ row.generated <=> call[c].sent # {}
      BY DEF RecordTellsAnswer
    <2>1. call[c].outcome = "SUCCESS" /\ audit[c] = <<Record(c)>> /\ HasResult(c)
      BY DEF Inv, CallInv, RecordInv, HasResult
    <2>2. audit[c][1] = Record(c)
      BY <2>1
    <2> DEFINE generated == call[c].outcome = "SUCCESS" /\ call[c].sent # {}
    <2>3. /\ Record(c).index = call[c].index
          /\ Record(c).candidates = Cardinality(call[c].found)
          /\ Record(c).authorized = Cardinality(call[c].granted)
          /\ Record(c).count = Cardinality(Result(c))
      BY <2>1 DEF Record, Result
    <2>4. Record(c).generated = generated
      BY DEF Record
    <2>5. generated <=> call[c].sent # {}
      BY <2>1
    <2>6. /\ Result(c) \in SUBSET call[c].granted /\ call[c].granted \in SUBSET call[c].found
          /\ call[c].found \in SUBSET Chunks
          /\ Cardinality(call[c].found) <= Limit(call[c].request.topk)
      BY <2>1, ResultFacts DEF Result, Evidence
    <2>7. /\ Cardinality(Result(c)) <= Cardinality(call[c].granted)
          /\ Cardinality(call[c].granted) <= Cardinality(call[c].found)
      <3>1. call[c].granted \in SUBSET Chunks
        BY <2>6
      <3> QED BY <2>6, <3>1, ChunksFinite, FS_Subset
    <2> HIDE DEF generated
    <2> QED BY <2>2, <2>3, <2>4, <2>5, <2>6, <2>7
  <1> QED BY <1>1, InvHolds, PTL

------------------------------------------------------------------------------
(* The abstract call *)

Recorded(c) == CASE Len(audit[c]) = 0 -> "none"
                 [] Len(audit[c]) = 1 -> audit[c][1].outcome
                 [] OTHER -> "many"

Replied(c) == CASE call[c].pc = "answered" -> "answer"
                [] call[c].pc = "refused" -> "error"
                [] call[c].pc \in {"rejected", "unaudited", "dead"} -> "unanswered"
                [] OTHER -> "none"

Final == {"answered", "refused", "rejected", "unaudited", "dead"}

\* What the abstract call sees of a concrete one.
LEMMA Mapping ==
    ASSUME Inv, NEW c \in Calls
    PROVE  /\ audit[c] = <<>> => Recorded(c) = "none"
           /\ audit[c] = <<Record(c)>> => Recorded(c) = call[c].outcome
           /\ call[c].pc \notin Final => Replied(c) = "none"
           /\ call[c].pc = "answered" => Replied(c) = "answer"
           /\ call[c].pc = "refused" => Replied(c) = "error"
           /\ call[c].pc \in {"rejected", "unaudited", "dead"} => Replied(c) = "unanswered"
  <1>1. audit[c] = <<Record(c)>> => Len(audit[c]) = 1 /\ audit[c][1].outcome = call[c].outcome
    BY DEF Record
  <1>2. audit[c] = <<>> => Len(audit[c]) = 0
    OBVIOUS
  <1> QED BY <1>1, <1>2 DEF Recorded, Replied, Final

\* How one step of a call looks from outside.
LEMMA Moves ==
    ASSUME Inv, NEW c \in Calls, Retrieve(c)
    PROVE  /\ \A d \in Calls : d # c => call'[d] = call[d] /\ audit'[d] = audit[d]
           /\ call[c].pc \notin Final
           /\ \/ audit' = audit /\ call'[c].pc \notin Final
              \/ audit' = audit /\ call'[c].pc \in {"rejected", "unaudited", "dead"}
              \/ /\ audit[c] = <<>> /\ audit'[c] = <<Record(c)>> /\ call'[c].pc \notin Final
                 /\ call[c].outcome \in {"SUCCESS", "DENIED", "FAILED"}
              \/ /\ audit' = audit /\ audit[c] = <<Record(c)>>
                 /\ call[c].outcome \in {"SUCCESS", "DENIED", "FAILED"}
                 /\ call'[c].pc = IF call[c].outcome = "SUCCESS" THEN "answered" ELSE "refused"
  <1>1. TypeOK /\ CallInv(c) /\ call[c] \in Call
    BY DEF Inv, TypeOK
  <1> USE <1>1 DEF Final
  <1>2. ASSUME NEW request \in Requests, Receive(c, request)
        PROVE  /\ \A d \in Calls : d # c => call'[d] = call[d]
               /\ audit' = audit /\ call[c].pc = "new"
               /\ call'[c].pc \in {"rejected", "base", "audit"}
    <2> DEFINE pc == IF ~Admitted(request) THEN "rejected"
                     ELSE IF Valid(request) THEN "base" ELSE "audit"
    <2>1. call'[c].pc = pc
      BY <1>2 DEF Receive, TypeOK, Call
    <2>2. pc \in {"rejected", "base", "audit"}
      OBVIOUS
    <2> HIDE DEF pc
    <2> QED BY <1>2, <2>1, <2>2 DEF Receive, TypeOK
  <1>3. CASE ReadBase(c) \/ ReadIndex(c)
    BY <1>3 DEF ReadBase, ReadIndex, Raise, TypeOK, Call
  <1>4. CASE Search(c) \/ Generate(c)
    BY <1>4 DEF Search, Generate, TypeOK, Call
  <1>5. CASE Authorize(c)
    <2> DEFINE safe == Select(Authorized(call[c].found, call[c].request), call[c].request.topk)
               pc == IF /\ Evidence(safe) # {} /\ call[c].request.generate
                        /\ call[c].contract.generate /\ MayLeave(safe)
                     THEN "generate" ELSE "audit"
    <2>1. call'[c].pc = pc
      BY <1>5 DEF Authorize, TypeOK, Call
    <2>2. pc \in {"generate", "audit"}
      OBVIOUS
    <2> HIDE DEF pc
    <2> QED BY <1>5, <2>1, <2>2 DEF Authorize, TypeOK
  <1>6. CASE Fail(c)
    BY <1>6 DEF Fail, TypeOK, Call
  <1>7. CASE RecordAudit(c)
    <2>1. audit[c] = <<>> /\ call[c].outcome # "NONE"
      BY <1>7 DEF CallInv, RecordInv, RecordAudit
    <2> QED BY <1>7, <2>1, RecordType DEF RecordAudit, TypeOK, Call
  <1>8. CASE AuditUnavailable(c) \/ Crash(c)
    BY <1>8 DEF AuditUnavailable, Crash, TypeOK, Call
  <1>9. CASE Reply(c)
    <2>1. audit[c] = <<Record(c)>> /\ call[c].outcome # "NONE"
      BY <1>9 DEF CallInv, RecordInv, Reply
    <2> QED BY <1>9, <2>1 DEF Reply, TypeOK, Call
  <1> QED BY <1>2, <1>3, <1>4, <1>5, <1>6, <1>7, <1>8, <1>9 DEF Retrieve

\* Each step of the API is one step of the promise, or none that it sees.
LEMMA PromiseStep ==
    ASSUME Inv, Inv', [Next]_vars
    PROVE  [Promise!CallNext]_<<[c \in Calls |-> Recorded(c)], [c \in Calls |-> Replied(c)]>>
  <1> DEFINE record == [c \in Calls |-> Recorded(c)]
             reply == [c \in Calls |-> Replied(c)]
  <1>1. CASE UNCHANGED <<call, audit>>
    BY <1>1 DEF Recorded, Replied
  <1>2. ASSUME NEW c \in Calls, Retrieve(c) PROVE [Promise!CallNext]_<<record, reply>>
    <2>1. \A d \in Calls : d # c => Recorded(d)' = Recorded(d) /\ Replied(d)' = Replied(d)
      BY <1>2, Moves DEF Recorded, Replied
    <2>2. Replied(c) = "none"
      BY <1>2, Moves, Mapping
    <2>3. CASE audit' = audit /\ call'[c].pc \notin Final
      <3>1. Recorded(c)' = Recorded(c)
        BY <2>3 DEF Recorded
      <3>2. Replied(c)' = "none"
        BY <2>3 DEF Replied, Final
      <3>3. record' = record /\ reply' = reply
        BY <2>1, <2>2, <3>1, <3>2
      <3> QED BY <3>3
    <2>4. CASE audit' = audit /\ call'[c].pc \in {"rejected", "unaudited", "dead"}
      <3>1. Recorded(c)' = Recorded(c) /\ Replied(c)' = "unanswered"
        BY <2>4 DEF Recorded, Replied
      <3>2. record' = record /\ reply' = [reply EXCEPT ![c] = "unanswered"]
        BY <2>1, <3>1
      <3>3. Promise!GiveUp(c)
        BY <2>2, <3>2 DEF Promise!GiveUp, Recorded, Replied
      <3> QED BY <3>3 DEF Promise!CallNext
    <2>5. ASSUME NEW outcome \in Promise!Outcome, call[c].outcome = outcome,
                 audit[c] = <<>>, audit'[c] = <<Record(c)>>, call'[c].pc \notin Final
          PROVE  Promise!CallNext
      <3>1. Recorded(c) = "none"
        BY <2>5, Mapping
      <3>2. Recorded(c)' = outcome
        BY <2>5 DEF Recorded, Record
      <3>3. Replied(c)' = "none"
        BY <2>5 DEF Replied, Final
      <3>4. record' = [record EXCEPT ![c] = outcome] /\ reply' = reply
        BY <2>1, <2>2, <3>2, <3>3
      <3>5. Promise!Settle(c, outcome)
        BY <2>2, <3>1, <3>4 DEF Promise!Settle, Recorded, Replied
      <3> QED BY <3>5 DEF Promise!CallNext
    <2>6. CASE /\ audit' = audit /\ audit[c] = <<Record(c)>>
               /\ call[c].outcome \in Promise!Outcome
               /\ call'[c].pc = IF call[c].outcome = "SUCCESS" THEN "answered" ELSE "refused"
      <3>1. Recorded(c) = call[c].outcome
        BY <2>6, Mapping
      <3>2. Recorded(c)' = Recorded(c)
        BY <2>6 DEF Recorded
      <3>3. Replied(c)' = Promise!ReplyTo(call[c].outcome)
        BY <2>6 DEF Replied, Promise!ReplyTo
      <3>4. record' = record /\ reply' = [reply EXCEPT ![c] = Promise!ReplyTo(record[c])]
        BY <2>1, <3>1, <3>2, <3>3
      <3>5. call[c].outcome # "none"
        BY <2>6 DEF Promise!Outcome
      <3>6. Promise!Reply(c)
        BY <2>2, <3>1, <3>4, <3>5 DEF Promise!Reply, Recorded, Replied
      <3> QED BY <3>6 DEF Promise!CallNext
    <2> QED BY <1>2, <2>3, <2>4, <2>5, <2>6, Moves DEF Promise!Outcome
  <1> QED BY <1>1, <1>2 DEF Next, vars, PublishIndex, SaveDocument, CheckCode, InsertBase

(* Every call of retrieve keeps the promise of an audited call: one record,
   durable before the reply, that says what the reply was. *)
THEOREM PromiseKept == Spec => KeepsPromise
  <1>1. Init => Promise!CallInit
    <2> SUFFICES ASSUME Init PROVE Promise!CallInit
      OBVIOUS
    <2>1. \A c \in Calls : Recorded(c) = "none" /\ Replied(c) = "none"
      BY DEF Init, Recorded, Replied, NewCall
    <2> QED BY <2>1 DEF Promise!CallInit, Recorded, Replied
  <1>2. Inv /\ Inv' /\ [Next]_vars
          => [Promise!CallNext]_<<[c \in Calls |-> Recorded(c)], [c \in Calls |-> Replied(c)]>>
    BY PromiseStep
  <1> QED BY <1>1, <1>2, InvHolds, PTL DEF Spec, KeepsPromise, Promise!CallSpec, Recorded, Replied

(* The creators that were told the code is theirs, and the base. *)
OwnerInv ==
    /\ \A k \in Creators : creating[k] = "created" => base # None
    /\ \A j, k \in Creators : creating[j] = "created" /\ creating[k] = "created" => j = k

\* The unique constraint decides between two creators that both found the code free.
LEMMA OwnerStep ==
    ASSUME TypeOK, OwnerInv, [Next]_vars
    PROVE  OwnerInv' /\ (base # None => base' = base)
  <1>1. ASSUME NEW k \in Creators, CheckCode(k) PROVE OwnerInv' /\ base' = base
    BY <1>1 DEF CheckCode, OwnerInv, TypeOK, store
  <1>2. ASSUME NEW k \in Creators, NEW contract \in Contracts, InsertBase(k, contract)
        PROVE  OwnerInv' /\ (base # None => base' = base)
    <2>1. contract # None
      BY NoneAssumption
    <2> QED BY <1>2, <2>1 DEF InsertBase, OwnerInv, TypeOK
  <1>3. CASE UNCHANGED <<base, creating>>
    BY <1>3 DEF OwnerInv
  <1>4. (\E c \in Calls : Retrieve(c)) => UNCHANGED <<base, creating>>
    BY DEF Retrieve, Receive, ReadBase, ReadIndex, Search, Authorize, Generate, Fail,
           RecordAudit, AuditUnavailable, Reply, Crash, store
  <1> QED BY <1>1, <1>2, <1>3, <1>4 DEF Next, vars, PublishIndex, SaveDocument

(* One creator at most owns a code, and a contract in force is never replaced. *)
THEOREM ContractIsUnique == Spec => OneContract
  <1>1. Init => OwnerInv
    BY DEF Init, OwnerInv
  <1>2. TypeOK /\ OwnerInv /\ [Next]_vars => OwnerInv' /\ (base # None => base' = base)
    BY OwnerStep
  <1>3. OwnerInv' => \A j, k \in Creators :
                       creating'[j] = "created" /\ creating'[k] = "created" => j = k
    BY DEF OwnerInv
  <1> QED BY <1>1, <1>2, <1>3, TypeCorrect, PTL DEF Spec, OneContract
=============================================================================
