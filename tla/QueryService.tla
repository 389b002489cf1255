---------------------------- MODULE QueryService ----------------------------
(***************************************************************************)
(* The query API over one dataset: QueryApplicationService.execute with    *)
(* the SQL repositories.  A call validates the command, asks the policy    *)
(* for a decision, reads the active version, and writes its audit record   *)
(* before it answers: four transactions, while workers publish versions    *)
(* (DatasetCatalog, which Ingestion implements), grants come and go, and   *)
(* the call may fail or die.                                               *)
(*                                                                         *)
(* A version's content is a set of rows.  The command's filters are the    *)
(* set of rows they keep; the region filter of a grant keeps Region.       *)
(***************************************************************************)
EXTENDS DatasetCatalog, FiniteSets

CONSTANTS Calls,         \* calls of execute, each made once
          Dataset,       \* the dataset of the API
          Rows,          \* rows a version may hold
          Region,        \* those of the subject's region, if it has one
          Grants,        \* grants that may exist for the subject and the API
          Commands,      \* commands a caller may send, with its region attribute set or not
          DefaultLimit,  \* default_limit of the published contract
          MaximumLimit,  \* maximum_limit of the published contract
          NoLimit        \* None as a grant's max_rows

ASSUME DatasetAssumption == Dataset \in Datasets
ASSUME RowsAssumption ==
    IsFiniteSet(Rows) /\ Region \subseteq Rows /\ Entries \subseteq SUBSET Rows
ASSUME GrantsAssumption ==
    Grants \subseteq [purpose : BOOLEAN, region : BOOLEAN, max : Nat \union {NoLimit}]
ASSUME CommandsAssumption ==
    /\ Commands # {}
    /\ Commands \subseteq [valid : BOOLEAN, limit : Int, keeps : SUBSET Rows,
                           located : BOOLEAN]
ASSUME LimitsAssumption ==
    DefaultLimit \in Nat \ {0} /\ MaximumLimit \in Nat \ {0} /\ NoLimit \notin Nat

VARIABLES label,   \* dataset_version in the API's row, set when it is added (1 by default)
          grants,  \* the grants that are ACTIVE and valid now
          call,    \* the state of each call
          audit    \* the audit_outbox rows of each call, oldest first

vars == <<catalogVars, label, grants, call, audit>>

------------------------------------------------------------------------------
(* PolicyEvaluator.decide *)

Matching(G) == {g \in G : g.purpose}

\* Mutant: the most generous limit wins.
LoosestLimit(G) ==
    LET limits == {g.max : g \in {h \in G : h.max # NoLimit}} IN
    IF limits = {} THEN NoLimit ELSE CHOOSE n \in limits : \A m \in limits : m <= n

StrictestLimit(G) ==
    LET limits == {g.max : g \in {h \in G : h.max # NoLimit}} IN
    IF limits = {} THEN NoLimit ELSE CHOOSE n \in limits : \A m \in limits : n <= m

Decide(G, located) ==
    LET matching == Matching(G)
        region == \E g \in matching : g.region
        limit == StrictestLimit(matching) IN
    [effect |-> IF matching = {} \/ (region /\ ~located) THEN "DENY"
                ELSE IF region \/ limit # NoLimit THEN "ALLOW_WITH_OBLIGATIONS"
                ELSE "ALLOW",
     region |-> region,
     max_rows |-> limit]

------------------------------------------------------------------------------
(* execute *)

NewCall == [pc |-> "new", command |-> CHOOSE c \in Commands : TRUE, granted |-> {},
            label |-> 0, limit |-> 0, since |-> 0, version |-> 0, rows |-> {}, truncated |-> FALSE,
            outcome |-> "NONE"]

Call == [pc : {"new", "decide", "query", "audit", "reply", "answered", "refused", "unaudited",
               "dead"},
         command : Commands, granted : SUBSET Grants, label : Nat, limit : Nat, since : Nat,
         version : Nat, rows : SUBSET Rows, truncated : BOOLEAN,
         outcome : {"NONE", "SUCCESS", "DENIED", "FAILED"}]

AuditRow == [outcome : {"SUCCESS", "DENIED", "FAILED"}, count : Nat, version : Nat]

TypeOK ==
    /\ label \in Nat
    /\ grants \subseteq Grants
    /\ call \in [Calls -> Call]
    /\ audit \in [Calls -> Seq(AuditRow)]

Init ==
    /\ CatalogInit
    /\ label = 1
    /\ grants = {}
    /\ call = [c \in Calls |-> NewCall]
    /\ audit = [c \in Calls |-> <<>>]

Raise(c, outcome) == call' = [call EXCEPT ![c].pc = "audit", ![c].outcome = outcome]

\* get_published and the checks of the command against the contract.
Validate(c, command) ==
    /\ call[c].pc = "new"
    /\ call' = [call EXCEPT ![c].command = command, ![c].since = active[Dataset],
                            ![c].label = label,
                            ![c].pc = IF command.valid THEN "decide" ELSE "audit",
                            ![c].outcome = IF command.valid THEN @ ELSE "DENIED"]
    /\ UNCHANGED <<catalogVars, label, grants, audit>>

\* "command.limit or default_limit": an absent limit and 0 are the same.
Requested(command) == IF command.limit = 0 THEN DefaultLimit ELSE command.limit

Smaller(m, n) == IF m <= n THEN m ELSE n

Effective(command, decision) ==
    LET contract == Smaller(Requested(command), MaximumLimit) IN
    IF decision.max_rows = NoLimit THEN contract ELSE Smaller(contract, decision.max_rows)

\* Mutant: the limit is not checked.
AuthorizeUnchecked(c) ==
    LET decision == Decide(grants, call[c].command.located) IN
    /\ call[c].pc = "decide"
    /\ IF decision.effect = "DENY"
       THEN Raise(c, "DENIED")
       ELSE call' = [call EXCEPT ![c].pc = "query", ![c].granted = grants,
                                 ![c].limit = Effective(call[c].command, decision)]
    /\ UNCHANGED <<catalogVars, label, grants, audit>>

\* find_grants and the decision, then the effective limit.
Authorize(c) ==
    LET command == call[c].command
        decision == Decide(grants, command.located) IN
    /\ call[c].pc = "decide"
    /\ IF decision.effect = "DENY" \/ Requested(command) < 1
       THEN Raise(c, "DENIED")
       ELSE call' = [call EXCEPT ![c].pc = "query", ![c].granted = grants,
                                 ![c].limit = Effective(command, decision)]
    /\ UNCHANGED <<catalogVars, label, grants, audit>>

Content(v) == IF v \in DOMAIN log[Dataset] THEN log[Dataset][v] ELSE {}

\* Mutant: the version is the one the API's metadata names.
ServedLabel(c) == call[c].label

Served(c) == active[Dataset]

\* Mutant: the policy's row filters are not applied.
CallerFilters(c) == call[c].command.keeps

\* The caller's filters and the immutable ones of the policy.
Filters(c) ==
    LET command == call[c].command IN
    IF Decide(call[c].granted, command.located).region
    THEN command.keeps \intersect Region
    ELSE command.keeps

\* Mutant: the query fetches no row beyond the limit.
FetchLimit(limit) == limit

Fetch(limit) == limit + 1

\* The order and the limit select the rows that are fetched, and of these the
\* ones within the limit.
Query(c) ==
    LET matching == Content(Served(c)) \intersect Filters(c)
        limit == call[c].limit IN
    /\ call[c].pc = "query"
    /\ \E fetched \in SUBSET matching : \E rows \in SUBSET fetched :
         /\ Cardinality(fetched) = Smaller(Fetch(limit), Cardinality(matching))
         /\ Cardinality(rows) = Smaller(limit, Cardinality(fetched))
         /\ call' = [call EXCEPT ![c].pc = "audit", ![c].outcome = "SUCCESS",
                                 ![c].version = Served(c), ![c].rows = rows,
                                 ![c].truncated = Cardinality(fetched) > limit]
    /\ UNCHANGED <<catalogVars, label, grants, audit>>

\* An error in the repository, the policy or the query.
Fail(c) ==
    /\ call[c].pc \in {"new", "decide", "query"}
    /\ Raise(c, "FAILED")
    /\ UNCHANGED <<catalogVars, label, grants, audit>>

Record(c) == [outcome |-> call[c].outcome, count |-> Cardinality(call[c].rows),
              version |-> IF call[c].outcome = "SUCCESS" THEN call[c].label ELSE 0]

\* Mutant: the answer goes out although its audit record was not written.
AuditIgnored(c) ==
    /\ call[c].pc = "audit"
    /\ call' = [call EXCEPT ![c].pc = "reply"]
    /\ UNCHANGED <<catalogVars, label, grants, audit>>

\* The audit row commits.
RecordAudit(c) ==
    /\ call[c].pc = "audit"
    /\ audit' = [audit EXCEPT ![c] = Append(@, Record(c))]
    /\ call' = [call EXCEPT ![c].pc = "reply"]
    /\ UNCHANGED <<catalogVars, label, grants>>

\* Mutant: the error of the audit is recorded like an error of the query.
AuditErrorRecorded(c) ==
    /\ call[c].pc \in {"audit", "reply"}
    /\ Raise(c, "FAILED")
    /\ UNCHANGED <<catalogVars, label, grants, audit>>

\* The audit row cannot be written, or its commit is not acknowledged:
\* AuditUnavailableError and no rows.
AuditUnavailable(c) ==
    /\ call[c].pc \in {"audit", "reply"}
    /\ call' = [call EXCEPT ![c].pc = "unaudited"]
    /\ UNCHANGED <<catalogVars, label, grants, audit>>

\* The rows or the error are returned.
Reply(c) ==
    /\ call[c].pc = "reply"
    /\ call' = [call EXCEPT ![c].pc = IF call[c].outcome = "SUCCESS" THEN "answered" ELSE "refused"]
    /\ UNCHANGED <<catalogVars, label, grants, audit>>

Crash(c) ==
    /\ call[c].pc \in {"decide", "query", "audit", "reply"}
    /\ call' = [call EXCEPT ![c].pc = "dead"]
    /\ UNCHANGED <<catalogVars, label, grants, audit>>

Execute(c) ==
    \/ \E command \in Commands : Validate(c, command)
    \/ Authorize(c) \/ Query(c) \/ Fail(c)
    \/ RecordAudit(c) \/ AuditUnavailable(c) \/ Reply(c) \/ Crash(c)

------------------------------------------------------------------------------
(* The environment *)

\* A worker's callback commits a version of the dataset.
PublishVersion(e) ==
    /\ Publish(Dataset, e)
    /\ UNCHANGED <<label, grants, call, audit>>

\* An operator adds a new version of the API (add_data_api), with the dataset
\* version that is active then.
RegisterApi ==
    /\ active[Dataset] > 0
    /\ label' = active[Dataset]
    /\ UNCHANGED <<catalogVars, grants, call, audit>>

\* A grant is given, revoked, or runs out.
ChangeGrants ==
    /\ \E g \in Grants : grants' = IF g \in grants THEN grants \ {g} ELSE grants \union {g}
    /\ UNCHANGED <<catalogVars, label, call, audit>>

Next ==
    \/ \E c \in Calls : Execute(c)
    \/ \E e \in Entries : PublishVersion(e)
    \/ RegisterApi
    \/ ChangeGrants

Spec == Init /\ [][Next]_vars

------------------------------------------------------------------------------
(* Properties *)

HasResult(c) == call[c].outcome = "SUCCESS" /\ call[c].pc \in {"audit", "reply", "answered"}

\* A reply has its record, and no call has two, also when the process dies after
\* the commit or the commit is not acknowledged: then the one record tells what
\* was about to be returned.  A call that has no outcome yet has no record.
OneRecordPerAnswer ==
    \A c \in Calls :
        /\ call[c].pc \in {"new", "decide", "query", "audit"} => audit[c] = <<>>
        /\ call[c].pc = "answered" => audit[c] # <<>> /\ call[c].outcome = "SUCCESS"
        /\ call[c].pc = "refused" => audit[c] # <<>> /\ call[c].outcome # "SUCCESS"
        /\ audit[c] # <<>> =>
              /\ Len(audit[c]) = 1
              /\ audit[c][1].outcome = call[c].outcome
              /\ audit[c][1].count = Cardinality(call[c].rows)

\* The rows of an answer respect every grant that matched when the call was
\* decided, the tightest limit and each region restriction, and there was one.
RowsArePermitted ==
    \A c \in Calls : HasResult(c) =>
        /\ Matching(call[c].granted) # {}
        /\ \A g \in Matching(call[c].granted) :
              /\ g.max # NoLimit => Cardinality(call[c].rows) <= g.max
              /\ g.region => call[c].command.located /\ call[c].rows \subseteq Region

\* All rows come from one version, which is not older than the one that was
\* active when the call began, whatever is published meanwhile.
ServesOneVersion ==
    \A c \in Calls : HasResult(c) =>
        /\ call[c].version >= call[c].since
        /\ call[c].rows \subseteq Content(call[c].version)

\* truncated tells whether the version has more rows for this caller than the
\* answer holds, also when the limit is met exactly.
TruncatedIsExact ==
    \A c \in Calls : HasResult(c) =>
        LET matching == Content(call[c].version) \intersect Filters(c) IN
        call[c].truncated <=> Cardinality(call[c].rows) < Cardinality(matching)

\* One more matching grant never permits more: a denial stays, the limit only
\* shrinks and a region restriction remains.
GrantsOnlyNarrow ==
    \A G \in SUBSET grants, g \in Matching(grants), located \in BOOLEAN :
        LET before == Decide(G, located)
            after == Decide(G \union {g}, located) IN
        Matching(G) # {} =>
            /\ before.effect = "DENY" => after.effect = "DENY"
            /\ before.region => after.region
            /\ before.max_rows # NoLimit => /\ after.max_rows # NoLimit
                                            /\ after.max_rows <= before.max_rows

\* The audit record of an answer that has rows names the version they came from,
\* so that its trace_id leads to the data that was given out.
AuditNamesVersion ==
    \A c \in Calls :
        call[c].pc = "answered" /\ call[c].rows # {} => audit[c][1].version = call[c].version

\* Each call keeps the promise of a governed API, as retrieve does: one record,
\* durable before the reply, that says what the reply was.
Promise == INSTANCE AuditedCall WITH
    record <- [c \in Calls |-> CASE Len(audit[c]) = 0 -> "none"
                                 [] Len(audit[c]) = 1 -> audit[c][1].outcome
                                 [] OTHER -> "many"],
    reply <- [c \in Calls |-> CASE call[c].pc = "answered" -> "answer"
                                [] call[c].pc = "refused" -> "error"
                                [] call[c].pc \in {"unaudited", "dead"} -> "unanswered"
                                [] OTHER -> "none"]

KeepsPromise == Promise!CallSpec
=============================================================================
