------------------------- MODULE QueryServiceProofs -------------------------
(***************************************************************************)
(* Proofs about QueryService, for any calls, rows, grants and commands.    *)
(* Inv follows a call: until it has an outcome it has no record, what it   *)
(* decided bounds its limit, and its result is a selection from a version  *)
(* that is in the log for good.                                            *)
(***************************************************************************)
EXTENDS QueryService, FiniteSetTheorems, WellFoundedInduction, TLAPS

\* The catalog's active version is the last of its log.
LogOK ==
    /\ log \in [Datasets -> Seq(Entries)]
    /\ active \in [Datasets -> Nat]
    /\ active[Dataset] = Len(log[Dataset])

RecordInv(c) ==
    /\ call[c].pc \in {"new", "decide", "query"} => call[c].outcome = "NONE"
    /\ call[c].pc \in {"audit", "reply"} => call[c].outcome # "NONE"
    /\ call[c].pc = "answered" => call[c].outcome = "SUCCESS"
    /\ call[c].pc = "refused" => call[c].outcome # "SUCCESS"
    /\ call[c].pc \in {"new", "decide", "query", "audit"} => audit[c] = <<>>
    /\ call[c].pc \in {"reply", "answered", "refused"} => audit[c] # <<>>
    /\ audit[c] # <<>> =>
          /\ Len(audit[c]) = 1
          /\ audit[c][1].outcome = call[c].outcome
          /\ audit[c][1].count = Cardinality(call[c].rows)

\* The grants allowed the call and bound its limit.
Permitted(c) ==
    /\ Matching(call[c].granted) # {}
    /\ \A g \in Matching(call[c].granted) :
          /\ g.max # NoLimit => call[c].limit <= g.max
          /\ g.region => call[c].command.located

Selection(c) == Content(call[c].version) \intersect Filters(c)

ProgressInv(c) ==
    /\ call[c].pc \in {"decide", "query"} => call[c].since <= active[Dataset]
    /\ call[c].pc = "query" => Permitted(c)

ResultInv(c) ==
    HasResult(c) =>
        /\ Permitted(c)
        /\ call[c].rows \subseteq Selection(c)
        /\ Cardinality(call[c].rows) <= call[c].limit
        /\ call[c].version \in call[c].since..active[Dataset]
        /\ call[c].truncated <=> Cardinality(call[c].rows) < Cardinality(Selection(c))

CallInv(c) == RecordInv(c) /\ ProgressInv(c) /\ ResultInv(c)

Inv == TypeOK /\ LogOK /\ \A c \in Calls : CallInv(c)

------------------------------------------------------------------------------
(* The policy *)

\* A set of numbers that is not empty has a least one.
LEMMA LeastNat ==
    ASSUME NEW S \in SUBSET Nat, S # {}
    PROVE  \E n \in S : \A m \in S : n <= m
  <1> DEFINE R == OpToRel(<, Nat)
  <1>1. IsWellFoundedOn(R, Nat)
    BY NatLessThanWellFounded
  <1>2. \A x, y \in Nat : x < y => <<x, y>> \in R
    BY DEF OpToRel
  <1> HIDE DEF R
  <1>3. PICK n \in S : \A m \in S : <<m, n>> \notin R
    BY <1>1, WFMin
  <1>4. \A m \in S : ~(m < n)
    BY <1>2, <1>3
  <1>5. QED BY <1>4

\* The limit of a set of grants is one of theirs, and none is smaller.
LEMMA LimitIsStrictest ==
    ASSUME NEW G \in SUBSET Grants
    PROVE  /\ StrictestLimit(G) \in Nat \union {NoLimit}
           /\ StrictestLimit(G) # NoLimit => \E g \in G : g.max = StrictestLimit(G)
           /\ \A g \in G : g.max # NoLimit => /\ StrictestLimit(G) # NoLimit
                                              /\ StrictestLimit(G) <= g.max
  <1> DEFINE limits == {g.max : g \in {h \in G : h.max # NoLimit}}
  <1>1. limits \in SUBSET Nat
    BY GrantsAssumption
  <1>2. CASE limits = {}
    <2>1. StrictestLimit(G) = NoLimit
      BY <1>2 DEF StrictestLimit
    <2>2. \A g \in G : g.max = NoLimit
      BY <1>2
    <2>3. QED BY <2>1, <2>2
  <1>3. CASE limits # {}
    <2> DEFINE least == CHOOSE n \in limits : \A m \in limits : n <= m
    <2>1. StrictestLimit(G) = least
      BY <1>3 DEF StrictestLimit
    <2>2. least \in limits /\ \A m \in limits : least <= m
      <3> HIDE DEF limits
      <3>1. \E n \in limits : \A m \in limits : n <= m
        BY <1>1, <1>3, LeastNat
      <3>2. QED BY <3>1
    <2> HIDE DEF least
    <2>3. least # NoLimit /\ least \in Nat
      BY <1>1, <2>2, LimitsAssumption
    <2>4. \E g \in G : g.max = least
      BY <2>2
    <2>5. \A g \in G : g.max # NoLimit => least <= g.max
      BY <2>2
    <2>6. QED BY <2>1, <2>3, <2>4, <2>5
  <1>4. QED BY <1>2, <1>3

\* What decide returns: its limit and region are those of the strictest
\* matching grants, and it allows only with a matching grant.
LEMMA DecideIsStrict ==
    ASSUME NEW G \in SUBSET Grants, NEW located \in BOOLEAN
    PROVE  LET d == Decide(G, located) IN
           /\ d.max_rows = StrictestLimit(Matching(G))
           /\ d.region <=> \E g \in Matching(G) : g.region
           /\ d.effect = "DENY" <=> Matching(G) = {} \/ (d.region /\ ~located)
  BY DEF Decide

\* A further matching grant never permits more.
LEMMA OneMoreGrantNarrows ==
    ASSUME NEW G \in SUBSET Grants, NEW g \in Grants, g.purpose, NEW located \in BOOLEAN,
           Matching(G) # {}
    PROVE  LET before == Decide(G, located)
               after == Decide(G \union {g}, located) IN
           /\ before.effect = "DENY" => after.effect = "DENY"
           /\ before.region => after.region
           /\ before.max_rows # NoLimit => /\ after.max_rows # NoLimit
                                           /\ after.max_rows <= before.max_rows
  <1> DEFINE H == G \union {g}
  <1>1. H \in SUBSET Grants /\ Matching(G) \subseteq Matching(H) /\ g \in Matching(H)
    BY DEF Matching
  <1>2. Matching(G) \in SUBSET Grants /\ Matching(H) \in SUBSET Grants
    BY <1>1 DEF Matching
  <1> HIDE DEF H
  <1>3. StrictestLimit(Matching(G)) # NoLimit =>
          /\ StrictestLimit(Matching(H)) # NoLimit
          /\ StrictestLimit(Matching(H)) <= StrictestLimit(Matching(G))
    BY <1>1, <1>2, LimitIsStrictest
  <1>4. QED BY <1>1, <1>3, DecideIsStrict DEF H

\* The effective limit is a number within the grants' limit.
LEMMA EffectiveIsBounded ==
    ASSUME NEW command \in Commands, Requested(command) >= 1, NEW G \in SUBSET Grants,
           NEW located \in BOOLEAN
    PROVE  LET limit == Effective(command, Decide(G, located)) IN
           /\ limit \in Nat
           /\ \A g \in Matching(G) : g.max # NoLimit => limit <= g.max
  <1>1. Requested(command) \in Nat
    BY CommandsAssumption, LimitsAssumption DEF Requested
  <1>2. Matching(G) \in SUBSET Grants
    BY DEF Matching
  <1>3. Decide(G, located).max_rows = StrictestLimit(Matching(G))
    BY DecideIsStrict
  <1> DEFINE most == StrictestLimit(Matching(G))
  <1>4. /\ most \in Nat \union {NoLimit}
        /\ \A g \in Matching(G) : g.max # NoLimit => most # NoLimit /\ most <= g.max
    BY <1>2, LimitIsStrictest
  <1>5. \A g \in Matching(G) : g.max \in Nat \union {NoLimit}
    BY <1>2, GrantsAssumption
  <1> HIDE DEF most
  <1>6. QED
    BY <1>1, <1>3, <1>4, <1>5, LimitsAssumption DEF Effective, Smaller, most

------------------------------------------------------------------------------
(* Steps *)

\* Any set of rows is finite and its size a number.
LEMMA RowsAreFinite ==
    ASSUME NEW S \in SUBSET Rows
    PROVE  IsFiniteSet(S) /\ Cardinality(S) \in Nat
  BY RowsAssumption, FS_Subset, FS_CardinalityType

\* What a version holds are rows.
LEMMA ContentIsRows ==
    ASSUME LogOK, NEW v
    PROVE  Content(v) \in SUBSET Rows
  BY DatasetAssumption, RowsAssumption DEF LogOK, Content

\* Nothing has happened initially.
LEMMA InitInv == Init => Inv
  <1> SUFFICES ASSUME Init PROVE Inv
    OBVIOUS
  <1>1. NewCall \in Call
    BY CommandsAssumption DEF NewCall, Call
  <1>2. TypeOK
    BY <1>1 DEF Init, TypeOK
  <1>3. LogOK
    BY DatasetAssumption DEF Init, CatalogInit, LogOK
  <1>4. ASSUME NEW c \in Calls PROVE CallInv(c)
    BY DEF Init, NewCall, CallInv, RecordInv, ProgressInv, ResultInv, HasResult
  <1>5. QED BY <1>2, <1>3, <1>4 DEF Inv

\* A call that does not move keeps its invariant while the log stands still.
LEMMA OthersKeep ==
    ASSUME NEW c \in Calls, CallInv(c), call'[c] = call[c], audit'[c] = audit[c],
           UNCHANGED catalogVars
    PROVE  CallInv(c)'
  BY DEF CallInv, RecordInv, ProgressInv, ResultInv, HasResult, Permitted, Selection, Filters,
         Content, catalogVars

\* One call moved, and the log stands still.
LEMMA OneCallMoves ==
    ASSUME Inv, NEW c \in Calls, NEW k \in Call, NEW s \in Seq(AuditRow),
           call' = [call EXCEPT ![c] = k], audit' = [audit EXCEPT ![c] = s],
           label' = label, grants' = grants, UNCHANGED catalogVars, CallInv(c)'
    PROVE  Inv'
  <1>1. TypeOK'
    BY DEF Inv, TypeOK
  <1>2. LogOK'
    BY DEF Inv, LogOK, catalogVars
  <1>3. ASSUME NEW d \in Calls PROVE CallInv(d)'
    <2>1. CASE d = c
      BY <2>1
    <2>2. CASE d # c
      <3>1. call'[d] = call[d] /\ audit'[d] = audit[d]
        BY <2>2 DEF Inv, TypeOK
      <3>2. QED BY <3>1, OthersKeep DEF Inv
    <2>3. QED BY <2>1, <2>2
  <1>4. QED BY <1>1, <1>2, <1>3 DEF Inv

\* A refusal or an error before the audit record.
LEMMA RaiseInv ==
    ASSUME Inv, NEW c \in Calls, NEW o \in {"DENIED", "FAILED"},
           call[c].pc \in {"new", "decide", "query"}, Raise(c, o),
           UNCHANGED <<catalogVars, label, grants, audit>>
    PROVE  Inv'
  <1> DEFINE k == [call[c] EXCEPT !.pc = "audit", !.outcome = o]
  <1>1. k \in Call
    BY DEF Inv, TypeOK, Call
  <1>2. call' = [call EXCEPT ![c] = k]
    BY DEF Raise
  <1>3. audit[c] \in Seq(AuditRow) /\ audit' = [audit EXCEPT ![c] = audit[c]]
    BY DEF Inv, TypeOK
  <1>4. call'[c].pc = "audit" /\ call'[c].outcome = o /\ audit'[c] = <<>>
    BY <1>2 DEF Inv, TypeOK, Call, CallInv, RecordInv
  <1>5. CallInv(c)'
    BY <1>4 DEF CallInv, RecordInv, ProgressInv, ResultInv, HasResult
  <1> HIDE DEF k
  <1>6. QED BY <1>1, <1>2, <1>3, <1>5, OneCallMoves

\* A valid command goes on to the decision, an invalid one to its record.
LEMMA ValidateInv ==
    ASSUME Inv, NEW c \in Calls, NEW command \in Commands, Validate(c, command)
    PROVE  Inv'
  <1> DEFINE k == [call[c] EXCEPT !.command = command, !.since = active[Dataset], !.label = label,
                                  !.pc = IF command.valid THEN "decide" ELSE "audit",
                                  !.outcome = IF command.valid THEN call[c].outcome ELSE "DENIED"]
  <1>1. call[c] \in Call /\ active[Dataset] \in Nat /\ label \in Nat /\ call[c].outcome = "NONE"
        /\ audit[c] = <<>> /\ call[c].pc = "new"
    BY DatasetAssumption DEF Inv, TypeOK, LogOK, CallInv, RecordInv, Validate
  <1>2. k \in Call
    BY <1>1 DEF Call
  <1>3. call' = [call EXCEPT ![c] = k]
    BY DEF Validate
  <1>4. audit[c] \in Seq(AuditRow) /\ audit' = [audit EXCEPT ![c] = audit[c]]
    BY DEF Inv, TypeOK, Validate
  <1>5. call'[c] = k /\ audit'[c] = <<>> /\ UNCHANGED catalogVars
    BY <1>1, <1>3 DEF Inv, TypeOK, Validate
  <1>6. CallInv(c)'
    BY <1>1, <1>5 DEF CallInv, RecordInv, ProgressInv, ResultInv, HasResult, catalogVars, Call
  <1> HIDE DEF k
  <1>7. QED BY <1>2, <1>3, <1>4, <1>6, OneCallMoves DEF Validate

\* An allowed call has a limit within its grants.
LEMMA AuthorizeInv ==
    ASSUME Inv, NEW c \in Calls, Authorize(c)
    PROVE  Inv'
  <1> DEFINE command == call[c].command
             decision == Decide(grants, command.located)
             k == [call[c] EXCEPT !.pc = "query", !.granted = grants,
                                  !.limit = Effective(command, decision)]
  <1>1. /\ call[c] \in Call /\ call[c].pc = "decide" /\ call[c].outcome = "NONE"
        /\ audit[c] = <<>> /\ audit[c] \in Seq(AuditRow)
        /\ call[c].since <= active[Dataset] /\ grants \in SUBSET Grants
    BY DEF Inv, TypeOK, CallInv, RecordInv, ProgressInv, Authorize
  <1>2. command \in Commands /\ command.located \in BOOLEAN
    BY <1>1, CommandsAssumption DEF Call
  <1>3. CASE decision.effect = "DENY" \/ Requested(command) < 1
    <2>1. Raise(c, "DENIED")
      BY <1>3 DEF Authorize
    <2>2. QED BY <1>1, <2>1, RaiseInv DEF Authorize
  <1>4. CASE ~(decision.effect = "DENY" \/ Requested(command) < 1)
    <2>1. call' = [call EXCEPT ![c] = k]
      BY <1>4 DEF Authorize
    <2>2. Requested(command) >= 1
      BY <1>2, <1>4, CommandsAssumption, LimitsAssumption DEF Requested
    <2>3. /\ Effective(command, decision) \in Nat
          /\ \A g \in Matching(grants) : g.max # NoLimit => Effective(command, decision) <= g.max
      BY <1>1, <1>2, <2>2, EffectiveIsBounded
    <2>4. Matching(grants) # {} /\ \A g \in Matching(grants) : g.region => command.located
      BY <1>1, <1>2, <1>4, DecideIsStrict
    <2>5. k \in Call
      BY <1>1, <2>3 DEF Call
    <2>6. /\ call'[c].pc = "query" /\ call'[c].outcome = "NONE" /\ call'[c].granted = grants
          /\ call'[c].limit = Effective(command, decision) /\ call'[c].command = command
          /\ call'[c].since = call[c].since
      BY <1>1, <2>1 DEF Inv, TypeOK, Call
    <2>7. audit' = audit /\ UNCHANGED catalogVars /\ label' = label /\ grants' = grants
      BY DEF Authorize
    <2>8. CallInv(c)'
      BY <1>1, <2>3, <2>4, <2>6, <2>7
      DEF CallInv, RecordInv, ProgressInv, ResultInv, HasResult, Permitted, catalogVars
    <2>9. audit' = [audit EXCEPT ![c] = audit[c]]
      BY <2>7 DEF Inv, TypeOK
    <2> HIDE DEF k
    <2>10. QED BY <1>1, <2>1, <2>5, <2>7, <2>8, <2>9, OneCallMoves
  <1>5. QED BY <1>3, <1>4

\* The fields of a call record after its query.
LEMMA ResultFields ==
    ASSUME NEW r \in Call, NEW n, NEW s, NEW b
    PROVE  LET k == [r EXCEPT !.pc = "audit", !.outcome = "SUCCESS", !.version = n, !.rows = s,
                              !.truncated = b] IN
           /\ k.pc = "audit" /\ k.outcome = "SUCCESS" /\ k.version = n /\ k.rows = s
           /\ k.truncated = b /\ k.limit = r.limit /\ k.granted = r.granted
           /\ k.command = r.command /\ k.since = r.since
  BY DEF Call

\* The rows are as many as the limit allows of what the active version holds.
LEMMA QueryInv ==
    ASSUME Inv, NEW c \in Calls, Query(c)
    PROVE  Inv'
  <1> DEFINE matching == Content(Served(c)) \intersect Filters(c)
             limit == call[c].limit
  <1>1. PICK fetched \in SUBSET matching, rows \in SUBSET matching :
          /\ rows \subseteq fetched
          /\ Cardinality(fetched) = Smaller(Fetch(limit), Cardinality(matching))
          /\ Cardinality(rows) = Smaller(limit, Cardinality(fetched))
          /\ call' = [call EXCEPT ![c].pc = "audit", ![c].outcome = "SUCCESS",
                                  ![c].version = Served(c), ![c].rows = rows,
                                  ![c].truncated = Cardinality(fetched) > limit]
    BY DEF Query
  <1> DEFINE cut == Cardinality(fetched) > limit
             k == [call[c] EXCEPT !.pc = "audit", !.outcome = "SUCCESS", !.version = Served(c),
                                  !.rows = rows, !.truncated = cut]
  <1>2. /\ call[c] \in Call /\ call[c].pc = "query" /\ audit[c] = <<>> /\ audit[c] \in Seq(AuditRow)
        /\ call[c].since <= active[Dataset] /\ Permitted(c)
        /\ active[Dataset] \in Nat /\ limit \in Nat /\ call[c].since \in Nat
    BY DatasetAssumption DEF Inv, TypeOK, LogOK, CallInv, RecordInv, ProgressInv, Query, Call
  <1>3. /\ matching \in SUBSET Rows /\ fetched \in SUBSET Rows /\ rows \in SUBSET Rows
    BY ContentIsRows DEF Inv
  <1>4. Cardinality(matching) \in Nat /\ Cardinality(fetched) \in Nat /\ Cardinality(rows) \in Nat
    BY <1>3, RowsAreFinite
  <1>5. /\ Cardinality(rows) <= limit
        /\ cut \in BOOLEAN /\ (cut <=> Cardinality(rows) < Cardinality(matching))
    <2> HIDE DEF matching, limit
    <2>1. QED BY <1>1, <1>2, <1>4 DEF Smaller, Fetch
  <1>6. call' = [call EXCEPT ![c] = k] /\ call'[c] = k
    BY <1>1, <1>2 DEF Inv, TypeOK
  <1> HIDE DEF cut
  <1>7. k \in Call
    BY <1>2, <1>3, <1>5 DEF Call, Served
  <1>8. audit' = audit /\ UNCHANGED catalogVars /\ label' = label /\ grants' = grants
    BY DEF Query
  <1>9. /\ call'[c].pc = "audit" /\ call'[c].outcome = "SUCCESS" /\ call'[c].rows = rows
        /\ call'[c].version = active[Dataset] /\ call'[c].limit = limit
        /\ call'[c].granted = call[c].granted /\ call'[c].command = call[c].command
        /\ call'[c].since = call[c].since
    <2>1. /\ k.pc = "audit" /\ k.outcome = "SUCCESS" /\ k.rows = rows
          /\ k.version = Served(c) /\ k.limit = limit /\ k.granted = call[c].granted
          /\ k.command = call[c].command /\ k.since = call[c].since
      BY <1>2, ResultFields
    <2> HIDE DEF k, limit
    <2>2. QED BY <1>6, <2>1 DEF Served
  <1>10. call'[c].truncated <=> cut
    <2>1. cut \in BOOLEAN /\ call[c] \in Call
      BY <1>2, <1>5
    <2>2. k.truncated = cut
      BY <2>1, ResultFields
    <2>3. QED BY <1>6, <2>1, <2>2
  <1>11. Selection(c)' = matching
    BY <1>8, <1>9 DEF Selection, Filters, Content, Served, catalogVars
  <1>12. Permitted(c)'
    BY <1>2, <1>9 DEF Permitted
  <1>13. ResultInv(c)'
    <2> HIDE DEF matching
    <2>1. active'[Dataset] = active[Dataset]
      BY <1>8 DEF catalogVars
    <2>2. QED BY <1>1, <1>2, <1>5, <1>9, <1>11, <1>12, <1>10, <2>1 DEF ResultInv
  <1>14. CallInv(c)'
    BY <1>2, <1>8, <1>9, <1>13 DEF CallInv, RecordInv, ProgressInv
  <1>15. audit' = [audit EXCEPT ![c] = audit[c]]
    BY <1>8 DEF Inv, TypeOK
  <1> HIDE DEF k, matching, limit
  <1>16. QED BY <1>2, <1>7, <1>6, <1>8, <1>14, <1>15, OneCallMoves

\* A call that only moves on from its query keeps its result.
LEMMA ResultKept ==
    ASSUME Inv, NEW c \in Calls, UNCHANGED catalogVars,
           NEW pc, call'[c] = [call[c] EXCEPT !.pc = pc], HasResult(c)' => HasResult(c)
    PROVE  ResultInv(c)'
  <1> DEFINE k == [call[c] EXCEPT !.pc = pc]
  <1>1. /\ k.granted = call[c].granted /\ k.command = call[c].command /\ k.limit = call[c].limit
        /\ k.version = call[c].version /\ k.since = call[c].since /\ k.rows = call[c].rows
        /\ k.truncated = call[c].truncated
    BY DEF Inv, TypeOK, Call
  <1>2. call'[c] = k /\ ResultInv(c)
    BY DEF Inv, CallInv
  <1> HIDE DEF k
  <1>3. QED BY <1>1, <1>2 DEF ResultInv, Permitted, Selection, Filters, Content, catalogVars

\* The record of a call tells its outcome.
LEMMA RecordAuditInv ==
    ASSUME Inv, NEW c \in Calls, RecordAudit(c)
    PROVE  Inv'
  <1> DEFINE k == [call[c] EXCEPT !.pc = "reply"]
  <1>1. /\ call[c] \in Call /\ call[c].pc = "audit" /\ audit[c] = <<>>
        /\ call[c].outcome \in {"SUCCESS", "DENIED", "FAILED"}
    BY DEF Inv, TypeOK, CallInv, RecordInv, RecordAudit, Call
  <1>2. Cardinality(call[c].rows) \in Nat /\ call[c].label \in Nat
    BY <1>1, RowsAreFinite DEF Call
  <1>3. Record(c) \in AuditRow
    BY <1>1, <1>2 DEF Record, AuditRow
  <1>4. k \in Call /\ k.pc = "reply" /\ k.outcome = call[c].outcome /\ k.rows = call[c].rows
    BY <1>1 DEF Call
  <1>5. /\ call' = [call EXCEPT ![c] = k]
        /\ audit' = [audit EXCEPT ![c] = <<Record(c)>>] /\ <<Record(c)>> \in Seq(AuditRow)
    BY <1>1, <1>3 DEF RecordAudit
  <1>6. UNCHANGED catalogVars /\ label' = label /\ grants' = grants
    BY DEF RecordAudit
  <1>7. call'[c] = k /\ audit'[c] = <<Record(c)>>
    BY <1>5 DEF Inv, TypeOK
  <1>8. RecordInv(c)'
    BY <1>1, <1>4, <1>7 DEF RecordInv, Record
  <1>9. ResultInv(c)'
    BY <1>1, <1>4, <1>6, <1>7, ResultKept DEF HasResult
  <1>10. CallInv(c)'
    BY <1>4, <1>7, <1>8, <1>9 DEF CallInv, ProgressInv
  <1> HIDE DEF k
  <1>11. QED BY <1>4, <1>5, <1>6, <1>10, OneCallMoves

\* A call that ends keeps the record it has: one if it replies, and one or none if
\* it dies or its record is in doubt.
LEMMA EndInv ==
    ASSUME Inv, NEW c \in Calls, NEW pc \in {"answered", "refused", "unaudited", "dead"},
           call[c].pc \in {"decide", "query", "audit", "reply"},
           pc \in {"answered", "refused"} =>
               call[c].pc = "reply" /\ (pc = "answered" <=> call[c].outcome = "SUCCESS"),
           call' = [call EXCEPT ![c].pc = pc], UNCHANGED <<catalogVars, label, grants, audit>>
    PROVE  Inv'
  <1> DEFINE k == [call[c] EXCEPT !.pc = pc]
  <1>1. /\ k \in Call /\ call' = [call EXCEPT ![c] = k] /\ call'[c] = k
        /\ k.pc = pc /\ k.outcome = call[c].outcome /\ k.rows = call[c].rows
    BY DEF Inv, TypeOK, Call
  <1>2. audit[c] \in Seq(AuditRow) /\ audit' = [audit EXCEPT ![c] = audit[c]] /\ audit'[c] = audit[c]
    BY DEF Inv, TypeOK
  <1>3. RecordInv(c) /\ UNCHANGED catalogVars
    BY DEF Inv, CallInv
  <1>4. RecordInv(c)'
    BY <1>1, <1>2, <1>3 DEF RecordInv
  <1>5. ResultInv(c)'
    BY <1>1, <1>3, ResultKept DEF HasResult
  <1>6. CallInv(c)'
    BY <1>1, <1>4, <1>5 DEF CallInv, ProgressInv
  <1> HIDE DEF k
  <1>7. QED BY <1>1, <1>2, <1>3, <1>6, OneCallMoves

\* A new version leaves those before it as they are.
LEMMA PublishInv ==
    ASSUME Inv, NEW e \in Entries, PublishVersion(e)
    PROVE  Inv'
  <1>1. /\ log[Dataset] \in Seq(Entries) /\ active[Dataset] = Len(log[Dataset])
        /\ active[Dataset] \in Nat /\ Dataset \in Datasets
    BY DatasetAssumption DEF Inv, LogOK
  <1>2. /\ log' = [log EXCEPT ![Dataset] = Append(@, e)]
        /\ active' = [active EXCEPT ![Dataset] = Len(log[Dataset]) + 1]
        /\ UNCHANGED <<label, grants, call, audit>>
    BY DEF PublishVersion, Publish
  <1>3. TypeOK'
    BY <1>2 DEF Inv, TypeOK
  <1>4. log'[Dataset] = Append(log[Dataset], e) /\ active'[Dataset] = active[Dataset] + 1
    BY <1>1, <1>2 DEF Inv, LogOK
  <1>5. LogOK'
    BY <1>1, <1>2, <1>4 DEF Inv, LogOK
  <1>6. ASSUME NEW v \in 0..active[Dataset] PROVE Content(v)' = Content(v)
    BY <1>1, <1>4 DEF Content
  <1>7. ASSUME NEW c \in Calls PROVE CallInv(c)'
    <2>1. CallInv(c) /\ call[c] \in Call
      BY DEF Inv, TypeOK
    <2>2. RecordInv(c)'
      BY <1>2, <2>1 DEF CallInv, RecordInv
    <2>3. call[c].since \in Nat /\ call[c].version \in Nat
      BY <2>1 DEF Call
    <2>4. ProgressInv(c)'
      BY <1>1, <1>2, <1>4, <2>1, <2>3 DEF CallInv, ProgressInv, Permitted
    <2>5. HasResult(c) => Selection(c)' = Selection(c)
      <3>1. HasResult(c) => call[c].version \in 0..active[Dataset]
        BY <1>1, <2>1, <2>3 DEF CallInv, ResultInv
      <3>2. Filters(c)' = Filters(c) /\ call'[c].version = call[c].version
        BY <1>2 DEF Filters
      <3>3. HasResult(c) => Content(call[c].version)' = Content(call[c].version)
        BY <1>2, <1>6, <3>1
      <3>4. QED BY <3>2, <3>3 DEF Selection
    <2>6. ResultInv(c)'
      BY <1>1, <1>2, <1>4, <2>1, <2>3, <2>5 DEF CallInv, ResultInv, HasResult, Permitted
    <2>7. QED BY <2>2, <2>4, <2>6 DEF CallInv
  <1>8. QED BY <1>3, <1>5, <1>7 DEF Inv

\* Every step keeps the invariant.
LEMMA NextInv == Inv /\ [Next]_vars => Inv'
  <1> SUFFICES ASSUME Inv, [Next]_vars PROVE Inv'
    OBVIOUS
  <1>1. ASSUME NEW c \in Calls, Execute(c) PROVE Inv'
    <2>1. ASSUME NEW command \in Commands, Validate(c, command) PROVE Inv'
      BY <2>1, ValidateInv
    <2>2. CASE Authorize(c)
      BY <2>2, AuthorizeInv
    <2>3. CASE Query(c)
      BY <2>3, QueryInv
    <2>4. CASE Fail(c)
      BY <2>4, RaiseInv DEF Fail
    <2>5. CASE RecordAudit(c)
      BY <2>5, RecordAuditInv
    <2>6. CASE AuditUnavailable(c)
      BY <2>6, EndInv DEF AuditUnavailable
    <2>7. CASE Crash(c)
      BY <2>7, EndInv DEF Crash
    <2>8. CASE Reply(c)
      <3>1. PICK pc \in {"answered", "refused"} :
              pc = IF call[c].outcome = "SUCCESS" THEN "answered" ELSE "refused"
        OBVIOUS
      <3>2. QED BY <2>8, <3>1, EndInv DEF Reply
    <2>9. QED BY <1>1, <2>1, <2>2, <2>3, <2>4, <2>5, <2>6, <2>7, <2>8 DEF Execute
  <1>2. ASSUME NEW e \in Entries, PublishVersion(e) PROVE Inv'
    BY <1>2, PublishInv
  <1>3. CASE RegisterApi \/ ChangeGrants \/ UNCHANGED vars
    <2>1. UNCHANGED <<catalogVars, call, audit>>
      BY <1>3 DEF RegisterApi, ChangeGrants, vars
    <2>2. TypeOK'
      BY <1>3, <2>1, DatasetAssumption
      DEF Inv, TypeOK, LogOK, RegisterApi, ChangeGrants, vars
    <2>3. LogOK'
      BY <2>1 DEF Inv, LogOK, catalogVars
    <2>4. \A c \in Calls : CallInv(c)'
      BY <2>1, OthersKeep DEF Inv
    <2>5. QED BY <2>2, <2>3, <2>4 DEF Inv
  <1>4. QED BY <1>1, <1>2, <1>3 DEF Next

\* Inv is an invariant of the query service.
LEMMA AlwaysInv == Spec => []Inv
  <1>1. QED BY InitInv, NextInv, PTL DEF Spec

------------------------------------------------------------------------------

\* Calls, grants and audit rows keep their types: in particular no limit that
\* reaches the serving query is below zero.
THEOREM TypeCorrect == Spec => []TypeOK
  <1>1. Inv => TypeOK
    BY DEF Inv
  <1>2. QED BY <1>1, AlwaysInv, PTL

\* execute never records a call twice, and a reply has its record, for any number
\* of calls that fail, die after the commit or lose its acknowledgement.
THEOREM AnswersAreRecorded == Spec => []OneRecordPerAnswer
  <1>1. Inv => OneRecordPerAnswer
    BY DEF Inv, CallInv, RecordInv, OneRecordPerAnswer
  <1>2. QED BY <1>1, AlwaysInv, PTL

\* The rows of an answer respect the limit and the region of every grant that
\* matched when decide was called, whatever the caller asked for.
THEOREM AnswersArePermitted == Spec => []RowsArePermitted
  <1>1. ASSUME Inv PROVE RowsArePermitted
    <2>1. ASSUME NEW c \in Calls, HasResult(c), NEW g \in Matching(call[c].granted)
          PROVE  /\ g.max # NoLimit => Cardinality(call[c].rows) <= g.max
                 /\ g.region => call[c].command.located /\ call[c].rows \subseteq Region
      <3>1. /\ call[c] \in Call /\ Permitted(c) /\ call[c].rows \subseteq Selection(c)
            /\ Cardinality(call[c].rows) <= call[c].limit
        BY <1>1, <2>1 DEF Inv, TypeOK, CallInv, ResultInv
      <3>2. /\ call[c].granted \in SUBSET Grants /\ call[c].command \in Commands
            /\ call[c].limit \in Nat
        BY <3>1 DEF Call
      <3>3. Cardinality(call[c].rows) \in Nat
        BY <3>1, RowsAreFinite DEF Call
      <3>4. g.max \in Nat \union {NoLimit}
        BY <2>1, <3>2, GrantsAssumption DEF Matching
      <3>5. g.max # NoLimit => Cardinality(call[c].rows) <= g.max
        BY <2>1, <3>1, <3>2, <3>3, <3>4 DEF Permitted
      <3>6. g.region => Decide(call[c].granted, call[c].command.located).region
        BY <2>1, <3>2, CommandsAssumption, DecideIsStrict
      <3>7. g.region => call[c].rows \subseteq Region
        BY <3>1, <3>6 DEF Selection, Filters
      <3>8. g.region => call[c].command.located
        BY <2>1, <3>1 DEF Permitted
      <3>9. QED BY <3>5, <3>7, <3>8
    <2>2. ASSUME NEW c \in Calls, HasResult(c) PROVE Matching(call[c].granted) # {}
      BY <1>1, <2>2 DEF Inv, CallInv, ResultInv, Permitted
    <2>3. QED BY <2>1, <2>2 DEF RowsArePermitted
  <1>2. QED BY <1>1, AlwaysInv, PTL

\* All rows of an answer come from one version, not older than the one that was
\* active when the call began, however many are published before the query.
THEOREM AnswersComeFromOneVersion == Spec => []ServesOneVersion
  <1>1. ASSUME Inv PROVE ServesOneVersion
    <2>1. ASSUME NEW c \in Calls, HasResult(c)
          PROVE  call[c].version >= call[c].since /\ call[c].rows \subseteq Content(call[c].version)
      <3>1. call[c] \in Call /\ ResultInv(c)
        BY <1>1 DEF Inv, TypeOK, CallInv
      <3>2. call[c].since \in Nat /\ call[c].version \in Nat
        BY <3>1 DEF Call
      <3>3. /\ call[c].version \in call[c].since..active[Dataset]
            /\ call[c].rows \subseteq Selection(c)
        BY <2>1, <3>1 DEF ResultInv
      <3>4. QED BY <3>2, <3>3 DEF Selection
    <2>2. QED BY <2>1 DEF ServesOneVersion
  <1>2. QED BY <1>1, AlwaysInv, PTL

\* truncated is exact, although only one row beyond the limit is fetched.
THEOREM TruncationIsExact == Spec => []TruncatedIsExact
  <1>1. ASSUME Inv PROVE TruncatedIsExact
    BY <1>1 DEF Inv, CallInv, ResultInv, TruncatedIsExact, Selection
  <1>2. QED BY <1>1, AlwaysInv, PTL

\* PolicyEvaluator.decide: a further matching grant never widens the decision.
THEOREM GrantsNarrow == Spec => []GrantsOnlyNarrow
  <1>1. ASSUME TypeOK PROVE GrantsOnlyNarrow
    <2>1. \A g \in Matching(grants) : g \in Grants /\ g.purpose
      BY <1>1 DEF TypeOK, Matching
    <2>2. \A G \in SUBSET grants : G \in SUBSET Grants
      BY <1>1 DEF TypeOK
    <2>3. QED BY <2>1, <2>2, OneMoreGrantNarrows DEF GrantsOnlyNarrow
  <1>2. QED BY <1>1, TypeCorrect, PTL

------------------------------------------------------------------------------
(* The promise of a governed API *)

Recorded(c) == CASE Len(audit[c]) = 0 -> "none"
                 [] Len(audit[c]) = 1 -> audit[c][1].outcome
                 [] OTHER -> "many"

Replied(c) == CASE call[c].pc = "answered" -> "answer"
                [] call[c].pc = "refused" -> "error"
                [] call[c].pc \in {"unaudited", "dead"} -> "unanswered"
                [] OTHER -> "none"

Final == {"answered", "refused", "unaudited", "dead"}

\* The steps of a call, as its caller and its auditor see them.
LEMMA Moves ==
    ASSUME Inv, NEW c \in Calls, Execute(c)
    PROVE  /\ call[c].pc \notin Final
           /\ \A d \in Calls : d # c => call'[d] = call[d] /\ audit'[d] = audit[d]
           /\ \/ audit' = audit /\ call'[c].pc \notin Final
              \/ audit' = audit /\ call'[c].pc \in {"unaudited", "dead"}
              \/ /\ call[c].outcome \in {"SUCCESS", "DENIED", "FAILED"}
                 /\ audit[c] = <<>> /\ audit'[c] = <<Record(c)>>
                 /\ call'[c].pc = "reply"
              \/ /\ Len(audit[c]) = 1 /\ audit[c][1].outcome = call[c].outcome
                 /\ call[c].outcome # "NONE" /\ audit' = audit
                 /\ call'[c].pc = IF call[c].outcome = "SUCCESS" THEN "answered" ELSE "refused"
  <1> USE DEF Final
  <1>1. /\ call[c].pc \notin Final /\ RecordInv(c) /\ call[c] \in Call
        /\ call[c].pc = "audit" =>
             audit[c] = <<>> /\ call[c].outcome \in {"SUCCESS", "DENIED", "FAILED"}
    BY DEF Inv, TypeOK, Call, CallInv, RecordInv, Execute, Validate, Authorize, Query, Fail, RecordAudit,
           AuditUnavailable, Reply, Crash
  <1>2. \A d \in Calls : d # c => call'[d] = call[d] /\ audit'[d] = audit[d]
    BY DEF Inv, TypeOK, Execute, Validate, Authorize, Query, Fail, RecordAudit, AuditUnavailable,
           Reply, Crash, Raise
  <1>3. ASSUME NEW command \in Commands, Validate(c, command)
        PROVE  audit' = audit /\ call'[c].pc \in {"decide", "audit"}
    <2> DEFINE pc == IF command.valid THEN "decide" ELSE "audit"
    <2>1. call'[c].pc = pc
      BY <1>3 DEF Validate, Inv, TypeOK, Call
    <2>2. pc \in {"decide", "audit"}
      OBVIOUS
    <2> HIDE DEF pc
    <2>3. QED BY <1>3, <2>1, <2>2 DEF Validate
  <1>4. CASE Authorize(c) \/ Fail(c)
    BY <1>1, <1>2, <1>4 DEF Authorize, Fail, Raise, Inv, TypeOK, Call
  <1>5. CASE Query(c)
    BY <1>1, <1>2, <1>5 DEF Query, Inv, TypeOK, Call
  <1>6. CASE AuditUnavailable(c) \/ Crash(c)
    BY <1>1, <1>2, <1>6 DEF AuditUnavailable, Crash, Inv, TypeOK, Call
  <1>7. CASE RecordAudit(c)
    <2>1. audit[c] = <<>> /\ call[c].outcome \in {"SUCCESS", "DENIED", "FAILED"}
      BY <1>1, <1>7 DEF RecordAudit
    <2>2. audit'[c] = <<Record(c)>>
      BY <1>7, <2>1 DEF RecordAudit, Inv, TypeOK
    <2>3. call'[c].pc = "reply"
      BY <1>7 DEF RecordAudit, Inv, TypeOK, Call
    <2>4. QED BY <1>1, <1>2, <2>1, <2>2, <2>3
  <1>8. CASE Reply(c)
    <2>1. /\ Len(audit[c]) = 1 /\ audit[c][1].outcome = call[c].outcome
          /\ call[c].outcome # "NONE"
      BY <1>1, <1>8 DEF Reply, RecordInv
    <2>2. call'[c].pc = IF call[c].outcome = "SUCCESS" THEN "answered" ELSE "refused"
      BY <1>8 DEF Reply, Inv, TypeOK, Call
    <2>3. audit' = audit
      BY <1>8 DEF Reply
    <2>4. QED BY <1>1, <1>2, <2>1, <2>2, <2>3
  <1>9. QED BY <1>1, <1>2, <1>3, <1>4, <1>5, <1>6, <1>7, <1>8 DEF Execute

\* Each step of execute is one step of the promise, or none that it sees.
LEMMA PromiseStep ==
    ASSUME Inv, [Next]_vars
    PROVE  [Promise!CallNext]_<<[c \in Calls |-> Recorded(c)], [c \in Calls |-> Replied(c)]>>
  <1> DEFINE record == [c \in Calls |-> Recorded(c)]
             reply == [c \in Calls |-> Replied(c)]
  <1>1. CASE UNCHANGED <<call, audit>>
    BY <1>1 DEF Recorded, Replied
  <1>2. ASSUME NEW c \in Calls, Execute(c) PROVE [Promise!CallNext]_<<record, reply>>
    <2>1. \A d \in Calls : d # c => Recorded(d)' = Recorded(d) /\ Replied(d)' = Replied(d)
      BY <1>2, Moves DEF Recorded, Replied
    <2>2. Replied(c) = "none"
      BY <1>2, Moves DEF Replied, Final
    <2>3. CASE audit' = audit /\ call'[c].pc \notin Final
      <3>1. Recorded(c)' = Recorded(c)
        BY <2>3 DEF Recorded
      <3>2. Replied(c)' = "none"
        BY <2>3 DEF Replied, Final
      <3>3. record' = record /\ reply' = reply
        BY <2>1, <2>2, <3>1, <3>2
      <3>4. QED BY <3>3
    <2>4. CASE audit' = audit /\ call'[c].pc \in {"unaudited", "dead"}
      <3>1. Recorded(c)' = Recorded(c) /\ Replied(c)' = "unanswered"
        BY <2>4 DEF Recorded, Replied
      <3>2. record' = record /\ reply' = [reply EXCEPT ![c] = "unanswered"]
        BY <2>1, <3>1
      <3>3. Promise!GiveUp(c)
        BY <2>2, <3>2 DEF Promise!GiveUp, Recorded, Replied
      <3>4. QED BY <3>3 DEF Promise!CallNext
    <2>5. ASSUME NEW outcome \in Promise!Outcome, call[c].outcome = outcome,
                 audit[c] = <<>>, audit'[c] = <<Record(c)>>, call'[c].pc = "reply"
          PROVE  Promise!CallNext
      <3>1. Recorded(c) = "none" /\ Recorded(c)' = outcome
        BY <2>5 DEF Recorded, Record
      <3>2. Replied(c)' = "none"
        BY <2>5 DEF Replied
      <3>3. record' = [record EXCEPT ![c] = outcome]
        BY <2>1, <3>1
      <3>4. reply' = reply
        BY <2>1, <2>2, <3>2
      <3>5. Promise!Settle(c, outcome)
        BY <2>2, <3>1, <3>3, <3>4 DEF Promise!Settle, Recorded, Replied
      <3>6. QED BY <3>5 DEF Promise!CallNext
    <2>6. ASSUME NEW outcome \in Promise!Outcome, call[c].outcome = outcome, audit' = audit,
                 Len(audit[c]) = 1, audit[c][1].outcome = outcome,
                 call'[c].pc = IF outcome = "SUCCESS" THEN "answered" ELSE "refused"
          PROVE  Promise!CallNext
      <3>1. Recorded(c) = outcome /\ Recorded(c)' = outcome
        BY <2>6 DEF Recorded
      <3>2. Replied(c)' = Promise!ReplyTo(outcome)
        BY <2>6 DEF Replied, Promise!ReplyTo
      <3>3. record' = record
        BY <2>1, <3>1
      <3>4. reply' = [reply EXCEPT ![c] = Promise!ReplyTo(outcome)]
        BY <2>1, <3>2
      <3>5. record[c] = outcome /\ outcome # "none" /\ reply[c] = "none"
        BY <2>2, <3>1 DEF Promise!Outcome
      <3> HIDE DEF record, reply
      <3>6. reply' = [reply EXCEPT ![c] = Promise!ReplyTo(record[c])]
        BY <3>4, <3>5
      <3>7. Promise!Reply(c)
        BY <3>3, <3>5, <3>6 DEF Promise!Reply, record, reply, Recorded, Replied
      <3>8. QED BY <3>7 DEF Promise!CallNext
    <2>7. call[c].outcome \in Promise!Outcome \union {"NONE"}
      BY DEF Inv, TypeOK, Call, Promise!Outcome
    <2>8. QED BY <1>2, <2>3, <2>4, <2>5, <2>6, <2>7, Moves
  <1>3. QED BY <1>1, <1>2 DEF Next, vars, PublishVersion, RegisterApi, ChangeGrants

\* execute keeps the promise of an audited call: one record, durable before the
\* reply, that says what the reply was.
THEOREM PromiseKept == Spec => KeepsPromise
  <1>1. Init => Promise!CallInit
    <2> SUFFICES ASSUME Init PROVE Promise!CallInit
      OBVIOUS
    <2>1. \A c \in Calls : Recorded(c) = "none" /\ Replied(c) = "none"
      BY DEF Init, Recorded, Replied, NewCall
    <2>2. QED BY <2>1 DEF Promise!CallInit, Recorded, Replied
  <1>2. Inv /\ [Next]_vars
          => [Promise!CallNext]_<<[c \in Calls |-> Recorded(c)], [c \in Calls |-> Replied(c)]>>
    BY PromiseStep
  <1>3. QED BY <1>1, <1>2, AlwaysInv, PTL DEF Spec, KeepsPromise, Promise!CallSpec, Recorded, Replied
=============================================================================
