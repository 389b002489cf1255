-------------------------- MODULE OutboxRelayProofs --------------------------
(***************************************************************************)
(* Proofs about OutboxRelay, for any number of events, workers, faults and *)
(* ticks.  Inv strengthens TypeOK: claims are exclusive, the parts of a    *)
(* batch are disjoint, what a batch has sent was delivered, and every      *)
(* delivery beyond the faults belongs to a row that is sent or PUBLISHED.  *)
(***************************************************************************)
EXTENDS OutboxRelay, FiniteSetTheorems, TLAPS

BatchParts ==
    \A r \in Relays : /\ batch[r].todo \intersect batch[r].sent = {}
                      /\ batch[r].todo \intersect batch[r].failed = {}

SentIsDelivered ==
    /\ \A r \in Relays : \A e \in batch[r].sent : deliveries[e] > 0
    /\ \A e \in Events : rows[e].status = "PUBLISHED" => deliveries[e] > 0

InSent(e) == \E r \in Relays : e \in batch[r].sent

Accounted ==
    \A e \in Events :
        /\ deliveries[e] <= 1 + faults
        /\ rows[e].status # "PUBLISHED" /\ ~InSent(e) => deliveries[e] <= faults

Inv == TypeOK /\ ClaimsAreExclusive /\ BatchParts /\ SentIsDelivered /\ Accounted

\* The backoff of any attempt is a natural number of ticks.
LEMMA DelayIsNat == \A n \in Nat \ {0} : Delay(n) \in Nat
  <1>1. \A i \in 1..8 : <<2, 4, 8, 16, 32, 64, 128, 256>>[i] \in Nat
    OBVIOUS
  <1>2. QED BY <1>1 DEF Delay

\* What the commit makes of a row is a row.
LEMMA SettledIsRow ==
    ASSUME NEW row \in Row, NEW b \in Batch, NEW e \in Events
    PROVE  /\ Settled(row, b, e) \in Row
           /\ Settled(row, b, e).status = IF e \in b.sent THEN "PUBLISHED" ELSE row.status
           /\ e \notin b.failed => Settled(row, b, e).wait = row.wait
  <1>1. row.attempts + 1 \in Nat \ {0}
    BY DEF Row
  <1>2. Delay(row.attempts + 1) \in Nat
    BY <1>1, DelayIsNat
  <1>3. b.age \in Nat /\ row.wait \in Nat
    BY DEF Row, Batch
  <1>4. Settled(row, b, e).wait \in Nat
    BY <1>2, <1>3 DEF Settled
  <1>5. Settled(row, b, e).attempts \in Nat
    BY <1>1 DEF Settled, Row
  <1>6. QED BY <1>4, <1>5 DEF Settled, Row

\* The outbox is empty and no batch is open initially.
LEMMA InitInv == Init => Inv
  BY BoundsAssumption
  DEF Init, Inv, TypeOK, Row, Batch, NoBatch, ClaimsAreExclusive, Rows, BatchParts,
      SentIsDelivered, Accounted, InSent

\* A new PENDING row is in no batch and was never delivered.
LEMMA EnqueueInv ==
    ASSUME Inv, NEW x \in Events, Enqueue(x)
    PROVE  Inv'
  <1>1. TypeOK'
    BY DEF Inv, TypeOK, Enqueue, Row
  <1>2. \A e \in Events : /\ rows'[e].wait = rows[e].wait
                          /\ rows[e].status # "ABSENT" => rows'[e].status = rows[e].status
                          /\ rows[e].status = "ABSENT" => rows'[e].status # "PUBLISHED"
    BY DEF Inv, TypeOK, Enqueue, Row
  <1>3. UNCHANGED <<batch, deliveries, faults>>
    BY DEF Enqueue
  <1>4. \A r \in Relays : Rows(batch[r]) \subseteq Events
    BY DEF Inv, TypeOK, Batch, Rows
  <1>5. ClaimsAreExclusive'
    BY <1>2, <1>3, <1>4 DEF Inv, ClaimsAreExclusive, Rows
  <1>6. BatchParts' /\ SentIsDelivered'
    BY <1>2, <1>3 DEF Inv, BatchParts, SentIsDelivered, TypeOK, Row
  <1>7. Accounted'
    BY <1>2, <1>3 DEF Inv, Accounted, InSent, TypeOK, Row
  <1>8. QED BY <1>1, <1>5, <1>6, <1>7 DEF Inv

\* A claim takes PENDING rows no other worker holds.
LEMMA ClaimInv ==
    ASSUME Inv, NEW r \in Relays, Claim(r)
    PROVE  Inv'
  <1>1. PICK S \in (SUBSET Claimable) \ {{}} :
          batch' = [batch EXCEPT ![r] = [NoBatch EXCEPT !.todo = S]]
    BY DEF Claim
  <1>2. UNCHANGED <<rows, deliveries, faults>>
    BY DEF Claim
  <1>3. S \subseteq Events
    BY DEF Claimable
  <1>4. /\ batch'[r].todo = S /\ batch'[r].sent = {} /\ batch'[r].failed = {}
        /\ batch'[r] \in Batch
    BY <1>1, <1>3 DEF NoBatch, Batch, Inv, TypeOK
  <1>5. \A s \in Relays \ {r} : batch'[s] = batch[s]
    BY <1>1 DEF Inv, TypeOK
  <1>6. batch[r].sent = {}
    BY DEF Claim, Open, Rows
  <1>7. TypeOK'
    BY <1>1, <1>2, <1>4, <1>5 DEF Inv, TypeOK
  <1>8. \A s \in Relays : Rows(batch[s]) \intersect S = {}
    BY DEF Claimable, Locked
  <1>9. ClaimsAreExclusive'
    <2>1. Rows(batch[r])' = S
      BY <1>4 DEF Rows
    <2>2. \A s \in Relays \ {r} : Rows(batch[s])' = Rows(batch[s])
      BY <1>5 DEF Rows
    <2>3. \A e \in S : rows[e].status = "PENDING" /\ rows[e].wait = 0
      BY DEF Claimable
    <2>4. ASSUME NEW s \in Relays, NEW t \in Relays, s # t
          PROVE  Rows(batch[s])' \intersect Rows(batch[t])' = {}
      <3>1. CASE s = r
        BY <1>8, <2>1, <2>2, <2>4, <3>1
      <3>2. CASE t = r
        BY <1>8, <2>1, <2>2, <2>4, <3>2
      <3>3. CASE s # r /\ t # r
        BY <2>2, <2>4, <3>3 DEF Inv, ClaimsAreExclusive
      <3>4. QED BY <3>1, <3>2, <3>3
    <2>5. ASSUME NEW s \in Relays, NEW e \in Rows(batch[s])'
          PROVE  rows'[e].status = "PENDING" /\ rows'[e].wait = 0
      <3>1. CASE s = r
        BY <1>2, <2>1, <2>3, <2>5, <3>1
      <3>2. CASE s # r
        BY <1>2, <2>2, <2>5, <3>2 DEF Inv, ClaimsAreExclusive
      <3>3. QED BY <3>1, <3>2
    <2>6. QED BY <2>4, <2>5 DEF ClaimsAreExclusive
  <1>10. BatchParts'
    BY <1>4, <1>5 DEF Inv, BatchParts
  <1>11. SentIsDelivered'
    BY <1>2, <1>4, <1>5 DEF Inv, SentIsDelivered
  <1>12. \A e \in Events : InSent(e)' <=> InSent(e)
    BY <1>4, <1>5, <1>6 DEF InSent
  <1>13. Accounted'
    BY <1>2, <1>12 DEF Inv, Accounted
  <1>14. QED BY <1>7, <1>9, <1>10, <1>11, <1>13 DEF Inv

\* A batch that loses rows still shares none with another.
LEMMA ShrinkClaims ==
    ASSUME ClaimsAreExclusive, UNCHANGED rows,
           \A s \in Relays : Rows(batch[s])' \subseteq Rows(batch[s])
    PROVE  ClaimsAreExclusive'
  BY DEF ClaimsAreExclusive

\* A publish moves one row from todo to sent and delivers it.
LEMMA PublishInv ==
    ASSUME Inv, NEW r \in Relays, NEW x \in Events, Publish(r, x)
    PROVE  Inv'
  <1>1. /\ UNCHANGED <<rows, faults>>
        /\ x \in batch[r].todo
        /\ deliveries' = [deliveries EXCEPT ![x] = @ + 1]
        /\ batch' = [batch EXCEPT ![r].todo = @ \ {x}, ![r].sent = @ \union {x}]
    BY DEF Publish, Current
  <1>2. /\ batch'[r].todo = batch[r].todo \ {x}
        /\ batch'[r].sent = batch[r].sent \union {x}
        /\ batch'[r].failed = batch[r].failed
        /\ batch'[r] \in Batch
    BY <1>1 DEF Inv, TypeOK, Batch
  <1>3. \A s \in Relays \ {r} : batch'[s] = batch[s]
    BY <1>1 DEF Inv, TypeOK
  <1>4. /\ deliveries'[x] = deliveries[x] + 1
        /\ \A e \in Events \ {x} : deliveries'[e] = deliveries[e]
        /\ deliveries' \in [Events -> Nat]
    BY <1>1 DEF Inv, TypeOK
  <1>5. TypeOK'
    BY <1>1, <1>2, <1>3, <1>4 DEF Inv, TypeOK
  <1>6. ClaimsAreExclusive'
    <2>1. \A s \in Relays : Rows(batch[s])' \subseteq Rows(batch[s])
      BY <1>1, <1>2, <1>3 DEF Rows
    <2>2. QED BY <1>1, <2>1, ShrinkClaims DEF Inv
  <1>7. BatchParts'
    BY <1>1, <1>2, <1>3 DEF Inv, BatchParts
  <1>8. \A e \in Events : deliveries'[e] >= deliveries[e]
    BY <1>4 DEF Inv, TypeOK
  <1>9. SentIsDelivered'
    <2>1. \A s \in Relays : batch[s].sent \subseteq Events
      BY DEF Inv, TypeOK, Batch
    <2>2. deliveries'[x] > 0
      BY <1>4 DEF Inv, TypeOK
    <2>3. \A e \in Events : deliveries[e] > 0 => deliveries'[e] > 0
      BY <1>8, <1>4 DEF Inv, TypeOK
    <2>4. \A s \in Relays : batch'[s].sent \subseteq batch[s].sent \union {x}
      BY <1>2, <1>3
    <2>5. QED BY <1>1, <2>1, <2>2, <2>3, <2>4 DEF Inv, SentIsDelivered
  <1>10. ~InSent(x) /\ rows[x].status # "PUBLISHED"
    <2>1. x \in Rows(batch[r]) /\ x \notin batch[r].sent
      BY <1>1 DEF Rows, Inv, BatchParts
    <2>2. \A s \in Relays \ {r} : x \notin batch[s].sent
      BY <2>1 DEF Inv, ClaimsAreExclusive, Rows
    <2>3. QED BY <2>1, <2>2 DEF Inv, ClaimsAreExclusive, InSent
  <1>11. Accounted'
    <2>1. InSent(x)'
      BY <1>2 DEF InSent
    <2>2. \A e \in Events \ {x} : InSent(e)' <=> InSent(e)
      BY <1>2, <1>3 DEF InSent
    <2>3. deliveries[x] <= faults
      BY <1>10 DEF Inv, Accounted
    <2>4. deliveries'[x] <= 1 + faults
      BY <1>4, <2>3 DEF Inv, TypeOK
    <2>5. QED BY <1>1, <1>4, <2>1, <2>2, <2>4 DEF Inv, Accounted
  <1>12. QED BY <1>5, <1>6, <1>7, <1>9, <1>11 DEF Inv

\* A broker error counts as a fault, whether the event got through or not.
LEMMA FailInv ==
    ASSUME Inv, NEW r \in Relays, NEW x \in Events, Fail(r, x)
    PROVE  Inv'
  <1>1. /\ UNCHANGED rows
        /\ faults < MaxFaults
        /\ faults' = faults + 1
        /\ x \in batch[r].todo
        /\ batch' = [batch EXCEPT ![r].todo = @ \ {x}, ![r].failed = @ \union {x}]
    BY DEF Fail, Current
  <1>2. PICK got \in {0, 1} : deliveries' = [deliveries EXCEPT ![x] = @ + got]
    BY DEF Fail
  <1>3. /\ batch'[r].todo = batch[r].todo \ {x}
        /\ batch'[r].sent = batch[r].sent
        /\ batch'[r].failed = batch[r].failed \union {x}
        /\ batch'[r] \in Batch
    BY <1>1 DEF Inv, TypeOK, Batch
  <1>4. \A s \in Relays \ {r} : batch'[s] = batch[s]
    BY <1>1 DEF Inv, TypeOK
  <1>5. /\ deliveries'[x] \in {deliveries[x], deliveries[x] + 1}
        /\ \A e \in Events \ {x} : deliveries'[e] = deliveries[e]
        /\ deliveries' \in [Events -> Nat]
    BY <1>2 DEF Inv, TypeOK
  <1>6. faults' \in 0..MaxFaults
    BY <1>1, BoundsAssumption DEF Inv, TypeOK
  <1>7. TypeOK'
    BY <1>1, <1>3, <1>4, <1>5, <1>6 DEF Inv, TypeOK
  <1>8. ClaimsAreExclusive'
    <2>1. \A s \in Relays : Rows(batch[s])' \subseteq Rows(batch[s])
      BY <1>1, <1>3, <1>4 DEF Rows
    <2>2. QED BY <1>1, <2>1, ShrinkClaims DEF Inv
  <1>9. BatchParts'
    BY <1>1, <1>3, <1>4 DEF Inv, BatchParts
  <1>10. \A s \in Relays : batch'[s].sent = batch[s].sent
    BY <1>3, <1>4
  <1>11. SentIsDelivered'
    <2>1. \A s \in Relays : batch[s].sent \subseteq Events
      BY DEF Inv, TypeOK, Batch
    <2>2. \A e \in Events : deliveries[e] > 0 => deliveries'[e] > 0
      BY <1>5 DEF Inv, TypeOK
    <2>3. QED BY <1>1, <1>10, <2>1, <2>2 DEF Inv, SentIsDelivered
  <1>12. Accounted'
    <2>1. x \in Rows(batch[r]) /\ x \notin batch[r].sent
      BY <1>1 DEF Rows, Inv, BatchParts
    <2>2. ~InSent(x) /\ rows[x].status # "PUBLISHED"
      BY <2>1 DEF Inv, ClaimsAreExclusive, InSent, Rows
    <2>3. deliveries[x] <= faults
      BY <2>2 DEF Inv, Accounted
    <2>4. deliveries'[x] <= faults' /\ deliveries'[x] <= 1 + faults'
      BY <1>1, <1>5, <1>6, <2>3 DEF Inv, TypeOK
    <2>5. \A e \in Events \ {x} : /\ deliveries'[e] <= 1 + faults'
                                  /\ deliveries[e] <= faults => deliveries'[e] <= faults'
      BY <1>1, <1>5, BoundsAssumption DEF Inv, TypeOK, Accounted
    <2>6. \A e \in Events : InSent(e)' <=> InSent(e)
      BY <1>10 DEF InSent
    <2>7. QED BY <1>1, <2>4, <2>5, <2>6 DEF Inv, Accounted
  <1>13. QED BY <1>7, <1>8, <1>9, <1>11, <1>12 DEF Inv

\* A crash forgets the batch and is a fault that accounts for what was sent.
LEMMA CrashInv ==
    ASSUME Inv, NEW r \in Relays, Crash(r)
    PROVE  Inv'
  <1>1. /\ UNCHANGED <<rows, deliveries>>
        /\ faults < MaxFaults
        /\ faults' = faults + 1
        /\ batch' = [batch EXCEPT ![r] = NoBatch]
    BY DEF Crash
  <1>2. /\ batch'[r] \in Batch
        /\ batch'[r].todo = {} /\ batch'[r].sent = {} /\ batch'[r].failed = {}
    BY <1>1 DEF Inv, TypeOK, NoBatch, Batch
  <1>3. \A s \in Relays \ {r} : batch'[s] = batch[s]
    BY <1>1 DEF Inv, TypeOK
  <1>4. faults' \in 0..MaxFaults
    BY <1>1, BoundsAssumption DEF Inv, TypeOK
  <1>5. TypeOK'
    BY <1>1, <1>2, <1>3, <1>4 DEF Inv, TypeOK
  <1>6. ClaimsAreExclusive'
    <2>1. \A s \in Relays : Rows(batch[s])' \subseteq Rows(batch[s])
      BY <1>2, <1>3 DEF Rows
    <2>2. QED BY <1>1, <2>1, ShrinkClaims DEF Inv
  <1>7. BatchParts' /\ SentIsDelivered'
    BY <1>1, <1>2, <1>3 DEF Inv, BatchParts, SentIsDelivered
  <1>8. Accounted'
    <2>1. \A e \in Events : deliveries[e] <= 1 + faults
      BY DEF Inv, Accounted
    <2>2. \A e \in Events : deliveries'[e] <= faults' /\ deliveries'[e] <= 1 + faults'
      BY <1>1, <1>4, <2>1, BoundsAssumption DEF Inv, TypeOK
    <2>3. QED BY <2>2 DEF Accounted
  <1>9. QED BY <1>5, <1>6, <1>7, <1>8 DEF Inv

\* What a commit does to the rows and to the batches.
LEMMA CommitStep ==
    ASSUME Inv, NEW r \in Relays, Commit(r)
    PROVE  /\ UNCHANGED <<deliveries, faults>>
           /\ rows' \in [Events -> Row]
           /\ \A e \in Events : rows'[e].status = IF e \in batch[r].sent THEN "PUBLISHED"
                                                                     ELSE rows[e].status
           /\ \A e \in Events \ Rows(batch[r]) : rows'[e].wait = rows[e].wait
           /\ Rows(batch[r])' = {} /\ batch'[r].sent = {} /\ batch'[r] \in Batch
           /\ \A s \in Relays \ {r} : batch'[s] = batch[s]
           /\ batch' \in [Relays -> Batch]
  <1>1. /\ UNCHANGED <<deliveries, faults>>
        /\ rows' = [e \in Events |-> Settled(rows[e], batch[r], e)]
        /\ batch' = [batch EXCEPT ![r] = NoBatch]
    BY DEF Commit
  <1>2. batch[r] \in Batch /\ \A e \in Events : rows[e] \in Row
    BY DEF Inv, TypeOK
  <1>3. \A e \in Events :
          /\ rows'[e] \in Row
          /\ rows'[e].status = IF e \in batch[r].sent THEN "PUBLISHED" ELSE rows[e].status
          /\ e \notin batch[r].failed => rows'[e].wait = rows[e].wait
    BY <1>1, <1>2, SettledIsRow
  <1>4. rows' \in [Events -> Row]
    BY <1>1, <1>3
  <1>5. NoBatch \in Batch
    BY DEF NoBatch, Batch
  <1>6. batch' \in [Relays -> Batch] /\ batch'[r] = NoBatch
    BY <1>1, <1>5 DEF Inv, TypeOK
  <1>7. \A s \in Relays \ {r} : batch'[s] = batch[s]
    BY <1>1 DEF Inv, TypeOK
  <1>8. Rows(batch[r])' = {} /\ batch'[r].sent = {}
    BY <1>6 DEF Rows, NoBatch
  <1>9. QED BY <1>1, <1>3, <1>4, <1>5, <1>6, <1>7, <1>8 DEF Rows

\* The commit settles the rows of the batch: sent ones are PUBLISHED.
LEMMA CommitInv ==
    ASSUME Inv, NEW r \in Relays, Commit(r)
    PROVE  Inv'
  <1>1. TypeOK'
    BY CommitStep DEF Inv, TypeOK
  <1>2. ASSUME NEW s \in Relays, NEW e \in Rows(batch[s])'
        PROVE  s # r /\ e \in Rows(batch[s]) /\ e \notin Rows(batch[r]) /\ e \in Events
    <2>1. s # r
      BY <1>2, CommitStep
    <2>2. e \in Rows(batch[s])
      BY <1>2, <2>1, CommitStep DEF Rows
    <2>3. QED BY <2>1, <2>2 DEF Inv, ClaimsAreExclusive, TypeOK, Batch, Rows
  <1>3. ClaimsAreExclusive'
    <2>1. ASSUME NEW s \in Relays, NEW t \in Relays, s # t
          PROVE  Rows(batch[s])' \intersect Rows(batch[t])' = {}
      BY <1>2, <2>1 DEF Inv, ClaimsAreExclusive
    <2>2. ASSUME NEW s \in Relays, NEW e \in Rows(batch[s])'
          PROVE  rows'[e].status = "PENDING" /\ rows'[e].wait = 0
      <3>1. rows[e].status = "PENDING" /\ rows[e].wait = 0
        BY <1>2, <2>2 DEF Inv, ClaimsAreExclusive
      <3>2. e \in Events \ Rows(batch[r]) /\ e \notin batch[r].sent
        BY <1>2, <2>2 DEF Rows
      <3>3. QED BY <3>1, <3>2, CommitStep
    <2>3. QED BY <2>1, <2>2 DEF ClaimsAreExclusive
  <1>4. BatchParts'
    BY CommitStep DEF Inv, BatchParts, Rows
  <1>5. \A e \in batch[r].sent : deliveries[e] > 0
    BY DEF Inv, SentIsDelivered
  <1>6. SentIsDelivered'
    BY <1>5, CommitStep DEF Inv, SentIsDelivered
  <1>7. Accounted'
    <2>1. ASSUME NEW e \in Events, rows'[e].status # "PUBLISHED", ~InSent(e)'
          PROVE  deliveries[e] <= faults
      <3>1. e \notin batch[r].sent /\ rows[e].status # "PUBLISHED"
        BY <2>1, CommitStep
      <3>2. \A s \in Relays \ {r} : e \notin batch[s].sent
        BY <2>1, CommitStep DEF InSent
      <3>3. QED BY <3>1, <3>2 DEF Inv, Accounted, InSent
    <2>2. QED BY <2>1, CommitStep DEF Inv, Accounted
  <1>8. QED BY <1>1, <1>3, <1>4, <1>6, <1>7 DEF Inv

\* Time changes waits and ages only.
LEMMA TickStep ==
    ASSUME Inv, Tick
    PROVE  /\ UNCHANGED <<deliveries, faults>>
           /\ rows' \in [Events -> Row]
           /\ \A e \in Events : /\ rows'[e].status = rows[e].status
                                /\ rows[e].wait = 0 => rows'[e].wait = 0
           /\ batch' \in [Relays -> Batch]
           /\ \A s \in Relays : /\ batch'[s].todo = batch[s].todo
                                /\ batch'[s].sent = batch[s].sent
                                /\ batch'[s].failed = batch[s].failed
  <1>1. /\ UNCHANGED <<deliveries, faults>>
        /\ rows' = [e \in Events |-> [rows[e] EXCEPT !.wait = IF @ > 0 THEN @ - 1 ELSE @]]
        /\ batch' = [r \in Relays |-> IF Open(r) THEN [batch[r] EXCEPT !.age = @ + 1]
                                                 ELSE batch[r]]
    BY DEF Tick
  <1>2. \A e \in Events : /\ rows'[e] \in Row
                          /\ rows'[e].status = rows[e].status
                          /\ rows[e].wait = 0 => rows'[e].wait = 0
    <2>1. TAKE e \in Events
    <2>2. rows[e] \in Row
      BY DEF Inv, TypeOK
    <2>3. QED BY <1>1, <2>2 DEF Row
  <1>3. \A s \in Relays : /\ batch'[s] \in Batch
                          /\ batch'[s].todo = batch[s].todo
                          /\ batch'[s].sent = batch[s].sent
                          /\ batch'[s].failed = batch[s].failed
    <2>1. TAKE s \in Relays
    <2>2. batch[s] \in Batch
      BY DEF Inv, TypeOK
    <2>3. QED BY <1>1, <2>2 DEF Batch
  <1>4. rows' \in [Events -> Row]
    BY <1>1, <1>2
  <1>5. batch' \in [Relays -> Batch]
    BY <1>1, <1>3
  <1>6. QED BY <1>1, <1>2, <1>3, <1>4, <1>5

\* The passing of time preserves the invariant.
LEMMA TickInv ==
    ASSUME Inv, Tick
    PROVE  Inv'
  <1>1. TypeOK'
    BY TickStep DEF Inv, TypeOK
  <1>2. \A s \in Relays : Rows(batch[s])' = Rows(batch[s]) /\ Rows(batch[s]) \subseteq Events
    BY TickStep DEF Rows, Inv, TypeOK, Batch
  <1>3. ClaimsAreExclusive'
    BY <1>2, TickStep DEF Inv, ClaimsAreExclusive
  <1>4. BatchParts'
    BY TickStep DEF Inv, BatchParts
  <1>5. SentIsDelivered'
    BY TickStep DEF Inv, SentIsDelivered
  <1>6. \A e \in Events : InSent(e)' <=> InSent(e)
    BY TickStep DEF InSent
  <1>7. Accounted'
    BY <1>6, TickStep DEF Inv, Accounted
  <1>8. QED BY <1>1, <1>3, <1>4, <1>5, <1>7 DEF Inv

\* Every step preserves the invariant.
LEMMA NextInv == Inv /\ [Next]_vars => Inv'
  <1>1. SUFFICES ASSUME Inv, [Next]_vars
                 PROVE  Inv'
    OBVIOUS
  <1>2. CASE Tick
    BY <1>1, <1>2, TickInv
  <1>3. ASSUME NEW e \in Events, Enqueue(e)
        PROVE  Inv'
    BY <1>1, <1>3, EnqueueInv
  <1>4. ASSUME NEW r \in Relays, Claim(r)
        PROVE  Inv'
    BY <1>1, <1>4, ClaimInv
  <1>5. ASSUME NEW r \in Relays, NEW e \in Events, Publish(r, e)
        PROVE  Inv'
    BY <1>1, <1>5, PublishInv
  <1>6. ASSUME NEW r \in Relays, NEW e \in Events, Fail(r, e)
        PROVE  Inv'
    BY <1>1, <1>6, FailInv
  <1>7. ASSUME NEW r \in Relays, Commit(r)
        PROVE  Inv'
    BY <1>1, <1>7, CommitInv
  <1>8. ASSUME NEW r \in Relays, Crash(r)
        PROVE  Inv'
    BY <1>1, <1>8, CrashInv
  <1>9. CASE UNCHANGED vars
    BY <1>1, <1>9 DEF vars, Inv, TypeOK, ClaimsAreExclusive, Rows, BatchParts,
                      SentIsDelivered, Accounted, InSent
  <1>10. QED BY <1>1, <1>2, <1>3, <1>4, <1>5, <1>6, <1>7, <1>8, <1>9 DEF Next, Work

\* The claims of concurrent workers stay exclusive: the select of _relay with SKIP
\* LOCKED never lets two transactions write back over the same row.
THEOREM ClaimsExclusive == Spec => []ClaimsAreExclusive
  <1>1. Inv => ClaimsAreExclusive
    BY DEF Inv
  <1>2. QED BY <1>1, InitInv, NextInv, PTL DEF Spec

\* The rows, the batches of the workers and the counters keep their types.
THEOREM TypeCorrect == Spec => []TypeOK
  <1>1. Inv => TypeOK
    BY DEF Inv
  <1>2. QED BY <1>1, InitInv, NextInv, PTL DEF Spec

\* However many workers call _relay, an event reaches the broker at most once
\* more than there were broker errors and crashes.
THEOREM DuplicatesBounded == Spec => []DuplicatesNeedFaults
  <1>1. Inv => DuplicatesNeedFaults
    BY DEF Inv, Accounted, DuplicatesNeedFaults
  <1>2. QED BY <1>1, InitInv, NextInv, PTL DEF Spec

------------------------------------------------------------------------------
(* Refinement of EventDelivery *)

DeliveryStep == Delivery!DeliveryNext \/ UNCHANGED Delivery!deliveryVars

\* Enqueueing a row accepts its event.
LEMMA RefinesEnqueue ==
    ASSUME Inv, NEW x \in Events, Enqueue(x)
    PROVE  Delivery!Accept(x)
  <1>1. /\ rows'[x].status = "PENDING"
        /\ \A e \in Events \ {x} : rows'[e] = rows[e]
        /\ rows[x].status = "ABSENT"
        /\ UNCHANGED deliveries
    BY DEF Inv, TypeOK, Enqueue, Row
  <1>2. QED BY <1>1 DEF Delivery!Accept

\* Publishing delivers an event that is not settled.
LEMMA RefinesPublish ==
    ASSUME Inv, NEW r \in Relays, NEW x \in Events, Publish(r, x)
    PROVE  Delivery!Deliver(x)
  <1>1. x \in Rows(batch[r])
    BY DEF Publish, Current, Rows
  <1>2. rows[x].status = "PENDING"
    BY <1>1 DEF Inv, ClaimsAreExclusive
  <1>3. QED BY <1>2 DEF Delivery!Deliver, Publish

\* A failed publish delivers the event or stutters.
LEMMA RefinesFail ==
    ASSUME Inv, NEW r \in Relays, NEW x \in Events, Fail(r, x)
    PROVE  Delivery!Deliver(x) \/ UNCHANGED Delivery!deliveryVars
  <1>1. x \in Rows(batch[r])
    BY DEF Fail, Current, Rows
  <1>2. rows[x].status = "PENDING"
    BY <1>1 DEF Inv, ClaimsAreExclusive
  <1>3. PICK got \in {0, 1} : deliveries' = [deliveries EXCEPT ![x] = @ + got]
    BY DEF Fail
  <1>4. UNCHANGED rows
    BY DEF Fail
  <1>5. CASE got = 0
    <2>1. UNCHANGED deliveries
      BY <1>3, <1>5 DEF Inv, TypeOK
    <2>2. QED BY <1>4, <2>1 DEF Delivery!deliveryVars
  <1>6. CASE got = 1
    BY <1>2, <1>3, <1>4, <1>6 DEF Delivery!Deliver
  <1>7. QED BY <1>5, <1>6

\* The commit settles events that were delivered.
LEMMA RefinesCommit ==
    ASSUME Inv, NEW r \in Relays, Commit(r)
    PROVE  Delivery!Settle(batch[r].sent)
  <1>1. \A e \in batch[r].sent : e \in Events /\ deliveries[e] > 0
    BY DEF Inv, SentIsDelivered, TypeOK, Batch
  <1>2. \A e \in batch[r].sent : rows[e].status = "PENDING"
    BY DEF Inv, ClaimsAreExclusive, Rows
  <1>3. \A e \in Events : rows'[e].status = IF e \in batch[r].sent THEN "PUBLISHED"
                                                               ELSE rows[e].status
    BY CommitStep
  <1>4. batch[r].sent \subseteq
          {e \in {f \in Events : rows[f].status # "ABSENT"} : deliveries[e] > 0}
    BY <1>1, <1>2
  <1>5. {e \in Events : rows'[e].status = "PUBLISHED"} =
          {e \in Events : rows[e].status = "PUBLISHED"} \union batch[r].sent
    BY <1>1, <1>3
  <1>6. {e \in Events : rows'[e].status # "ABSENT"} = {e \in Events : rows[e].status # "ABSENT"}
    BY <1>2, <1>3
  <1>7. UNCHANGED deliveries
    BY CommitStep
  <1>8. QED BY <1>4, <1>5, <1>6, <1>7 DEF Delivery!Settle

\* Every step of the relay is a step of the delivery or a stutter.
LEMMA RefinesNext == Inv /\ [Next]_vars => DeliveryStep
  <1>1. SUFFICES ASSUME Inv, [Next]_vars
                 PROVE  DeliveryStep
    OBVIOUS
  <1>2. CASE Tick
    <2>1. \A e \in Events : rows'[e].status = rows[e].status
      BY <1>1, <1>2, TickStep
    <2>2. UNCHANGED deliveries
      BY <1>1, <1>2, TickStep
    <2>3. QED BY <2>1, <2>2 DEF DeliveryStep, Delivery!deliveryVars
  <1>3. ASSUME NEW e \in Events, Enqueue(e)
        PROVE  DeliveryStep
    BY <1>1, <1>3, RefinesEnqueue DEF DeliveryStep, Delivery!DeliveryNext
  <1>4. ASSUME NEW r \in Relays, Claim(r)
        PROVE  DeliveryStep
    BY <1>4 DEF Claim, DeliveryStep, Delivery!deliveryVars
  <1>5. ASSUME NEW r \in Relays, NEW e \in Events, Publish(r, e)
        PROVE  DeliveryStep
    BY <1>1, <1>5, RefinesPublish DEF DeliveryStep, Delivery!DeliveryNext
  <1>6. ASSUME NEW r \in Relays, NEW e \in Events, Fail(r, e)
        PROVE  DeliveryStep
    BY <1>1, <1>6, RefinesFail DEF DeliveryStep, Delivery!DeliveryNext
  <1>7. ASSUME NEW r \in Relays, Commit(r)
        PROVE  DeliveryStep
    <2>1. batch[r].sent \in SUBSET Events
      BY <1>1 DEF Inv, TypeOK, Batch
    <2>2. Delivery!Settle(batch[r].sent)
      BY <1>1, <1>7, RefinesCommit
    <2>3. Delivery!DeliveryNext
      BY <2>1, <2>2, Zenon DEF Delivery!DeliveryNext, Delivery!Settle
    <2>4. QED BY <2>3 DEF DeliveryStep
  <1>8. ASSUME NEW r \in Relays, Crash(r)
        PROVE  DeliveryStep
    BY <1>8 DEF Crash, DeliveryStep, Delivery!deliveryVars
  <1>9. CASE UNCHANGED vars
    BY <1>9 DEF vars, DeliveryStep, Delivery!deliveryVars
  <1>10. QED BY <1>1, <1>2, <1>3, <1>4, <1>5, <1>6, <1>7, <1>8, <1>9 DEF Next, Work

\* The relay delivers at least once: every behaviour of _relay is one of
\* EventDelivery, so a row becomes PUBLISHED only after the broker got its
\* event and a PUBLISHED row is never sent again.
THEOREM DeliversAtLeastOnce == Spec => ImplementsDelivery
  <1>1. Init => Delivery!DeliveryInit
    BY DEF Init, Delivery!DeliveryInit
  <1>2. Inv /\ [Next]_vars => [Delivery!DeliveryNext]_(Delivery!deliveryVars)
    BY RefinesNext DEF DeliveryStep
  <1>3. QED BY <1>1, <1>2, InitInv, NextInv, PTL DEF Spec, ImplementsDelivery, Delivery!DeliverySpec

------------------------------------------------------------------------------
(* What EventuallyPublished rests on: bounded batches, backoff and retries *)

BatchesFit ==
    \A r \in Relays : IsFiniteSet(Rows(batch[r])) /\ Cardinality(Rows(batch[r])) <= Limit

BackoffIsBounded == \A e \in Events : rows[e].wait <= 256

RetriesNeedFaults ==
    \A e \in Events : /\ rows[e].attempts <= 1 + faults
                      /\ rows[e].status # "PUBLISHED" => rows[e].attempts <= faults

\* The failure of a row in an open batch is a fault its attempts do not count yet.
FailuresAreFaults == \A r \in Relays : \A e \in batch[r].failed : rows[e].attempts + 1 <= faults

Effort == BatchesFit /\ BackoffIsBounded /\ RetriesNeedFaults

EffortInv == Effort /\ FailuresAreFaults

\* No backoff is longer than 256 ticks.
LEMMA DelayBound == \A n \in Nat \ {0} : Delay(n) <= 256
  <1>1. \A i \in 1..8 : <<2, 4, 8, 16, 32, 64, 128, 256>>[i] <= 256
    OBVIOUS
  <1>2. QED BY <1>1 DEF Delay

\* What the commit adds to attempts and leaves in wait.
LEMMA SettledEffort ==
    ASSUME NEW row \in Row, NEW b \in Batch, NEW e \in Events, row.wait <= 256
    PROVE  /\ Settled(row, b, e).wait <= 256
           /\ Settled(row, b, e).attempts =
                IF e \in b.sent \union b.failed THEN row.attempts + 1 ELSE row.attempts
  <1>1. row.attempts + 1 \in Nat \ {0} /\ b.age \in Nat /\ row.wait \in Nat
    BY DEF Row, Batch
  <1>2. Delay(row.attempts + 1) \in Nat /\ Delay(row.attempts + 1) <= 256
    BY <1>1, DelayIsNat, DelayBound
  <1>3. QED BY <1>1, <1>2 DEF Settled

\* Batches that hold no more than before still fit.
LEMMA SameRowsFit ==
    ASSUME BatchesFit, \A s \in Relays : Rows(batch[s])' \subseteq Rows(batch[s])
    PROVE  BatchesFit'
  <1>1. ASSUME NEW s \in Relays
        PROVE  IsFiniteSet(Rows(batch[s])') /\ Cardinality(Rows(batch[s])') <= Limit
    <2> DEFINE old == Rows(batch[s])
               new == Rows(batch[s])'
    <2>1. IsFiniteSet(old) /\ Cardinality(old) <= Limit /\ new \subseteq old
      BY DEF BatchesFit
    <2> HIDE DEF old, new
    <2>2. IsFiniteSet(new) /\ Cardinality(new) <= Cardinality(old)
      BY <2>1, FS_Subset
    <2>3. Cardinality(old) \in Nat /\ Cardinality(new) \in Nat
      BY <2>1, <2>2, FS_CardinalityType
    <2>4. IsFiniteSet(new) /\ Cardinality(new) <= Limit
      BY <2>1, <2>2, <2>3, BoundsAssumption
    <2>5. QED BY <2>4 DEF new
  <1>2. QED BY <1>1 DEF BatchesFit

\* There was no attempt yet.
LEMMA InitEffort == Init => EffortInv
  <1>1. SUFFICES ASSUME Init PROVE EffortInv
    OBVIOUS
  <1>2. \A r \in Relays : Rows(batch[r]) = {} /\ batch[r].failed = {}
    BY <1>1 DEF Init, NoBatch, Rows
  <1>3. BatchesFit
    BY <1>2, FS_EmptySet, BoundsAssumption DEF BatchesFit
  <1>4. BackoffIsBounded /\ RetriesNeedFaults /\ FailuresAreFaults
    BY <1>1, <1>2 DEF Init, BackoffIsBounded, RetriesNeedFaults, FailuresAreFaults
  <1>5. QED BY <1>3, <1>4 DEF EffortInv, Effort

\* A batch is opened with at most Limit rows.
LEMMA ClaimEffort ==
    ASSUME Inv, EffortInv, NEW r \in Relays, Claim(r)
    PROVE  EffortInv'
  <1>1. PICK S \in (SUBSET Claimable) \ {{}} :
          /\ IsOldest(S)
          /\ batch' = [batch EXCEPT ![r] = [NoBatch EXCEPT !.todo = S]]
    BY DEF Claim
  <1>2. batch'[r].todo = S /\ batch'[r].sent = {} /\ batch'[r].failed = {}
    BY <1>1 DEF NoBatch, Inv, TypeOK
  <1>3. \A s \in Relays \ {r} : batch'[s] = batch[s]
    BY <1>1 DEF Inv, TypeOK
  <1>4. UNCHANGED <<rows, faults>>
    BY DEF Claim
  <1>5. S \subseteq Events /\ Cardinality(S) <= Limit
    BY <1>1 DEF IsOldest, Claimable
  <1>6. IsFiniteSet(S)
    BY <1>5, EventsAssumption, FS_Subset
  <1>7. BatchesFit'
    <2>1. Rows(batch[r])' = S
      BY <1>2 DEF Rows
    <2>2. \A s \in Relays \ {r} : Rows(batch[s])' = Rows(batch[s])
      BY <1>3 DEF Rows
    <2>3. ASSUME NEW s \in Relays
          PROVE  IsFiniteSet(Rows(batch[s])') /\ Cardinality(Rows(batch[s])') <= Limit
      <3>1. CASE s = r
        BY <1>5, <1>6, <2>1, <3>1
      <3>2. CASE s # r
        BY <2>2, <3>2 DEF EffortInv, Effort, BatchesFit
      <3>3. QED BY <3>1, <3>2
    <2>4. QED BY <2>3 DEF BatchesFit
  <1>8. FailuresAreFaults'
    BY <1>2, <1>3, <1>4 DEF EffortInv, FailuresAreFaults
  <1>9. BackoffIsBounded' /\ RetriesNeedFaults'
    BY <1>4 DEF EffortInv, Effort, BackoffIsBounded, RetriesNeedFaults
  <1>10. QED BY <1>7, <1>8, <1>9 DEF EffortInv, Effort

\* The loop moves rows within a batch, and each failure is a fault.
LEMMA LoopEffort ==
    ASSUME Inv, EffortInv, NEW r \in Relays, NEW x \in Events, Publish(r, x) \/ Fail(r, x)
    PROVE  EffortInv'
  <1>1. rows' = rows /\ x \in batch[r].todo
    BY DEF Publish, Fail, Current
  <1>2. /\ faults \in Nat /\ faults' \in Nat /\ faults <= faults'
        /\ Fail(r, x) => faults' = faults + 1
    BY BoundsAssumption DEF Publish, Fail, Inv, TypeOK
  <1>3. /\ Rows(batch[r])' \subseteq Rows(batch[r])
        /\ batch'[r].failed \subseteq batch[r].failed \union {x}
        /\ Publish(r, x) => batch'[r].failed = batch[r].failed
        /\ \A s \in Relays \ {r} : batch'[s] = batch[s]
    <2>1. batch \in [Relays -> Batch]
      BY DEF Inv, TypeOK
    <2>2. CASE Publish(r, x)
      BY <1>1, <2>1, <2>2 DEF Publish, Rows, Batch
    <2>3. CASE Fail(r, x) /\ ~Publish(r, x)
      BY <1>1, <2>1, <2>3 DEF Fail, Rows, Batch
    <2>4. QED BY <2>2, <2>3
  <1>4. BatchesFit'
    <2>1. \A s \in Relays : Rows(batch[s])' \subseteq Rows(batch[s])
      BY <1>3 DEF Rows
    <2>2. QED BY <2>1, SameRowsFit DEF EffortInv, Effort
  <1>5. \A e \in Events : rows[e].attempts \in Nat
    BY DEF Inv, TypeOK, Row
  <1>6. rows[x].attempts <= faults
    <2>1. rows[x].status = "PENDING"
      BY <1>1 DEF Inv, ClaimsAreExclusive, Rows
    <2>2. QED BY <2>1 DEF EffortInv, Effort, RetriesNeedFaults
  <1>7. FailuresAreFaults'
    <2>1. ASSUME NEW s \in Relays, NEW e \in batch'[s].failed
          PROVE  rows[e].attempts + 1 <= faults'
      <3>1. e \in Events \/ e = x
        BY <1>3, <2>1 DEF Inv, TypeOK, Batch
      <3>2. CASE e \in batch[s].failed
        <4>1. rows[e].attempts + 1 <= faults
          BY <3>2 DEF EffortInv, FailuresAreFaults
        <4>2. QED BY <1>2, <1>5, <3>1, <4>1
      <3>3. CASE e \notin batch[s].failed
        <4>1. s = r /\ e = x /\ ~Publish(r, x)
          BY <1>3, <2>1, <3>3
        <4>2. faults' = faults + 1
          BY <1>2, <4>1
        <4>3. QED BY <1>2, <1>5, <1>6, <4>1, <4>2
      <3>4. QED BY <3>2, <3>3
    <2>2. QED BY <1>1, <2>1 DEF FailuresAreFaults
  <1>8. RetriesNeedFaults'
    BY <1>1, <1>2, <1>5 DEF EffortInv, Effort, RetriesNeedFaults
  <1>9. BackoffIsBounded'
    BY <1>1 DEF EffortInv, Effort, BackoffIsBounded
  <1>10. QED BY <1>4, <1>7, <1>8, <1>9 DEF EffortInv, Effort

\* The commit counts one attempt for each row of its batch.
LEMMA CommitCounts ==
    ASSUME Inv, EffortInv, NEW r \in Relays, Commit(r), NEW e \in Events
    PROVE  /\ rows'[e].wait <= 256
           /\ rows'[e].attempts = IF e \in Rows(batch[r]) THEN rows[e].attempts + 1
                                                         ELSE rows[e].attempts
  <1>1. rows[e] \in Row /\ batch[r] \in Batch /\ rows[e].wait <= 256
    BY DEF Inv, TypeOK, EffortInv, Effort, BackoffIsBounded
  <1>2. rows'[e] = Settled(rows[e], batch[r], e)
    BY DEF Commit
  <1>3. e \in Rows(batch[r]) <=> e \in batch[r].sent \union batch[r].failed
    BY DEF Commit, Rows
  <1>4. QED BY <1>1, <1>2, <1>3, SettledEffort

\* What a commit leaves PENDING with one more attempt had failed.
LEMMA CommitEffort ==
    ASSUME Inv, EffortInv, NEW r \in Relays, Commit(r)
    PROVE  EffortInv'
  <1>1. /\ UNCHANGED faults /\ batch[r].todo = {}
        /\ batch'[r].failed = {} /\ Rows(batch[r])' = {}
        /\ \A s \in Relays \ {r} : batch'[s] = batch[s]
    BY CommitStep DEF Commit, Rows
  <1>2. faults \in Nat /\ \A e \in Events : rows[e].attempts \in Nat
    BY BoundsAssumption DEF Inv, TypeOK, Row
  <1>3. BatchesFit'
    <2>1. \A s \in Relays : Rows(batch[s])' \subseteq Rows(batch[s])
      BY <1>1 DEF Rows
    <2>2. QED BY <2>1, SameRowsFit DEF EffortInv, Effort
  <1>4. BackoffIsBounded'
    BY CommitCounts DEF BackoffIsBounded
  <1>5. ASSUME NEW e \in Events
        PROVE  /\ rows'[e].attempts <= 1 + faults
               /\ rows'[e].status # "PUBLISHED" => rows'[e].attempts <= faults
    <2>1. /\ rows[e].attempts <= 1 + faults
          /\ rows[e].status # "PUBLISHED" => rows[e].attempts <= faults
      BY DEF EffortInv, Effort, RetriesNeedFaults
    <2>2. rows'[e].status = IF e \in batch[r].sent THEN "PUBLISHED" ELSE rows[e].status
      BY CommitStep
    <2>3. CASE e \notin Rows(batch[r])
      BY <2>1, <2>2, <2>3, CommitCounts DEF Rows
    <2>4. CASE e \in batch[r].sent
      <3>1. rows[e].status = "PENDING"
        BY <2>4 DEF Inv, ClaimsAreExclusive, Rows
      <3>2. rows'[e].attempts = rows[e].attempts + 1
        BY <2>4, CommitCounts DEF Rows
      <3>3. QED BY <1>2, <2>1, <2>2, <2>4, <3>1, <3>2
    <2>5. CASE e \in batch[r].failed
      <3>1. rows[e].attempts + 1 <= faults
        BY <2>5 DEF EffortInv, FailuresAreFaults
      <3>2. rows'[e].attempts = rows[e].attempts + 1
        BY <2>5, CommitCounts DEF Rows
      <3>3. QED BY <1>2, <3>1, <3>2
    <2>6. QED BY <1>1, <2>3, <2>4, <2>5 DEF Rows
  <1>6. RetriesNeedFaults'
    BY <1>1, <1>5 DEF RetriesNeedFaults
  <1>7. FailuresAreFaults'
    <2>1. ASSUME NEW s \in Relays, NEW e \in batch'[s].failed
          PROVE  rows'[e].attempts + 1 <= faults
      <3>1. s # r /\ e \in batch[s].failed
        BY <1>1, <2>1
      <3>2. e \in Events /\ e \notin Rows(batch[r])
        BY <3>1 DEF Inv, TypeOK, Batch, ClaimsAreExclusive, Rows
      <3>3. rows'[e].attempts = rows[e].attempts
        BY <3>2, CommitCounts
      <3>4. QED BY <3>1, <3>3 DEF EffortInv, FailuresAreFaults
    <2>2. QED BY <1>1, <2>1 DEF FailuresAreFaults
  <1>8. QED BY <1>3, <1>4, <1>6, <1>7 DEF EffortInv, Effort

\* A crash forgets a batch, the clock shortens what is left to wait, and a new
\* row was never attempted.
LEMMA QuietEffort ==
    ASSUME Inv, EffortInv, Tick \/ (\E e \in Events : Enqueue(e)) \/ (\E r \in Relays : Crash(r))
    PROVE  EffortInv'
  <1>1. faults \in Nat /\ faults' \in Nat /\ faults <= faults'
    BY BoundsAssumption DEF Tick, Enqueue, Crash, Inv, TypeOK
  <1>2. ASSUME NEW e \in Events
        PROVE  /\ rows'[e].attempts = rows[e].attempts /\ rows[e].attempts \in Nat
               /\ rows'[e].wait <= 256
               /\ rows'[e].status = "PUBLISHED" <=> rows[e].status = "PUBLISHED"
    <2>1. rows[e] \in Row /\ rows[e].wait <= 256 /\ rows \in [Events -> Row]
      BY DEF Inv, TypeOK, EffortInv, Effort, BackoffIsBounded
    <2>2. CASE Tick
      BY <2>1, <2>2 DEF Tick, Row
    <2>3. CASE \E f \in Events : Enqueue(f)
      BY <2>1, <2>3 DEF Enqueue, Row
    <2>4. CASE \E r \in Relays : Crash(r)
      BY <2>1, <2>4 DEF Crash, Row
    <2>5. QED BY <2>2, <2>3, <2>4
  <1>3. \A s \in Relays : /\ batch'[s].failed \subseteq batch[s].failed
                          /\ Rows(batch[s])' \subseteq Rows(batch[s])
    <2>1. CASE Tick
      BY <2>1, TickStep DEF Rows
    <2>2. CASE \E e \in Events : Enqueue(e)
      BY <2>2 DEF Enqueue, Rows
    <2>3. ASSUME NEW r \in Relays, Crash(r)
          PROVE  \A s \in Relays : /\ batch'[s].failed \subseteq batch[s].failed
                                   /\ Rows(batch[s])' \subseteq Rows(batch[s])
      BY <2>3 DEF Crash, NoBatch, Rows, Inv, TypeOK
    <2>4. QED BY <2>1, <2>2, <2>3
  <1>4. BatchesFit'
    BY <1>3, SameRowsFit DEF EffortInv, Effort
  <1>5. BackoffIsBounded'
    BY <1>2 DEF BackoffIsBounded
  <1>6. RetriesNeedFaults'
    BY <1>1, <1>2 DEF EffortInv, Effort, RetriesNeedFaults
  <1>7. FailuresAreFaults'
    <2>1. ASSUME NEW s \in Relays, NEW e \in batch'[s].failed
          PROVE  rows'[e].attempts + 1 <= faults'
      <3>1. e \in batch[s].failed /\ e \in Events
        BY <1>3, <2>1 DEF Inv, TypeOK, Batch
      <3>2. rows[e].attempts + 1 <= faults
        BY <3>1 DEF EffortInv, FailuresAreFaults
      <3>3. QED BY <1>1, <1>2, <3>1, <3>2
    <2>2. QED BY <2>1 DEF FailuresAreFaults
  <1>8. QED BY <1>4, <1>5, <1>6, <1>7 DEF EffortInv, Effort

\* Every step keeps the bounds.
LEMMA EffortStays == Inv /\ EffortInv /\ [Next]_vars => EffortInv'
  <1>1. ASSUME Inv, EffortInv, UNCHANGED vars
        PROVE  EffortInv'
    BY <1>1 DEF vars, EffortInv, Effort, BatchesFit, BackoffIsBounded, RetriesNeedFaults,
                FailuresAreFaults, Rows
  <1>2. ASSUME Inv, EffortInv, Next
        PROVE  EffortInv'
    BY <1>2, ClaimEffort, LoopEffort, CommitEffort, QuietEffort DEF Next, Work
  <1>3. QED BY <1>1, <1>2

\* A batch holds at most Limit rows, no row waits longer than 256 ticks, and a
\* row that is not PUBLISHED was attempted in no more committed batches than
\* there were faults, so retries end where faults end.
THEOREM EffortBounded == Spec => []Effort
  <1>1. EffortInv => Effort
    BY DEF EffortInv
  <1>2. QED BY <1>1, EffortStays, InitEffort, InitInv, NextInv, PTL DEF Spec

\* An open batch keeps its rows; its loop gets one row further, or time passes.
Further(r) ==
    /\ Rows(batch[r])' = Rows(batch[r])
    /\ \/ \E e \in batch[r].todo : batch'[r].todo = batch[r].todo \ {e}
       \/ batch'[r].todo = batch[r].todo /\ batch'[r].age = batch[r].age + 1

Ended(r) ==
    /\ batch'[r] = NoBatch
    /\ \/ faults' = faults + 1
       \/ \A e \in Rows(batch[r]) : rows'[e].attempts = rows[e].attempts + 1

BatchesMoveOn ==
    [][\A r \in Relays : Open(r) /\ batch'[r] # batch[r] => Further(r) \/ Ended(r)]_vars

\* A publish or its failure takes the current row off todo and keeps it in the batch.
LEMMA LoopMovesOn ==
    ASSUME Inv, NEW s \in Relays, NEW x \in Events, Publish(s, x) \/ Fail(s, x)
    PROVE  Further(s) /\ \A r \in Relays \ {s} : batch'[r] = batch[r]
  <1>1. x \in batch[s].todo /\ batch \in [Relays -> Batch]
    BY DEF Publish, Fail, Current, Inv, TypeOK
  <1>2. CASE Publish(s, x)
    <2>1. /\ batch'[s].todo = batch[s].todo \ {x}
          /\ batch'[s].sent = batch[s].sent \union {x}
          /\ batch'[s].failed = batch[s].failed
          /\ \A r \in Relays \ {s} : batch'[r] = batch[r]
      BY <1>1, <1>2 DEF Publish, Batch
    <2>2. Rows(batch[s])' = Rows(batch[s])
      BY <1>1, <2>1 DEF Rows
    <2>3. QED BY <1>1, <2>1, <2>2 DEF Further
  <1>3. CASE Fail(s, x)
    <2>1. /\ batch'[s].todo = batch[s].todo \ {x}
          /\ batch'[s].sent = batch[s].sent
          /\ batch'[s].failed = batch[s].failed \union {x}
          /\ \A r \in Relays \ {s} : batch'[r] = batch[r]
      BY <1>1, <1>3 DEF Fail, Batch
    <2>2. Rows(batch[s])' = Rows(batch[s])
      BY <1>1, <2>1 DEF Rows
    <2>3. QED BY <1>1, <2>1, <2>2 DEF Further
  <1>4. QED BY <1>2, <1>3

\* From its claim to its end a batch holds the same rows and each step of its
\* worker finishes one of them; it ends only with a fault, or by a commit that
\* counts an attempt for every row: no row is dropped in between.
THEOREM BatchesGetDone == Spec => BatchesMoveOn
  <1>1. ASSUME Inv, EffortInv, [Next]_vars, NEW r \in Relays, Open(r), batch'[r] # batch[r]
        PROVE  Further(r) \/ Ended(r)
    <2> USE <1>1
    <2>1. CASE UNCHANGED vars
      BY <2>1 DEF vars
    <2>2. CASE Tick
      <3>1. Rows(batch[r])' = Rows(batch[r]) /\ batch'[r].todo = batch[r].todo
        BY <2>2, TickStep DEF Rows
      <3>2. batch'[r].age = batch[r].age + 1
        BY <2>2 DEF Tick, Inv, TypeOK, Batch
      <3>3. QED BY <3>1, <3>2 DEF Further
    <2>3. CASE \E e \in Events : Enqueue(e)
      BY <2>3 DEF Enqueue
    <2>4. ASSUME NEW s \in Relays, Claim(s)
          PROVE  FALSE
      BY <2>4 DEF Claim, Inv, TypeOK
    <2>5. ASSUME NEW s \in Relays, NEW x \in Events, Publish(s, x) \/ Fail(s, x)
          PROVE  Further(r)
      BY <2>5, LoopMovesOn
    <2>6. ASSUME NEW s \in Relays, Commit(s)
          PROVE  Ended(r)
      <3>1. s = r
        BY <2>6, CommitStep
      <3>2. batch'[r] = NoBatch
        BY <2>6, <3>1 DEF Commit, Inv, TypeOK
      <3>3. Rows(batch[r]) \subseteq Events
        BY DEF Rows, Inv, TypeOK, Batch
      <3>4. QED BY <2>6, <3>1, <3>2, <3>3, CommitCounts DEF Ended
    <2>7. ASSUME NEW s \in Relays, Crash(s)
          PROVE  Ended(r)
      BY <2>7 DEF Crash, Ended, Inv, TypeOK
    <2>8. QED BY <2>1, <2>2, <2>3, <2>4, <2>5, <2>6, <2>7 DEF Next, Work
  <1>2. Inv /\ EffortInv /\ [Next]_vars =>
          \A r \in Relays : Open(r) /\ batch'[r] # batch[r] => Further(r) \/ Ended(r)
    BY <1>1
  <1>3. Spec => []EffortInv
    BY EffortStays, InitEffort, InitInv, NextInv, PTL DEF Spec
  <1>4. QED BY <1>2, <1>3, InitInv, NextInv, PTL DEF Spec, BatchesMoveOn
=============================================================================
