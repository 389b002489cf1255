----------------------------- MODULE OutboxRelay -----------------------------
(***************************************************************************)
(* SqlAlchemyOutboxRelay._relay: workers move the PENDING rows of one      *)
(* tenant's outbox (domain or audit) to the broker.  A call of _relay is   *)
(* one transaction: it claims rows with FOR UPDATE SKIP LOCKED, publishes  *)
(* them one after the other and commits the outcome of the whole batch.    *)
(* Whatever the broker got before a crash stays there; the rows roll back. *)
(*                                                                         *)
(* Time is relative: wait is what is left until available_at, age what has *)
(* passed since a batch read the clock, both in ticks.                     *)
(***************************************************************************)
EXTENDS Integers, Sequences, FiniteSets

CONSTANTS Events,     \* outbox rows, numbered in the order of created_at
          Relays,     \* worker threads that call _relay for the tenant
          Limit,      \* rows per batch
          MaxFaults,  \* bound on broker errors and crashes together
          MaxAge      \* bound on the ticks a batch stays open

ASSUME EventsAssumption == Events \subseteq Nat /\ IsFiniteSet(Events)
ASSUME BoundsAssumption == Limit \in Nat \ {0} /\ MaxFaults \in Nat /\ MaxAge \in Nat

VARIABLES rows,       \* the outbox row of each event
          batch,      \* the open transaction of each relay
          deliveries, \* how often the broker got each event
          faults      \* broker errors and crashes so far

vars == <<rows, batch, deliveries, faults>>

------------------------------------------------------------------------------

Row == [status : {"ABSENT", "PENDING", "PUBLISHED"}, attempts : Nat, wait : Nat]
Batch == [todo : SUBSET Events, sent : SUBSET Events, failed : SUBSET Events, age : Nat]

NoBatch == [todo |-> {}, sent |-> {}, failed |-> {}, age |-> 0]

TypeOK ==
    /\ rows \in [Events -> Row]
    /\ batch \in [Relays -> Batch]
    /\ deliveries \in [Events -> Nat]
    /\ faults \in 0..MaxFaults

Init ==
    /\ rows = [e \in Events |-> [status |-> "ABSENT", attempts |-> 0, wait |-> 0]]
    /\ batch = [r \in Relays |-> NoBatch]
    /\ deliveries = [e \in Events |-> 0]
    /\ faults = 0

------------------------------------------------------------------------------

Rows(b) == b.todo \union b.sent \union b.failed
Open(r) == Rows(batch[r]) # {}
Locked == UNION {Rows(batch[r]) : r \in Relays}

\* Seconds of backoff after the n-th attempt (n > 0): 2^min(n, 8).  The cap
\* of 300 seconds is never reached.
Delay(n) == LET power == <<2, 4, 8, 16, 32, 64, 128, 256>> IN power[IF n < 8 THEN n ELSE 8]

\* Mutant: rows other workers hold are not skipped.
ClaimableUnlocked == {e \in Events : rows[e].status = "PENDING" /\ rows[e].wait = 0}

\* What the SELECT finds: SKIP LOCKED leaves out what other workers hold.
Claimable == {e \in Events : /\ rows[e].status = "PENDING"
                             /\ rows[e].wait = 0
                             /\ e \notin Locked}

\* ORDER BY created_at LIMIT: S is the oldest part of the claimable rows.
IsOldest(S) ==
    /\ S \subseteq Claimable
    /\ \A e \in S, f \in Claimable \ S : e < f
    /\ Cardinality(S) <= Limit
    /\ S # Claimable => Cardinality(S) = Limit

\* The transaction that writes the event commits; commits need not come in
\* the order of created_at.
Enqueue(e) ==
    /\ rows[e].status = "ABSENT"
    /\ rows' = [rows EXCEPT ![e].status = "PENDING"]
    /\ UNCHANGED <<batch, deliveries, faults>>

Claim(r) ==
    /\ ~Open(r)
    /\ \E S \in (SUBSET Claimable) \ {{}} :
         /\ IsOldest(S)
         /\ batch' = [batch EXCEPT ![r] = [NoBatch EXCEPT !.todo = S]]
    /\ UNCHANGED <<rows, deliveries, faults>>

\* The row the loop is at.
Current(r, e) == e \in batch[r].todo /\ \A f \in batch[r].todo : e <= f

\* publish returns.
Publish(r, e) ==
    /\ Current(r, e)
    /\ deliveries' = [deliveries EXCEPT ![e] = @ + 1]
    /\ batch' = [batch EXCEPT ![r].todo = @ \ {e}, ![r].sent = @ \union {e}]
    /\ UNCHANGED <<rows, faults>>

\* Mutant: an exception is swallowed and the row counts as sent.
FailSwallowed(r, e) ==
    /\ Current(r, e)
    /\ faults < MaxFaults
    /\ faults' = faults + 1
    /\ \E got \in {0, 1} : deliveries' = [deliveries EXCEPT ![e] = @ + got]
    /\ batch' = [batch EXCEPT ![r].todo = @ \ {e}, ![r].sent = @ \union {e}]
    /\ UNCHANGED rows

\* publish raises; the broker may have got the event all the same.
Fail(r, e) ==
    /\ Current(r, e)
    /\ faults < MaxFaults
    /\ faults' = faults + 1
    /\ \E got \in {0, 1} : deliveries' = [deliveries EXCEPT ![e] = @ + got]
    /\ batch' = [batch EXCEPT ![r].todo = @ \ {e}, ![r].failed = @ \union {e}]
    /\ UNCHANGED rows

\* Mutant: the rows of a batch are not marked as published.
SettledPending(row, b, e) ==
    [status |-> row.status,
     attempts |-> IF e \in b.sent \union b.failed THEN row.attempts + 1 ELSE row.attempts,
     wait |-> row.wait]

\* Mutant: a row that failed is given up.
SettledGivenUp(row, b, e) ==
    [status |-> IF e \in b.sent THEN "PUBLISHED"
                ELSE IF e \in b.failed THEN "FAILED" ELSE row.status,
     attempts |-> IF e \in b.sent \union b.failed THEN row.attempts + 1 ELSE row.attempts,
     wait |-> row.wait]

\* The row after the batch: available_at counts from the start of the batch.
Settled(row, b, e) ==
    [status |-> IF e \in b.sent THEN "PUBLISHED" ELSE row.status,
     attempts |-> IF e \in b.sent \union b.failed THEN row.attempts + 1 ELSE row.attempts,
     wait |-> IF e \in b.failed /\ Delay(row.attempts + 1) > b.age
              THEN Delay(row.attempts + 1) - b.age
              ELSE row.wait]

Commit(r) ==
    /\ Open(r)
    /\ batch[r].todo = {}
    /\ rows' = [e \in Events |-> Settled(rows[e], batch[r], e)]
    /\ batch' = [batch EXCEPT ![r] = NoBatch]
    /\ UNCHANGED <<deliveries, faults>>

\* The worker dies or the commit fails: the batch rolls back.
Crash(r) ==
    /\ Open(r)
    /\ faults < MaxFaults
    /\ faults' = faults + 1
    /\ batch' = [batch EXCEPT ![r] = NoBatch]
    /\ UNCHANGED <<rows, deliveries>>

Tick ==
    /\ \A r \in Relays : Open(r) => batch[r].age < MaxAge
    /\ rows' = [e \in Events |-> [rows[e] EXCEPT !.wait = IF @ > 0 THEN @ - 1 ELSE @]]
    /\ batch' = [r \in Relays |-> IF Open(r) THEN [batch[r] EXCEPT !.age = @ + 1] ELSE batch[r]]
    /\ UNCHANGED <<deliveries, faults>>

Work(r) == Claim(r) \/ Commit(r) \/ \E e \in Events : Publish(r, e) \/ Fail(r, e)

Next ==
    \/ Tick
    \/ \E e \in Events : Enqueue(e)
    \/ \E r \in Relays : Work(r) \/ Crash(r)

Spec == Init /\ [][Next]_vars

\* Workers keep polling, time passes; nothing obliges a producer to write.
FairSpec == Spec /\ WF_vars(Tick) /\ \A r \in Relays : WF_vars(Work(r))

------------------------------------------------------------------------------
(* Properties *)

\* Without a broker error or a crash an event is delivered at most once, and
\* each fault duplicates it at most once: SKIP LOCKED and the status test in
\* the SELECT keep concurrent workers from sending the same row.
DuplicatesNeedFaults == \A e \in Events : deliveries[e] <= 1 + faults

\* Two open batches never hold the same row, and a row in a batch stays
\* PENDING and due until that batch ends: what the loop read is what it
\* writes back over.
ClaimsAreExclusive ==
    /\ \A r, s \in Relays : r # s => Rows(batch[r]) \intersect Rows(batch[s]) = {}
    /\ \A r \in Relays : \A e \in Rows(batch[r]) :
          rows[e].status = "PENDING" /\ rows[e].wait = 0

\* Every event that was committed is published in the end, through broker
\* errors, crashes of workers and backoff.
EventuallyPublished ==
    \A e \in Events : rows[e].status = "PENDING" ~> rows[e].status = "PUBLISHED"

Delivery == INSTANCE EventDelivery WITH
    accepted <- {e \in Events : rows[e].status # "ABSENT"},
    settled <- {e \in Events : rows[e].status = "PUBLISHED"}

\* The relay delivers at least once: a row becomes PUBLISHED only after the
\* broker got its event, and a PUBLISHED row is never sent again.
ImplementsDelivery == Delivery!DeliverySpec
=============================================================================
