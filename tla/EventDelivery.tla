---------------------------- MODULE EventDelivery ----------------------------
(***************************************************************************)
(* At-least-once delivery, as an event consumer may rely on it: an event   *)
(* that a committed transaction accepted can reach the broker any number   *)
(* of times until it is settled, it is settled only after it has reached   *)
(* it, and nothing is delivered before it is accepted or after it is       *)
(* settled.                                                                *)
(***************************************************************************)
EXTENDS Integers

CONSTANT Events

VARIABLES accepted,   \* events committed with their business transaction
          deliveries, \* how often the broker got each event
          settled     \* events that will not be sent again

deliveryVars == <<accepted, deliveries, settled>>

DeliveryInit ==
    /\ accepted = {}
    /\ deliveries = [e \in Events |-> 0]
    /\ settled = {}

Accept(e) ==
    /\ e \notin accepted
    /\ accepted' = accepted \union {e}
    /\ UNCHANGED <<deliveries, settled>>

Deliver(e) ==
    /\ e \in accepted \ settled
    /\ deliveries' = [deliveries EXCEPT ![e] = @ + 1]
    /\ UNCHANGED <<accepted, settled>>

\* A batch is settled as a whole.
Settle(S) ==
    /\ S \subseteq {e \in accepted : deliveries[e] > 0}
    /\ settled' = settled \union S
    /\ UNCHANGED <<accepted, deliveries>>

DeliveryNext ==
    \/ \E e \in Events : Accept(e) \/ Deliver(e)
    \/ \E S \in SUBSET Events : Settle(S)

DeliverySpec == DeliveryInit /\ [][DeliveryNext]_deliveryVars
=============================================================================
