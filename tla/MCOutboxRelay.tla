---------------------------- MODULE MCOutboxRelay ----------------------------
(* The instance of OutboxRelay for TLC: its events are numbers, so that they   *)
(* have an order, and there is no symmetry, since liveness is checked.         *)
EXTENDS OutboxRelay
=============================================================================
