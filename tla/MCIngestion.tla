---------------------------- MODULE MCIngestion ----------------------------
(* Instances of Ingestion for TLC: one job, hence one dataset. *)
EXTENDS Ingestion, TLC

CONSTANTS j1, d1

MCTarget == j1 :> d1

AllOperations == {"start", "retry", "cancel", "fail", "complete"}

Symmetry == Permutations(Calls) \union Permutations(Runs)
            \union Permutations(Keys) \union Permutations(Hashes)
=============================================================================
