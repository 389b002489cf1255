--------------------------- MODULE MCDataSources ---------------------------
(* An instance of DataSources for TLC. *)
EXTENDS DataSources, TLC

Symmetry == Permutations(Calls) \union Permutations(Schemas) \union Permutations(Jobs)
=============================================================================
