-------------------------- MODULE MCKnowledgeIndex --------------------------
(* Instances of KnowledgeIndex for TLC. *)
EXTENDS KnowledgeIndex, TLC

Symmetry == Permutations(Documents) \union Permutations(Processors)
            \union Permutations(Publishers) \union Permutations(Readers)
=============================================================================
