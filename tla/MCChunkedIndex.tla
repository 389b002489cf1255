--------------------------- MODULE MCChunkedIndex ---------------------------
(* The instance of KnowledgeIndex after one of ChunkWindows: a file is cut,    *)
(* then indexes are built and published.  The two share no variable, so each   *)
(* keeps all its behaviours.  Texts of one page have up to nine marks, those   *)
(* of two pages up to three each.                                              *)
EXTENDS MCKnowledgeIndex, ChunkWindows

CONSTANT MaxAtWork  \* bound on the calls at work at one time

Texts(n) == UNION {[1..m -> Mark] : m \in 0..n}

MCFiles == {<<text>> : text \in Texts(9)} \union (Texts(3) \X Texts(3))

StoreChunks ==
    /\ IsCut /\ file # <<>>
    /\ file' = <<>> /\ page' = 1 /\ start' = 0 /\ result' = <<>>

AtWork == Cardinality({p \in Processors : processing[p].pc # "idle"})
          + Cardinality({q \in Publishers : publishing[q].pc # "idle"})
          + Cardinality({r \in Readers : reading[r].pc # "idle"})

\* Bounds the calls at work, where a retrieve, which writes nothing, runs alone,
\* and the documents taken back to one.
WorkBound ==
    /\ AtWork <= MaxAtWork
    /\ (\E r \in Readers : reading[r].pc # "idle") => AtWork = 1
    /\ Cardinality({d \in Documents : documents[d] \in {"REVOKED", "QUARANTINED"}}) <= 1

ChunkedNext ==
    \/ (CutNext \/ StoreChunks) /\ UNCHANGED vars
    \/ file = <<>> /\ Next /\ UNCHANGED cutting

ChunkedInit == Init /\ CutInit

ChunkedSpec == ChunkedInit /\ [][ChunkedNext]_<<vars, cutting>>
=============================================================================
