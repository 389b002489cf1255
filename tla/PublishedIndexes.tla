-------------------------- MODULE PublishedIndexes --------------------------
(***************************************************************************)
(* What indexing promises to retrieval: a release adds one index with its  *)
(* whole content and makes it the active one.  An index that was released  *)
(* is never published again, taken back or given other content, except     *)
(* that items leave it where an item can be in one index only.  An index   *)
(* may also become active without being released: then nothing is promised *)
(* of it.                                                                  *)
(***************************************************************************)
CONSTANTS Indexes,  \* index versions of a knowledge base
          Items,    \* what an index may hold
          NoIndex,  \* the active index before the first publication
          Moves     \* an item leaves its index when another one takes it

VARIABLES content,  \* what each index released so far holds
          active    \* the index that retrieve is bound to

publicationVars == <<content, active>>

PublicationInit ==
    /\ content = [n \in {} |-> {}]
    /\ active = NoIndex

Release(n, S) ==
    /\ active' = n
    /\ n \notin DOMAIN content
    /\ content' = [m \in DOMAIN content \union {n} |-> IF m = n THEN S ELSE content[m]]

PublishUnreleased(n) ==
    /\ active' = n
    /\ n \notin DOMAIN content
    /\ UNCHANGED content

Take(S) ==
    /\ Moves
    /\ content' = [m \in DOMAIN content |-> content[m] \ S]
    /\ UNCHANGED active

PublicationNext ==
    \/ \E n \in Indexes : PublishUnreleased(n) \/ \E S \in SUBSET Items : Release(n, S)
    \/ \E S \in SUBSET Items : Take(S)

PublicationSpec == PublicationInit /\ [][PublicationNext]_publicationVars
=============================================================================
