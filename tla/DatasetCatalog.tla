--------------------------- MODULE DatasetCatalog ---------------------------
(***************************************************************************)
(* What the ingestion service promises to the readers of a dataset and to  *)
(* the consumers of its events: every dataset is an append-only log of     *)
(* published versions, the newest entry is the active one, and a version   *)
(* is announced (DatasetVersionReady) in the step that publishes it.       *)
(***************************************************************************)
EXTENDS Integers, Sequences

CONSTANTS Datasets,   \* logical dataset names of one tenant
          Entries     \* what a published version holds: run and content hash

VARIABLES log,        \* the published versions of each dataset, oldest first
          active,     \* the version number readers are served, 0 for none
          announced   \* the <<dataset, version>> pairs put in the outbox

catalogVars == <<log, active, announced>>

CatalogInit ==
    /\ log = [d \in Datasets |-> <<>>]
    /\ active = [d \in Datasets |-> 0]
    /\ announced = {}

\* One atomic commit: append, move the active pointer, announce.
Publish(d, e) ==
    /\ log' = [log EXCEPT ![d] = Append(@, e)]
    /\ active' = [active EXCEPT ![d] = Len(log[d]) + 1]
    /\ announced' = announced \union {<<d, Len(log[d]) + 1>>}

CatalogNext == \E d \in Datasets, e \in Entries : Publish(d, e)

CatalogSpec == CatalogInit /\ [][CatalogNext]_catalogVars
=============================================================================
