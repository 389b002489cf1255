---------------------------- MODULE MCRetrieval ----------------------------
(* An instance of Retrieval for TLC: four chunks of two documents, two of a    *)
(* department, one suspicious, one restricted and not similar to the query.    *)
EXTENDS Retrieval, TLC

CONSTANTS d1, d2, x1, x2, x3, x4, i1, i2, all, dept, sales, audits

MCHolds == [n \in Indexes |-> IF n = i1 THEN Chunks \ {x1} ELSE Chunks]
MCDocumentOf == [x \in Chunks |-> IF x \in {x1, x2} THEN d1 ELSE d2]
MCChunkAcl == [x \in Chunks |-> IF x \in {x1, x2} THEN {all} ELSE {dept}]

\* x3 is the best match, then the suspicious x1; x4 is not similar.
MCScore == [x \in Chunks |-> CASE x = x3 -> 4 [] x = x1 -> 3 [] x = x2 -> 2 [] x = x4 -> -1]

Contract(purposes, topk, generate) == [purposes |-> purposes, topk |-> topk, generate |-> generate]

MCContracts == {Contract({sales}, 3, TRUE), Contract({sales, audits}, 2, FALSE)}

Request(purpose, topk, tokens, generate, strict) ==
    [actor |-> "AGENT", clean |-> TRUE, purpose |-> purpose, topk |-> topk,
     tokens |-> tokens, generate |-> generate, strict |-> strict]

MCRequests == {Request(sales, 1, {}, FALSE, FALSE), Request(sales, 1, {dept}, TRUE, TRUE),
               Request(sales, 2, {dept}, TRUE, FALSE), Request(sales, 3, {dept}, TRUE, FALSE),
               Request(audits, 2, {}, TRUE, FALSE), Request(sales, 0, {dept}, TRUE, FALSE),
               [Request(sales, 1, {}, FALSE, FALSE) EXCEPT !.actor = "USER"],
               [Request(sales, 1, {}, FALSE, FALSE) EXCEPT !.actor = None],
               [Request(sales, 1, {}, FALSE, FALSE) EXCEPT !.clean = FALSE]}

CreatorSymmetry == Permutations(Creators)
=============================================================================
