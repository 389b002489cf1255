--------------------------- MODULE MCQueryService ---------------------------
(* An instance of QueryService for TLC: three rows, subjects with and without  *)
(* a region, grants that limit, restrict to the region, and do not match.      *)
EXTENDS QueryService

CONSTANTS r1, r2, r3, MaxVersions

MCRows == {r1, r2, r3}
MCRegion == {r1, r2}
MCEntries == {{r1, r2, r3}, {r2}}

MCGrants == {[purpose |-> TRUE, region |-> FALSE, max |-> 0],
             [purpose |-> TRUE, region |-> FALSE, max |-> 2],
             [purpose |-> TRUE, region |-> TRUE, max |-> NoLimit],
             [purpose |-> FALSE, region |-> FALSE, max |-> 1]}

Command(valid, limit, keeps, located) ==
    [valid |-> valid, limit |-> limit, keeps |-> keeps, located |-> located]

MCCommands == {Command(TRUE, 0, Rows, TRUE), Command(TRUE, 3, {r1, r3}, TRUE),
               Command(TRUE, 1, Rows, FALSE), Command(TRUE, -1, {r1}, TRUE),
               Command(FALSE, 1, {r2}, FALSE)}

\* Bounds the versions published.
VersionBound == active[Dataset] <= MaxVersions
=============================================================================
