--------------------------- MODULE MCStackVersions ---------------------------
(* Two callers with one change, two jobs, two versions after the first.    *)
EXTENDS StackVersions

CONSTANTS c1, c2, j1, j2, a
=============================================================================
