--------------------------- MODULE MCResolveQueries ---------------------------
(* Requests that are resolved at the same time. *)
EXTENDS ResolveQueries

CONSTANTS p1, p2, r1, r2, q1, q2
===============================================================================
