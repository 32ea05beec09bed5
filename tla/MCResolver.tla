------------------------------ MODULE MCResolver ------------------------------
(* Discovery, membership and the service between them. *)
EXTENDS Resolver

CONSTANTS p, q

MCTimestamps == {1}
===============================================================================
