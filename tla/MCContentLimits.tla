---------------------------- MODULE MCContentLimits ---------------------------
(* Two peers, possibly behind one address, and blocks around the limit. *)
EXTENDS ContentLimits, TLC

CONSTANTS peer1, peer2, addr1, addr2

MCSymmetry == Permutations({peer1, peer2}) \cup Permutations({addr1, addr2})
===============================================================================
