------------------------ MODULE MCCheckpointSubsystem -------------------------
(* A root with one child, one config file, small broadcast channels. *)
EXTENDS CheckpointSubsystem

CONSTANTS root, child

MCSubnets == {root, child}
MCParent == [s \in {root, child} |-> IF s = child THEN root ELSE NoParent]
MCConfigs == {[subnets |-> MCSubnets, accounts |-> a] : a \in {{}, {child}}}
===============================================================================
