-------------------------- MODULE CheckpointDelivery --------------------------
(***************************************************************************)
(* What checkpointing promises for one (child, parent) pair, without       *)
(* agents, votes or message pools.  The source chain commits cross-net     *)
(* messages: the parent for top-down, the child for bottom-up checkpoints. *)
(* Checkpoints are executed in the other chain one period after the other, *)
(* never before the source reached their epoch, and each carries exactly   *)
(* the messages the source committed since the checkpoint before it.       *)
(***************************************************************************)
EXTENDS Naturals, Sequences

CONSTANTS Period, GenesisEpoch

VARIABLES
  height,     \* height of the source chain
  committed,  \* committed[h]: messages the source committed up to height h
  executed    \* the checkpoints executed in the other chain, in order

deliveryVars == <<height, committed, executed>>

\* The checkpoint after the executed ones es: messages are numbered from 0,
\* lo is the first nonce it carries and hi the first it does not.
NextEpoch(es) == (IF es = <<>> THEN GenesisEpoch ELSE es[Len(es)].epoch) + Period
NextNonce(es) == IF es = <<>> THEN 0 ELSE es[Len(es)].hi
NextCheckpoint(es) ==
  [epoch |-> NextEpoch(es), lo |-> NextNonce(es), hi |-> committed[NextEpoch(es)]]

DeliveryInit ==
  /\ height = 0
  /\ committed = [h \in {0} |-> 0]
  /\ executed = <<>>

\* A source block, with any number of messages.
Block ==
  /\ height' = height + 1
  /\ committed' \in [0..height' -> Nat]
  /\ \A h \in 0..height : committed'[h] = committed[h]
  /\ committed'[height'] >= committed[height]
  /\ UNCHANGED executed

Execute ==
  /\ NextEpoch(executed) <= height
  /\ executed' = Append(executed, NextCheckpoint(executed))
  /\ UNCHANGED <<height, committed>>

DeliveryNext == Execute \/ Block

DeliverySpec == DeliveryInit /\ [][DeliveryNext]_deliveryVars
===============================================================================
