----------------------------- MODULE MissingBlocks -----------------------------
(***************************************************************************)
(* missing_blocks (src/ipld/resolver/src/missing_blocks.rs): a walk over   *)
(* the blocks under a CID with a stack and without a set of visited CIDs.  *)
(* Bitswap asks for its result before and during every resolution.         *)
(***************************************************************************)
EXTENDS Integers, Sequences, FiniteSets

CONSTANTS
  MaxCid,    \* how many CIDs there are
  MaxLinks   \* bound on the references of a block

ASSUME BlocksAssumption == MaxLinks \in Nat /\ MaxCid \in Nat

\* A block is hashed after what it links to: it links to smaller CIDs.
Cids == 1..MaxCid

VARIABLES
  root,      \* the CID asked for
  store,     \* the CIDs the block store has
  links,     \* the references in each block, in order
  stack, missing,
  result     \* "none" until the walk returns

blockVars == <<root, store, links, stack, missing, result>>

\* The references of a block: a CID may be repeated.
LinksOf(c) == UNION {[1..n -> 1..(c - 1)] : n \in 0..MaxLinks}

BlocksTypeOK ==
  /\ root \in Cids
  /\ store \subseteq Cids
  /\ DOMAIN links = Cids /\ \A c \in Cids : links[c] \in Seq(Cids)
  /\ stack \in Seq(Cids) /\ missing \in Seq(Cids)
  /\ result \in {"none", "ok", "error"}

BlocksInit ==
  /\ links \in {f \in [Cids -> UNION {LinksOf(c) : c \in Cids}] : \A c \in Cids : f[c] \in LinksOf(c)}
  /\ root \in Cids
  /\ store \in SUBSET Cids
  /\ stack = <<root>>
  /\ missing = <<>>
  /\ result = "none"

-------------------------------------------------------------------------------
Top == stack[Len(stack)]
Popped == SubSeq(stack, 1, Len(stack) - 1)

\* The store has the block: its references go onto the stack.
Follow ==
  /\ result = "none" /\ stack # <<>>
  /\ Top \in store
  /\ stack' = Popped \o links[Top]
  /\ UNCHANGED <<root, store, links, missing, result>>

\* Mutant: a missing block ends the walk.
FirstMissing ==
  /\ result = "none" /\ stack # <<>>
  /\ Top \notin store
  /\ stack' = <<>>
  /\ missing' = Append(missing, Top)
  /\ UNCHANGED <<root, store, links, result>>

\* Mutant: a missing block stays on the stack.
MissingStays ==
  /\ result = "none" /\ stack # <<>>
  /\ Top \notin store
  /\ UNCHANGED blockVars

\* The store does not have it.
Collect ==
  /\ result = "none" /\ stack # <<>>
  /\ Top \notin store
  /\ stack' = Popped
  /\ missing' = Append(missing, Top)
  /\ UNCHANGED <<root, store, links, result>>

\* bs.get or the decoding of a block fails.
Fail ==
  /\ result = "none" /\ stack # <<>>
  /\ result' = "error"
  /\ UNCHANGED <<root, store, links, stack, missing>>

Return ==
  /\ result = "none" /\ stack = <<>>
  /\ result' = "ok"
  /\ UNCHANGED <<root, store, links, stack, missing>>

BlocksNext == Follow \/ Collect \/ Fail \/ Return

BlocksSpec ==
  BlocksInit /\ [][BlocksNext]_blockVars /\ WF_blockVars(Follow \/ Collect \/ Return)

(***************************************************************************)
(* Properties                                                              *)
(***************************************************************************)

Elements(s) == {s[i] : i \in DOMAIN s}

\* What can be reached from the root through blocks that are there: the least
\* set with the root that is closed under their references.
Closed(S) == root \in S /\ \A c \in S \cap store : Elements(links[c]) \subseteq S
Reached == {c \in Cids : \A S \in SUBSET Cids : Closed(S) => c \in S}

\* "return all CIDs which could *not* be retrieved from the store"
\* (missing_blocks.rs:12): exactly the missing blocks that are referenced
\* through blocks that are present.
MissingAreExact == result = "ok" => Elements(missing) = Reached \ store

\* The walk ends although it visits a block once for every path to it.
WalkEnds == <>(result # "none")
===============================================================================
