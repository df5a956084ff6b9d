---------------------------- MODULE FollowedChain ----------------------------
(***************************************************************************)
(* What the indexer promises about the blocks it has finished, with no     *)
(* RPC, no info tables and no journal: they are a chain, the chain grows by *)
(* one block or is cut back, and the effects in the database are always    *)
(* exactly those of that chain. ChainScan shows that the scanner implements *)
(* this for as long as nothing happens that it cannot make good.           *)
(***************************************************************************)
EXTENDS Integers, Sequences

CONSTANTS
    Blocks,         \* block hashes
    Parent,         \* block -> its parent
    EffectsOf(_)    \* the effects of a sequence of blocks

VARIABLES
    indexed,        \* the blocks that are finished
    effects,        \* their effects
    lapsed          \* the promise is off

absVars == <<indexed, effects, lapsed>>

AbsInit ==
    \/ lapsed
    \/ /\ ~lapsed
       /\ indexed \in Seq(Blocks)
       /\ effects = EffectsOf(indexed)

\* A block is finished: a child of the last one.
Extend(b) ==
    /\ indexed # <<>> => Parent[b] = indexed[Len(indexed)]
    /\ indexed' = Append(indexed, b)
    /\ effects' = EffectsOf(indexed')

\* Blocks are abandoned.
Retreat(n) ==
    /\ indexed' = SubSeq(indexed, 1, n)
    /\ effects' = EffectsOf(indexed')

AbsNext ==
    \/ lapsed'
    \/ /\ ~lapsed'
       /\ \/ \E b \in Blocks : Extend(b)
          \/ \E n \in 0..(Len(indexed) - 1) : Retreat(n)

AbsSpec == AbsInit /\ [][AbsNext]_absVars
=============================================================================
