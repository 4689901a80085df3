----------------------------- MODULE BufferWalk ------------------------------
(***************************************************************************)
(* The loops of crates/engine/src/tree/block_buffer.rs one round at a      *)
(* time: remove_block_with_children and evict_old_blocks walk down         *)
(* parent_to_child with a stack, and a round takes blocks out of the very  *)
(* maps the walk follows.  The other operations are those of BlockBuffer.  *)
(* Module BufferOps states what the loops reach; here that is checked,     *)
(* with the order of the blocks that are returned, and the invariants of   *)
(* the buffer are checked in the middle of the walks as well.              *)
(***************************************************************************)
EXTENDS BlockBuffer, SequencesExt

VARIABLES
    operation,              \* the walk under way, NoWalk if there is none
    before,                 \* the buffer it was called on
    remove_parent_children, \* the stack of the loop
    removed_blocks          \* the blocks to be returned, in order

walk     == <<operation, before, remove_parent_children, removed_blocks>>
walkvars == <<buffer, walk>>

NoWalk == [on |-> "none", at |-> None]

WalkInit == /\ Init
            /\ operation = NoWalk /\ before = NewBuffer
            /\ remove_parent_children = <<>> /\ removed_blocks = <<>>

Walking(on) == operation.on = on

Start(on, at) == /\ Walking("none")
                 /\ operation' = [on |-> on, at |-> at]
                 /\ before' = buffer

-----------------------------------------------------------------------------
\* remove_block_with_children takes out the block itself, and then its children.
StartRemove(h) ==
    /\ Start("remove", h)
    /\ buffer' = RemoveBlock(buffer, h)
    /\ removed_blocks' = IF Removable(buffer, h) THEN <<h>> ELSE <<>>
    /\ remove_parent_children' = <<h>>

\* evict_old_blocks takes the old blocks out, and then their children.
StartEvict(number) ==
    /\ Start("evict", number)
    /\ LET low == {n \in Numbers : n <= number}
           old == UNION {buffer.earliest_blocks[n] : n \in low}
       IN  /\ buffer' = EvictBlocks([buffer EXCEPT !.earliest_blocks =
                                        [n \in Numbers |-> IF n \in low THEN {} ELSE @[n]]], old)
           /\ remove_parent_children' \in SetToSeqs(old)
    /\ UNCHANGED removed_blocks

Top == Last(remove_parent_children)

\* Mutant: only the children that were taken out are walked further.
ExtendRemoved(children, removed) == Front(remove_parent_children) \o removed

\* The children go on the stack, whether they were taken out or not.
ExtendStack(children, removed) == Front(remove_parent_children) \o children

\* Mutant: the children are put in front of what was removed before.
ReturnedFirst(removed) == removed \o removed_blocks

Returned(removed) == removed_blocks \o removed

\* The elements of s come in the order they have in t.
InOrderOf(s, t) == \A i, j \in DOMAIN s, k, l \in DOMAIN t :
                       s[i] = t[k] /\ s[j] = t[l] /\ i < j => k < l

(***************************************************************************)
(* One round of remove_children: the links of the hash go, and its         *)
(* children with a complete witness leave the buffer, in the order of the  *)
(* hash set, which is arbitrary.                                           *)
(***************************************************************************)
RemoveChildren ==
    /\ Walking("remove")
    /\ remove_parent_children # <<>>
    /\ LET links    == buffer.parent_to_child[Top]
           complete == {h \in links : Removable(buffer, h)}
       IN  /\ buffer' = DropWitnesses(Unindex(Unlink(buffer, {Top}), complete), complete)
           /\ \E children \in SetToSeqs(links), removed \in SetToSeqs(complete) :
                  /\ InOrderOf(removed, children)
                  /\ removed_blocks' = Returned(removed)
                  /\ remove_parent_children' = ExtendStack(children, removed)
    /\ UNCHANGED <<before, operation>>

\* One round of evict_children.
EvictChildren ==
    /\ Walking("evict")
    /\ remove_parent_children # <<>>
    /\ LET links == buffer.parent_to_child[Top]
       IN  /\ buffer' = EvictBlocks(Unlink(buffer, {Top}), links)
           /\ \E children \in SetToSeqs(links) :
                  remove_parent_children' = ExtendStack(children, children)
    /\ UNCHANGED <<before, operation, removed_blocks>>

\* The stack is empty: the operation returns.
Returning == ~Walking("none") /\ remove_parent_children = <<>>

Return == /\ Returning
          /\ operation' = NoWalk /\ before' = NewBuffer /\ removed_blocks' = <<>>
          /\ UNCHANGED <<buffer, remove_parent_children>>

\* The operations without a loop.
Step == /\ Walking("none")
        /\ \/ \E h \in Hash : \/ DoInsertBlock(h) \/ DoRemoveBlock(h) \/ DoRemoveWitness(h)
                             \/ \E w \in Witness, missing \in SUBSET Code :
                                    DoInsertWitness(h, w, missing)
           \/ \E c \in Code : DoOnBytecodeReceived(c)
        /\ UNCHANGED walk

WalkNext == \/ Step
            \/ \E h \in Hash : StartRemove(h)
            \/ \E n \in Numbers : StartEvict(n)
            \/ RemoveChildren \/ EvictChildren \/ Return

WalkSpec == WalkInit /\ [][WalkNext]_walkvars

-----------------------------------------------------------------------------
(***************************************************************************)
(* "the blocks with lower block number in the chain will come first so     *)
(* that they can be executed in the correct order" (block_buffer.rs:131):  *)
(* no block comes before an ancestor of its, whatever the hash sets' order *)
(* and across blocks that stay in the buffer.                              *)
(***************************************************************************)
ParentsFirst ==
    \A i, j \in DOMAIN removed_blocks :
        removed_blocks[i] \in Ancestry[removed_blocks[j]] => i <= j

(***************************************************************************)
(* The step-by-step buffer implements BlockBuffer, whose operations take   *)
(* effect at once (block_buffer.rs:134-169 and 225-263): what is proved of *)
(* BlockBuffer holds of the loops.                                         *)
(***************************************************************************)
Atomic == INSTANCE BlockBuffer WITH buffer <- IF Walking("none") THEN buffer ELSE before
ImplementsBlockBuffer == Atomic!Spec
=============================================================================
