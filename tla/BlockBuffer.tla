----------------------------- MODULE BlockBuffer -----------------------------
(***************************************************************************)
(* The block buffer as a component: any sequence of the public operations  *)
(* of BlockBuffer (block_buffer.rs), each of which runs to its end before  *)
(* the next one, because the engine task owns the buffer.                  *)
(***************************************************************************)
EXTENDS BufferOps

VARIABLE buffer

Init == buffer = NewBuffer

DoInsertBlock(h) == buffer' = InsertBlock(buffer, h)

DoInsertWitness(h, w, missing) == buffer' = InsertWitness(buffer, h, w, missing)

DoRemoveBlockWithChildren(h) == buffer' = RemoveBlockWithChildren(buffer, h)

DoEvictOldBlocks(n) == buffer' = EvictOldBlocks(buffer, n)

DoRemoveBlock(h) == buffer' = RemoveBlock(buffer, h)

DoRemoveWitness(h) == buffer' = RemoveWitness(buffer, h)

DoOnBytecodeReceived(c) == buffer' = OnBytecodeReceived(buffer, c)

Next == \/ \E h \in Hash : \/ DoInsertBlock(h)
                           \/ \E w \in Witness, missing \in SUBSET Code :
                                  DoInsertWitness(h, w, missing)
                           \/ DoRemoveBlockWithChildren(h)
                           \/ DoRemoveBlock(h)
                           \/ DoRemoveWitness(h)
        \/ \E n \in Numbers : DoEvictOldBlocks(n)
        \/ \E c \in Code : DoOnBytecodeReceived(c)

Spec == Init /\ [][Next]_buffer

-----------------------------------------------------------------------------
(***************************************************************************)
(* Type invariant: every field of the BlockBuffer struct keeps its type.   *)
(***************************************************************************)
TypeOK == buffer \in Buffer

(***************************************************************************)
(* lru is "used as counter of amount of blocks inside buffer"              *)
(* (block_buffer.rs:49): its keys are exactly the buffered blocks, it      *)
(* orders them totally (pop_oldest has one answer), and no sequence of     *)
(* operations makes the buffer outgrow its limit.                          *)
(***************************************************************************)
LruTracksBlocks == /\ LruOrders(buffer)
                   /\ Cardinality(buffer.blocks) <= MaxBlocks

(***************************************************************************)
(* earliest_blocks, which finalization uses to find the blocks to evict,   *)
(* lists every buffered block under its number and nothing else: no block  *)
(* escapes eviction and no entry outlives its block.                       *)
(***************************************************************************)
EarliestIndexesBlocks == EarliestIndexes(buffer)

(***************************************************************************)
(* A child found through parent_to_child is a buffered child of that       *)
(* parent: the loops over parent_to_child never meet a block that has      *)
(* already left the buffer, nor one that belongs elsewhere.                *)
(***************************************************************************)
LinksAreBuffered == LinksBuffered(buffer)

(***************************************************************************)
(* Bytecodes are only awaited on behalf of a witness that is in the        *)
(* buffer: the entry of missing_bytecodes disappears with its witness.     *)
(***************************************************************************)
AwaitedBytecodesHaveWitness == AwaitedHaveWitness(buffer)

(***************************************************************************)
(* "Discard all blocks that precede block number" (block_buffer.rs:147):   *)
(* a step of evict_old_blocks(n) leaves no block with number <= n.         *)
(***************************************************************************)
EvictionLeavesNewer ==
    \A n \in Numbers : DoEvictOldBlocks(n) => \A h \in buffer'.blocks : Number[h] > n

EvictionIsComplete == [][EvictionLeavesNewer]_buffer
=============================================================================
