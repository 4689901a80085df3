------------------------------ MODULE BufferOps ------------------------------
(***************************************************************************)
(* crates/engine/src/tree/block_buffer.rs: the operations of BlockBuffer   *)
(* as functions of the buffer.                                             *)
(*                                                                         *)
(* A buffer is a record with the fields of the struct.  Its hash maps are  *)
(* total functions in which None or the empty set stands for an absent     *)
(* entry: the code never keeps an empty set in one of these maps.          *)
(*                                                                         *)
(* The LRU map is the order of use of its keys: <<x, y>> \in lru when x    *)
(* was used no later than y, so the keys are the x with <<x, x>> \in lru.  *)
(***************************************************************************)
EXTENDS BlockTree

CONSTANTS
    Code,       \* hashes of contract bytecodes
    Witness,    \* execution witnesses, by what the node can tell of them
    MaxBlocks   \* the limit given to BlockBuffer::new (256 in EngineTree::new)

ASSUME BufferAssumption == /\ MaxBlocks \in Nat \ {0}
                           /\ None \notin Witness

LruKeys(lru) == {h \in Hash : <<h, h>> \in lru}

LruTouch(lru, h) ==
    {p \in lru : p[1] # h /\ p[2] # h} \cup {<<k, h>> : k \in LruKeys(lru) \cup {h}}

\* Mutant: the keys of R stay.
LruStays(lru, R) == lru

LruWithout(lru, R) == {p \in lru : p[1] \notin R /\ p[2] \notin R}

LruOldest(lru) == CHOOSE h \in LruKeys(lru) : \A k \in LruKeys(lru) : <<h, k>> \in lru

Buffer == [blocks            : SUBSET Hash,
           witnesses         : [Hash -> Witness \cup {None}],
           missing_bytecodes : [Hash -> SUBSET Code],
           parent_to_child   : [Hash \cup {Zero} -> SUBSET Hash],
           earliest_blocks   : [Numbers -> SUBSET Hash],
           lru               : SUBSET (Hash \X Hash)]

NewBuffer == [blocks            |-> {},
              witnesses         |-> [h \in Hash |-> None],
              missing_bytecodes |-> [h \in Hash |-> {}],
              parent_to_child   |-> [p \in Hash \cup {Zero} |-> {}],
              earliest_blocks   |-> [n \in Numbers |-> {}],
              lru               |-> {}]

-----------------------------------------------------------------------------
(***************************************************************************)
(* The witness remove_witness returns: a witness that still misses         *)
(* bytecodes stays where it is.                                            *)
(***************************************************************************)
ReadyWitness(b, h) == IF b.missing_bytecodes[h] = {} THEN b.witnesses[h] ELSE None

RemoveWitness(b, h) ==
    IF b.missing_bytecodes[h] = {} THEN [b EXCEPT !.witnesses[h] = None] ELSE b

\* remove_block succeeds on these blocks and leaves the others alone.
Removable(b, h) == h \in b.blocks /\ ReadyWitness(b, h) # None

\* Mutant: the blocks of R stay in the index.
EarliestStays(earliest, R) == earliest

RemoveFromEarliestBlocks(earliest, R) ==
    [n \in Numbers |-> earliest[n] \ {h \in R : Number[h] = n}]

\* Mutant: the blocks of R stay linked to their parents.
LinksStay(links, R) == links

RemoveFromParent(links, R) ==
    [p \in Hash \cup {Zero} |-> links[p] \ {h \in R : Parent[h] = p}]

\* What remove_block and evict_block do to the indexes, for every block of R.
Unindex(b, R) ==
    [b EXCEPT !.blocks = @ \ R,
              !.earliest_blocks = RemoveFromEarliestBlocks(@, R),
              !.parent_to_child = RemoveFromParent(@, R),
              !.lru = LruWithout(@, R)]

\* Mutant: the witness is dropped, the bytecodes it misses are still awaited.
DropWitnessesKeepsMissing(b, R) ==
    [b EXCEPT !.witnesses = [h \in Hash |-> IF h \in R THEN None ELSE @[h]]]

\* Forget the witnesses of the blocks of R together with what they miss.
DropWitnesses(b, R) ==
    [b EXCEPT !.witnesses = [h \in Hash |-> IF h \in R THEN None ELSE @[h]],
              !.missing_bytecodes = [h \in Hash |-> IF h \in R THEN {} ELSE @[h]]]

\* Drop the parent_to_child entries of the hashes of D.
Unlink(b, D) ==
    [b EXCEPT !.parent_to_child = [p \in Hash \cup {Zero} |-> IF p \in D THEN {} ELSE @[p]]]

RemoveBlock(b, h) == IF Removable(b, h) THEN DropWitnesses(Unindex(b, {h}), {h}) ELSE b

\* evict_block for every hash of R: only hashes present in blocks are touched.
EvictBlocks(b, R) == DropWitnesses(Unindex(b, R \cap b.blocks), R \cap b.blocks)

-----------------------------------------------------------------------------
\* The block insert_hash_and_get_evicted takes out to make room for h, if any.
Victims(b, h) ==
    IF h \notin LruKeys(b.lru) /\ MaxBlocks <= Cardinality(LruKeys(b.lru))
      THEN {LruOldest(b.lru)}
      ELSE {}

InsertBlock(b, h) ==
    LET victims == Victims(b, h)
        inserted == [b EXCEPT !.parent_to_child[Parent[h]] = @ \cup {h},
                              !.earliest_blocks[Number[h]] = @ \cup {h},
                              !.blocks = @ \cup {h},
                              !.lru = LruTouch(LruWithout(@, victims), h)]
    IN  EvictBlocks(inserted, victims)

\* An empty set of missing bytecodes does not replace an older entry.
InsertWitness(b, h, w, missing) ==
    [b EXCEPT !.witnesses[h] = w,
              !.missing_bytecodes[h] = IF missing = {} THEN @ ELSE missing]

\* Mutant: children of children are not visited.
LinkedRootsOnly(b, roots) == roots

(***************************************************************************)
(* The hashes the loops of remove_children and evict_children walk over:   *)
(* the given ones and everything below them along parent_to_child.  The    *)
(* loops follow the links of blocks they leave in place too.               *)
(***************************************************************************)
Linked(b, roots) == Reach(roots, b.parent_to_child)

\* remove_block_with_children: the blocks it returns, each with its witness.
RemovedWithChildren(b, parent_hash) ==
    [h \in Hash |-> IF h \in Linked(b, {parent_hash}) /\ Removable(b, h)
                      THEN b.witnesses[h] ELSE None]

RemoveBlockWithChildren(b, parent_hash) ==
    LET walked  == Linked(b, {parent_hash})
        removed == {h \in walked : Removable(b, h)}
    IN  Unlink(DropWitnesses(Unindex(b, removed), removed), walked)

EvictOldBlocks(b, block_number) ==
    LET old    == UNION {b.earliest_blocks[n] : n \in {m \in Numbers : m <= block_number}}
        walked == Linked(b, old)
        kept   == [b EXCEPT !.earliest_blocks =
                               [n \in Numbers |-> IF n <= block_number THEN {} ELSE @[n]]]
    IN  Unlink(EvictBlocks(kept, walked), walked)

\* on_bytecode_received: the buffer after it, and the blocks it unlocks.
OnBytecodeReceived(b, code_hash) ==
    [b EXCEPT !.missing_bytecodes = [h \in Hash |-> @[h] \ {code_hash}]]

UnlockedBy(b, code_hash) == {h \in Hash : b.missing_bytecodes[h] = {code_hash}}

(***************************************************************************)
(* lowest_ancestor: follow parent links from h while the parent is         *)
(* buffered; None when h itself is not buffered.                           *)
(***************************************************************************)
LowestAncestor(b, h) ==
    IF h \in b.blocks
      THEN CHOOSE a \in Ancestry[h] :
               /\ Parent[a] \notin b.blocks
               /\ \A x \in Ancestry[h] : Number[x] >= Number[a] => x \in b.blocks
      ELSE None

-----------------------------------------------------------------------------
(***************************************************************************)
(* What every operation keeps true of a buffer.                            *)
(***************************************************************************)
LruOrders(b) ==
    /\ LruKeys(b.lru) = b.blocks
    /\ b.lru \subseteq b.blocks \X b.blocks
    /\ \A x, y \in b.blocks : <<x, y>> \in b.lru \/ <<y, x>> \in b.lru
    /\ \A x, y \in b.blocks : <<x, y>> \in b.lru /\ <<y, x>> \in b.lru => x = y
    /\ \A x, y, z \in b.blocks : <<x, y>> \in b.lru /\ <<y, z>> \in b.lru => <<x, z>> \in b.lru

EarliestIndexes(b) ==
    \A n \in Numbers : b.earliest_blocks[n] = {h \in b.blocks : Number[h] = n}

LinksBuffered(b) ==
    \A p \in Hash \cup {Zero} : b.parent_to_child[p] \subseteq {c \in b.blocks : Parent[c] = p}

AwaitedHaveWitness(b) ==
    \A h \in Hash : b.missing_bytecodes[h] # {} => b.witnesses[h] # None

BufferOK(b) == /\ b \in Buffer
               /\ LruOrders(b)
               /\ Cardinality(b.blocks) <= MaxBlocks
               /\ EarliestIndexes(b)
               /\ LinksBuffered(b)
               /\ AwaitedHaveWitness(b)
=============================================================================
