-------------------------- MODULE BlockBufferProofs --------------------------
(***************************************************************************)
(* The indexes of the block buffer agree with each other in every          *)
(* reachable state, whatever the block tree, the bytecodes, the witnesses  *)
(* and the limit are.  BufferOK(b) is inductive: the lemmas of module      *)
(* BufferOpsProofs say that every operation keeps it.                      *)
(***************************************************************************)
EXTENDS BufferWalk, BufferOpsProofs, SequenceTheorems

\* The inductive invariant: the conjunction of the invariants of module BlockBuffer.
BufferInv == BufferOK(buffer)

\* Every public operation of BlockBuffer keeps the buffer consistent.
LEMMA NextKeepsBufferInv == BufferInv /\ [Next]_buffer => BufferInv'
<1> SUFFICES ASSUME BufferOK(buffer), [Next]_buffer PROVE BufferOK(buffer')
  BY DEF BufferInv
<1>1. ASSUME NEW h \in Hash, DoInsertBlock(h) PROVE BufferOK(buffer')
  BY <1>1, InsertBlockOK DEF DoInsertBlock
<1>2. ASSUME NEW h \in Hash, NEW w \in Witness, NEW missing \in SUBSET Code,
             DoInsertWitness(h, w, missing)
      PROVE  BufferOK(buffer')
  BY <1>2, InsertWitnessOK DEF DoInsertWitness
<1>3. ASSUME NEW h \in Hash, DoRemoveBlockWithChildren(h) PROVE BufferOK(buffer')
  BY <1>3, RemoveBlockWithChildrenOK DEF DoRemoveBlockWithChildren
<1>4. ASSUME NEW h \in Hash, DoRemoveBlock(h) PROVE BufferOK(buffer')
  BY <1>4, RemoveBlockOK DEF DoRemoveBlock
<1>5. ASSUME NEW h \in Hash, DoRemoveWitness(h) PROVE BufferOK(buffer')
  BY <1>5, RemoveWitnessOK DEF DoRemoveWitness
<1>6. ASSUME NEW n \in Numbers, DoEvictOldBlocks(n) PROVE BufferOK(buffer')
  BY <1>6, EvictOldBlocksOK DEF DoEvictOldBlocks
<1>7. ASSUME NEW c \in Code, DoOnBytecodeReceived(c) PROVE BufferOK(buffer')
  BY <1>7, OnBytecodeReceivedOK DEF DoOnBytecodeReceived
<1>8. CASE UNCHANGED buffer BY <1>8
<1>9. CASE Next BY <1>1, <1>2, <1>3, <1>4, <1>5, <1>6, <1>7, <1>9, Zenon DEF Next
<1> QED BY <1>8, <1>9

(***************************************************************************)
(* The block buffer stays consistent: in every behaviour of its operations *)
(* BufferInv holds, so all the invariants of module BlockBuffer do.         *)
(***************************************************************************)
THEOREM BufferConsistent == Spec => []BufferInv
<1>1. Init => BufferInv BY NewBufferOK DEF Init, BufferInv
<1> QED BY <1>1, NextKeepsBufferInv, PTL DEF Spec

(***************************************************************************)
(* Type correctness of the buffer.                                         *)
(***************************************************************************)
THEOREM BufferTypeOK == Spec => []TypeOK
<1>1. BufferInv => TypeOK BY DEF BufferInv, BufferOK, TypeOK
<1> QED BY <1>1, BufferConsistent, PTL

(***************************************************************************)
(* For every limit: the LRU map holds exactly the buffered blocks, orders  *)
(* them, and the buffer never outgrows the limit (block_buffer.rs:45-49,   *)
(* 116-125).                                                               *)
(***************************************************************************)
THEOREM BufferLru == Spec => []LruTracksBlocks
<1>1. BufferInv => LruTracksBlocks BY DEF BufferInv, BufferOK, LruTracksBlocks
<1> QED BY <1>1, BufferConsistent, PTL

(***************************************************************************)
(* For every block tree: earliest_blocks lists exactly the buffered        *)
(* blocks, by number.                                                      *)
(***************************************************************************)
THEOREM BufferEarliest == Spec => []EarliestIndexesBlocks
<1>1. BufferInv => EarliestIndexesBlocks BY DEF BufferInv, BufferOK, EarliestIndexesBlocks
<1> QED BY <1>1, BufferConsistent, PTL

(***************************************************************************)
(* For every block tree: parent_to_child only links buffered blocks, under *)
(* their own parent.                                                       *)
(***************************************************************************)
THEOREM BufferLinks == Spec => []LinksAreBuffered
<1>1. BufferInv => LinksAreBuffered BY DEF BufferInv, BufferOK, LinksAreBuffered
<1> QED BY <1>1, BufferConsistent, PTL

(***************************************************************************)
(* Bytecodes are never awaited for a block whose witness is gone.          *)
(***************************************************************************)
THEOREM BufferAwaited == Spec => []AwaitedBytecodesHaveWitness
<1>1. BufferInv => AwaitedBytecodesHaveWitness
  BY DEF BufferInv, BufferOK, AwaitedBytecodesHaveWitness
<1> QED BY <1>1, BufferConsistent, PTL

(***************************************************************************)
(* Finalization evicts completely (block_buffer.rs:147-169): whatever the  *)
(* history of the buffer, evict_old_blocks(n) leaves only blocks above n.  *)
(***************************************************************************)
THEOREM BufferEviction == Spec => EvictionIsComplete
<1>1. BufferInv /\ [Next]_buffer => [EvictionLeavesNewer]_buffer
  BY EvictOldBlocksClears DEF BufferInv, DoEvictOldBlocks, EvictionLeavesNewer
<1> QED BY <1>1, BufferConsistent, PTL DEF Spec, EvictionIsComplete

-----------------------------------------------------------------------------
(***************************************************************************)
(* The loops of the buffer (module BufferWalk).  Each round is a removal,  *)
(* and two removals in a row are one.                                      *)
(***************************************************************************)
\* Two buffers with the same fields are the same.
LEMMA SameBuffer ==
    ASSUME NEW f \in Buffer, NEW g \in Buffer,
           f.blocks = g.blocks, f.lru = g.lru,
           \A h \in Hash : /\ f.witnesses[h] = g.witnesses[h]
                           /\ f.missing_bytecodes[h] = g.missing_bytecodes[h],
           \A p \in Hash \cup {Zero} : f.parent_to_child[p] = g.parent_to_child[p],
           \A n \in Numbers : f.earliest_blocks[n] = g.earliest_blocks[n]
    PROVE  f = g
<1>1. f.witnesses = g.witnesses BY DEF Buffer
<1>2. f.missing_bytecodes = g.missing_bytecodes BY DEF Buffer
<1>3. f.parent_to_child = g.parent_to_child BY DEF Buffer
<1>4. f.earliest_blocks = g.earliest_blocks BY DEF Buffer
<1> QED BY <1>1, <1>2, <1>3, <1>4 DEF Buffer

\* All the fields of f after the removal of R from b, with the links of D dropped.
AllFields(f, b, R, D) ==
    /\ f \in Buffer
    /\ f.blocks = b.blocks \ R
    /\ f.lru = LruWithout(b.lru, R)
    /\ f.witnesses = [h \in Hash |-> IF h \in R THEN None ELSE b.witnesses[h]]
    /\ f.missing_bytecodes = [h \in Hash |-> IF h \in R THEN {} ELSE b.missing_bytecodes[h]]
    /\ f.parent_to_child = [p \in Hash \cup {Zero} |->
           IF p \in D THEN {} ELSE b.parent_to_child[p] \ {h \in R : Parent[h] = p}]
    /\ f.earliest_blocks = [n \in Numbers |-> b.earliest_blocks[n] \ {h \in R : Number[h] = n}]

\* A removal leaves all the fields so.
LEMMA RemoveSetAll ==
    ASSUME NEW b \in Buffer, NEW R \in SUBSET Hash, NEW D
    PROVE  AllFields(RemoveSet(b, R, D), b, R, D)
<1> DEFINE u == Unindex(b, R)
           d == DropWitnesses(u, R)
           f == Unlink(d, D)
<1>1. /\ u \in Buffer /\ u.blocks = b.blocks \ R /\ u.witnesses = b.witnesses
      /\ u.missing_bytecodes = b.missing_bytecodes
      /\ u.lru = LruWithout(b.lru, R)
      /\ u.parent_to_child =
             [p \in Hash \cup {Zero} |-> b.parent_to_child[p] \ {h \in R : Parent[h] = p}]
      /\ u.earliest_blocks = [n \in Numbers |-> b.earliest_blocks[n] \ {h \in R : Number[h] = n}]
  BY LruWithoutKeys DEF Unindex, RemoveFromEarliestBlocks, RemoveFromParent, Buffer
<1> HIDE DEF u
<1>2. /\ d \in Buffer /\ d.blocks = u.blocks /\ d.lru = u.lru
      /\ d.parent_to_child = u.parent_to_child /\ d.earliest_blocks = u.earliest_blocks
      /\ d.witnesses = [h \in Hash |-> IF h \in R THEN None ELSE u.witnesses[h]]
      /\ d.missing_bytecodes = [h \in Hash |-> IF h \in R THEN {} ELSE u.missing_bytecodes[h]]
  BY <1>1 DEF DropWitnesses, Buffer
<1> HIDE DEF d
<1>3. /\ f \in Buffer /\ f.blocks = d.blocks /\ f.lru = d.lru /\ f.witnesses = d.witnesses
      /\ f.missing_bytecodes = d.missing_bytecodes /\ f.earliest_blocks = d.earliest_blocks
      /\ f.parent_to_child =
             [p \in Hash \cup {Zero} |-> IF p \in D THEN {} ELSE d.parent_to_child[p]]
  BY <1>2 DEF Unlink, Buffer
<1> HIDE DEF f
<1>4. f = RemoveSet(b, R, D) BY DEF f, d, u, RemoveSet
<1>5. f.parent_to_child = [p \in Hash \cup {Zero} |->
          IF p \in D THEN {} ELSE b.parent_to_child[p] \ {h \in R : Parent[h] = p}]
  BY <1>1, <1>2, <1>3
<1>6. f.witnesses = [h \in Hash |-> IF h \in R THEN None ELSE b.witnesses[h]]
  BY <1>1, <1>2, <1>3
<1>7. f.missing_bytecodes = [h \in Hash |-> IF h \in R THEN {} ELSE b.missing_bytecodes[h]]
  BY <1>1, <1>2, <1>3
<1>8. f.blocks = b.blocks \ R /\ f.lru = LruWithout(b.lru, R)
  BY <1>1, <1>2, <1>3
<1>9. f.earliest_blocks = [n \in Numbers |-> b.earliest_blocks[n] \ {h \in R : Number[h] = n}]
  BY <1>1, <1>2, <1>3
<1>10. AllFields(f, b, R, D) BY <1>3, <1>5, <1>6, <1>7, <1>8, <1>9 DEF AllFields
<1> QED BY <1>4, <1>10

\* Removing R and then S is removing both.
LEMMA RemoveTwice ==
    ASSUME NEW b \in Buffer, NEW R \in SUBSET Hash, NEW S \in SUBSET Hash, NEW D, NEW E
    PROVE  RemoveSet(RemoveSet(b, R, D), S, E) = RemoveSet(b, R \cup S, D \cup E)
<1> DEFINE f == RemoveSet(b, R, D)
           g == RemoveSet(f, S, E)
           k == RemoveSet(b, R \cup S, D \cup E)
<1>1. AllFields(f, b, R, D) BY RemoveSetAll
<1> HIDE DEF f
<1>2. AllFields(g, f, S, E)
  <2>1. f \in Buffer BY <1>1 DEF AllFields
  <2> QED BY <2>1, RemoveSetAll
<1>3. AllFields(k, b, R \cup S, D \cup E)
  <2>1. R \cup S \in SUBSET Hash OBVIOUS
  <2> QED BY <2>1, RemoveSetAll
<1> HIDE DEF g, k
<1>4. g.blocks = k.blocks BY <1>1, <1>2, <1>3 DEF AllFields
<1>5. g.lru = k.lru BY <1>1, <1>2, <1>3 DEF LruWithout, AllFields
<1>6. \A h \in Hash : /\ g.witnesses[h] = k.witnesses[h]
                      /\ g.missing_bytecodes[h] = k.missing_bytecodes[h]
  BY <1>1, <1>2, <1>3 DEF AllFields
<1>7. \A p \in Hash \cup {Zero} : g.parent_to_child[p] = k.parent_to_child[p]
  <2> SUFFICES ASSUME NEW p \in Hash \cup {Zero} PROVE g.parent_to_child[p] = k.parent_to_child[p]
    OBVIOUS
  <2>1. f.parent_to_child[p] = IF p \in D THEN {} ELSE b.parent_to_child[p] \ {h \in R : Parent[h] = p}
    BY <1>1 DEF AllFields
  <2>2. g.parent_to_child[p] = IF p \in E THEN {} ELSE f.parent_to_child[p] \ {h \in S : Parent[h] = p}
    BY <1>2 DEF AllFields
  <2>3. k.parent_to_child[p] = IF p \in D \cup E THEN {}
                               ELSE b.parent_to_child[p] \ {h \in R \cup S : Parent[h] = p}
    BY <1>3 DEF AllFields
  <2> QED BY <2>1, <2>2, <2>3
<1>8. \A n \in Numbers : g.earliest_blocks[n] = k.earliest_blocks[n]
  BY <1>1, <1>2, <1>3 DEF AllFields
<1>9. g \in Buffer /\ k \in Buffer BY <1>2, <1>3 DEF AllFields
<1>10. g = k BY <1>4, <1>5, <1>6, <1>7, <1>8, <1>9, SameBuffer
<1> QED BY <1>10 DEF g, f, k

\* Removing nothing changes nothing.
LEMMA RemoveNothing == ASSUME NEW b \in Buffer PROVE RemoveSet(b, {}, {}) = b
<1> DEFINE k == RemoveSet(b, {}, {})
<1>1. AllFields(k, b, {}, {})
  <2>1. {} \in SUBSET Hash OBVIOUS
  <2> QED BY <2>1, RemoveSetAll
<1> HIDE DEF k
<1>2. k \in Buffer /\ k.blocks = b.blocks BY <1>1 DEF AllFields
<1>3. k.lru = b.lru BY <1>1 DEF LruWithout, AllFields
<1>4. \A h \in Hash : /\ k.witnesses[h] = b.witnesses[h]
                      /\ k.missing_bytecodes[h] = b.missing_bytecodes[h]
  BY <1>1 DEF AllFields
<1>5. \A p \in Hash \cup {Zero} : k.parent_to_child[p] = b.parent_to_child[p]
  BY <1>1 DEF AllFields
<1>6. \A n \in Numbers : k.earliest_blocks[n] = b.earliest_blocks[n]
  BY <1>1 DEF AllFields
<1>7. k = b BY <1>2, <1>3, <1>4, <1>5, <1>6, SameBuffer
<1> QED BY <1>7 DEF k

\* The links of a hash may as well go first, as in the loops.
LEMMA UnlinkFirst ==
    ASSUME NEW b \in Buffer, NEW R \in SUBSET Hash, NEW D
    PROVE  DropWitnesses(Unindex(Unlink(b, D), R), R) = RemoveSet(b, R, D)
<1> DEFINE i == Unlink(b, D)
           u == Unindex(i, R)
           f == DropWitnesses(u, R)
           k == RemoveSet(b, R, D)
<1>1. /\ i \in Buffer /\ i.blocks = b.blocks /\ i.lru = b.lru /\ i.witnesses = b.witnesses
      /\ i.missing_bytecodes = b.missing_bytecodes /\ i.earliest_blocks = b.earliest_blocks
      /\ i.parent_to_child =
             [p \in Hash \cup {Zero} |-> IF p \in D THEN {} ELSE b.parent_to_child[p]]
  BY DEF Unlink, Buffer
<1> HIDE DEF i
<1>2. /\ u \in Buffer /\ u.blocks = i.blocks \ R /\ u.witnesses = i.witnesses
      /\ u.missing_bytecodes = i.missing_bytecodes
      /\ u.lru = LruWithout(i.lru, R)
      /\ u.parent_to_child =
             [p \in Hash \cup {Zero} |-> i.parent_to_child[p] \ {h \in R : Parent[h] = p}]
      /\ u.earliest_blocks = [n \in Numbers |-> i.earliest_blocks[n] \ {h \in R : Number[h] = n}]
  BY <1>1, LruWithoutKeys DEF Unindex, RemoveFromEarliestBlocks, RemoveFromParent, Buffer
<1> HIDE DEF u
<1>3. /\ f \in Buffer /\ f.blocks = u.blocks /\ f.lru = u.lru
      /\ f.parent_to_child = u.parent_to_child /\ f.earliest_blocks = u.earliest_blocks
      /\ f.witnesses = [h \in Hash |-> IF h \in R THEN None ELSE u.witnesses[h]]
      /\ f.missing_bytecodes = [h \in Hash |-> IF h \in R THEN {} ELSE u.missing_bytecodes[h]]
  BY <1>2 DEF DropWitnesses, Buffer
<1> HIDE DEF f
<1>4. AllFields(k, b, R, D) BY RemoveSetAll
<1> HIDE DEF k
<1>5. \A p \in Hash \cup {Zero} : f.parent_to_child[p] = k.parent_to_child[p]
  <2> SUFFICES ASSUME NEW p \in Hash \cup {Zero} PROVE f.parent_to_child[p] = k.parent_to_child[p]
    OBVIOUS
  <2>1. f.parent_to_child[p] = (IF p \in D THEN {} ELSE b.parent_to_child[p]) \ {h \in R : Parent[h] = p}
    BY <1>1, <1>2, <1>3
  <2>2. k.parent_to_child[p] = IF p \in D THEN {} ELSE b.parent_to_child[p] \ {h \in R : Parent[h] = p}
    BY <1>4 DEF AllFields
  <2> QED BY <2>1, <2>2
<1>6. \A h \in Hash : /\ f.witnesses[h] = k.witnesses[h]
                      /\ f.missing_bytecodes[h] = k.missing_bytecodes[h]
  BY <1>1, <1>2, <1>3, <1>4 DEF AllFields
<1>7. f.blocks = k.blocks /\ f.lru = k.lru
  BY <1>1, <1>2, <1>3, <1>4 DEF AllFields
<1>8. \A n \in Numbers : f.earliest_blocks[n] = k.earliest_blocks[n]
  BY <1>1, <1>2, <1>3, <1>4 DEF AllFields
<1>9. f \in Buffer /\ k \in Buffer BY <1>3, <1>4 DEF AllFields
<1>10. f = k BY <1>5, <1>6, <1>7, <1>8, <1>9, SameBuffer
<1> QED BY <1>10 DEF f, u, i, k

-----------------------------------------------------------------------------
\* The blocks a walk takes out when it meets them: evict_block asks for no witness.
Out(b, on) == {x \in b.blocks : on = "remove" => ReadyWitness(b, x) # None}

\* The buffer at the end of a walk whose stack holds S, as if it went on at once.
Completed(b, on, S) == RemoveSet(b, Out(b, on) \cap Linked(b, S), Linked(b, S))

\* Reach(roots, next) is the least set that holds the roots and is closed under next.
LEMMA ReachLeast ==
    ASSUME NEW roots, NEW next, NEW S \in SUBSET Hash, roots \subseteq S, Closed(S, next)
    PROVE  Reach(roots, next) \subseteq S
BY DEF Reach

\* Links to the hashes a walk starts from do not matter.
LEMMA ReachStart ==
    ASSUME NEW S \in SUBSET Hash,
           NEW next \in [Hash \cup {Zero} -> SUBSET Hash],
           NEW left \in [Hash \cup {Zero} -> SUBSET Hash],
           \A x \in Hash : left[x] \subseteq next[x] /\ next[x] \subseteq left[x] \cup S
    PROVE  Reach(S, next) = Reach(S, left)
<1> DEFINE L == Reach(S, next)
           K == Reach(S, left)
<1>1. L \in SUBSET Hash /\ K \in SUBSET Hash BY ReachInHash
<1>2. S \subseteq L /\ S \subseteq K BY ReachRoots
<1>3. \A x \in L : next[x] \subseteq L BY ReachClosed
<1>4. \A x \in K : left[x] \subseteq K BY ReachClosed
<1> HIDE DEF L, K
<1>5. Closed(L, left) BY <1>1, <1>3 DEF Closed
<1>6. Closed(K, next) BY <1>1, <1>2, <1>4 DEF Closed
<1>7. K \subseteq L BY <1>1, <1>2, <1>5, ReachLeast DEF K
<1>8. L \subseteq K BY <1>1, <1>2, <1>6, ReachLeast DEF L
<1> QED BY <1>7, <1>8 DEF L, K

\* What is still to be taken out after a removal.
LEMMA OutAfter ==
    ASSUME NEW b \in Buffer, NEW R \in SUBSET Hash, NEW D, NEW on
    PROVE  Out(RemoveSet(b, R, D), on) = Out(b, on) \ R
<1> DEFINE f == RemoveSet(b, R, D)
<1>1. AllFields(f, b, R, D) BY RemoveSetAll
<1>2. b.blocks \subseteq Hash BY DEF Buffer
<1> HIDE DEF f
<1>3. \A x \in b.blocks : x \notin R => /\ f.witnesses[x] = b.witnesses[x]
                                        /\ f.missing_bytecodes[x] = b.missing_bytecodes[x]
  BY <1>1, <1>2 DEF AllFields
<1>4. f.blocks = b.blocks \ R BY <1>1 DEF AllFields
<1>5. Out(f, on) = Out(b, on) \ R BY <1>3, <1>4 DEF Out, ReadyWitness
<1> QED BY <1>5 DEF f

\* A walk with an empty stack is complete.
LEMMA CompletedDone ==
    ASSUME NEW b \in Buffer, NEW on PROVE Completed(b, on, {}) = b
<1>1. {} \in SUBSET Hash /\ {} \subseteq {} /\ Closed({}, b.parent_to_child) BY DEF Closed
<1>2. Linked(b, {}) = {}
  <2>1. Reach({}, b.parent_to_child) \subseteq {} BY <1>1, ReachLeast
  <2> QED BY <2>1 DEF Linked
<1>3. Completed(b, on, {}) = RemoveSet(b, {}, {}) BY <1>2 DEF Completed
<1> QED BY <1>3, RemoveNothing

\* Taking out the hashes a walk starts from is the start of the walk.
LEMMA WalkStart ==
    ASSUME NEW b, BufferOK(b), NEW on, NEW S \in SUBSET Hash,
           NEW f, f = RemoveSet(b, Out(b, on) \cap S, {})
    PROVE  Completed(f, on, S) = Completed(b, on, S) /\ Out(f, on) \cap S = {}
<1> DEFINE R == Out(b, on) \cap S
           L == Linked(b, S)
<1>0. f = RemoveSet(b, R, {}) OBVIOUS
<1>1. b \in Buffer BY DEF BufferOK
<1>2. R \in SUBSET Hash /\ R \subseteq S OBVIOUS
<1> HIDE DEF R
<1>3. AllFields(f, b, R, {}) BY <1>0, <1>1, <1>2, RemoveSetAll
<1>4. Out(f, on) = Out(b, on) \ R BY <1>0, <1>1, <1>2, OutAfter
<1>5. Linked(f, S) = L
  <2>1. /\ f.parent_to_child \in [Hash \cup {Zero} -> SUBSET Hash]
        /\ b.parent_to_child \in [Hash \cup {Zero} -> SUBSET Hash]
    BY <1>1, <1>3 DEF AllFields, Buffer
  <2>2. \A x \in Hash : /\ f.parent_to_child[x] \subseteq b.parent_to_child[x]
                        /\ b.parent_to_child[x] \subseteq f.parent_to_child[x] \cup S
    <3> SUFFICES ASSUME NEW x \in Hash
                 PROVE  /\ f.parent_to_child[x] \subseteq b.parent_to_child[x]
                        /\ b.parent_to_child[x] \subseteq f.parent_to_child[x] \cup S
      OBVIOUS
    <3>1. f.parent_to_child[x] = b.parent_to_child[x] \ {h \in R : Parent[h] = x}
      BY <1>3 DEF AllFields
    <3> QED BY <1>2, <3>1
  <2>3. Reach(S, b.parent_to_child) = Reach(S, f.parent_to_child) BY <2>1, <2>2, ReachStart
  <2> QED BY <2>3 DEF Linked
<1>6. S \subseteq L /\ L \in SUBSET Hash BY ReachRoots, ReachInHash DEF Linked
<1> HIDE DEF L
<1>7. Completed(f, on, S) = RemoveSet(b, R \cup (Out(f, on) \cap L), {} \cup L)
  <2>1. Out(f, on) \cap L \in SUBSET Hash BY <1>6
  <2>2. RemoveSet(f, Out(f, on) \cap L, L) = RemoveSet(b, R \cup (Out(f, on) \cap L), {} \cup L)
    BY <1>0, <1>1, <1>2, <2>1, RemoveTwice
  <2> QED BY <1>5, <2>2 DEF Completed
<1>8. R \cup (Out(f, on) \cap L) = Out(b, on) \cap L /\ {} \cup L = L
  BY <1>4, <1>6 DEF R
<1>9. Completed(f, on, S) = Completed(b, on, S) BY <1>7, <1>8 DEF Completed, L
<1>10. Out(f, on) \cap S = {} BY <1>4 DEF R
<1> QED BY <1>9, <1>10

\* A round of a walk is a part of the walk, and the rest is still to be done.
LEMMA WalkRound ==
    ASSUME NEW b, BufferOK(b), NEW on, NEW T \in SUBSET Hash, NEW top \in Hash,
           top \notin Out(b, on), \A x \in T : x \notin Out(b, on)
    PROVE  LET links == b.parent_to_child[top]
               f == RemoveSet(b, Out(b, on) \cap links, {top})
           IN  /\ Completed(f, on, T \cup links) = Completed(b, on, T \cup {top})
               /\ Out(f, on) \cap (T \cup links) = {}
<1> DEFINE links == b.parent_to_child[top]
<1> SUFFICES ASSUME NEW f, f = RemoveSet(b, Out(b, on) \cap links, {top})
             PROVE  /\ Completed(f, on, T \cup links) = Completed(b, on, T \cup {top})
                    /\ Out(f, on) \cap (T \cup links) = {}
  OBVIOUS
<1> DEFINE R == Out(b, on) \cap links
           L == Linked(b, T \cup {top})
           K == Linked(f, T \cup links)
<1>0. f = RemoveSet(b, R, {top}) OBVIOUS
<1>1. b \in Buffer /\ LinksBuffered(b) BY DEF BufferOK
<1>2. links \in SUBSET Hash /\ \A h \in links : Parent[h] = top BY <1>1 DEF Buffer, LinksBuffered
<1>3. R \in SUBSET Hash /\ R \subseteq links BY <1>2
<1> HIDE DEF R
<1>4. AllFields(f, b, R, {top}) BY <1>0, <1>1, <1>3, RemoveSetAll
<1>5. Out(f, on) = Out(b, on) \ R BY <1>0, <1>1, <1>3, OutAfter
<1>6. L = {top} \cup K
  <2>1. /\ f.parent_to_child \in [Hash \cup {Zero} -> SUBSET Hash]
        /\ b.parent_to_child \in [Hash \cup {Zero} -> SUBSET Hash]
    BY <1>1, <1>4 DEF AllFields, Buffer
  <2>2. /\ f.parent_to_child[top] = {}
        /\ \A x \in Hash \ {top} : f.parent_to_child[x] = b.parent_to_child[x]
    <3>1. f.parent_to_child[top] = {} BY <1>4 DEF AllFields
    <3>2. ASSUME NEW x \in Hash \cup {Zero}, x # top
          PROVE  f.parent_to_child[x] = b.parent_to_child[x]
      <4>1. f.parent_to_child[x] = b.parent_to_child[x] \ {h \in R : Parent[h] = x}
        BY <1>4, <3>2 DEF AllFields
      <4>2. {h \in R : Parent[h] = x} = {} BY <1>2, <1>3, <3>2
      <4> QED BY <4>1, <4>2
    <3> QED BY <2>1, <3>1, <3>2
  <2>3. T \cup {top} \in SUBSET Hash /\ T \cup links \in SUBSET Hash BY <1>2
  <2>4. T \cup {top} \subseteq L /\ T \cup links \subseteq K BY <2>3, ReachRoots DEF Linked
  <2>5. \A x \in L : b.parent_to_child[x] \subseteq L BY <2>1, <2>3, ReachClosed DEF Linked
  <2>6. \A x \in K : f.parent_to_child[x] \subseteq K BY <2>1, <2>3, ReachClosed DEF Linked
  <2>7. L \in SUBSET Hash /\ K \in SUBSET Hash BY ReachInHash DEF Linked
  <2> HIDE DEF L, K
  <2>8. K \subseteq L
    <3>1. T \cup links \subseteq L BY <2>4, <2>5
    <3>2. Closed(L, f.parent_to_child) BY <2>2, <2>5, <2>7 DEF Closed
    <3> QED BY <2>7, <3>1, <3>2, ReachLeast DEF K, Linked
  <2>9. L \subseteq {top} \cup K
    <3>1. T \cup {top} \subseteq {top} \cup K BY <2>4
    <3>2. Closed({top} \cup K, b.parent_to_child) BY <2>2, <2>4, <2>6, <2>7 DEF Closed
    <3>3. {top} \cup K \in SUBSET Hash BY <2>7
    <3> QED BY <3>1, <3>2, <3>3, ReachLeast DEF L, Linked
  <2> QED BY <2>4, <2>8, <2>9
<1>7. links \subseteq K /\ K \in SUBSET Hash
  <2>1. T \cup links \in SUBSET Hash BY <1>2
  <2>2. T \cup links \subseteq K BY <2>1, ReachRoots DEF Linked
  <2> QED BY <2>2, ReachInHash DEF Linked
<1> HIDE DEF L, K
<1>8. Completed(f, on, T \cup links) = RemoveSet(b, R \cup (Out(f, on) \cap K), {top} \cup K)
  <2>1. Out(f, on) \cap K \in SUBSET Hash BY <1>7
  <2>2. RemoveSet(f, Out(f, on) \cap K, K) = RemoveSet(b, R \cup (Out(f, on) \cap K), {top} \cup K)
    <3> DEFINE S == Out(f, on) \cap K
    <3>1. S \in SUBSET Hash BY <2>1
    <3> HIDE DEF S
    <3>2. RemoveSet(RemoveSet(b, R, {top}), S, K) = RemoveSet(b, R \cup S, {top} \cup K)
      BY <1>1, <1>3, <3>1, RemoveTwice
    <3> QED BY <1>0, <3>2 DEF S
  <2> QED BY <2>2 DEF Completed, K
<1>9. R \cup (Out(f, on) \cap K) = Out(b, on) \cap L BY <1>5, <1>6, <1>7 DEF R
<1>10. Completed(f, on, T \cup links) = Completed(b, on, T \cup {top})
  BY <1>6, <1>8, <1>9 DEF Completed, L
<1>11. Out(f, on) \cap (T \cup links) = {} BY <1>5 DEF R
<1> QED BY <1>10, <1>11

\* Dropping no links changes nothing.
LEMMA UnlinkNothing == ASSUME NEW b \in Buffer PROVE Unlink(b, {}) = b
<1>1. [p \in Hash \cup {Zero} |-> IF p \in {} THEN {} ELSE b.parent_to_child[p]] = b.parent_to_child
  BY DEF Buffer
<1> QED BY <1>1 DEF Unlink, Buffer

\* remove_block is a removal of the block, if its witness is complete.
LEMMA RemoveStartIs ==
    ASSUME NEW b, BufferOK(b), NEW h \in Hash
    PROVE  RemoveBlock(b, h) = RemoveSet(b, Out(b, "remove") \cap {h}, {})
<1> DEFINE R == Out(b, "remove") \cap {h}
<1>1. b \in Buffer BY DEF BufferOK
<1>2. CASE Removable(b, h)
  <2>1. R = {h} BY <1>2 DEF Removable, Out
  <2>2. DropWitnesses(Unindex(Unlink(b, {}), {h}), {h}) = RemoveSet(b, {h}, {})
    <3> DEFINE S == {h}
    <3>1. S \in SUBSET Hash OBVIOUS
    <3> HIDE DEF S
    <3>2. DropWitnesses(Unindex(Unlink(b, {}), S), S) = RemoveSet(b, S, {})
      BY <1>1, <3>1, UnlinkFirst
    <3> QED BY <3>2 DEF S
  <2>3. Unlink(b, {}) = b BY <1>1, UnlinkNothing
  <2> QED BY <1>2, <2>1, <2>2, <2>3 DEF RemoveBlock
<1>3. CASE ~Removable(b, h)
  <2>1. R = {} BY <1>3 DEF Removable, Out
  <2>2. RemoveSet(b, {}, {}) = b BY <1>1, RemoveNothing
  <2> QED BY <1>3, <2>1, <2>2 DEF RemoveBlock
<1> QED BY <1>2, <1>3

\* remove_block_with_children is a walk from the block.
LEMMA RemoveIs ==
    ASSUME NEW b, NEW h
    PROVE  RemoveBlockWithChildren(b, h) = Completed(b, "remove", {h})
<1>1. {x \in Linked(b, {h}) : Removable(b, x)} = Out(b, "remove") \cap Linked(b, {h})
  BY DEF Removable, Out
<1> QED BY <1>1 DEF RemoveBlockWithChildren, Completed, RemoveSet

\* A round of remove_children is a removal.
LEMMA RemoveRoundIs ==
    ASSUME NEW b \in Buffer, NEW top \in Hash, NEW links, links = b.parent_to_child[top]
    PROVE  LET complete == {h \in links : Removable(b, h)}
           IN  DropWitnesses(Unindex(Unlink(b, {top}), complete), complete)
                   = RemoveSet(b, Out(b, "remove") \cap links, {top})
<1> DEFINE complete == {h \in links : Removable(b, h)}
<1>1. complete = Out(b, "remove") \cap links BY DEF Removable, Out
<1>2. complete \in SUBSET Hash BY DEF Buffer
<1> HIDE DEF complete
<1>3. DropWitnesses(Unindex(Unlink(b, {top}), complete), complete)
          = RemoveSet(b, complete, {top})
  BY <1>2, UnlinkFirst
<1> QED BY <1>1, <1>3 DEF complete

\* A round of evict_children is a removal.
LEMMA EvictRoundIs ==
    ASSUME NEW b \in Buffer, NEW top \in Hash, NEW links, links = b.parent_to_child[top]
    PROVE  EvictBlocks(Unlink(b, {top}), links) = RemoveSet(b, Out(b, "evict") \cap links, {top})
<1> DEFINE R == links \cap b.blocks
<1>1. R = Out(b, "evict") \cap links BY DEF Out
<1>2. R \in SUBSET Hash BY DEF Buffer
<1>3. EvictBlocks(Unlink(b, {top}), links) = DropWitnesses(Unindex(Unlink(b, {top}), R), R)
  <2>1. Unlink(b, {top}).blocks = b.blocks BY DEF Unlink, Buffer
  <2> QED BY <2>1 DEF EvictBlocks
<1> HIDE DEF R
<1>4. DropWitnesses(Unindex(Unlink(b, {top}), R), R) = RemoveSet(b, R, {top})
  BY <1>2, UnlinkFirst
<1> QED BY <1>1, <1>3, <1>4

\* evict_old_blocks is a walk from the old blocks, which it takes out first.
LEMMA EvictIs ==
    ASSUME NEW b, BufferOK(b), NEW n \in Numbers
    PROVE  LET low == {m \in Numbers : m <= n}
               old == UNION {b.earliest_blocks[m] : m \in low}
           IN  /\ old \in SUBSET Hash
               /\ EvictOldBlocks(b, n) = Completed(b, "evict", old)
               /\ EvictBlocks([b EXCEPT !.earliest_blocks =
                                  [m \in Numbers |-> IF m \in low THEN {} ELSE @[m]]], old)
                      = RemoveSet(b, Out(b, "evict") \cap old, {})
<1> DEFINE low == {m \in Numbers : m <= n}
           old == UNION {b.earliest_blocks[m] : m \in low}
           kept == [b EXCEPT !.earliest_blocks =
                       [m \in Numbers |-> IF m \in low THEN {} ELSE @[m]]]
<1>1. b \in Buffer /\ EarliestIndexes(b) BY DEF BufferOK
<1>2. old \subseteq b.blocks /\ old \in SUBSET Hash BY <1>1 DEF EarliestIndexes, Buffer
<1>3. ASSUME NEW R \in SUBSET Hash, old \subseteq R, R \subseteq b.blocks
      PROVE  Unindex(kept, R) = Unindex(b, R)
  <2>1. \A m \in Numbers : m \in low => b.earliest_blocks[m] = {h \in R : Number[h] = m}
    <3> SUFFICES ASSUME NEW m \in Numbers, m \in low
                 PROVE  b.earliest_blocks[m] = {h \in R : Number[h] = m}
      OBVIOUS
    <3>1. b.earliest_blocks[m] \subseteq old OBVIOUS
    <3>2. b.earliest_blocks[m] = {h \in b.blocks : Number[h] = m} BY <1>1 DEF EarliestIndexes
    <3> QED BY <1>3, <3>1, <3>2
  <2>2. RemoveFromEarliestBlocks([m \in Numbers |-> IF m \in low THEN {} ELSE b.earliest_blocks[m]], R)
            = RemoveFromEarliestBlocks(b.earliest_blocks, R)
    BY <2>1 DEF RemoveFromEarliestBlocks
  <2> QED BY <1>1, <2>2 DEF Unindex, Buffer
<1>4. kept.blocks = b.blocks BY <1>1 DEF Buffer
<1>5. EvictBlocks(kept, old) = RemoveSet(b, Out(b, "evict") \cap old, {})
  <2> DEFINE R == old \cap b.blocks
  <2>1. R = old /\ R = Out(b, "evict") \cap old BY <1>2 DEF Out
  <2>2. EvictBlocks(kept, old) = DropWitnesses(Unindex(b, old), old)
    BY <1>2, <1>3, <1>4, <2>1 DEF EvictBlocks
  <2>3. DropWitnesses(Unindex(Unlink(b, {}), old), old) = RemoveSet(b, old, {})
    BY <1>1, <1>2, UnlinkFirst
  <2>4. Unlink(b, {}) = b BY <1>1, UnlinkNothing
  <2> QED BY <2>1, <2>2, <2>3, <2>4
<1>6. EvictOldBlocks(b, n) = Completed(b, "evict", old)
  <2> DEFINE walked == Linked(b, old)
             R == walked \cap b.blocks
  <2>1. old \subseteq walked /\ walked \subseteq Hash BY <1>2, ReachRoots, ReachInHash DEF Linked
  <2> HIDE DEF walked
  <2>2. R \in SUBSET Hash /\ old \subseteq R /\ R \subseteq b.blocks BY <1>2, <2>1
  <2>3. Unindex(kept, R) = Unindex(b, R) BY <1>3, <2>2
  <2>4. EvictOldBlocks(b, n) = Unlink(EvictBlocks(kept, walked), walked)
    <3>1. kept = [b EXCEPT !.earliest_blocks = [m \in Numbers |-> IF m <= n THEN {} ELSE @[m]]]
      OBVIOUS
    <3>2. \A k : k = [b EXCEPT !.earliest_blocks = [m \in Numbers |-> IF m <= n THEN {} ELSE @[m]]]
                   => EvictOldBlocks(b, n) = Unlink(EvictBlocks(k, Linked(b, old)), Linked(b, old))
      BY DEF EvictOldBlocks
    <3> QED BY <3>1, <3>2 DEF walked
  <2>5. EvictBlocks(kept, walked) = DropWitnesses(Unindex(b, R), R)
    BY <1>4, <2>3 DEF EvictBlocks
  <2>6. R = Out(b, "evict") \cap walked BY DEF Out
  <2>7. EvictOldBlocks(b, n) = RemoveSet(b, R, walked) BY <2>4, <2>5 DEF RemoveSet
  <2> QED BY <2>6, <2>7 DEF Completed, walked
<1> QED BY <1>2, <1>5, <1>6

\* The elements of a set in any order: every element once.
LEMMA SeqOfSet ==
    ASSUME NEW S \in SUBSET Hash, NEW s \in SetToSeqs(S)
    PROVE  /\ s \in Seq(Hash) /\ Range(s) = S
           /\ \A i, j \in DOMAIN s : s[i] = s[j] => i = j
<1> DEFINE n == Cardinality(S)
<1>1. IsFiniteSet(S) BY HashAssumption, FS_Subset
<1>2. n \in Nat BY <1>1, FS_CardinalityType
<1>3. s \in [1..n -> S] /\ \A i, j \in 1..n : i # j => s[i] # s[j] BY DEF SetToSeqs
<1>4. s \in Seq(Hash)
  <2>1. s \in [1..n -> Hash] BY <1>3
  <2> HIDE DEF n
  <2> QED BY <1>2, <2>1, SeqDef
<1>5. s \in Injection(1..n, S) BY <1>3 DEF Injection, IsInjective
<1>6. Cardinality(1..n) = n
  <2>1. n - 1 + 1 = n BY <1>2
  <2> HIDE DEF n
  <2> QED BY <1>2, FS_Interval
<1>7. s \in Surjection(1..n, S)
  <2> HIDE DEF n
  <2>1. Cardinality(1..n) = Cardinality(S) <=> s \in Surjection(1..n, S)
    BY <1>1, <1>5, FS_Injection
  <2> QED BY <1>6, <2>1 DEF n
<1>8. \A t \in S : \E i \in 1..n : s[i] = t BY <1>7 DEF Surjection
<1> HIDE DEF n
<1>9. Range(s) = S BY <1>3, <1>8 DEF Range
<1> QED BY <1>3, <1>4, <1>9

\* What is in a sequence that is put after another.
LEMMA RangeConcat ==
    ASSUME NEW s \in Seq(Hash), NEW t \in Seq(Hash)
    PROVE  s \o t \in Seq(Hash) /\ Range(s \o t) = Range(s) \cup Range(t)
<1>1. /\ s \o t \in Seq(Hash) /\ Len(s \o t) = Len(s) + Len(t)
      /\ \A i \in 1 .. Len(s) + Len(t) :
             (s \o t)[i] = IF i <= Len(s) THEN s[i] ELSE t[i - Len(s)]
  BY ConcatProperties
<1>2. /\ Len(s) \in Nat /\ Len(t) \in Nat /\ DOMAIN s = 1..Len(s) /\ DOMAIN t = 1..Len(t)
      /\ DOMAIN (s \o t) = 1..(Len(s) + Len(t))
  BY <1>1, LenProperties
<1>3. \A i \in DOMAIN s : i \in DOMAIN (s \o t) /\ (s \o t)[i] = s[i] BY <1>1, <1>2
<1>4. \A i \in DOMAIN t : Len(s) + i \in DOMAIN (s \o t) /\ (s \o t)[Len(s) + i] = t[i]
  BY <1>1, <1>2
<1>5. \A i \in DOMAIN (s \o t) : \/ i \in DOMAIN s /\ (s \o t)[i] = s[i]
                                 \/ i - Len(s) \in DOMAIN t /\ (s \o t)[i] = t[i - Len(s)]
  BY <1>1, <1>2
<1>6. Range(s \o t) \subseteq Range(s) \cup Range(t) BY <1>5 DEF Range
<1>7. Range(s) \subseteq Range(s \o t) BY <1>3 DEF Range
<1>8. Range(t) \subseteq Range(s \o t) BY <1>4 DEF Range
<1> QED BY <1>1, <1>6, <1>7, <1>8

\* The hash on top of the stack and what is below it.
LEMMA StackTop ==
    ASSUME NEW s \in Seq(Hash), s # <<>>
    PROVE  /\ Last(s) \in Hash /\ Front(s) \in Seq(Hash)
           /\ Range(Front(s)) \in SUBSET Hash
           /\ Range(s) = Range(Front(s)) \cup {Last(s)}
<1>1. Len(s) \in Nat /\ Len(s) # 0 /\ DOMAIN s = 1..Len(s) /\ \A i \in 1..Len(s) : s[i] \in Hash
  BY EmptySeq, LenProperties, ElementOfSeq
<1>2. Last(s) \in Hash BY <1>1 DEF Last
<1>3. /\ Front(s) \in Seq(Hash)
      /\ Len(Front(s)) = Len(s) - 1
      /\ \A i \in 1..(Len(s) - 1) : Front(s)[i] = s[i]
  <2>1. \A i \in 1..(Len(s) - 1) : s[i] \in Hash BY <1>1
  <2>2. 1 \in Int /\ Len(s) - 1 \in Int BY <1>1
  <2>3. /\ SubSeq(s, 1, Len(s) - 1) \in Seq(Hash)
        /\ Len(SubSeq(s, 1, Len(s) - 1)) = IF 1 <= Len(s) - 1 THEN Len(s) - 1 - 1 + 1 ELSE 0
        /\ \A i \in 1 .. (Len(s) - 1) - 1 + 1 : SubSeq(s, 1, Len(s) - 1)[i] = s[1 + i - 1]
    BY <2>1, <2>2, SubSeqProperties
  <2> QED BY <1>1, <2>3 DEF Front
<1>4. DOMAIN Front(s) = 1..(Len(s) - 1) BY <1>3, LenProperties
<1>5. Range(s) = Range(Front(s)) \cup {Last(s)}
  <2>1. Range(s) = {s[i] : i \in 1..Len(s)} BY <1>1 DEF Range
  <2>2. Range(Front(s)) = {s[i] : i \in 1..(Len(s) - 1)} BY <1>3, <1>4 DEF Range
  <2>3. \A i \in 1..Len(s) : i = Len(s) \/ i \in 1..(Len(s) - 1)
    <3>1. \A n \in Nat : \A i \in 1..n : i = n \/ i \in 1..(n - 1) OBVIOUS
    <3> QED BY <1>1, <3>1
  <2>4. Len(s) \in 1..Len(s) /\ \A i \in 1..(Len(s) - 1) : i \in 1..Len(s) BY <1>1
  <2> QED BY <2>1, <2>2, <2>3, <2>4 DEF Last
<1>6. Range(s) \in SUBSET Hash BY <1>1 DEF Range
<1> QED BY <1>2, <1>3, <1>5, <1>6

-----------------------------------------------------------------------------
\* What the operation under way will have done to the buffer it was called on.
Intended == IF Walking("remove") THEN RemoveBlockWithChildren(before, operation.at)
                                 ELSE EvictOldBlocks(before, operation.at)

\* The walk came to v from the hash it started from and dropped the links on the way.
CameTo(v) == /\ operation.at \in Ancestry[v]
             /\ \A c \in Ancestry[v] : Number[c] > Number[operation.at]
                                         => c \notin buffer.parent_to_child[Parent[c]]

(***************************************************************************)
(* The inductive invariant of the loops: what is left to be walked         *)
(* completes the operation, the hashes on the stack have been dealt with,  *)
(* and no block that was met can be met again.                             *)
(***************************************************************************)
WalkInv ==
    /\ BufferOK(buffer)
    /\ remove_parent_children \in Seq(Hash) /\ removed_blocks \in Seq(Hash)
    /\ \/ operation = NoWalk /\ remove_parent_children = <<>> /\ removed_blocks = <<>>
       \/ /\ operation \in [on : {"remove"}, at : Hash]
          /\ \A v \in Range(remove_parent_children) \cup Range(removed_blocks) : CameTo(v)
       \/ operation \in [on : {"evict"}, at : Numbers] /\ removed_blocks = <<>>
    /\ ~Walking("none") =>
           /\ BufferOK(before)
           /\ Completed(buffer, operation.on, Range(remove_parent_children)) = Intended
           /\ Out(buffer, operation.on) \cap Range(remove_parent_children) = {}
    /\ ParentsFirst

\* No walk: nothing is on the stack and nothing is to be returned.
LEMMA NoWalkIs == WalkInv /\ Walking("none") => /\ operation = NoWalk
                                               /\ remove_parent_children = <<>>
                                               /\ removed_blocks = <<>>
BY DEF WalkInv, Walking

\* WalkInv while no operation is under way.
LEMMA IdleInv ==
    ASSUME BufferOK(buffer), operation = NoWalk,
           remove_parent_children = <<>>, removed_blocks = <<>>
    PROVE  WalkInv
<1>1. <<>> \in Seq(Hash) BY EmptySeq
<1>2. Walking("none") BY DEF Walking, NoWalk
<1>3. ParentsFirst BY DEF ParentsFirst
<1> QED BY <1>1, <1>2, <1>3 DEF WalkInv

\* The loops start from a new buffer with no walk under way.
LEMMA WalkInitInv == WalkInit => WalkInv
BY NewBufferOK, IdleInv DEF WalkInit, Init

\* A removal keeps the buffer consistent.
LEMMA RemovalOK ==
    ASSUME NEW b, BufferOK(b), NEW on, NEW S, NEW D
    PROVE  BufferOK(RemoveSet(b, Out(b, on) \cap S, D))
<1> DEFINE R == Out(b, on) \cap S
<1>1. R \in SUBSET Hash BY DEF Out, BufferOK, Buffer
<1> HIDE DEF R
<1>2. BufferOK(Unlink(DropWitnesses(Unindex(b, R), R), D)) BY <1>1, RemoveSetOK
<1> QED BY <1>2 DEF RemoveSet, R

\* The sequences of at most one hash.
LEMMA OneHash ==
    ASSUME NEW h \in Hash
    PROVE  <<h>> \in Seq(Hash) /\ Range(<<h>>) = {h} /\ Range(<<>>) = {}
<1>1. DOMAIN <<h>> = {1} /\ <<h>>[1] = h OBVIOUS
<1>2. DOMAIN <<>> = {} OBVIOUS
<1> QED BY <1>1, <1>2 DEF Range

\* remove_block_with_children starts from the block it is called with.
LEMMA StartRemoveInv ==
    ASSUME WalkInv, NEW h \in Hash, StartRemove(h) PROVE WalkInv'
<1>1. /\ operation' = [on |-> "remove", at |-> h] /\ before' = buffer
      /\ buffer' = RemoveBlock(buffer, h)
      /\ removed_blocks' = IF Removable(buffer, h) THEN <<h>> ELSE <<>>
      /\ remove_parent_children' = <<h>>
  BY DEF StartRemove, Start
<1>2. BufferOK(buffer) BY DEF WalkInv
<1>3. <<h>> \in Seq(Hash) /\ <<>> \in Seq(Hash) /\ Range(<<h>>) = {h} /\ Range(<<>>) = {}
  BY OneHash, EmptySeq
<1>4. buffer' = RemoveSet(buffer, Out(buffer, "remove") \cap {h}, {})
  BY <1>1, <1>2, RemoveStartIs
<1>5. BufferOK(buffer') BY <1>2, <1>4, RemovalOK
<1>6. /\ Completed(buffer', "remove", {h}) = Completed(buffer, "remove", {h})
      /\ Out(buffer', "remove") \cap {h} = {}
  <2> DEFINE S == {h}
  <2>1. S \in SUBSET Hash /\ buffer' = RemoveSet(buffer, Out(buffer, "remove") \cap S, {})
    BY <1>4
  <2> HIDE DEF S
  <2>2. /\ Completed(buffer', "remove", S) = Completed(buffer, "remove", S)
        /\ Out(buffer', "remove") \cap S = {}
    BY <1>2, <2>1, WalkStart
  <2> QED BY <2>2 DEF S
<1>7. Intended' = Completed(buffer, "remove", {h})
  BY <1>1, RemoveIs DEF Intended, Walking
<1>8. \A v \in {h} : CameTo(v)'
  <2>1. h \in Ancestry[h] /\ \A c \in Ancestry[h] : c = h \/ Number[c] < Number[h]
    BY AncestryContains, AncestryLower
  <2>2. Number[h] \in Nat /\ \A c \in Ancestry[h] : Number[c] \in Nat
    BY <2>1, AncestryContains, ParentAssumption
  <2>3. \A c \in Ancestry[h] : ~(Number[c] > Number[h]) BY <2>1, <2>2
  <2> QED BY <1>1, <2>1, <2>3 DEF CameTo
<1>9. Range(remove_parent_children') \cup Range(removed_blocks') = {h}
  BY <1>1, <1>3
<1>10. ParentsFirst'
  <2>1. \A i, j \in DOMAIN removed_blocks' : i = j /\ i \in Nat
    <3>1. DOMAIN <<h>> = {1} /\ DOMAIN <<>> = {} OBVIOUS
    <3> QED BY <1>1, <3>1
  <2> QED BY <2>1 DEF ParentsFirst
<1>11. /\ operation' \in [on : {"remove"}, at : Hash] /\ operation'.on = "remove"
       /\ ~Walking("none")'
  BY <1>1 DEF Walking
<1>12. remove_parent_children' \in Seq(Hash) /\ removed_blocks' \in Seq(Hash) BY <1>1, <1>3
<1>13. /\ Completed(buffer', operation'.on, Range(remove_parent_children')) = Intended'
       /\ Out(buffer', operation'.on) \cap Range(remove_parent_children') = {}
  BY <1>1, <1>3, <1>6, <1>7, <1>11
<1> QED BY <1>1, <1>2, <1>5, <1>8, <1>9, <1>10, <1>11, <1>12, <1>13 DEF WalkInv

\* evict_old_blocks starts from the old blocks.
LEMMA StartEvictInv ==
    ASSUME WalkInv, NEW n \in Numbers, StartEvict(n) PROVE WalkInv'
<1> DEFINE low == {m \in Numbers : m <= n}
           old == UNION {buffer.earliest_blocks[m] : m \in low}
           kept == [buffer EXCEPT !.earliest_blocks = [m \in Numbers |-> IF m \in low THEN {} ELSE @[m]]]
<1>1. /\ operation' = [on |-> "evict", at |-> n] /\ before' = buffer
      /\ buffer' = EvictBlocks(kept, old)
      /\ remove_parent_children' \in SetToSeqs(old) /\ removed_blocks' = removed_blocks
      /\ Walking("none")
  BY DEF StartEvict, Start
<1>2. BufferOK(buffer) /\ removed_blocks = <<>> BY <1>1, NoWalkIs DEF WalkInv
<1>3. /\ old \in SUBSET Hash /\ EvictOldBlocks(buffer, n) = Completed(buffer, "evict", old)
      /\ EvictBlocks(kept, old) = RemoveSet(buffer, Out(buffer, "evict") \cap old, {})
  BY <1>2, EvictIs
<1> HIDE DEF kept, old
<1>12. buffer' = RemoveSet(buffer, Out(buffer, "evict") \cap old, {}) BY <1>1, <1>3
<1>4. BufferOK(buffer') BY <1>2, <1>12, RemovalOK
<1>5. remove_parent_children' \in Seq(Hash) /\ Range(remove_parent_children') = old
  BY <1>1, <1>3, SeqOfSet
<1>6. /\ Completed(buffer', "evict", old) = Completed(buffer, "evict", old)
      /\ Out(buffer', "evict") \cap old = {}
  <2>1. old \in SUBSET Hash BY <1>3
  <2> QED BY <1>2, <1>12, <2>1, WalkStart
<1>7. Intended' = Completed(buffer, "evict", old) BY <1>1, <1>3 DEF Intended, Walking
<1>8. /\ operation' \in [on : {"evict"}, at : Numbers] /\ operation'.on = "evict"
      /\ ~Walking("none")'
  BY <1>1 DEF Walking
<1>9. removed_blocks' = <<>> /\ <<>> \in Seq(Hash) BY <1>1, <1>2, EmptySeq
<1>10. ParentsFirst' BY <1>9 DEF ParentsFirst
<1>11. /\ Completed(buffer', operation'.on, Range(remove_parent_children')) = Intended'
       /\ Out(buffer', operation'.on) \cap Range(remove_parent_children') = {}
  BY <1>5, <1>6, <1>7, <1>8
<1> QED BY <1>1, <1>2, <1>4, <1>5, <1>8, <1>9, <1>10, <1>11 DEF WalkInv

\* The walk under way, by the name of its operation.
LEMMA WalkIs ==
    ASSUME WalkInv
    PROVE  /\ Walking("remove") =>
                  /\ operation \in [on : {"remove"}, at : Hash] /\ operation.on = "remove"
                  /\ \A v \in Range(remove_parent_children) \cup Range(removed_blocks) : CameTo(v)
           /\ Walking("evict") =>
                  /\ operation \in [on : {"evict"}, at : Numbers] /\ operation.on = "evict"
                  /\ removed_blocks = <<>>
           /\ Walking("remove") \/ Walking("evict") => ~Walking("none")
BY DEF WalkInv, Walking, NoWalk

\* A round of a loop carries the completion of the operation over.
LEMMA RoundCompletes ==
    ASSUME WalkInv, ~Walking("none"), remove_parent_children # <<>>,
           NEW children \in SetToSeqs(buffer.parent_to_child[Top]),
           NEW next, next = RemoveSet(buffer, Out(buffer, operation.on)
                                                \cap buffer.parent_to_child[Top], {Top}),
           NEW stack, stack = Front(remove_parent_children) \o children
    PROVE  /\ BufferOK(next) /\ stack \in Seq(Hash)
           /\ Range(stack) = Range(Front(remove_parent_children)) \cup buffer.parent_to_child[Top]
           /\ Completed(next, operation.on, Range(stack)) = Intended
           /\ Out(next, operation.on) \cap Range(stack) = {}
<1> DEFINE links == buffer.parent_to_child[Top]
           T == Range(Front(remove_parent_children))
<1>1. /\ BufferOK(buffer) /\ remove_parent_children \in Seq(Hash)
      /\ Completed(buffer, operation.on, Range(remove_parent_children)) = Intended
      /\ Out(buffer, operation.on) \cap Range(remove_parent_children) = {}
  BY DEF WalkInv
<1>2. /\ Top \in Hash /\ T \in SUBSET Hash /\ Front(remove_parent_children) \in Seq(Hash)
      /\ Range(remove_parent_children) = T \cup {Top}
  BY <1>1, StackTop DEF Top
<1>3. links \in SUBSET Hash BY <1>1, <1>2 DEF BufferOK, Buffer
<1>4. children \in Seq(Hash) /\ Range(children) = links BY <1>3, SeqOfSet
<1>5. stack \in Seq(Hash) /\ Range(stack) = T \cup links BY <1>2, <1>4, RangeConcat
<1>6. BufferOK(next) BY <1>1, RemovalOK
<1>7. /\ Completed(next, operation.on, T \cup links)
             = Completed(buffer, operation.on, T \cup {Top})
      /\ Out(next, operation.on) \cap (T \cup links) = {}
  <2> DEFINE f == RemoveSet(buffer, Out(buffer, operation.on) \cap links, {Top})
  <2>1. Top \notin Out(buffer, operation.on) /\ \A x \in T : x \notin Out(buffer, operation.on)
    BY <1>1, <1>2
  <2>2. BufferOK(buffer) /\ Top \in Hash /\ T \in SUBSET Hash BY <1>1, <1>2
  <2> HIDE DEF T
  <2>3. /\ Completed(f, operation.on, T \cup links) = Completed(buffer, operation.on, T \cup {Top})
        /\ Out(f, operation.on) \cap (T \cup links) = {}
    BY <2>1, <2>2, WalkRound
  <2> QED BY <2>3
<1> QED BY <1>1, <1>2, <1>5, <1>6, <1>7

\* A round of evict_children keeps the invariant of the loops.
LEMMA EvictChildrenInv == WalkInv /\ EvictChildren => WalkInv'
<1> SUFFICES ASSUME WalkInv, EvictChildren PROVE WalkInv'
  OBVIOUS
<1>1. /\ Walking("evict") /\ remove_parent_children # <<>>
      /\ buffer' = EvictBlocks(Unlink(buffer, {Top}), buffer.parent_to_child[Top])
      /\ before' = before /\ operation' = operation /\ removed_blocks' = removed_blocks
  BY DEF EvictChildren
<1>2. PICK children \in SetToSeqs(buffer.parent_to_child[Top]) :
          remove_parent_children' = Front(remove_parent_children) \o children
  BY DEF EvictChildren, ExtendStack
<1>3. /\ operation \in [on : {"evict"}, at : Numbers] /\ operation.on = "evict"
      /\ removed_blocks = <<>> /\ ~Walking("none")
  BY <1>1, WalkIs
<1>4. BufferOK(buffer) /\ remove_parent_children \in Seq(Hash) /\ BufferOK(before)
  BY <1>3 DEF WalkInv
<1>5. Top \in Hash BY <1>1, <1>4, StackTop DEF Top
<1>6. buffer' = RemoveSet(buffer, Out(buffer, operation.on) \cap buffer.parent_to_child[Top], {Top})
  <2>1. buffer \in Buffer BY <1>4 DEF BufferOK
  <2> QED BY <1>1, <1>3, <1>5, <2>1, EvictRoundIs
<1>7. /\ BufferOK(buffer') /\ remove_parent_children' \in Seq(Hash)
      /\ Completed(buffer', operation.on, Range(remove_parent_children')) = Intended
      /\ Out(buffer', operation.on) \cap Range(remove_parent_children') = {}
  BY <1>1, <1>2, <1>3, <1>6, RoundCompletes
<1>8. Intended' = Intended BY <1>1 DEF Intended, Walking
<1>9. ~Walking("none")' BY <1>1, <1>3 DEF Walking
<1>10. removed_blocks' = <<>> /\ <<>> \in Seq(Hash) BY <1>1, <1>3, EmptySeq
<1>11. ParentsFirst' BY <1>10 DEF ParentsFirst
<1> QED BY <1>1, <1>3, <1>4, <1>7, <1>8, <1>9, <1>10, <1>11 DEF WalkInv

\* The children of a block that the walk came to are new to it, and the walk came to them.
LEMMA ChildrenAreNew ==
    ASSUME BufferOK(buffer), NEW top \in Hash, CameTo(top), operation.at \in Hash,
           NEW v \in buffer.parent_to_child[top]
    PROVE  /\ v \in Hash /\ Parent[v] = top /\ Ancestry[v] = {v} \cup Ancestry[top]
           /\ Number[v] = Number[top] + 1 /\ Number[v] > Number[operation.at]
           /\ \A w \in Hash : CameTo(w) => v \notin Ancestry[w]
<1>1. v \in Hash /\ Parent[v] = top BY DEF BufferOK, LinksBuffered, Buffer
<1>2. Ancestry[v] = {v} \cup Ancestry[top] BY <1>1, AncestryStep
<1>3. Number[top] \in Nat /\ Number[v] = Number[top] + 1 BY <1>1, ParentNumber
<1>4. operation.at \in Ancestry[top] BY DEF CameTo
<1>5. Number[operation.at] \in Nat /\ (operation.at = top \/ Number[operation.at] < Number[top])
  BY <1>4, AncestryLower
<1>6. Number[v] > Number[operation.at] BY <1>3, <1>5
<1>7. \A w \in Hash : CameTo(w) => v \notin Ancestry[w] BY <1>1, <1>6 DEF CameTo
<1> QED BY <1>1, <1>2, <1>3, <1>6, <1>7

\* A round of remove_children keeps the invariant of the loops.
LEMMA RemoveChildrenInv == WalkInv /\ RemoveChildren => WalkInv'
<1> SUFFICES ASSUME WalkInv, RemoveChildren PROVE WalkInv'
  OBVIOUS
<1> DEFINE links    == buffer.parent_to_child[Top]
           complete == {h \in links : Removable(buffer, h)}
           T        == Range(Front(remove_parent_children))
<1>1. /\ Walking("remove") /\ remove_parent_children # <<>>
      /\ buffer' = DropWitnesses(Unindex(Unlink(buffer, {Top}), complete), complete)
      /\ before' = before /\ operation' = operation
  BY DEF RemoveChildren
<1>2. PICK children \in SetToSeqs(links), removed \in SetToSeqs(complete) :
          /\ removed_blocks' = removed_blocks \o removed
          /\ remove_parent_children' = Front(remove_parent_children) \o children
  BY DEF RemoveChildren, ExtendStack, Returned
<1>3. /\ operation \in [on : {"remove"}, at : Hash] /\ operation.on = "remove"
      /\ ~Walking("none")
      /\ \A v \in Range(remove_parent_children) \cup Range(removed_blocks) : CameTo(v)
  BY <1>1, WalkIs
<1>4. /\ BufferOK(buffer) /\ remove_parent_children \in Seq(Hash) /\ BufferOK(before)
      /\ removed_blocks \in Seq(Hash) /\ ParentsFirst
  BY <1>3 DEF WalkInv
<1>5. /\ Top \in Hash /\ T \in SUBSET Hash
      /\ Range(remove_parent_children) = T \cup {Top}
  BY <1>1, <1>4, StackTop DEF Top
<1>6. buffer \in Buffer /\ links \in SUBSET Hash BY <1>4, <1>5 DEF BufferOK, Buffer
<1>7. buffer' = RemoveSet(buffer, Out(buffer, operation.on) \cap links, {Top})
  BY <1>1, <1>3, <1>5, <1>6, RemoveRoundIs
<1>8. /\ BufferOK(buffer') /\ remove_parent_children' \in Seq(Hash)
      /\ Range(remove_parent_children') = T \cup links
      /\ Completed(buffer', operation.on, Range(remove_parent_children')) = Intended
      /\ Out(buffer', operation.on) \cap Range(remove_parent_children') = {}
  BY <1>1, <1>2, <1>3, <1>7, RoundCompletes
<1>9. Intended' = Intended BY <1>1 DEF Intended, Walking
<1>10. ~Walking("none")' BY <1>1, <1>3 DEF Walking
<1>11. complete \in SUBSET Hash /\ complete \subseteq links BY <1>6
<1> HIDE DEF complete
<1>12. /\ removed \in Seq(Hash) /\ Range(removed) = complete
       /\ \A i, j \in DOMAIN removed : removed[i] = removed[j] => i = j
  BY <1>2, <1>11, SeqOfSet
<1>13. removed_blocks' \in Seq(Hash) /\ Range(removed_blocks') = Range(removed_blocks) \cup complete
  BY <1>2, <1>4, <1>12, RangeConcat
<1>14. Range(removed_blocks) \subseteq Hash
  <2>1. DOMAIN removed_blocks = 1..Len(removed_blocks) BY <1>4, LenProperties
  <2> QED BY <1>4, <2>1, ElementOfSeq DEF Range
<1>15. CameTo(Top) /\ operation.at \in Hash BY <1>3, <1>5
<1>16. \A v \in links : /\ v \in Hash /\ Parent[v] = Top /\ Ancestry[v] = {v} \cup Ancestry[Top]
                        /\ Number[v] = Number[Top] + 1
                        /\ \A w \in Hash : CameTo(w) => v \notin Ancestry[w]
  BY <1>4, <1>5, <1>15, ChildrenAreNew
<1>17. /\ buffer'.parent_to_child[Top] = {}
       /\ \A p \in Hash \cup {Zero} : buffer'.parent_to_child[p] \subseteq buffer.parent_to_child[p]
  <2> DEFINE R == Out(buffer, operation.on) \cap links
  <2>1. R \in SUBSET Hash BY <1>6
  <2> HIDE DEF R
  <2>2. AllFields(buffer', buffer, R, {Top})
    <3>1. AllFields(RemoveSet(buffer, R, {Top}), buffer, R, {Top}) BY <1>6, <2>1, RemoveSetAll
    <3> QED BY <1>7, <3>1 DEF R
  <2> QED BY <1>5, <2>2 DEF AllFields
<1>18. ASSUME NEW v \in T \cup links \cup Range(removed_blocks) \cup complete PROVE CameTo(v)'
  <2>1. CASE v \in T \cup Range(removed_blocks)
    <3>1. CameTo(v) BY <1>3, <1>5, <2>1
    <3>2. v \in Hash BY <1>5, <1>14, <2>1
    <3>3. \A c \in Ancestry[v] : Parent[c] \in Hash \cup {Zero}
      BY <3>2, AncestryContains, ParentAssumption
    <3> QED BY <1>1, <1>17, <3>1, <3>3 DEF CameTo
  <2>2. CASE v \in links
    <3>1. \A c \in Ancestry[v] : Parent[c] \in Hash \cup {Zero}
      BY <1>16, <2>2, AncestryContains, ParentAssumption
    <3>2. v \notin buffer'.parent_to_child[Parent[v]] BY <1>16, <1>17, <2>2
    <3>3. Ancestry[v] = {v} \cup Ancestry[Top] BY <1>16, <2>2
    <3>4. operation.at \in Ancestry[v] BY <1>15, <3>3 DEF CameTo
    <3>5. \A c \in Ancestry[Top] : Number[c] > Number[operation.at]
              => c \notin buffer'.parent_to_child[Parent[c]]
      BY <1>15, <1>17, <3>1, <3>3 DEF CameTo
    <3> QED BY <1>1, <3>2, <3>3, <3>4, <3>5 DEF CameTo
  <2> QED BY <1>11, <2>1, <2>2
<1>19. ParentsFirst'
  <2> DEFINE r == removed_blocks
             s == removed
  <2>1. /\ Len(r) \in Nat /\ Len(s) \in Nat /\ DOMAIN r = 1..Len(r) /\ DOMAIN s = 1..Len(s)
        /\ DOMAIN removed_blocks' = 1..(Len(r) + Len(s))
        /\ \A i \in 1..(Len(r) + Len(s)) :
               removed_blocks'[i] = IF i <= Len(r) THEN r[i] ELSE s[i - Len(r)]
    <3>1. /\ Len(r \o s) = Len(r) + Len(s) /\ r \o s \in Seq(Hash)
          /\ \A i \in 1..(Len(r) + Len(s)) : (r \o s)[i] = IF i <= Len(r) THEN r[i] ELSE s[i - Len(r)]
      BY <1>4, <1>12, ConcatProperties
    <3>2. /\ Len(r) \in Nat /\ Len(s) \in Nat /\ DOMAIN r = 1..Len(r) /\ DOMAIN s = 1..Len(s)
          /\ DOMAIN (r \o s) = 1..Len(r \o s)
      BY <1>4, <1>12, <3>1, LenProperties
    <3> QED BY <1>2, <3>1, <3>2
  <2>2. SUFFICES ASSUME NEW i \in 1..(Len(r) + Len(s)), NEW j \in 1..(Len(r) + Len(s)),
                        removed_blocks'[i] \in Ancestry[removed_blocks'[j]], i > j
                 PROVE  FALSE
    BY <2>1 DEF ParentsFirst
  <2>3. CASE i <= Len(r)
    <3>1. /\ i \in DOMAIN r /\ j \in DOMAIN r
          /\ removed_blocks'[i] = r[i] /\ removed_blocks'[j] = r[j]
      BY <2>1, <2>2, <2>3
    <3> QED BY <1>4, <2>2, <3>1 DEF ParentsFirst
  <2>4. CASE ~(i <= Len(r))
    <3>1. i - Len(r) \in DOMAIN s /\ removed_blocks'[i] = s[i - Len(r)] BY <2>1, <2>4
    <3>2. s[i - Len(r)] \in links BY <1>11, <1>12, <3>1 DEF Range
    <3>3. CASE j <= Len(r)
      <4>1. j \in DOMAIN r /\ removed_blocks'[j] = r[j] BY <2>1, <3>3
      <4>2. r[j] \in Range(r) BY <4>1 DEF Range
      <4>3. CameTo(r[j]) /\ r[j] \in Hash BY <1>3, <1>14, <4>2
      <4> QED BY <1>16, <2>2, <3>1, <3>2, <4>1, <4>3
    <3>4. CASE ~(j <= Len(r))
      <4>1. j - Len(r) \in DOMAIN s /\ removed_blocks'[j] = s[j - Len(r)] BY <2>1, <3>4
      <4>2. s[j - Len(r)] \in links BY <1>11, <1>12, <4>1 DEF Range
      <4>3. s[i - Len(r)] \in Ancestry[s[j - Len(r)]] BY <2>2, <3>1, <4>1
      <4>4. s[i - Len(r)] = s[j - Len(r)]
        BY <1>16, <3>2, <4>2, <4>3, AncestryLower
      <4>5. i - Len(r) = j - Len(r) BY <1>12, <3>1, <4>1, <4>4
      <4> QED BY <2>1, <2>2, <4>5
    <3> QED BY <3>3, <3>4
  <2> QED BY <2>3, <2>4
<1>20. \A v \in Range(remove_parent_children') \cup Range(removed_blocks') : CameTo(v)'
  BY <1>8, <1>13, <1>18
<1> QED BY <1>1, <1>3, <1>4, <1>8, <1>9, <1>10, <1>13, <1>19, <1>20 DEF WalkInv

\* An operation returns when its stack is empty, and then it is completed.
LEMMA ReturnCompletes ==
    ASSUME WalkInv, Returning
    PROVE  buffer = Intended
<1>1. /\ BufferOK(buffer) /\ remove_parent_children = <<>>
      /\ Completed(buffer, operation.on, Range(remove_parent_children)) = Intended
  BY DEF WalkInv, Returning
<1>2. Range(<<>>) = {} BY DEF Range
<1>3. Completed(buffer, operation.on, {}) = buffer BY <1>1, CompletedDone DEF BufferOK
<1> QED BY <1>1, <1>2, <1>3

\* The operations without a loop keep the buffer consistent.
LEMMA StepInv == WalkInv /\ Step => WalkInv'
<1> SUFFICES ASSUME WalkInv, Step PROVE WalkInv'
  OBVIOUS
<1>1. Walking("none") /\ UNCHANGED <<operation, before, remove_parent_children, removed_blocks>>
  BY DEF Step, walk
<1>2. operation = NoWalk /\ remove_parent_children = <<>> /\ removed_blocks = <<>>
  BY <1>1, NoWalkIs
<1>3. Next
  <2>1. \/ \E h \in Hash : \/ DoInsertBlock(h) \/ DoRemoveBlock(h) \/ DoRemoveWitness(h)
                           \/ \E w \in Witness, missing \in SUBSET Code :
                                  DoInsertWitness(h, w, missing)
        \/ \E c \in Code : DoOnBytecodeReceived(c)
    BY DEF Step
  <2> QED BY <2>1, Zenon DEF Next
<1>4. BufferOK(buffer) BY DEF WalkInv
<1>5. BufferOK(buffer') BY <1>3, <1>4, NextKeepsBufferInv DEF BufferInv
<1>6. Walking("none")' BY <1>1 DEF Walking
<1>7. ParentsFirst' BY <1>1, <1>2 DEF ParentsFirst
<1>8. <<>> \in Seq(Hash) BY EmptySeq
<1> QED BY <1>1, <1>2, <1>5, <1>6, <1>7, <1>8 DEF WalkInv

\* The return leaves the buffer as it is.
LEMMA ReturnInv == WalkInv /\ Return => WalkInv'
<1> SUFFICES ASSUME WalkInv, Return PROVE WalkInv'
  OBVIOUS
<1>1. /\ operation' = NoWalk /\ removed_blocks' = <<>> /\ buffer' = buffer
      /\ remove_parent_children' = <<>>
  BY DEF Return, Returning
<1>2. BufferOK(buffer') BY <1>1 DEF WalkInv
<1>3. Walking("none")' BY <1>1 DEF Walking, NoWalk
<1>4. ParentsFirst' BY <1>1 DEF ParentsFirst
<1>5. <<>> \in Seq(Hash) BY EmptySeq
<1> QED BY <1>1, <1>2, <1>3, <1>4, <1>5 DEF WalkInv

\* WalkInv is inductive.
LEMMA WalkNextInv == WalkInv /\ [WalkNext]_walkvars => WalkInv'
<1> SUFFICES ASSUME WalkInv, [WalkNext]_walkvars PROVE WalkInv'
  OBVIOUS
<1>1. ASSUME NEW h \in Hash, StartRemove(h) PROVE WalkInv' BY <1>1, StartRemoveInv
<1>2. ASSUME NEW n \in Numbers, StartEvict(n) PROVE WalkInv' BY <1>2, StartEvictInv
<1>3. CASE UNCHANGED walkvars
  <2>1. UNCHANGED <<buffer, operation, before, remove_parent_children, removed_blocks>>
    BY <1>3 DEF walkvars, walk
  <2> QED BY <2>1 DEF WalkInv, CameTo, Walking, Intended, ParentsFirst
<1> QED BY <1>1, <1>2, <1>3, StepInv, ReturnInv, RemoveChildrenInv, EvictChildrenInv DEF WalkNext

\* The invariant of the loops holds in every behaviour.
LEMMA WalkInvariant == WalkSpec => []WalkInv
BY WalkInitInv, WalkNextInv, PTL DEF WalkSpec

(***************************************************************************)
(* The blocks that remove_block_with_children returns come in an order in  *)
(* which they can be executed (block_buffer.rs:131), for every block tree, *)
(* every history of the buffer and whatever the order of the hash sets is: *)
(* no block precedes an ancestor of its.                                   *)
(***************************************************************************)
THEOREM WalkParentsFirst == WalkSpec => []ParentsFirst
<1>1. WalkInv => ParentsFirst BY DEF WalkInv
<1> QED BY <1>1, WalkInvariant, PTL

(***************************************************************************)
(* In the middle of the loops over parent_to_child the indexes of the      *)
(* buffer agree with each other too (block_buffer.rs:147-169, 225-263).    *)
(***************************************************************************)
THEOREM WalkKeepsIndexes ==
    WalkSpec => [](/\ LruTracksBlocks /\ EarliestIndexesBlocks
                   /\ LinksAreBuffered /\ AwaitedBytecodesHaveWitness)
<1>1. WalkInv => /\ LruTracksBlocks /\ EarliestIndexesBlocks
                 /\ LinksAreBuffered /\ AwaitedBytecodesHaveWitness
  BY DEF WalkInv, BufferOK, LruTracksBlocks, EarliestIndexesBlocks, LinksAreBuffered,
         AwaitedBytecodesHaveWitness
<1> QED BY <1>1, WalkInvariant, PTL

-----------------------------------------------------------------------------
\* The operations of BlockBuffer, seen through the refinement, are those of this module.
LEMMA AtomicOperations ==
    ASSUME NEW b
    PROVE  /\ \A h : /\ Atomic!InsertBlock(b, h) = InsertBlock(b, h)
                     /\ Atomic!RemoveBlock(b, h) = RemoveBlock(b, h)
                     /\ Atomic!RemoveWitness(b, h) = RemoveWitness(b, h)
                     /\ Atomic!RemoveBlockWithChildren(b, h) = RemoveBlockWithChildren(b, h)
           /\ \A h, w, missing :
                  Atomic!InsertWitness(b, h, w, missing) = InsertWitness(b, h, w, missing)
           /\ \A n : Atomic!EvictOldBlocks(b, n) = EvictOldBlocks(b, n)
           /\ \A c : Atomic!OnBytecodeReceived(b, c) = OnBytecodeReceived(b, c)
           /\ Atomic!NewBuffer = NewBuffer
           /\ Atomic!Numbers = Numbers
<1>1. Atomic!Numbers = Numbers BY DEF Atomic!Numbers, Numbers
<1>2. Atomic!NewBuffer = NewBuffer BY <1>1 DEF Atomic!NewBuffer, NewBuffer
<1>3. \A x, R : Atomic!Unindex(x, R) = Unindex(x, R)
  BY DEF Atomic!Unindex, Unindex, Atomic!RemoveFromEarliestBlocks, RemoveFromEarliestBlocks,
         Atomic!RemoveFromParent, RemoveFromParent, Atomic!LruWithout, LruWithout,
         Atomic!Numbers, Numbers
<1>4. \A x, R : Atomic!DropWitnesses(x, R) = DropWitnesses(x, R)
  BY DEF Atomic!DropWitnesses, DropWitnesses
<1>5. \A x, R : Atomic!Unlink(x, R) = Unlink(x, R) BY DEF Atomic!Unlink, Unlink
<1>6. \A x, R : Atomic!EvictBlocks(x, R) = EvictBlocks(x, R)
  BY <1>3, <1>4 DEF Atomic!EvictBlocks, EvictBlocks
<1>7. \A x, h : Atomic!Removable(x, h) <=> Removable(x, h)
  BY DEF Atomic!Removable, Removable, Atomic!ReadyWitness, ReadyWitness
<1>8. \A x, h : Atomic!RemoveBlock(x, h) = RemoveBlock(x, h)
  BY <1>3, <1>4, <1>7 DEF Atomic!RemoveBlock, RemoveBlock
<1>9. \A x, S : Atomic!Linked(x, S) = Linked(x, S)
  BY DEF Atomic!Linked, Linked, Atomic!Reach, Reach, Atomic!Closed, Closed
<1>10. \A x, h : Atomic!RemoveBlockWithChildren(x, h) = RemoveBlockWithChildren(x, h)
  BY <1>3, <1>4, <1>5, <1>7, <1>9 DEF Atomic!RemoveBlockWithChildren, RemoveBlockWithChildren
<1>11. \A n : Atomic!EvictOldBlocks(b, n) = EvictOldBlocks(b, n)
  BY <1>1, <1>5, <1>6, <1>9 DEF Atomic!EvictOldBlocks, EvictOldBlocks
<1>12. \A h : Atomic!RemoveWitness(b, h) = RemoveWitness(b, h)
  BY DEF Atomic!RemoveWitness, RemoveWitness
<1>13. \A h, w, missing : Atomic!InsertWitness(b, h, w, missing) = InsertWitness(b, h, w, missing)
  BY DEF Atomic!InsertWitness, InsertWitness
<1>14. \A c : Atomic!OnBytecodeReceived(b, c) = OnBytecodeReceived(b, c)
  BY DEF Atomic!OnBytecodeReceived, OnBytecodeReceived
<1>15. \A l : Atomic!LruKeys(l) = LruKeys(l) BY DEF Atomic!LruKeys, LruKeys
<1>16. \A l : Atomic!LruOldest(l) = LruOldest(l)
  BY DEF Atomic!LruOldest, LruOldest, Atomic!LruKeys, LruKeys
<1>17. \A h : Atomic!Victims(b, h) = Victims(b, h)
  <2>1. \A S : Atomic!Cardinality(S) = Cardinality(S) BY DEF Atomic!Cardinality, Cardinality
  <2> QED BY <1>15, <1>16, <2>1 DEF Atomic!Victims, Victims
<1>18. \A l, h : /\ Atomic!LruTouch(l, h) = LruTouch(l, h)
                 /\ Atomic!LruWithout(l, h) = LruWithout(l, h)
  BY DEF Atomic!LruTouch, LruTouch, Atomic!LruKeys, LruKeys, Atomic!LruWithout, LruWithout
<1>19. \A h : Atomic!InsertBlock(b, h) = InsertBlock(b, h)
  BY <1>6, <1>17, <1>18 DEF Atomic!InsertBlock, InsertBlock
<1> QED BY <1>1, <1>2, <1>8, <1>10, <1>11, <1>12, <1>13, <1>14, <1>19

\* Every step of the loops is an operation of BlockBuffer that takes effect at once, or a stutter.
LEMMA WalkStepIsAtomic ==
    WalkInv /\ WalkInv' /\ [WalkNext]_walkvars
        => [Atomic!Next]_(IF Walking("none") THEN buffer ELSE before)
<1> DEFINE seen == IF Walking("none") THEN buffer ELSE before
<1> SUFFICES ASSUME WalkInv, WalkInv', [WalkNext]_walkvars
             PROVE  Atomic!Next \/ seen' = seen
  OBVIOUS
<1>1. ASSUME Step PROVE Atomic!Next
  <2>1. Walking("none") /\ Walking("none")' BY <1>1 DEF Step, walk, Walking
  <2>2. \/ \E h \in Hash : \/ DoInsertBlock(h) \/ DoRemoveBlock(h) \/ DoRemoveWitness(h)
                           \/ \E w \in Witness, missing \in SUBSET Code :
                                  DoInsertWitness(h, w, missing)
        \/ \E c \in Code : DoOnBytecodeReceived(c)
    BY <1>1 DEF Step
  <2>3. ASSUME NEW h \in Hash, DoInsertBlock(h) PROVE Atomic!DoInsertBlock(h)
    BY <2>1, <2>3, AtomicOperations DEF DoInsertBlock, Atomic!DoInsertBlock
  <2>4. ASSUME NEW h \in Hash, DoRemoveBlock(h) PROVE Atomic!DoRemoveBlock(h)
    BY <2>1, <2>4, AtomicOperations DEF DoRemoveBlock, Atomic!DoRemoveBlock
  <2>5. ASSUME NEW h \in Hash, DoRemoveWitness(h) PROVE Atomic!DoRemoveWitness(h)
    BY <2>1, <2>5, AtomicOperations DEF DoRemoveWitness, Atomic!DoRemoveWitness
  <2>6. ASSUME NEW h \in Hash, NEW w \in Witness, NEW missing \in SUBSET Code,
               DoInsertWitness(h, w, missing)
        PROVE  Atomic!DoInsertWitness(h, w, missing)
    BY <2>1, <2>6, AtomicOperations DEF DoInsertWitness, Atomic!DoInsertWitness
  <2>7. ASSUME NEW c \in Code, DoOnBytecodeReceived(c) PROVE Atomic!DoOnBytecodeReceived(c)
    BY <2>1, <2>7, AtomicOperations DEF DoOnBytecodeReceived, Atomic!DoOnBytecodeReceived
  <2> QED BY <2>2, <2>3, <2>4, <2>5, <2>6, <2>7, Zenon DEF Atomic!Next
<1>2. ASSUME NEW h \in Hash, StartRemove(h) PROVE seen' = seen
  <2>1. Walking("none") /\ ~Walking("none")' /\ before' = buffer
    BY <1>2 DEF StartRemove, Start, Walking
  <2> QED BY <2>1
<1>3. ASSUME NEW n \in Numbers, StartEvict(n) PROVE seen' = seen
  <2>1. Walking("none") /\ ~Walking("none")' /\ before' = buffer
    BY <1>3 DEF StartEvict, Start, Walking
  <2> QED BY <2>1
<1>4. ASSUME RemoveChildren PROVE seen' = seen
  <2>1. ~Walking("none") /\ ~Walking("none")' /\ before' = before
    BY <1>4 DEF RemoveChildren, Walking
  <2> QED BY <2>1
<1>5. ASSUME EvictChildren PROVE seen' = seen
  <2>1. ~Walking("none") /\ ~Walking("none")' /\ before' = before
    BY <1>5 DEF EvictChildren, Walking
  <2> QED BY <2>1
<1>6. ASSUME Return PROVE Atomic!Next
  <2>1. ~Walking("none") /\ Walking("none")' /\ buffer' = buffer
    BY <1>6 DEF Return, Returning, Walking, NoWalk
  <2>2. buffer = Intended BY <1>6, ReturnCompletes DEF Return
  <2>3. seen = before /\ seen' = Intended BY <2>1, <2>2
  <2>4. CASE operation \in [on : {"remove"}, at : Hash]
    <3>1. operation.at \in Hash /\ Walking("remove") BY <2>4 DEF Walking
    <3>2. seen' = RemoveBlockWithChildren(seen, operation.at) BY <2>3, <3>1 DEF Intended
    <3>3. Atomic!DoRemoveBlockWithChildren(operation.at)
      BY <3>2, AtomicOperations DEF Atomic!DoRemoveBlockWithChildren
    <3> QED BY <3>1, <3>3, Zenon DEF Atomic!Next
  <2>5. CASE operation \in [on : {"evict"}, at : Numbers]
    <3>1. operation.at \in Numbers /\ ~Walking("remove") BY <2>5 DEF Walking
    <3>2. seen' = EvictOldBlocks(seen, operation.at) BY <2>3, <3>1 DEF Intended
    <3>3. Atomic!DoEvictOldBlocks(operation.at)
      BY <3>2, AtomicOperations DEF Atomic!DoEvictOldBlocks
    <3>4. operation.at \in Atomic!Numbers BY <3>1, AtomicOperations
    <3> QED BY <3>3, <3>4, Zenon DEF Atomic!Next
  <2>6. operation # NoWalk BY <2>1 DEF Walking, NoWalk
  <2> QED BY <2>4, <2>5, <2>6 DEF WalkInv
<1>7. CASE UNCHANGED walkvars BY <1>7 DEF walkvars, walk, Walking
<1> QED BY <1>1, <1>2, <1>3, <1>4, <1>5, <1>6, <1>7, Zenon DEF WalkNext

(***************************************************************************)
(* The loops of block_buffer.rs:134-169 and 225-263, which follow the very *)
(* links they cut, implement the operations of module BlockBuffer, which   *)
(* take effect at once: for every block tree, limit and history of the     *)
(* buffer, and whatever the order in which the hash sets are visited is.   *)
(***************************************************************************)
THEOREM WalkRefinesBuffer == WalkSpec => ImplementsBlockBuffer
<1>1. WalkInit => Atomic!Init
  <2> SUFFICES ASSUME WalkInit PROVE Atomic!Init
    OBVIOUS
  <2>1. Walking("none") /\ buffer = NewBuffer BY DEF WalkInit, Init, Walking, NoWalk
  <2> QED BY <2>1, AtomicOperations DEF Atomic!Init
<1> QED BY <1>1, WalkInvariant, WalkStepIsAtomic, PTL
        DEF WalkSpec, ImplementsBlockBuffer, Atomic!Spec
=============================================================================
