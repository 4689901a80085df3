--------------------------- MODULE BufferOpsProofs ---------------------------
(***************************************************************************)
(* Facts about the block tree and about the operations of the block        *)
(* buffer, for every block tree, every set of bytecodes and witnesses and  *)
(* every limit.  The proofs of the buffer on its own and of the engine     *)
(* that uses it rest on them.                                              *)
(*                                                                         *)
(* Every buffer operation is built from four steps on the fields (Unindex, *)
(* DropWitnesses, Unlink and the insertions), and a lemma says of each     *)
(* what it keeps.                                                          *)
(***************************************************************************)
EXTENDS BufferOps, FiniteSetTheorems, WellFoundedInduction, TLAPS

\* The numbers of the tree are natural numbers.
LEMMA NumbersNat == Numbers \subseteq Nat /\ \A h \in Hash : Number[h] \in Numbers
BY ParentAssumption DEF Numbers

\* Everything found by following links is a block of the tree.
LEMMA ReachInHash == ASSUME NEW roots, NEW next PROVE Reach(roots, next) \subseteq Hash
BY DEF Reach

\* The walk of remove_children and evict_children includes the hashes it starts from.
LEMMA ReachRoots ==
    ASSUME NEW roots \in SUBSET Hash, NEW next PROVE roots \subseteq Reach(roots, next)
BY DEF Reach

\* The walk is closed: it follows every link of every hash it meets.
LEMMA ReachClosed ==
    ASSUME NEW roots \in SUBSET Hash, NEW next \in [Hash \cup {Zero} -> SUBSET Hash],
           NEW x \in Reach(roots, next)
    PROVE  next[x] \subseteq Reach(roots, next)
<1> SUFFICES ASSUME NEW y \in next[x] PROVE y \in Reach(roots, next)
    OBVIOUS
<1>1. x \in Hash BY DEF Reach
<1>2. y \in Hash BY <1>1
<1>3. ASSUME NEW S \in SUBSET Hash, roots \subseteq S, Closed(S, next) PROVE y \in S
  <2>1. x \in S BY <1>3 DEF Reach
  <2> QED BY <2>1, <1>3 DEF Closed
<1> QED BY <1>2, <1>3 DEF Reach

-----------------------------------------------------------------------------
\* A block whose parent is in the tree is numbered one above it.
LEMMA ParentNumber ==
    ASSUME NEW h \in Hash, Parent[h] \in Hash
    PROVE  Number[h] \in Nat /\ Number[Parent[h]] \in Nat /\ Number[h] = Number[Parent[h]] + 1
BY HashAssumption, ParentAssumption

\* Ancestry[h] holds h, and the parent of each of its blocks that is in the tree.
LEMMA AncestryContains ==
    ASSUME NEW h \in Hash
    PROVE  /\ Ancestry[h] \subseteq Hash
           /\ h \in Ancestry[h]
           /\ \A a \in Ancestry[h] : Parent[a] \in Hash => Parent[a] \in Ancestry[h]
<1> DEFINE next == [x \in Hash |-> {Parent[x]} \cap Hash]
<1>1. Ancestry[h] = Reach({h}, next) BY DEF Ancestry
<1> HIDE DEF next
<1>2. Ancestry[h] \subseteq Hash BY <1>1, ReachInHash
<1>3. h \in Ancestry[h] BY <1>1 DEF Reach
<1>4. ASSUME NEW a \in Ancestry[h], Parent[a] \in Hash PROVE Parent[a] \in Ancestry[h]
  <2>1. a \in Hash BY <1>2
  <2>2. Parent[a] \in next[a] BY <1>4, <2>1 DEF next
  <2>3. ASSUME NEW S \in SUBSET Hash, {h} \subseteq S, Closed(S, next) PROVE Parent[a] \in S
    <3>1. a \in S BY <1>1, <2>3 DEF Reach
    <3> QED BY <2>2, <2>3, <3>1 DEF Closed
  <2> QED BY <1>1, <1>4, <2>3 DEF Reach
<1> QED BY <1>2, <1>3, <1>4

\* Ancestry[h] is the least such set: the induction principle for ancestors.
LEMMA AncestryLeast ==
    ASSUME NEW h \in Hash, NEW S, h \in S,
           \A x \in Hash : x \in S /\ Parent[x] \in Hash => Parent[x] \in S
    PROVE  Ancestry[h] \subseteq S
<1> DEFINE next == [x \in Hash |-> {Parent[x]} \cap Hash]
           T == S \cap Hash
<1>1. Ancestry[h] = Reach({h}, next) BY DEF Ancestry
<1>2. T \in SUBSET Hash /\ {h} \subseteq T OBVIOUS
<1>3. Closed(T, next) BY DEF Closed
<1> HIDE DEF next, T
<1>4. Reach({h}, next) \subseteq T BY <1>2, <1>3 DEF Reach
<1> QED BY <1>1, <1>4 DEF T

\* The ancestors of a block are the block and the ancestors of its parent.
LEMMA AncestryStep ==
    ASSUME NEW h \in Hash
    PROVE  /\ Parent[h] \in Hash => Ancestry[h] = {h} \cup Ancestry[Parent[h]]
           /\ Parent[h] \notin Hash => Ancestry[h] = {h}
<1>1. CASE Parent[h] \notin Hash
  <2>1. Ancestry[h] \subseteq {h} BY <1>1, AncestryLeast
  <2> QED BY <1>1, <2>1, AncestryContains
<1>2. CASE Parent[h] \in Hash
  <2> DEFINE S == {h} \cup Ancestry[Parent[h]]
  <2>1. \A x \in Hash : x \in S /\ Parent[x] \in Hash => Parent[x] \in S
    BY <1>2, AncestryContains
  <2>2. Ancestry[h] \subseteq S
    <3> HIDE DEF S
    <3>1. h \in S BY DEF S
    <3> QED BY <2>1, <3>1, AncestryLeast
  <2>3. Ancestry[Parent[h]] \subseteq Ancestry[h]
    <3>1. Parent[h] \in Ancestry[h] BY <1>2, AncestryContains
    <3>2. \A x \in Hash : x \in Ancestry[h] /\ Parent[x] \in Hash => Parent[x] \in Ancestry[h]
      BY AncestryContains
    <3> QED BY <1>2, <3>1, <3>2, AncestryLeast
  <2> QED BY <1>2, <2>2, <2>3, AncestryContains
<1> QED BY <1>1, <1>2

\* An ancestor of an ancestor is an ancestor.
LEMMA AncestryTrans ==
    ASSUME NEW h \in Hash, NEW a \in Ancestry[h] PROVE a \in Hash /\ Ancestry[a] \subseteq Ancestry[h]
<1>1. a \in Hash BY AncestryContains
<1>2. \A x \in Hash : x \in Ancestry[h] /\ Parent[x] \in Hash => Parent[x] \in Ancestry[h]
  BY AncestryContains
<1> QED BY <1>1, <1>2, AncestryLeast

\* Every ancestor but the block itself has a lower number.
LEMMA AncestryLower ==
    ASSUME NEW h \in Hash, NEW a \in Ancestry[h]
    PROVE  /\ Number[a] \in Nat /\ Number[h] \in Nat
           /\ a = h \/ Number[a] < Number[h]
<1> DEFINE S == {x \in Hash : x = h \/ Number[x] < Number[h]}
<1>1. \A x \in Hash : Number[x] \in Nat BY ParentAssumption
<1>2. \A x \in Hash : x \in S /\ Parent[x] \in Hash => Parent[x] \in S
  BY <1>1, ParentNumber
<1>3. h \in S OBVIOUS
<1> HIDE DEF S
<1>4. Ancestry[h] \subseteq S BY <1>2, <1>3, AncestryLeast
<1> QED BY <1>1, <1>4 DEF S

\* Of two ancestors of a block, the lower one is an ancestor of the higher one.
LEMMA AncestryLinear ==
    ASSUME NEW h \in Hash, NEW a \in Ancestry[h], NEW x \in Ancestry[h], Number[x] <= Number[a]
    PROVE  x \in Ancestry[a]
<1> DEFINE S == {y \in Ancestry[h] : \A z \in Ancestry[h] : Number[z] <= Number[y] => z \in Ancestry[y]}
<1>1. Ancestry[h] \subseteq Hash BY AncestryContains
<1>2. h \in S BY AncestryContains
<1>3. ASSUME NEW y \in Hash, y \in S, Parent[y] \in Hash PROVE Parent[y] \in S
  <2>1. Parent[y] \in Ancestry[h] BY <1>3, AncestryContains
  <2>2. ASSUME NEW z \in Ancestry[h], Number[z] <= Number[Parent[y]] PROVE z \in Ancestry[Parent[y]]
    <3>1. z \in Hash BY <1>1
    <3>2. Number[z] \in Nat BY <3>1, ParentAssumption
    <3>3. Number[z] <= Number[y] /\ z # y BY <1>3, <2>2, <3>2, ParentNumber
    <3>4. z \in Ancestry[y] BY <1>3, <3>3
    <3> QED BY <1>3, <3>3, <3>4, AncestryStep
  <2> QED BY <2>1, <2>2
<1>4. Ancestry[h] \subseteq S
  <2> HIDE DEF S
  <2> QED BY <1>2, <1>3, AncestryLeast
<1> QED BY <1>4

\* A block has one ancestor of each number at most.
LEMMA AncestryUnique ==
    ASSUME NEW h \in Hash, NEW a \in Ancestry[h], NEW x \in Ancestry[h], Number[x] = Number[a]
    PROVE  x = a
<1>1. a \in Hash /\ Number[a] \in Nat BY AncestryTrans, ParentAssumption
<1>2. x \in Ancestry[a] BY <1>1, AncestryLinear
<1> QED BY <1>1, <1>2, AncestryLower

\* The numbers of a block's ancestors have no gap.
LEMMA AncestryContiguous ==
    ASSUME NEW h \in Hash, NEW a \in Ancestry[h], NEW n \in Nat,
           Number[a] <= n, n <= Number[h]
    PROVE  \E x \in Ancestry[h] : Number[x] = n
<1> DEFINE S == {y \in Ancestry[h] : Number[y] <= n => \E x \in Ancestry[h] : Number[x] = n}
<1>1. h \in S
  <2>1. h \in Ancestry[h] /\ Number[h] \in Nat BY AncestryContains, ParentAssumption
  <2>2. Number[h] <= n => Number[h] = n BY <2>1
  <2> QED BY <2>1, <2>2
<1>2. ASSUME NEW y \in Hash, y \in S, Parent[y] \in Hash PROVE Parent[y] \in S
  <2>1. Parent[y] \in Ancestry[h] BY <1>2, AncestryContains
  <2>2. CASE Number[y] <= n BY <1>2, <2>1, <2>2
  <2>3. CASE ~(Number[y] <= n)
    <3>1. Number[Parent[y]] <= n => Number[Parent[y]] = n BY <1>2, <2>3, ParentNumber
    <3> QED BY <2>1, <3>1
  <2> QED BY <2>2, <2>3
<1>3. Ancestry[h] \subseteq S
  <2> HIDE DEF S
  <2> QED BY <1>1, <1>2, AncestryLeast
<1> QED BY <1>3

\* AncestorAt finds the ancestor with a given number.
LEMMA AncestorAtNumber ==
    ASSUME NEW h \in Hash, NEW a \in Ancestry[h] PROVE AncestorAt(h, Number[a]) = a
<1>1. AncestorAt(h, Number[a]) = CHOOSE x \in Ancestry[h] : Number[x] = Number[a] BY DEF AncestorAt
<1>2. \A x \in Ancestry[h] : Number[x] = Number[a] => x = a BY AncestryUnique
<1> QED BY <1>1, <1>2

\* A result of AncestorAt other than None is an ancestor with that number.
LEMMA AncestorAtIs ==
    ASSUME NEW h \in Hash, NEW n, AncestorAt(h, n) # None
    PROVE  AncestorAt(h, n) \in Ancestry[h] /\ Number[AncestorAt(h, n)] = n
BY DEF AncestorAt

\* The ancestors of an ancestor are found from the block itself.
LEMMA AncestorAtOfAncestor ==
    ASSUME NEW h \in Hash, NEW a \in Ancestry[h], NEW n \in Nat, n <= Number[a]
    PROVE  AncestorAt(h, n) = AncestorAt(a, n)
<1>1. a \in Hash /\ Ancestry[a] \subseteq Ancestry[h] BY AncestryTrans
<1>2. CASE AncestorAt(a, n) # None
  <2>1. AncestorAt(a, n) \in Ancestry[a] /\ Number[AncestorAt(a, n)] = n BY <1>1, <1>2, AncestorAtIs
  <2> QED BY <1>1, <2>1, AncestorAtNumber
<1>3. CASE AncestorAt(h, n) # None
  <2>1. AncestorAt(h, n) \in Ancestry[h] /\ Number[AncestorAt(h, n)] = n BY <1>3, AncestorAtIs
  <2>2. AncestorAt(h, n) \in Ancestry[a] BY <2>1, AncestryLinear
  <2> QED BY <1>1, <2>1, <2>2, AncestorAtNumber
<1> QED BY <1>2, <1>3

\* A non-empty set of blocks has one with the lowest number.
LEMMA LowestBlock ==
    ASSUME NEW S \in SUBSET Hash, S # {}
    PROVE  \E a \in S : \A x \in S : Number[a] <= Number[x]
<1> DEFINE numbers == {Number[x] : x \in S}
<1>1. numbers \subseteq Nat /\ numbers # {} BY ParentAssumption
<1>2. PICK a \in S : \A m \in numbers : ~ (<<m, Number[a]>> \in OpToRel(<, Nat))
  <2> HIDE DEF numbers
  <2>1. \E m \in numbers : \A k \in numbers : ~ (<<k, m>> \in OpToRel(<, Nat))
    BY <1>1, WFMin, NatLessThanWellFounded
  <2> QED BY <2>1 DEF numbers
<1>3. ASSUME NEW x \in S PROVE Number[a] <= Number[x]
  <2>1. Number[x] \in Nat /\ Number[a] \in Nat BY ParentAssumption
  <2>2. ~ (<<Number[x], Number[a]>> \in OpToRel(<, Nat)) BY <1>2
  <2>3. ~ (Number[x] < Number[a]) BY <2>1, <2>2 DEF OpToRel
  <2> QED BY <2>1, <2>3
<1> QED BY <1>3

(***************************************************************************)
(* lowest_ancestor ends: above it and at it, every ancestor of h is        *)
(* buffered, and its parent is not.                                        *)
(***************************************************************************)
LEMMA LowestAncestorIs ==
    ASSUME NEW b, b.blocks \subseteq Hash, NEW h \in b.blocks
    PROVE  /\ LowestAncestor(b, h) \in Ancestry[h]
           /\ Parent[LowestAncestor(b, h)] \notin b.blocks
<1> DEFINE walked == {a \in Ancestry[h] : \A x \in Ancestry[h] : Number[x] >= Number[a] => x \in b.blocks}
<1>1. Ancestry[h] \subseteq Hash BY AncestryContains
<1>2. \A x \in Hash : Number[x] \in Nat BY ParentAssumption
<1>3. h \in walked
  <2>1. ASSUME NEW x \in Ancestry[h], Number[x] >= Number[h] PROVE x = h
    BY <1>1, <1>2, <2>1, AncestryLower
  <2> QED BY <2>1, AncestryContains
<1>4. PICK a \in walked : \A x \in walked : Number[a] <= Number[x]
  <2> HIDE DEF walked
  <2>1. walked \in SUBSET Hash BY <1>1 DEF walked
  <2> QED BY <1>3, <2>1, LowestBlock
<1>5. Parent[a] \notin b.blocks
  <2> SUFFICES ASSUME Parent[a] \in b.blocks PROVE FALSE OBVIOUS
  <2>1. a \in Hash /\ Parent[a] \in Hash BY <1>1
  <2>2. Parent[a] \in Ancestry[h] BY <2>1, AncestryContains
  <2>3. Number[a] = Number[Parent[a]] + 1 /\ Number[a] \in Nat /\ Number[Parent[a]] \in Nat
    BY <2>1, ParentNumber
  <2>4. ASSUME NEW x \in Ancestry[h], Number[x] >= Number[Parent[a]] PROVE x \in b.blocks
    <3>1. CASE Number[x] = Number[Parent[a]] BY <2>2, <3>1, AncestryUnique
    <3>2. CASE Number[x] # Number[Parent[a]]
      <4>1. x \in Hash BY <1>1
      <4>2. Number[x] \in Nat BY <4>1, <1>2
      <4>3. Number[x] >= Number[a] BY <2>3, <2>4, <3>2, <4>2
      <4> QED BY <4>3
    <3> QED BY <3>1, <3>2
  <2>5. Parent[a] \in walked BY <2>2, <2>4
  <2> QED BY <1>4, <2>3, <2>5
<1> QED BY <1>4, <1>5 DEF LowestAncestor

-----------------------------------------------------------------------------
\* An LRU order restricted to fewer keys orders those keys.
LEMMA LruWithoutKeys ==
    ASSUME NEW lru \in SUBSET (Hash \X Hash), NEW R
    PROVE  /\ LruWithout(lru, R) \in SUBSET (Hash \X Hash)
           /\ LruKeys(LruWithout(lru, R)) = LruKeys(lru) \ R
BY DEF LruWithout, LruKeys

\* remove_from_earliest_blocks, remove_from_parent and lru.remove keep the indexes in step.
LEMMA UnindexOK ==
    ASSUME NEW b \in Buffer, LruOrders(b), EarliestIndexes(b), LinksBuffered(b),
           NEW R \in SUBSET Hash
    PROVE  LET u == Unindex(b, R)
           IN  /\ u \in Buffer /\ LruOrders(u) /\ EarliestIndexes(u) /\ LinksBuffered(u)
               /\ u.blocks = b.blocks \ R
               /\ u.witnesses = b.witnesses
               /\ u.missing_bytecodes = b.missing_bytecodes
<1> DEFINE u == Unindex(b, R)
<1>1. /\ u.blocks = b.blocks \ R
      /\ u.witnesses = b.witnesses
      /\ u.missing_bytecodes = b.missing_bytecodes
      /\ u.lru = LruWithout(b.lru, R)
      /\ u.earliest_blocks =
             [n \in Numbers |-> b.earliest_blocks[n] \ {h \in R : Number[h] = n}]
      /\ u.parent_to_child =
             [p \in Hash \cup {Zero} |-> b.parent_to_child[p] \ {h \in R : Parent[h] = p}]
      /\ u \in Buffer
  BY LruWithoutKeys DEF Unindex, RemoveFromEarliestBlocks, RemoveFromParent, Buffer
<1>2. LruOrders(u)
  <2>1. LruKeys(u.lru) = u.blocks BY <1>1, LruWithoutKeys DEF LruOrders, Buffer
  <2>2. u.lru \subseteq u.blocks \X u.blocks BY <1>1 DEF LruOrders, LruWithout
  <2>3. ASSUME NEW x \in u.blocks, NEW y \in u.blocks
        PROVE  <<x, y>> \in u.lru <=> <<x, y>> \in b.lru
    BY <1>1 DEF LruWithout
  <2>4. u.blocks \subseteq b.blocks BY <1>1
  <2> HIDE DEF u
  <2> QED BY <2>1, <2>2, <2>3, <2>4 DEF LruOrders
<1>3. EarliestIndexes(u) BY <1>1 DEF EarliestIndexes
<1>4. LinksBuffered(u) BY <1>1 DEF LinksBuffered
<1> QED BY <1>1, <1>2, <1>3, <1>4

\* Forgetting witnesses touches no index of the blocks.
LEMMA DropWitnessesOK ==
    ASSUME NEW b \in Buffer, LruOrders(b), EarliestIndexes(b), LinksBuffered(b),
           AwaitedHaveWitness(b), NEW R \in SUBSET Hash
    PROVE  LET d == DropWitnesses(b, R)
           IN  /\ d \in Buffer /\ LruOrders(d) /\ EarliestIndexes(d) /\ LinksBuffered(d)
               /\ AwaitedHaveWitness(d)
               /\ d.blocks = b.blocks
<1> DEFINE d == DropWitnesses(b, R)
<1>1. /\ d.blocks = b.blocks /\ d.lru = b.lru
      /\ d.earliest_blocks = b.earliest_blocks /\ d.parent_to_child = b.parent_to_child
      /\ d.witnesses = [h \in Hash |-> IF h \in R THEN None ELSE b.witnesses[h]]
      /\ d.missing_bytecodes = [h \in Hash |-> IF h \in R THEN {} ELSE b.missing_bytecodes[h]]
      /\ d \in Buffer
  BY DEF DropWitnesses, Buffer
<1> HIDE DEF d
<1>2. LruOrders(d) /\ EarliestIndexes(d) /\ LinksBuffered(d)
  BY <1>1 DEF LruOrders, EarliestIndexes, LinksBuffered
<1>3. AwaitedHaveWitness(d) BY <1>1 DEF AwaitedHaveWitness
<1> QED BY <1>1, <1>2, <1>3 DEF d

\* Dropping parent_to_child entries leaves only links of buffered blocks.
LEMMA UnlinkOK ==
    ASSUME NEW b \in Buffer, LruOrders(b), EarliestIndexes(b), LinksBuffered(b),
           AwaitedHaveWitness(b), NEW D
    PROVE  LET k == Unlink(b, D)
           IN  /\ k \in Buffer /\ LruOrders(k) /\ EarliestIndexes(k) /\ LinksBuffered(k)
               /\ AwaitedHaveWitness(k)
               /\ k.blocks = b.blocks
<1> DEFINE k == Unlink(b, D)
<1>1. /\ k.blocks = b.blocks /\ k.lru = b.lru /\ k.earliest_blocks = b.earliest_blocks
      /\ k.witnesses = b.witnesses /\ k.missing_bytecodes = b.missing_bytecodes
      /\ k.parent_to_child =
             [p \in Hash \cup {Zero} |-> IF p \in D THEN {} ELSE b.parent_to_child[p]]
      /\ k \in Buffer
  BY DEF Unlink, Buffer
<1> HIDE DEF k
<1>2. LruOrders(k) /\ EarliestIndexes(k) /\ AwaitedHaveWitness(k)
  BY <1>1 DEF LruOrders, EarliestIndexes, AwaitedHaveWitness
<1>3. LinksBuffered(k) BY <1>1 DEF LinksBuffered
<1> QED BY <1>1, <1>2, <1>3 DEF k

\* A buffer that holds fewer blocks is within the limit too.
LEMMA FewerBlocks ==
    ASSUME NEW S \in SUBSET Hash, NEW T \in SUBSET S, Cardinality(S) <= MaxBlocks
    PROVE  Cardinality(T) <= MaxBlocks
<1>1. IsFiniteSet(S) BY HashAssumption, FS_Subset
<1>2. IsFiniteSet(T) /\ Cardinality(T) <= Cardinality(S) BY <1>1, FS_Subset
<1>3. Cardinality(S) \in Nat /\ Cardinality(T) \in Nat BY <1>1, <1>2, FS_CardinalityType
<1> QED BY <1>2, <1>3, BufferAssumption

\* remove_block keeps the buffer consistent.
LEMMA RemoveBlockOK ==
    ASSUME NEW b, BufferOK(b), NEW h \in Hash PROVE BufferOK(RemoveBlock(b, h))
<1> DEFINE u == Unindex(b, {h})
           d == DropWitnesses(u, {h})
<1>1. /\ u \in Buffer /\ LruOrders(u) /\ EarliestIndexes(u) /\ LinksBuffered(u)
      /\ u.blocks = b.blocks \ {h} /\ AwaitedHaveWitness(u)
  BY UnindexOK DEF BufferOK, AwaitedHaveWitness
<1> HIDE DEF u
<1>2. /\ d \in Buffer /\ LruOrders(d) /\ EarliestIndexes(d) /\ LinksBuffered(d)
      /\ AwaitedHaveWitness(d) /\ d.blocks = b.blocks \ {h}
  BY <1>1, DropWitnessesOK
<1> HIDE DEF d
<1>3. Cardinality(d.blocks) <= MaxBlocks BY <1>2, FewerBlocks DEF BufferOK, Buffer
<1>4. RemoveBlock(b, h) = d \/ RemoveBlock(b, h) = b BY DEF RemoveBlock, d, u
<1> QED BY <1>2, <1>3, <1>4 DEF BufferOK

\* Removing a set of blocks with their witnesses, then dropping parent_to_child entries.
LEMMA RemoveSetOK ==
    ASSUME NEW b, BufferOK(b), NEW R \in SUBSET Hash, NEW D
    PROVE  BufferOK(Unlink(DropWitnesses(Unindex(b, R), R), D))
<1> DEFINE u == Unindex(b, R)
           d == DropWitnesses(u, R)
           k == Unlink(d, D)
<1>1. /\ u \in Buffer /\ LruOrders(u) /\ EarliestIndexes(u) /\ LinksBuffered(u)
      /\ u.blocks = b.blocks \ R /\ AwaitedHaveWitness(u)
  BY UnindexOK DEF BufferOK, AwaitedHaveWitness
<1> HIDE DEF u
<1>2. /\ d \in Buffer /\ LruOrders(d) /\ EarliestIndexes(d) /\ LinksBuffered(d)
      /\ AwaitedHaveWitness(d) /\ d.blocks = b.blocks \ R
  BY <1>1, DropWitnessesOK
<1> HIDE DEF d
<1>3. /\ k \in Buffer /\ LruOrders(k) /\ EarliestIndexes(k) /\ LinksBuffered(k)
      /\ AwaitedHaveWitness(k) /\ k.blocks = b.blocks \ R
  BY <1>2, UnlinkOK
<1> HIDE DEF k
<1>4. Cardinality(k.blocks) <= MaxBlocks BY <1>3, FewerBlocks DEF BufferOK, Buffer
<1>5. BufferOK(k) BY <1>3, <1>4 DEF BufferOK
<1> QED BY <1>5 DEF k, d, u

\* remove_block_with_children keeps the buffer consistent.
LEMMA RemoveBlockWithChildrenOK ==
    ASSUME NEW b, BufferOK(b), NEW h \in Hash PROVE BufferOK(RemoveBlockWithChildren(b, h))
<1> DEFINE walked == Linked(b, {h})
           removed == {x \in walked : Removable(b, x)}
<1>1. removed \in SUBSET Hash BY ReachInHash DEF Linked
<1> HIDE DEF removed
<1>2. BufferOK(Unlink(DropWitnesses(Unindex(b, removed), removed), walked))
  BY <1>1, RemoveSetOK
<1> QED BY <1>2 DEF RemoveBlockWithChildren, removed

\* evict_old_blocks keeps the buffer consistent.
LEMMA EvictOldBlocksOK ==
    ASSUME NEW b, BufferOK(b), NEW n \in Numbers PROVE BufferOK(EvictOldBlocks(b, n))
<1> DEFINE old    == UNION {b.earliest_blocks[m] : m \in {k \in Numbers : k <= n}}
           walked == Linked(b, old)
           kept   == [b EXCEPT !.earliest_blocks =
                                  [m \in Numbers |-> IF m <= n THEN {} ELSE @[m]]]
           R == walked \cap b.blocks
<1>1. b \in Buffer /\ EarliestIndexes(b) BY DEF BufferOK
<1>2. old \subseteq b.blocks BY <1>1 DEF EarliestIndexes
<1>3. old \subseteq walked /\ walked \subseteq Hash
  BY <1>1, <1>2, ReachRoots, ReachInHash DEF Linked, Buffer
<1>4. R \in SUBSET Hash BY <1>3
<1>5. \A m \in Numbers : m <= n => b.earliest_blocks[m] = {h \in R : Number[h] = m}
  <2> SUFFICES ASSUME NEW m \in Numbers, m <= n
               PROVE  b.earliest_blocks[m] = {h \in R : Number[h] = m}
    OBVIOUS
  <2>1. b.earliest_blocks[m] \subseteq old OBVIOUS
  <2>2. b.earliest_blocks[m] = {h \in b.blocks : Number[h] = m} BY <1>1 DEF EarliestIndexes
  <2> HIDE DEF old, walked
  <2> QED BY <2>1, <2>2, <1>3
<1>6. kept.blocks = b.blocks BY <1>1 DEF Buffer
<1>7. Unindex(kept, R) = Unindex(b, R)
  <2> HIDE DEF R
  <2> QED BY <1>1, <1>5 DEF Unindex, RemoveFromEarliestBlocks, RemoveFromParent, Buffer
<1>8. EvictOldBlocks(b, n) = Unlink(DropWitnesses(Unindex(b, R), R), walked)
  BY <1>6, <1>7 DEF EvictOldBlocks, EvictBlocks
<1> HIDE DEF R, walked
<1> QED BY <1>4, <1>8, RemoveSetOK

\* A non-empty LRU map has an oldest entry, the one pop_oldest takes.
LEMMA OldestExists ==
    ASSUME NEW b \in Buffer, LruOrders(b), b.blocks # {}
    PROVE  LruOldest(b.lru) \in b.blocks
<1> DEFINE older(x) == {y \in b.blocks : <<y, x>> \in b.lru}
           sizes == {Cardinality(older(x)) : x \in b.blocks}
<1>1. \A x \in b.blocks : IsFiniteSet(older(x)) /\ Cardinality(older(x)) \in Nat
  <2>1. IsFiniteSet(b.blocks) BY HashAssumption, FS_Subset DEF Buffer
  <2> QED BY <2>1, FS_Subset, FS_CardinalityType
<1>2. sizes \subseteq Nat /\ sizes # {} BY <1>1
<1>3. PICK x \in b.blocks : \A s \in sizes : ~ (<<s, Cardinality(older(x))>> \in OpToRel(<, Nat))
  <2> HIDE DEF sizes
  <2>1. \E m \in sizes : \A s \in sizes : ~ (<<s, m>> \in OpToRel(<, Nat))
    BY <1>2, WFMin, NatLessThanWellFounded
  <2> QED BY <2>1 DEF sizes
<1>4. \A y \in b.blocks : ~ (Cardinality(older(y)) < Cardinality(older(x)))
  BY <1>1, <1>3 DEF OpToRel
<1>5. ASSUME NEW k \in b.blocks PROVE <<x, k>> \in b.lru
  <2>1. SUFFICES ASSUME <<x, k>> \notin b.lru PROVE FALSE OBVIOUS
  <2>2. <<k, x>> \in b.lru BY <2>1 DEF LruOrders
  <2>3. older(k) \subseteq older(x) BY <2>2 DEF LruOrders
  <2>4. x \in older(x) /\ x \notin older(k) BY <2>1 DEF LruOrders
  <2>5. Cardinality(older(k)) < Cardinality(older(x))
    <3> HIDE DEF older
    <3>1. /\ Cardinality(older(k)) <= Cardinality(older(x))
          /\ Cardinality(older(x)) = Cardinality(older(k)) => older(x) = older(k)
      BY <1>1, <2>3, FS_Subset
    <3> QED BY <1>1, <2>4, <3>1
  <2> QED BY <2>5, <1>4
<1>6. x \in LruKeys(b.lru) /\ \A k \in LruKeys(b.lru) : <<x, k>> \in b.lru
  BY <1>5 DEF LruOrders
<1>7. LruOldest(b.lru) \in LruKeys(b.lru) BY <1>6 DEF LruOldest
<1> QED BY <1>7 DEF LruOrders

\* insert_hash_and_get_evicted takes out at most one block, a buffered one, and only at the limit.
LEMMA VictimsAtLimit ==
    ASSUME NEW b, BufferOK(b), NEW h \in Hash
    PROVE  /\ Victims(b, h) \subseteq b.blocks \ {h}
           /\ Cardinality((b.blocks \cup {h}) \ Victims(b, h)) <= MaxBlocks
<1>1. IsFiniteSet(b.blocks) /\ Cardinality(b.blocks) \in Nat
  BY HashAssumption, FS_Subset, FS_CardinalityType DEF BufferOK, Buffer
<1>2. LruKeys(b.lru) = b.blocks BY DEF BufferOK, LruOrders
<1>3. /\ IsFiniteSet(b.blocks \cup {h})
      /\ Cardinality(b.blocks \cup {h}) =
             IF h \in b.blocks THEN Cardinality(b.blocks) ELSE Cardinality(b.blocks) + 1
  BY <1>1, FS_AddElement
<1>4. CASE h \notin b.blocks /\ MaxBlocks <= Cardinality(b.blocks)
  <2>1. b.blocks # {} BY <1>4, FS_EmptySet, BufferAssumption
  <2> DEFINE v == LruOldest(b.lru)
  <2>2. v \in b.blocks BY <2>1, OldestExists DEF BufferOK
  <2>3. Victims(b, h) = {v} BY <1>2, <1>4 DEF Victims
  <2> HIDE DEF v
  <2>4. Cardinality((b.blocks \cup {h}) \ {v}) = Cardinality(b.blocks \cup {h}) - 1
    BY <1>3, <2>2, FS_RemoveElement
  <2>5. Cardinality(b.blocks) <= MaxBlocks BY DEF BufferOK
  <2> QED BY <1>1, <1>3, <1>4, <2>2, <2>3, <2>4, <2>5, BufferAssumption
<1>5. CASE ~(h \notin b.blocks /\ MaxBlocks <= Cardinality(b.blocks))
  <2>1. Victims(b, h) = {} BY <1>2, <1>5 DEF Victims
  <2>2. Cardinality(b.blocks) <= MaxBlocks BY DEF BufferOK
  <2>3. Cardinality(b.blocks \cup {h}) <= MaxBlocks BY <1>1, <1>3, <1>5, <2>2, BufferAssumption
  <2> QED BY <2>1, <2>3
<1> QED BY <1>4, <1>5

\* The pairs of an LRU map after a removal and a use of h.
LEMMA LruTouchPairs ==
    ASSUME NEW lru \in SUBSET (Hash \X Hash), NEW h \in Hash, NEW V, h \notin V,
           NEW p \in LruTouch(LruWithout(lru, V), h)
    PROVE  p \in Hash \X Hash /\ p[1] \notin V /\ p[2] \notin V
<1>1. CASE p \in {q \in LruWithout(lru, V) : q[1] # h /\ q[2] # h} BY <1>1 DEF LruWithout
<1>2. CASE p \in {<<k, h>> : k \in LruKeys(LruWithout(lru, V)) \cup {h}}
  <2>1. PICK k \in LruKeys(LruWithout(lru, V)) \cup {h} : p = <<k, h>> BY <1>2
  <2>2. k \in Hash /\ k \notin V BY DEF LruKeys, LruWithout
  <2> QED BY <2>1, <2>2
<1> QED BY <1>1, <1>2 DEF LruTouch

\* get_or_insert after a removal orders the remaining keys with h as the newest.
LEMMA LruTouchOK ==
    ASSUME NEW b \in Buffer, LruOrders(b), NEW h \in Hash, NEW V, h \notin V,
           NEW c, c.lru = LruTouch(LruWithout(b.lru, V), h),
           c.blocks = (b.blocks \cup {h}) \ V
    PROVE  LruOrders(c)
<1> DEFINE rest == b.blocks \ (V \cup {h})
<1>1. \A x, y : <<x, y>> \in c.lru <=> \/ x \in rest /\ y \in rest /\ <<x, y>> \in b.lru
                                       \/ x \in rest \cup {h} /\ y = h
  <2>1. b.lru \subseteq b.blocks \X b.blocks /\ b.blocks \subseteq Hash
    BY DEF LruOrders, Buffer
  <2>2. LruKeys(LruWithout(b.lru, V)) = b.blocks \ V
    BY LruWithoutKeys DEF LruOrders, Buffer
  <2>3. c.lru = {p \in LruWithout(b.lru, V) : p[1] # h /\ p[2] # h}
                    \cup {<<k, h>> : k \in (b.blocks \ V) \cup {h}}
    BY <2>2 DEF LruTouch
  <2>4. ASSUME NEW x, NEW y
        PROVE  <<x, y>> \in {p \in LruWithout(b.lru, V) : p[1] # h /\ p[2] # h} <=>
                   x \in rest /\ y \in rest /\ <<x, y>> \in b.lru
    BY <2>1 DEF LruWithout
  <2>5. ASSUME NEW x, NEW y
        PROVE  <<x, y>> \in {<<k, h>> : k \in (b.blocks \ V) \cup {h}} <=>
                   x \in rest \cup {h} /\ y = h
    OBVIOUS
  <2> QED BY <2>3, <2>4, <2>5
<1>2. c.blocks = rest \cup {h} BY DEF rest
<1>3. c.lru \subseteq c.blocks \X c.blocks
  <2>1. c.lru \subseteq Hash \X Hash BY LruTouchPairs DEF Buffer
  <2> QED BY <1>1, <1>2, <2>1
<1>4. rest \subseteq b.blocks /\ h \notin rest /\ b.blocks \subseteq Hash BY DEF Buffer
<1> HIDE DEF rest
<1>5. LruKeys(c.lru) = c.blocks
  <2>1. \A x \in rest : <<x, x>> \in b.lru BY <1>4 DEF LruOrders
  <2> QED BY <1>1, <1>2, <1>4, <2>1 DEF LruKeys
<1>6. \A x, y \in c.blocks : <<x, y>> \in c.lru \/ <<y, x>> \in c.lru
  BY <1>1, <1>2, <1>4 DEF LruOrders
<1>7. \A x, y \in c.blocks : <<x, y>> \in c.lru /\ <<y, x>> \in c.lru => x = y
  BY <1>1, <1>2, <1>4 DEF LruOrders
<1>8. \A x, y, z \in c.blocks : <<x, y>> \in c.lru /\ <<y, z>> \in c.lru => <<x, z>> \in c.lru
  <2>1. \A x, y, z \in rest : <<x, y>> \in b.lru /\ <<y, z>> \in b.lru => <<x, z>> \in b.lru
    BY <1>4 DEF LruOrders
  <2> QED BY <1>1, <1>2, <1>4, <2>1
<1> QED BY <1>3, <1>5, <1>6, <1>7, <1>8 DEF LruOrders

\* insert_block keeps the buffer consistent, at its limit too.
LEMMA InsertBlockOK ==
    ASSUME NEW b, BufferOK(b), NEW h \in Hash PROVE BufferOK(InsertBlock(b, h))
<1> DEFINE v == Victims(b, h)
           i == [b EXCEPT !.parent_to_child[Parent[h]] = @ \cup {h},
                          !.earliest_blocks[Number[h]] = @ \cup {h},
                          !.blocks = @ \cup {h},
                          !.lru = LruTouch(LruWithout(@, v), h)]
           f == EvictBlocks(i, v)
<1>1. b \in Buffer /\ v \subseteq b.blocks \ {h} /\ v \in SUBSET Hash
  BY VictimsAtLimit DEF BufferOK, Buffer
<1>2. Parent[h] \in Hash \cup {Zero} /\ Number[h] \in Numbers
  BY ParentAssumption, NumbersNat
<1> HIDE DEF v
<1>3. LruTouch(LruWithout(b.lru, v), h) \in SUBSET (Hash \X Hash)
  BY <1>1, LruTouchPairs DEF Buffer
<1>4. /\ i \in Buffer
      /\ i.blocks = b.blocks \cup {h}
      /\ i.witnesses = b.witnesses /\ i.missing_bytecodes = b.missing_bytecodes
      /\ i.lru = LruTouch(LruWithout(b.lru, v), h)
      /\ i.earliest_blocks =
             [b.earliest_blocks EXCEPT ![Number[h]] = @ \cup {h}]
      /\ i.parent_to_child =
             [b.parent_to_child EXCEPT ![Parent[h]] = @ \cup {h}]
  <2> DEFINE pc == [b.parent_to_child EXCEPT ![Parent[h]] = @ \cup {h}]
             eb == [b.earliest_blocks EXCEPT ![Number[h]] = @ \cup {h}]
             lr == LruTouch(LruWithout(b.lru, v), h)
  <2>1. i = [b EXCEPT !.parent_to_child = pc, !.earliest_blocks = eb,
                      !.blocks = @ \cup {h}, !.lru = lr]
    BY <1>1 DEF Buffer
  <2>2. pc \in [Hash \cup {Zero} -> SUBSET Hash] BY <1>1, <1>2 DEF Buffer
  <2>3. eb \in [Numbers -> SUBSET Hash] BY <1>1, <1>2 DEF Buffer
  <2> HIDE DEF i, pc, eb, lr
  <2>4. /\ i \in Buffer /\ i.parent_to_child = pc /\ i.earliest_blocks = eb /\ i.lru = lr
        /\ i.blocks = b.blocks \cup {h}
        /\ i.witnesses = b.witnesses /\ i.missing_bytecodes = b.missing_bytecodes
    BY <1>1, <1>3, <2>1, <2>2, <2>3 DEF Buffer, lr
  <2> QED BY <2>4 DEF pc, eb, lr
<1> HIDE DEF i
<1>5. v \cap i.blocks = v BY <1>1, <1>4
<1>6. /\ f \in Buffer
      /\ f.blocks = i.blocks \ v
      /\ f.lru = LruWithout(i.lru, v)
      /\ f.witnesses = [x \in Hash |-> IF x \in v THEN None ELSE i.witnesses[x]]
      /\ f.missing_bytecodes =
             [x \in Hash |-> IF x \in v THEN {} ELSE i.missing_bytecodes[x]]
      /\ f.earliest_blocks =
             [n \in Numbers |-> i.earliest_blocks[n] \ {x \in v : Number[x] = n}]
      /\ f.parent_to_child =
             [p \in Hash \cup {Zero} |-> i.parent_to_child[p] \ {x \in v : Parent[x] = p}]
  BY <1>1, <1>4, <1>5, LruWithoutKeys
     DEF EvictBlocks, DropWitnesses, Unindex, RemoveFromEarliestBlocks, RemoveFromParent, Buffer
<1> HIDE DEF f
<1>7. LruOrders(f)
  <2>1. LruWithout(i.lru, v) = i.lru
    <3>1. \A p \in i.lru : p[1] \notin v /\ p[2] \notin v BY <1>1, <1>4, LruTouchPairs DEF Buffer
    <3> QED BY <3>1 DEF LruWithout
  <2>2. f.lru = LruTouch(LruWithout(b.lru, v), h) BY <2>1, <1>4, <1>6
  <2>3. f.blocks = (b.blocks \cup {h}) \ v BY <1>4, <1>6
  <2> QED BY <1>1, <2>2, <2>3, LruTouchOK DEF BufferOK
<1>8. Cardinality(f.blocks) <= MaxBlocks BY <1>4, <1>6, VictimsAtLimit DEF v
<1>9. EarliestIndexes(f)
  BY <1>1, <1>2, <1>4, <1>6 DEF EarliestIndexes, BufferOK, Buffer
<1>10. LinksBuffered(f)
  <2>1. \A p \in Hash \cup {Zero} :
            i.parent_to_child[p] \subseteq {x \in b.blocks \cup {h} : Parent[x] = p}
    BY <1>1, <1>2, <1>4 DEF LinksBuffered, BufferOK, Buffer
  <2> QED BY <2>1, <1>4, <1>6 DEF LinksBuffered
<1>11. AwaitedHaveWitness(f) BY <1>4, <1>6 DEF AwaitedHaveWitness, BufferOK
<1> QED BY <1>6, <1>7, <1>8, <1>9, <1>10, <1>11 DEF BufferOK, InsertBlock, f, i, v

\* insert_witness keeps the buffer consistent.
LEMMA InsertWitnessOK ==
    ASSUME NEW b, BufferOK(b), NEW h \in Hash, NEW w \in Witness, NEW missing \in SUBSET Code
    PROVE  BufferOK(InsertWitness(b, h, w, missing))
<1> DEFINE f == InsertWitness(b, h, w, missing)
<1>1. /\ f \in Buffer /\ f.blocks = b.blocks /\ f.lru = b.lru
      /\ f.earliest_blocks = b.earliest_blocks /\ f.parent_to_child = b.parent_to_child
      /\ \A x \in Hash : x # h => /\ f.witnesses[x] = b.witnesses[x]
                                  /\ f.missing_bytecodes[x] = b.missing_bytecodes[x]
      /\ f.witnesses[h] = w
  BY DEF InsertWitness, BufferOK, Buffer
<1> HIDE DEF f
<1>2. LruOrders(f) /\ EarliestIndexes(f) /\ LinksBuffered(f)
  BY <1>1 DEF BufferOK, LruOrders, EarliestIndexes, LinksBuffered
<1>3. AwaitedHaveWitness(f) BY <1>1, BufferAssumption DEF AwaitedHaveWitness, BufferOK
<1> QED BY <1>1, <1>2, <1>3 DEF BufferOK, f

\* remove_witness keeps the buffer consistent.
LEMMA RemoveWitnessOK ==
    ASSUME NEW b, BufferOK(b), NEW h \in Hash PROVE BufferOK(RemoveWitness(b, h))
<1> DEFINE f == [b EXCEPT !.witnesses[h] = None]
<1>1. SUFFICES ASSUME b.missing_bytecodes[h] = {} PROVE BufferOK(f)
  BY DEF RemoveWitness
<1>2. /\ f \in Buffer /\ f.blocks = b.blocks /\ f.lru = b.lru
      /\ f.earliest_blocks = b.earliest_blocks /\ f.parent_to_child = b.parent_to_child
      /\ f.missing_bytecodes = b.missing_bytecodes
      /\ \A x \in Hash : x # h => f.witnesses[x] = b.witnesses[x]
  BY DEF BufferOK, Buffer
<1> HIDE DEF f
<1>3. LruOrders(f) /\ EarliestIndexes(f) /\ LinksBuffered(f)
  BY <1>2 DEF BufferOK, LruOrders, EarliestIndexes, LinksBuffered
<1>4. AwaitedHaveWitness(f) BY <1>1, <1>2 DEF AwaitedHaveWitness, BufferOK
<1> QED BY <1>2, <1>3, <1>4 DEF BufferOK

\* on_bytecode_received keeps the buffer consistent.
LEMMA OnBytecodeReceivedOK ==
    ASSUME NEW b, BufferOK(b), NEW c PROVE BufferOK(OnBytecodeReceived(b, c))
<1> DEFINE f == OnBytecodeReceived(b, c)
<1>1. /\ f \in Buffer /\ f.blocks = b.blocks /\ f.lru = b.lru
      /\ f.earliest_blocks = b.earliest_blocks /\ f.parent_to_child = b.parent_to_child
      /\ f.witnesses = b.witnesses
      /\ \A h \in Hash : f.missing_bytecodes[h] = b.missing_bytecodes[h] \ {c}
  BY DEF OnBytecodeReceived, BufferOK, Buffer
<1> HIDE DEF f
<1>2. LruOrders(f) /\ EarliestIndexes(f) /\ LinksBuffered(f)
  BY <1>1 DEF BufferOK, LruOrders, EarliestIndexes, LinksBuffered
<1>3. AwaitedHaveWitness(f) BY <1>1 DEF AwaitedHaveWitness, BufferOK
<1> QED BY <1>1, <1>2, <1>3 DEF BufferOK, f

\* BlockBuffer::new returns a consistent buffer.
LEMMA NewBufferOK == BufferOK(NewBuffer)
<1> DEFINE f == NewBuffer
<1>1. /\ f.blocks = {} /\ f.lru = {} /\ f \in Buffer
      /\ \A n \in Numbers : f.earliest_blocks[n] = {}
      /\ \A p \in Hash \cup {Zero} : f.parent_to_child[p] = {}
      /\ \A h \in Hash : f.missing_bytecodes[h] = {}
  BY DEF NewBuffer, Buffer
<1> HIDE DEF f
<1>2. Cardinality(f.blocks) <= MaxBlocks BY <1>1, FS_EmptySet, BufferAssumption
<1>3. LruOrders(f) BY <1>1 DEF LruOrders, LruKeys
<1>4. EarliestIndexes(f) /\ LinksBuffered(f) /\ AwaitedHaveWitness(f)
  BY <1>1 DEF EarliestIndexes, LinksBuffered, AwaitedHaveWitness
<1> QED BY <1>1, <1>2, <1>3, <1>4 DEF f, BufferOK

\* evict_old_blocks(n) leaves no block at or below n.
LEMMA EvictOldBlocksClears ==
    ASSUME NEW b, BufferOK(b), NEW n \in Numbers, NEW h \in EvictOldBlocks(b, n).blocks
    PROVE  Number[h] > n
<1> DEFINE old    == UNION {b.earliest_blocks[m] : m \in {k \in Numbers : k <= n}}
           walked == Linked(b, old)
           kept   == [b EXCEPT !.earliest_blocks =
                                  [m \in Numbers |-> IF m <= n THEN {} ELSE @[m]]]
<1>1. b \in Buffer /\ EarliestIndexes(b) BY DEF BufferOK
<1>2. old \subseteq Hash BY <1>1 DEF Buffer
<1>3. old \subseteq walked BY <1>2, ReachRoots DEF Linked
<1> HIDE DEF old, walked
<1>4. h \in b.blocks /\ h \notin walked
  <2>1. kept.blocks = b.blocks BY <1>1 DEF Buffer
  <2>2. kept \in Buffer BY <1>1 DEF Buffer
  <2>3. EvictOldBlocks(b, n) = Unlink(EvictBlocks(kept, walked), walked)
    BY DEF EvictOldBlocks, walked, old
  <2> HIDE DEF kept
  <2>4. Unlink(EvictBlocks(kept, walked), walked).blocks = kept.blocks \ walked
    BY <2>2 DEF Unlink, EvictBlocks, DropWitnesses, Unindex, Buffer
  <2> QED BY <2>1, <2>3, <2>4
<1>5. h \in Hash /\ Number[h] \in Numbers BY <1>1, <1>4, NumbersNat DEF Buffer
<1>6. h \in b.earliest_blocks[Number[h]] BY <1>1, <1>4, <1>5 DEF EarliestIndexes
<1>7. ~(Number[h] <= n) BY <1>3, <1>4, <1>5, <1>6 DEF old
<1>8. Number[h] \in Nat /\ n \in Nat BY <1>5, NumbersNat
<1> QED BY <1>7, <1>8

-----------------------------------------------------------------------------
(***************************************************************************)
(* What the operations leave in the buffer.  LeftOf(f, b): f holds no      *)
(* block that b did not hold, and a witness is as it was, or gone together *)
(* with what it misses.  LinksKept(f, b): a block of f that b linked to    *)
(* its parent is still linked.                                             *)
(***************************************************************************)
WitnessesLeft(f, b) ==
    \A h \in Hash : \/ /\ f.witnesses[h] = b.witnesses[h]
                       /\ f.missing_bytecodes[h] = b.missing_bytecodes[h]
                    \/ /\ f.witnesses[h] = None
                       /\ f.missing_bytecodes[h] = {}

\* f holds no block and no witness that b did not hold.
LeftOf(f, b) == f.blocks \subseteq b.blocks /\ WitnessesLeft(f, b)

\* Blocks that stay keep the link from their parent.
LinksKept(f, b) ==
    \A h \in f.blocks : h \in b.parent_to_child[Parent[h]] => h \in f.parent_to_child[Parent[h]]

\* What the removals do: a set of blocks goes with its witnesses, and then links go.
RemoveSet(b, R, D) == Unlink(DropWitnesses(Unindex(b, R), R), D)

\* The fields of f after the removal of R from b, with the links of D dropped.
RemovedFrom(f, b, R, D) ==
    /\ f.blocks = b.blocks \ R
    /\ \A h \in Hash : /\ h \in R => f.witnesses[h] = None /\ f.missing_bytecodes[h] = {}
                       /\ h \notin R => /\ f.witnesses[h] = b.witnesses[h]
                                        /\ f.missing_bytecodes[h] = b.missing_bytecodes[h]
    /\ \A p \in Hash \cup {Zero} : \A h \in Hash :
           h \in f.parent_to_child[p] <=>
               p \notin D /\ h \in b.parent_to_child[p] /\ ~(h \in R /\ Parent[h] = p)

\* A removal leaves the fields so.
LEMMA RemoveSetFields ==
    ASSUME NEW b \in Buffer, NEW R \in SUBSET Hash, NEW D
    PROVE  RemovedFrom(RemoveSet(b, R, D), b, R, D)
<1> DEFINE u == Unindex(b, R)
           d == DropWitnesses(u, R)
           f == Unlink(d, D)
<1>1. /\ u.blocks = b.blocks \ R /\ u.witnesses = b.witnesses
      /\ u.missing_bytecodes = b.missing_bytecodes
      /\ u.parent_to_child =
             [p \in Hash \cup {Zero} |-> b.parent_to_child[p] \ {h \in R : Parent[h] = p}]
      /\ u \in Buffer
  BY LruWithoutKeys DEF Unindex, RemoveFromEarliestBlocks, RemoveFromParent, Buffer
<1> HIDE DEF u
<1>2. /\ d.blocks = u.blocks /\ d.parent_to_child = u.parent_to_child /\ d \in Buffer
      /\ d.witnesses = [h \in Hash |-> IF h \in R THEN None ELSE u.witnesses[h]]
      /\ d.missing_bytecodes = [h \in Hash |-> IF h \in R THEN {} ELSE u.missing_bytecodes[h]]
  BY <1>1 DEF DropWitnesses, Buffer
<1> HIDE DEF d
<1>3. /\ f.blocks = d.blocks /\ f.witnesses = d.witnesses
      /\ f.missing_bytecodes = d.missing_bytecodes
      /\ f.parent_to_child =
             [p \in Hash \cup {Zero} |-> IF p \in D THEN {} ELSE d.parent_to_child[p]]
  BY <1>2 DEF Unlink, Buffer
<1> HIDE DEF f
<1>4. /\ f.blocks = b.blocks \ R
      /\ \A h \in Hash : /\ h \in R => f.witnesses[h] = None /\ f.missing_bytecodes[h] = {}
                         /\ h \notin R => /\ f.witnesses[h] = b.witnesses[h]
                                          /\ f.missing_bytecodes[h] = b.missing_bytecodes[h]
  BY <1>1, <1>2, <1>3
<1>5. \A p \in Hash \cup {Zero} : \A h \in Hash :
          h \in f.parent_to_child[p] <=>
              p \notin D /\ h \in b.parent_to_child[p] /\ ~(h \in R /\ Parent[h] = p)
  BY <1>1, <1>2, <1>3
<1>6. f = RemoveSet(b, R, D) BY DEF f, d, u, RemoveSet
<1> QED BY <1>4, <1>5, <1>6 DEF RemovedFrom

\* What remove_witness does to the buffer.
WitnessRemoved(f, b, h) ==
    /\ LeftOf(f, b) /\ LinksKept(f, b)
    /\ f.blocks = b.blocks
    /\ ReadyWitness(f, h) = None
    /\ \A x \in Hash \ {h} : f.witnesses[x] = b.witnesses[x]
    /\ f.missing_bytecodes = b.missing_bytecodes

\* remove_witness takes out the witness of h at most.
LEMMA RemoveWitnessEffect ==
    ASSUME NEW b, BufferOK(b), NEW h \in Hash PROVE WitnessRemoved(RemoveWitness(b, h), b, h)
<1> DEFINE f == RemoveWitness(b, h)
<1>1. CASE b.missing_bytecodes[h] = {}
  <2>1. /\ f.blocks = b.blocks /\ f.missing_bytecodes = b.missing_bytecodes
        /\ f.parent_to_child = b.parent_to_child
        /\ f.witnesses[h] = None
        /\ \A x \in Hash \ {h} : f.witnesses[x] = b.witnesses[x]
    BY <1>1 DEF RemoveWitness, BufferOK, Buffer
  <2> HIDE DEF f
  <2> QED BY <1>1, <2>1 DEF LeftOf, WitnessesLeft, LinksKept, ReadyWitness, WitnessRemoved, f
<1>2. CASE b.missing_bytecodes[h] # {}
  <2>1. f = b BY <1>2 DEF RemoveWitness
  <2> HIDE DEF f
  <2> QED BY <1>2, <2>1 DEF LeftOf, WitnessesLeft, LinksKept, ReadyWitness, WitnessRemoved, f
<1> QED BY <1>1, <1>2

\* What remove_block does to the buffer.
BlockRemoved(f, b, h) ==
    /\ LeftOf(f, b) /\ LinksKept(f, b)
    /\ f.blocks = b.blocks \ {h}
    /\ f.witnesses[h] = None /\ f.missing_bytecodes[h] = {}

\* remove_block takes a complete block out with its witness.
LEMMA RemoveBlockEffect ==
    ASSUME NEW b, BufferOK(b), NEW h \in Hash, Removable(b, h)
    PROVE  BlockRemoved(RemoveBlock(b, h), b, h)
<1> DEFINE f == RemoveBlock(b, h)
           R == {h}
           k == RemoveSet(b, R, {})
<1>1. b \in Buffer /\ R \in SUBSET Hash /\ \A x : x \in R <=> x = h BY DEF BufferOK
<1> HIDE DEF R
<1>2. RemovedFrom(k, b, R, {}) BY <1>1, RemoveSetFields
<1>3. /\ f.blocks = k.blocks /\ f.witnesses = k.witnesses
      /\ f.missing_bytecodes = k.missing_bytecodes
      /\ \A p \in Hash \cup {Zero} : f.parent_to_child[p] = k.parent_to_child[p]
  <2> DEFINE d == DropWitnesses(Unindex(b, R), R)
  <2>1. d \in Buffer
    <3>1. Unindex(b, R) \in Buffer
      BY <1>1, LruWithoutKeys DEF Unindex, RemoveFromEarliestBlocks, RemoveFromParent, Buffer
    <3> HIDE DEF d
    <3> QED BY <3>1 DEF DropWitnesses, Buffer, d
  <2>2. f = d BY DEF RemoveBlock, R
  <2> HIDE DEF d, f
  <2>3. k = Unlink(d, {}) BY DEF d, RemoveSet
  <2> HIDE DEF k
  <2> QED BY <2>1, <2>2, <2>3 DEF Unlink, Buffer
<1> HIDE DEF f, k
<1>4. \A x \in f.blocks : x \in Hash /\ Parent[x] \in Hash \cup {Zero}
  BY <1>1, <1>2, <1>3, ParentAssumption DEF Buffer, RemovedFrom
<1>5. LinksKept(f, b) BY <1>2, <1>3, <1>4 DEF LinksKept, RemovedFrom
<1>6. LeftOf(f, b) BY <1>2, <1>3 DEF LeftOf, WitnessesLeft, RemovedFrom
<1>7. f.blocks = b.blocks \ {h} BY <1>2, <1>3 DEF R, RemovedFrom
<1> QED BY <1>1, <1>2, <1>3, <1>5, <1>6, <1>7 DEF f, RemovedFrom, BlockRemoved

\* What remove_block_with_children does: the complete blocks among those it walks over go.
WithChildrenRemoved(f, returned, walked, b, h) ==
    /\ LeftOf(f, b)
    /\ f.blocks = b.blocks \ {x \in walked : Removable(b, x)}
    /\ \A x \in f.blocks : x \in b.parent_to_child[Parent[x]] /\ x \notin walked =>
                               x \in f.parent_to_child[Parent[x]]
    /\ h \in walked
    /\ \A x \in walked : b.parent_to_child[x] \subseteq walked
    /\ returned \in [Hash -> Witness \cup {None}]
    /\ \A x \in Hash : returned[x] # None =>
           /\ x \in walked /\ Removable(b, x) /\ returned[x] = b.witnesses[x]
           /\ x \notin f.blocks /\ f.witnesses[x] = None
    /\ \A x \in walked : Removable(b, x) => returned[x] # None

(***************************************************************************)
(* remove_block_with_children takes out every complete block it walks over *)
(* and returns its witness; what it walks over and leaves is not complete. *)
(***************************************************************************)
LEMMA RemoveBlockWithChildrenEffect ==
    ASSUME NEW b, BufferOK(b), NEW h \in Hash
    PROVE  WithChildrenRemoved(RemoveBlockWithChildren(b, h), RemovedWithChildren(b, h),
                               Linked(b, {h}), b, h)
<1> DEFINE f == RemoveBlockWithChildren(b, h)
           walked == Linked(b, {h})
           removed == {x \in walked : Removable(b, x)}
           returned == RemovedWithChildren(b, h)
<1>1. b \in Buffer /\ LinksBuffered(b) BY DEF BufferOK
<1>2. /\ walked \subseteq Hash /\ h \in walked
      /\ \A x \in walked : b.parent_to_child[x] \subseteq walked
  BY <1>1, ReachInHash, ReachRoots, ReachClosed DEF Linked, Buffer
<1>3. removed \in SUBSET Hash BY <1>2
<1>4. f = RemoveSet(b, removed, walked) BY DEF RemoveBlockWithChildren, RemoveSet
<1>5. returned = [x \in Hash |-> IF x \in removed THEN b.witnesses[x] ELSE None]
  BY <1>2 DEF RemovedWithChildren
<1>6. \A x \in removed : /\ x \in walked /\ Removable(b, x) /\ x \in Hash
                         /\ b.witnesses[x] # None
  BY <1>2 DEF Removable, ReadyWitness
<1>7. \A x \in walked : Removable(b, x) => x \in removed OBVIOUS
<1> HIDE DEF f, walked, removed, returned
<1>8. RemovedFrom(f, b, removed, walked) BY <1>1, <1>3, <1>4, RemoveSetFields
<1>9. LeftOf(f, b) BY <1>8 DEF LeftOf, WitnessesLeft, RemovedFrom
<1>10. ASSUME NEW x \in f.blocks, x \in b.parent_to_child[Parent[x]], x \notin walked
       PROVE  x \in f.parent_to_child[Parent[x]]
  <2>1. x \in Hash /\ Parent[x] \in Hash \cup {Zero}
    BY <1>1, <1>8, ParentAssumption DEF Buffer, RemovedFrom
  <2>2. Parent[x] \notin walked BY <1>2, <1>10
  <2> QED BY <1>6, <1>8, <1>10, <2>1, <2>2 DEF RemovedFrom
<1>11. returned \in [Hash -> Witness \cup {None}] BY <1>1, <1>5 DEF Buffer
<1>12. ASSUME NEW x \in Hash, returned[x] # None
       PROVE  /\ x \in walked /\ Removable(b, x) /\ returned[x] = b.witnesses[x]
              /\ x \notin f.blocks /\ f.witnesses[x] = None
  <2>1. x \in removed BY <1>5, <1>12
  <2> QED BY <1>5, <1>6, <1>8, <2>1 DEF RemovedFrom
<1>13. \A x \in walked : Removable(b, x) => returned[x] # None BY <1>5, <1>6, <1>7
<1>14. f.blocks = b.blocks \ {x \in walked : Removable(b, x)} BY <1>8 DEF RemovedFrom, removed
<1> QED BY <1>2, <1>9, <1>10, <1>11, <1>12, <1>13, <1>14
        DEF f, walked, returned, WithChildrenRemoved

\* evict_old_blocks leaves the witnesses and the links of the blocks it leaves.
LEMMA EvictOldBlocksEffect ==
    ASSUME NEW b, BufferOK(b), NEW n \in Numbers
    PROVE  LeftOf(EvictOldBlocks(b, n), b) /\ LinksKept(EvictOldBlocks(b, n), b)
<1> DEFINE f      == EvictOldBlocks(b, n)
           old    == UNION {b.earliest_blocks[m] : m \in {k \in Numbers : k <= n}}
           walked == Linked(b, old)
           kept   == [b EXCEPT !.earliest_blocks =
                                  [m \in Numbers |-> IF m <= n THEN {} ELSE @[m]]]
           R == walked \cap b.blocks
<1>1. b \in Buffer /\ EarliestIndexes(b) BY DEF BufferOK
<1>2. old \in SUBSET Hash BY <1>1 DEF Buffer
<1>3. walked \subseteq Hash /\ \A x \in walked : b.parent_to_child[x] \subseteq walked
  <2>1. b.parent_to_child \in [Hash \cup {Zero} -> SUBSET Hash] BY <1>1 DEF Buffer
  <2> HIDE DEF old
  <2> QED BY <1>2, <2>1, ReachInHash, ReachClosed DEF Linked
<1> HIDE DEF old
<1>4. /\ kept \in Buffer /\ kept.blocks = b.blocks /\ kept.witnesses = b.witnesses
      /\ kept.missing_bytecodes = b.missing_bytecodes
      /\ kept.parent_to_child = b.parent_to_child
  BY <1>1 DEF Buffer
<1>5. f = RemoveSet(kept, R, walked)
  BY <1>4 DEF EvictOldBlocks, EvictBlocks, RemoveSet, old
<1>6. R \in SUBSET Hash BY <1>3
<1>7. \A x \in b.blocks : x \in walked => x \in R OBVIOUS
<1> HIDE DEF f, walked, kept, R
<1>8. RemovedFrom(f, b, R, walked)
  <2>1. RemovedFrom(f, kept, R, walked) BY <1>4, <1>5, <1>6, RemoveSetFields
  <2> QED BY <1>4, <2>1 DEF RemovedFrom
<1>9. LeftOf(f, b) BY <1>8 DEF LeftOf, WitnessesLeft, RemovedFrom
<1>10. ASSUME NEW x \in f.blocks, x \in b.parent_to_child[Parent[x]]
       PROVE  x \in f.parent_to_child[Parent[x]]
  <2>1. x \in Hash /\ Parent[x] \in Hash \cup {Zero} /\ x \in b.blocks /\ x \notin R
    BY <1>1, <1>8, ParentAssumption DEF Buffer, RemovedFrom
  <2>2. Parent[x] \notin walked BY <1>3, <1>7, <1>10, <2>1
  <2> QED BY <1>8, <1>10, <2>1, <2>2 DEF RemovedFrom
<1> QED BY <1>9, <1>10 DEF LinksKept, f

\* What insert_block does to the buffer, an eviction included.
BlockInserted(f, b, h) ==
    /\ f.blocks \subseteq b.blocks \cup {h} /\ h \in f.blocks
    /\ WitnessesLeft(f, b)
    /\ LinksKept(f, b)
    /\ h \in f.parent_to_child[Parent[h]]
    /\ f.witnesses[h] = b.witnesses[h]
    /\ f.missing_bytecodes[h] = b.missing_bytecodes[h]

\* insert_block puts h in, linked to its parent, and takes nothing from h.
LEMMA InsertBlockEffect ==
    ASSUME NEW b, BufferOK(b), NEW h \in Hash PROVE BlockInserted(InsertBlock(b, h), b, h)
<1> DEFINE f == InsertBlock(b, h)
           v == Victims(b, h)
           pc == [b.parent_to_child EXCEPT ![Parent[h]] = @ \cup {h}]
           i == [b EXCEPT !.parent_to_child[Parent[h]] = @ \cup {h},
                          !.earliest_blocks[Number[h]] = @ \cup {h},
                          !.blocks = @ \cup {h},
                          !.lru = LruTouch(LruWithout(@, v), h)]
<1>1. b \in Buffer /\ v \subseteq b.blocks \ {h} /\ v \in SUBSET Hash
  BY VictimsAtLimit DEF BufferOK, Buffer
<1>2. Parent[h] \in Hash \cup {Zero} /\ Number[h] \in Numbers
  BY ParentAssumption, NumbersNat
<1>3. f = EvictBlocks(i, v) BY DEF InsertBlock
<1> HIDE DEF v
<1>4. LruTouch(LruWithout(b.lru, v), h) \in SUBSET (Hash \X Hash)
  BY <1>1, LruTouchPairs DEF Buffer
<1>5. /\ i \in Buffer /\ i.blocks = b.blocks \cup {h} /\ i.parent_to_child = pc
      /\ i.witnesses = b.witnesses /\ i.missing_bytecodes = b.missing_bytecodes
  <2> DEFINE eb == [b.earliest_blocks EXCEPT ![Number[h]] = @ \cup {h}]
             lr == LruTouch(LruWithout(b.lru, v), h)
  <2>1. i = [b EXCEPT !.parent_to_child = pc, !.earliest_blocks = eb,
                      !.blocks = @ \cup {h}, !.lru = lr]
    BY <1>1 DEF Buffer
  <2>2. pc \in [Hash \cup {Zero} -> SUBSET Hash] BY <1>1, <1>2 DEF Buffer
  <2>3. eb \in [Numbers -> SUBSET Hash] BY <1>1, <1>2 DEF Buffer
  <2> HIDE DEF i, pc, eb, lr
  <2> QED BY <1>1, <1>4, <2>1, <2>2, <2>3 DEF Buffer, lr
<1>6. \A p \in Hash \cup {Zero} : pc[p] = IF p = Parent[h] THEN b.parent_to_child[p] \cup {h}
                                          ELSE b.parent_to_child[p]
  BY <1>1, <1>2 DEF Buffer
<1> HIDE DEF i, f, pc
<1>7. v \cap i.blocks = v BY <1>1, <1>5
<1>8. /\ f.blocks = i.blocks \ v
      /\ f.witnesses = [x \in Hash |-> IF x \in v THEN None ELSE i.witnesses[x]]
      /\ f.missing_bytecodes = [x \in Hash |-> IF x \in v THEN {} ELSE i.missing_bytecodes[x]]
      /\ \A p \in Hash \cup {Zero} : \A x \in Hash :
             x \in f.parent_to_child[p] <=> x \in i.parent_to_child[p] /\ ~(x \in v /\ Parent[x] = p)
  BY <1>1, <1>3, <1>5, <1>7, LruWithoutKeys
     DEF EvictBlocks, DropWitnesses, Unindex, RemoveFromEarliestBlocks, RemoveFromParent, Buffer
<1>9. f.blocks \subseteq b.blocks \cup {h} /\ h \in f.blocks BY <1>1, <1>5, <1>8
<1>10. /\ WitnessesLeft(f, b)
       /\ f.witnesses[h] = b.witnesses[h] /\ f.missing_bytecodes[h] = b.missing_bytecodes[h]
  BY <1>1, <1>5, <1>8 DEF WitnessesLeft
<1>11. h \in f.parent_to_child[Parent[h]]
  <2>1. pc[Parent[h]] = b.parent_to_child[Parent[h]] \cup {h} BY <1>2, <1>6
  <2>2. h \in i.parent_to_child[Parent[h]] /\ h \notin v BY <1>1, <1>5, <2>1
  <2> QED BY <1>2, <1>8, <2>2
<1>12. LinksKept(f, b)
  <2> SUFFICES ASSUME NEW x \in f.blocks, x \in b.parent_to_child[Parent[x]]
               PROVE  x \in f.parent_to_child[Parent[x]]
    BY DEF LinksKept
  <2>1. x \in Hash /\ Parent[x] \in Hash \cup {Zero} BY <1>1, <1>9, ParentAssumption DEF Buffer
  <2>2. x \notin v BY <1>8
  <2> QED BY <1>5, <1>6, <1>8, <2>1, <2>2
<1> QED BY <1>9, <1>10, <1>11, <1>12 DEF f, BlockInserted

\* What insert_witness does to the buffer.
WitnessInserted(f, b, h, w, missing) ==
    /\ f.blocks = b.blocks /\ f.parent_to_child = b.parent_to_child
    /\ \A x \in Hash : x # h => /\ f.witnesses[x] = b.witnesses[x]
                                /\ f.missing_bytecodes[x] = b.missing_bytecodes[x]
    /\ f.witnesses[h] = w
    /\ f.missing_bytecodes[h] = IF missing = {} THEN b.missing_bytecodes[h] ELSE missing

\* insert_witness touches the witness of h only.
LEMMA InsertWitnessEffect ==
    ASSUME NEW b, BufferOK(b), NEW h \in Hash, NEW w, NEW missing
    PROVE  WitnessInserted(InsertWitness(b, h, w, missing), b, h, w, missing)
BY DEF InsertWitness, BufferOK, Buffer, WitnessInserted

\* What on_bytecode_received does to the buffer.
BytecodeReceived(f, b, k) ==
    /\ f.blocks = b.blocks /\ f.parent_to_child = b.parent_to_child
    /\ f.witnesses = b.witnesses
    /\ \A x \in Hash : f.missing_bytecodes[x] = b.missing_bytecodes[x] \ {k}

\* on_bytecode_received takes one bytecode off what the witnesses miss.
LEMMA OnBytecodeReceivedEffect ==
    ASSUME NEW b, BufferOK(b), NEW k PROVE BytecodeReceived(OnBytecodeReceived(b, k), b, k)
BY DEF OnBytecodeReceived, BufferOK, Buffer, BytecodeReceived
=============================================================================
