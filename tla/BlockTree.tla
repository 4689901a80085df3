------------------------------ MODULE BlockTree ------------------------------
(***************************************************************************)
(* The blocks that exist, seen from outside the node.                      *)
(*                                                                         *)
(* Ress never creates a block: it is told about blocks by the consensus    *)
(* client and by its peers, and a block is known by its hash, which fixes  *)
(* its parent and its number.  The block tree is therefore a constant: the *)
(* components of the node differ in which part of it they hold.            *)
(***************************************************************************)
EXTENDS Integers, FiniteSets

CONSTANTS
    Hash,       \* block hashes
    Genesis,    \* the hash of the genesis block of the chain specification
    Zero,       \* B256::ZERO, which is no block's hash
    None,       \* an absent Option
    Parent,     \* header.parent_hash of every block
    Number      \* header.number of every block

ASSUME HashAssumption == /\ IsFiniteSet(Hash)
                         /\ Genesis \in Hash
                         /\ Zero \notin Hash
                         /\ None \notin Hash \cup {Zero}

(***************************************************************************)
(* Header numbers follow the parent link.  A header that breaks the rule   *)
(* fails validate_header_against_parent and is represented by a block with *)
(* the verdict "header" in module TreeOps.                                 *)
(***************************************************************************)
ASSUME ParentAssumption ==
    /\ Parent \in [Hash -> Hash \cup {Zero}]
    /\ Number \in [Hash -> Nat]
    /\ \A h \in Hash : IF h = Genesis
                         THEN Parent[h] = Zero /\ Number[h] = 0
                         ELSE /\ Number[h] > 0
                              /\ Parent[h] \in Hash => Number[h] = Number[Parent[h]] + 1

Numbers == {Number[h] : h \in Hash}

-----------------------------------------------------------------------------
(***************************************************************************)
(* Reach(roots, next): everything reached from roots along next, as the    *)
(* least set of hashes that holds the roots and is closed under next.      *)
(***************************************************************************)
Closed(S, next) == \A x \in S : next[x] \subseteq S

Reach(roots, next) ==
    {x \in Hash : \A S \in SUBSET Hash : (roots \subseteq S /\ Closed(S, next)) => x \in S}

(***************************************************************************)
(* The block itself and its ancestors, as far as they are in the tree.     *)
(***************************************************************************)
Ancestry == [h \in Hash |-> Reach({h}, [x \in Hash |-> {Parent[x]} \cap Hash])]

\* The ancestor of h (or h itself) with number n, None if there is none.
AncestorAt(h, n) ==
    IF \E a \in Ancestry[h] : Number[a] = n
      THEN CHOOSE a \in Ancestry[h] : Number[a] = n
      ELSE None
=============================================================================
