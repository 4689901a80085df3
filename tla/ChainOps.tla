------------------------------ MODULE ChainOps -------------------------------
(***************************************************************************)
(* crates/provider/src/chain_state.rs, with the two compound operations    *)
(* of provider.rs: the in-memory chain as a record with the fields of      *)
(* ChainStateInner.  Maps are total functions, None or the empty set       *)
(* standing for an absent entry; a block's body is its hash.               *)
(***************************************************************************)
EXTENDS BlockTree

CONSTANT Window     \* the 256 of remove_blocks_on_finalized, of the ancestors
                    \* fetched with a finalized block, and of BLOCKHASH

ASSUME WindowAssumption == Window \in Nat \ {0}

Chain == [canonical_hashes_by_number : [Numbers -> Hash \cup {None}],
          blocks_by_hash             : SUBSET Hash,
          block_hashes_by_number     : [Numbers -> SUBSET Hash],
          witnesses                  : SUBSET Hash]

\* The chain state launch.rs starts the node with.
GenesisChain ==
    [canonical_hashes_by_number |-> [n \in Numbers |-> IF n = 0 THEN Genesis ELSE None],
     blocks_by_hash             |-> {Genesis},
     block_hashes_by_number     |-> [n \in Numbers |-> IF n = 0 THEN {Genesis} ELSE {}],
     witnesses                  |-> {}]

-----------------------------------------------------------------------------
IsHashCanonical(c, hash) == \E n \in Numbers : c.canonical_hashes_by_number[n] = hash

(***************************************************************************)
(* block_hash(parent, number): first the ancestors of parent that are in   *)
(* memory, one after the other; when they are exhausted, the canonical     *)
(* hashes, provided the first ancestor that is not in memory is canonical. *)
(***************************************************************************)
BlockHash(c, parent, number) ==
    LET known == {a \in Ancestry[parent] :
                     \A x \in Ancestry[parent] : Number[x] >= Number[a] => x \in c.blocks_by_hash}
        first == {a \in Ancestry[parent] \ known : a = parent \/ \E k \in known : Parent[k] = a}
    IN  IF \E a \in known : Number[a] = number
          THEN CHOOSE a \in known : Number[a] = number
        ELSE IF \E a \in first : /\ number <= Number[a]
                                 /\ c.canonical_hashes_by_number[Number[a]] = a
          THEN c.canonical_hashes_by_number[number]
        ELSE None

\* insert_canonical_hash for every header of a chain segment.
InsertCanonicalHashes(c, headers) ==
    [c EXCEPT !.canonical_hashes_by_number =
        [n \in Numbers |-> IF \E h \in headers : Number[h] = n
                             THEN CHOOSE h \in headers : Number[h] = n
                             ELSE @[n]]]

\* remove_canonical_hash for every header of a chain segment: only entries that match.
RemoveCanonicalHashes(c, headers) ==
    [c EXCEPT !.canonical_hashes_by_number =
        [n \in Numbers |-> IF @[n] \in headers THEN None ELSE @[n]]]

\* Mutant: the new chain is inserted before the old one is removed.
OnChainUpdateInsertsFirst(c, new, old) == RemoveCanonicalHashes(InsertCanonicalHashes(c, new), old)

\* RessProvider::on_chain_update
OnChainUpdate(c, new, old) == InsertCanonicalHashes(RemoveCanonicalHashes(c, old), new)

ChainInsertBlock(c, h, has_witness) ==
    [c EXCEPT !.block_hashes_by_number[Number[h]] = @ \cup {h},
              !.blocks_by_hash = @ \cup {h},
              !.witnesses = IF has_witness THEN @ \cup {h} ELSE @]

\* Mutant: no canonical hash below the finalized block is kept.
KeepNoWindow(hashes, finalized_number) ==
    [n \in Numbers |-> IF n < finalized_number THEN None ELSE hashes[n]]

\* Canonical hashes before finalized.number - 256 go.
KeepWindow(hashes, finalized_number) ==
    [n \in Numbers |-> IF n + Window < finalized_number THEN None ELSE hashes[n]]

\* Mutant: the witnesses of the pruned blocks stay.
OnFinalizedKeepsWitnesses(c, finalized) ==
    IF finalized \in c.blocks_by_hash
      THEN LET low    == {n \in Numbers : n < Number[finalized]}
               pruned == UNION {c.block_hashes_by_number[n] : n \in low}
           IN  [c EXCEPT !.block_hashes_by_number = [n \in Numbers |-> IF n \in low THEN {} ELSE @[n]],
                         !.blocks_by_hash = @ \ pruned,
                         !.canonical_hashes_by_number = KeepWindow(@, Number[finalized])]
      ELSE c

(***************************************************************************)
(* RessProvider::on_finalized and remove_blocks_on_finalized: nothing when *)
(* the finalized block is not in memory.                                   *)
(***************************************************************************)
OnFinalized(c, finalized) ==
    IF finalized \in c.blocks_by_hash
      THEN LET low    == {n \in Numbers : n < Number[finalized]}
               pruned == UNION {c.block_hashes_by_number[n] : n \in low}
           IN  [c EXCEPT !.block_hashes_by_number = [n \in Numbers |-> IF n \in low THEN {} ELSE @[n]],
                         !.blocks_by_hash = @ \ pruned,
                         !.witnesses = @ \ pruned,
                         !.canonical_hashes_by_number = KeepWindow(@, Number[finalized])]
      ELSE c
=============================================================================
