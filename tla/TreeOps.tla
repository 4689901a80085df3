------------------------------- MODULE TreeOps -------------------------------
(***************************************************************************)
(* crates/engine/src/tree/mod.rs: what EngineTree computes from its state  *)
(* without changing it.  The arguments are the fields of the tree: the     *)
(* chain c, the block buffer b, the invalid header cache inv and the       *)
(* canonical head.                                                         *)
(***************************************************************************)
EXTENDS BufferOps, ChainOps

(***************************************************************************)
(* What checking a block would find, which is a property of the block:     *)
(*   "valid"   nothing                                                     *)
(*   "sender"  the sender of a transaction cannot be recovered             *)
(*   "block"   validate_block rejects it, without looking at the parent    *)
(*   "header"  validate_header_against_parent rejects it                   *)
(*   "exec"    execution, the receipts or the state root reject it         *)
(* A witness is a set of trie nodes that a peer sent, of which two things  *)
(* matter: `codes`, the bytecodes that the account leaves among them name, *)
(* and `state`, "corrupt" when reveal_witness fails on them and otherwise  *)
(* "full": one that can be revealed is taken to hold every account that    *)
(* the block reads.                                                        *)
(***************************************************************************)
CONSTANTS
    Verdict,    \* the verdict on every block
    CodesOf,    \* the bytecodes that executing a block asks for
    PoW         \* blocks with a difficulty: proof-of-work blocks

ASSUME VerdictAssumption ==
    /\ Verdict \in [Hash -> {"valid", "sender", "block", "header", "exec"}]
    /\ Verdict[Genesis] = "valid"
    /\ CodesOf \in [Hash -> SUBSET Code]
    /\ PoW \subseteq Hash
    /\ Witness \subseteq [state : {"full", "corrupt"}, codes : SUBSET Code]

(***************************************************************************)
(* What a peer may send as the witness of block h.  Two answers need not   *)
(* be alike: there may be nodes beyond the needed ones, and a corrupt      *)
(* witness names any bytecodes.  A full one names those that execution     *)
(* asks for, because it holds the accounts that have them.                 *)
(***************************************************************************)
WitnessesOf(h) == {w \in Witness : w.state = "full" => CodesOf[h] \subseteq w.codes}

\* A block is good when it and all its ancestors pass every check.
Good(h) == \A a \in Ancestry[h] : Verdict[a] = "valid"

\* The invalid header cache maps a hash to the invalid block it is or descends from.
InvalidHeaders == [Hash -> Hash \cup {None}]

-----------------------------------------------------------------------------
LowestBufferedAncestorOr(b, hash) ==
    IF hash \in b.blocks THEN Parent[LowestAncestor(b, hash)] ELSE hash

\* provider.sealed_header(hash).is_some() || block_buffer.blocks.contains_key(hash)
IsBlockPersistedOrBuffered(c, b, hash) == hash \in c.blocks_by_hash \cup b.blocks

\* invalid_headers.get, for a hash that may be B256::ZERO
InvalidEntry(inv, hash) == IF hash \in Hash THEN inv[hash] ELSE None

\* insert and insert_with_invalid_ancestor: an entry is never replaced.
MarkInvalid(inv, hash, ancestor) ==
    [inv EXCEPT ![hash] = IF @ = None THEN ancestor ELSE @]

\* Mutant: the parent is taken to be valid.
LatestValidHashIsParent(c, inv, parent_hash) == IF parent_hash \in Hash THEN parent_hash ELSE None

(***************************************************************************)
(* latest_valid_hash_for_invalid_payload: the parent when it is in memory; *)
(* otherwise the walk jumps from an entry of the cache to the parent of    *)
(* the invalid block it names, until it meets a hash that is not cached.   *)
(***************************************************************************)
LatestValidHash(c, inv, parent_hash) ==
    LET walk == Reach({parent_hash},
                      [x \in Hash |-> IF inv[x] = None THEN {} ELSE {Parent[inv[x]]} \cap Hash])
        ends == {x \in walk : inv[x] = None /\ x \in c.blocks_by_hash}
    IN  IF parent_hash \in c.blocks_by_hash THEN parent_hash
        ELSE IF parent_hash \in Hash /\ ends # {} THEN CHOOSE x \in ends : TRUE
        ELSE None

\* prepare_invalid_response: the zero hash for a proof-of-work parent and for no answer.
PrepareInvalidResponse(c, inv, parent_hash) ==
    IF parent_hash \in c.blocks_by_hash \cap PoW THEN Zero
    ELSE IF LatestValidHash(c, inv, parent_hash) = None THEN Zero
    ELSE LatestValidHash(c, inv, parent_hash)

-----------------------------------------------------------------------------
\* Mutant: a witness that cannot be revealed condemns the block.
ExecuteExitBlamesBlock(db, h, w) ==
    IF w = None THEN "NoWitness"
    ELSE IF w.state = "corrupt" \/ Verdict[h] = "exec" THEN "Invalid" ELSE "Valid"

\* The last part of insert_block, from the witness to the state root.
ExecuteExit(db, h, w) ==
    IF w = None                             THEN "NoWitness"
    ELSE IF w.state = "corrupt"             THEN "Fatal"   \* reveal_witness fails
    ELSE IF ~(CodesOf[h] \subseteq db)      THEN "Fatal"   \* code_by_hash fails
    ELSE IF Verdict[h] = "exec"             THEN "Invalid"
    ELSE "Valid"

(***************************************************************************)
(* insert_block, up to its effects: which of its exits is taken for block  *)
(* h with witness w (None for no witness), in the order of the code.       *)
(***************************************************************************)
InsertExit(c, db, h, w) ==
    IF h \in c.blocks_by_hash                 THEN "AlreadySeen"
    ELSE IF Verdict[h] = "block"              THEN "Invalid"
    ELSE IF Parent[h] \notin c.blocks_by_hash THEN "Disconnected"
    ELSE IF Verdict[h] = "header"             THEN "Invalid"
    ELSE ExecuteExit(db, h, w)

\* The block buffer after insert_block took exit r.
BufferAfterInsert(b, h, w, r) ==
    CASE r = "Disconnected" ->
             InsertBlock(IF w = None THEN b ELSE InsertWitness(b, h, w, {}), h)
      [] r = "NoWitness"    -> InsertBlock(b, h)
      [] OTHER              -> b

ChainAfterInsert(c, h, r) == IF r = "Valid" THEN ChainInsertBlock(c, h, TRUE) ELSE c

\* Mutant: a block that could not be executed yet is marked too.
InvalidUnlessInserted(inv, h, r) == IF r = "Valid" THEN inv ELSE MarkInvalid(inv, h, h)

InvalidAfterInsert(inv, h, r) == IF r = "Invalid" THEN MarkInvalid(inv, h, h) ELSE inv

\* The missing ancestor a Disconnected block is reported with.
MissingAncestor(b, h) == LowestBufferedAncestorOr(b, Parent[h])

-----------------------------------------------------------------------------
(***************************************************************************)
(* on_new_head: both chains are walked down to the block where they fork,  *)
(* which need not be in memory itself; every block above it must be.  The  *)
(* walk from the genesis block never ends at a common block.               *)
(***************************************************************************)
ForkBlock(head, new_head) ==
    LET common == Ancestry[Parent[new_head]] \cap Ancestry[head]
    IN  CHOOSE f \in common : \A x \in common : Number[x] <= Number[f]

Above(h, f) == {x \in Ancestry[h] : Number[x] > Number[f]}

HasNewChain(c, head, new_head) ==
    /\ new_head \in c.blocks_by_hash
    /\ Parent[new_head] \in Hash
    /\ Ancestry[Parent[new_head]] \cap Ancestry[head] # {}
    /\ Above(new_head, ForkBlock(head, new_head)) \subseteq c.blocks_by_hash
    /\ Above(head, ForkBlock(head, new_head)) \subseteq c.blocks_by_hash

\* on_canonical_chain_update with the chain on_new_head returns.
ChainAfterNewHead(c, head, new_head) ==
    IF HasNewChain(c, head, new_head)
      THEN LET f == ForkBlock(head, new_head)
           IN  OnChainUpdate(c, Above(new_head, f), Above(head, f))
      ELSE c

HeadAfterNewHead(c, head, new_head) ==
    IF HasNewChain(c, head, new_head) THEN new_head ELSE head

\* ensure_consistent_forkchoice_state
ConsistentForkchoice(c, state) ==
    /\ state.finalized # Zero => IsHashCanonical(c, state.finalized)
    /\ state.safe # Zero => IsHashCanonical(c, state.safe)
=============================================================================
