----------------------------- MODULE EngineProofs ----------------------------
(***************************************************************************)
(* The consensus engine with its tree, for every block tree, every set of  *)
(* verdicts, bytecodes and witnesses, every limit and window, and every    *)
(* set of failures.                                                        *)
(*                                                                         *)
(* The first part says what the operators of ChainOps and TreeOps return;  *)
(* then one inductive invariant after the other is built on the ones       *)
(* before it.                                                              *)
(***************************************************************************)
EXTENDS ConsensusEngine, BufferOpsProofs, SequenceTheorems

-----------------------------------------------------------------------------
\* The chain the node starts with.
LEMMA GenesisChainType == GenesisChain \in Chain
<1>1. Genesis \in Hash BY HashAssumption
<1> QED BY <1>1 DEF GenesisChain, Chain

\* The fields of the chain state f after insert_block(h) on c.
BlockAdded(f, c, h) ==
    /\ f.blocks_by_hash = c.blocks_by_hash \cup {h}
    /\ f.canonical_hashes_by_number = c.canonical_hashes_by_number
    /\ f.witnesses \subseteq c.witnesses \cup {h}
    /\ \A n \in Numbers : f.block_hashes_by_number[n] =
           IF n = Number[h] THEN c.block_hashes_by_number[n] \cup {h}
                            ELSE c.block_hashes_by_number[n]

\* insert_block of the chain state keeps its type.
LEMMA ChainInsertBlockType ==
    ASSUME NEW c \in Chain, NEW h \in Hash, NEW w \in BOOLEAN
    PROVE  ChainInsertBlock(c, h, w) \in Chain /\ BlockAdded(ChainInsertBlock(c, h, w), c, h)
<1> DEFINE bn == [c.block_hashes_by_number EXCEPT ![Number[h]] = @ \cup {h}]
           ws == IF w THEN c.witnesses \cup {h} ELSE c.witnesses
           f  == ChainInsertBlock(c, h, w)
<1>1. bn \in [Numbers -> SUBSET Hash] /\ ws \in SUBSET Hash BY DEF Chain
<1>2. \A n \in Numbers : bn[n] = IF n = Number[h] THEN c.block_hashes_by_number[n] \cup {h}
                                                  ELSE c.block_hashes_by_number[n]
  BY DEF Chain
<1>3. f = [c EXCEPT !.block_hashes_by_number = bn,
                    !.blocks_by_hash = @ \cup {h}, !.witnesses = ws]
  BY DEF ChainInsertBlock, Chain
<1>4. ws \subseteq c.witnesses \cup {h} OBVIOUS
<1> HIDE DEF bn, ws, f
<1>5. /\ f \in Chain /\ f.block_hashes_by_number = bn /\ f.witnesses = ws
      /\ f.blocks_by_hash = c.blocks_by_hash \cup {h}
      /\ f.canonical_hashes_by_number = c.canonical_hashes_by_number
  BY <1>1, <1>3 DEF Chain
<1> QED BY <1>2, <1>4, <1>5 DEF f, BlockAdded

\* The canonical hashes of two chain states may differ, the rest is the same.
SameBlocks(f, c) == /\ f.blocks_by_hash = c.blocks_by_hash
                    /\ f.block_hashes_by_number = c.block_hashes_by_number
                    /\ f.witnesses = c.witnesses

\* insert_canonical_hash keeps the type and touches the canonical hashes only.
LEMMA InsertCanonicalHashesType ==
    ASSUME NEW c \in Chain, NEW headers \in SUBSET Hash
    PROVE  /\ InsertCanonicalHashes(c, headers) \in Chain
           /\ SameBlocks(InsertCanonicalHashes(c, headers), c)
           /\ InsertCanonicalHashes(c, headers).canonical_hashes_by_number =
                  [n \in Numbers |-> IF \E h \in headers : Number[h] = n
                                       THEN CHOOSE h \in headers : Number[h] = n
                                       ELSE c.canonical_hashes_by_number[n]]
<1> DEFINE cn == [n \in Numbers |-> IF \E h \in headers : Number[h] = n
                                      THEN CHOOSE h \in headers : Number[h] = n
                                      ELSE c.canonical_hashes_by_number[n]]
           f == InsertCanonicalHashes(c, headers)
<1>1. cn \in [Numbers -> Hash \cup {None}]
  <2>1. ASSUME NEW n \in Numbers, \E h \in headers : Number[h] = n
        PROVE  (CHOOSE h \in headers : Number[h] = n) \in Hash
    BY <2>1
  <2> QED BY <2>1 DEF Chain
<1>2. f = [c EXCEPT !.canonical_hashes_by_number = cn] BY DEF InsertCanonicalHashes, Chain
<1> HIDE DEF cn, f
<1>3. f \in Chain /\ SameBlocks(f, c) /\ f.canonical_hashes_by_number = cn
  BY <1>1, <1>2 DEF Chain, SameBlocks
<1> QED BY <1>3 DEF f, cn

\* remove_canonical_hash keeps the type and touches the canonical hashes only.
LEMMA RemoveCanonicalHashesType ==
    ASSUME NEW c \in Chain, NEW headers \in SUBSET Hash
    PROVE  /\ RemoveCanonicalHashes(c, headers) \in Chain
           /\ SameBlocks(RemoveCanonicalHashes(c, headers), c)
           /\ RemoveCanonicalHashes(c, headers).canonical_hashes_by_number =
                  [n \in Numbers |-> IF c.canonical_hashes_by_number[n] \in headers THEN None
                                     ELSE c.canonical_hashes_by_number[n]]
<1> DEFINE cn == [n \in Numbers |-> IF c.canonical_hashes_by_number[n] \in headers THEN None
                                    ELSE c.canonical_hashes_by_number[n]]
           f == RemoveCanonicalHashes(c, headers)
<1>1. cn \in [Numbers -> Hash \cup {None}] BY DEF Chain
<1>2. f = [c EXCEPT !.canonical_hashes_by_number = cn] BY DEF RemoveCanonicalHashes, Chain
<1> HIDE DEF cn, f
<1>3. f \in Chain /\ SameBlocks(f, c) /\ f.canonical_hashes_by_number = cn
  BY <1>1, <1>2 DEF Chain, SameBlocks
<1> QED BY <1>3 DEF f, cn

\* The part of a chain above a block consists of blocks of the tree.
LEMMA AboveInHash == ASSUME NEW h \in Hash, NEW f PROVE Above(h, f) \in SUBSET Hash
BY AncestryContains DEF Above

\* on_canonical_chain_update touches the canonical hashes only.
LEMMA ChainAfterNewHeadType ==
    ASSUME NEW c \in Chain, NEW head \in Hash, NEW new
    PROVE  /\ ChainAfterNewHead(c, head, new) \in Chain
           /\ SameBlocks(ChainAfterNewHead(c, head, new), c)
           /\ HeadAfterNewHead(c, head, new) \in Hash
           /\ \/ HeadAfterNewHead(c, head, new) = head
              \/ HeadAfterNewHead(c, head, new) = new /\ new \in c.blocks_by_hash
<1>1. CASE HasNewChain(c, head, new)
  <2>1. new \in c.blocks_by_hash /\ new \in Hash BY <1>1 DEF HasNewChain, Chain
  <2> DEFINE f == ForkBlock(head, new)
             A == Above(new, f)
             B == Above(head, f)
             r == RemoveCanonicalHashes(c, B)
  <2>2. A \in SUBSET Hash /\ B \in SUBSET Hash BY <2>1, AboveInHash
  <2>3. ChainAfterNewHead(c, head, new) = InsertCanonicalHashes(r, A)
    BY <1>1 DEF ChainAfterNewHead, OnChainUpdate
  <2> HIDE DEF A, B
  <2>4. r \in Chain /\ SameBlocks(r, c) BY <2>2, RemoveCanonicalHashesType
  <2> HIDE DEF r
  <2>5. InsertCanonicalHashes(r, A) \in Chain /\ SameBlocks(InsertCanonicalHashes(r, A), r)
    BY <2>2, <2>4, InsertCanonicalHashesType
  <2>6. SameBlocks(InsertCanonicalHashes(r, A), c) BY <2>4, <2>5 DEF SameBlocks
  <2>7. HeadAfterNewHead(c, head, new) = new BY <1>1 DEF HeadAfterNewHead
  <2> QED BY <2>1, <2>3, <2>5, <2>6, <2>7
<1>2. CASE ~HasNewChain(c, head, new)
  <2>1. ChainAfterNewHead(c, head, new) = c BY <1>2 DEF ChainAfterNewHead
  <2>2. HeadAfterNewHead(c, head, new) = head BY <1>2 DEF HeadAfterNewHead
  <2>3. SameBlocks(c, c) BY DEF SameBlocks
  <2> QED BY <2>1, <2>2, <2>3
<1> QED BY <1>1, <1>2

\* The fields of the chain state d after remove_blocks_on_finalized(f) on c.
Pruned(c, f) == UNION {c.block_hashes_by_number[n] : n \in {m \in Numbers : m < Number[f]}}

\* d is the chain c after on_finalized has pruned it below block f.
PrunedTo(d, c, f) ==
    /\ d.blocks_by_hash = c.blocks_by_hash \ Pruned(c, f)
    /\ d.witnesses = c.witnesses \ Pruned(c, f)
    /\ d.block_hashes_by_number =
           [n \in Numbers |-> IF n \in {m \in Numbers : m < Number[f]} THEN {}
                              ELSE c.block_hashes_by_number[n]]
    /\ d.canonical_hashes_by_number = KeepWindow(c.canonical_hashes_by_number, Number[f])

\* remove_blocks_on_finalized keeps the type, and prunes when the block is in memory.
LEMMA OnFinalizedType ==
    ASSUME NEW c \in Chain, NEW f
    PROVE  /\ OnFinalized(c, f) \in Chain
           /\ f \notin c.blocks_by_hash => OnFinalized(c, f) = c
           /\ f \in c.blocks_by_hash => PrunedTo(OnFinalized(c, f), c, f)
<1>1. CASE f \notin c.blocks_by_hash BY <1>1 DEF OnFinalized
<1>2. CASE f \in c.blocks_by_hash
  <2> DEFINE low    == {n \in Numbers : n < Number[f]}
             pruned == UNION {c.block_hashes_by_number[n] : n \in low}
             kw == KeepWindow(c.canonical_hashes_by_number, Number[f])
             bn == [n \in Numbers |-> IF n \in low THEN {} ELSE c.block_hashes_by_number[n]]
  <2>1. kw \in [Numbers -> Hash \cup {None}] BY DEF KeepWindow, Chain
  <2>2. bn \in [Numbers -> SUBSET Hash] BY DEF Chain
  <2>3. OnFinalized(c, f) = [c EXCEPT !.block_hashes_by_number = bn,
                                      !.blocks_by_hash = @ \ pruned,
                                      !.witnesses = @ \ pruned,
                                      !.canonical_hashes_by_number = kw]
    BY <1>2 DEF OnFinalized, Chain
  <2> HIDE DEF kw, bn, pruned
  <2>4. /\ OnFinalized(c, f) \in Chain
        /\ OnFinalized(c, f).blocks_by_hash = c.blocks_by_hash \ pruned
        /\ OnFinalized(c, f).witnesses = c.witnesses \ pruned
        /\ OnFinalized(c, f).block_hashes_by_number = bn
        /\ OnFinalized(c, f).canonical_hashes_by_number = kw
    BY <2>1, <2>2, <2>3 DEF Chain
  <2> QED BY <1>2, <2>4 DEF bn, kw, pruned, PrunedTo, Pruned
<1> QED BY <1>1, <1>2

-----------------------------------------------------------------------------
\* The answers of latest_valid_hash_for_invalid_payload and prepare_invalid_response.
LEMMA InvalidResponseType ==
    ASSUME NEW c \in Chain, NEW inv, NEW p
    PROVE  /\ LatestValidHash(c, inv, p) \in Hash \cup {None}
           /\ PrepareInvalidResponse(c, inv, p) \in Hash \cup {Zero}
<1> DEFINE walk == Reach({p}, [x \in Hash |-> IF inv[x] = None THEN {} ELSE {Parent[inv[x]]} \cap Hash])
           ends == {x \in walk : inv[x] = None /\ x \in c.blocks_by_hash}
<1>1. c.blocks_by_hash \subseteq Hash BY DEF Chain
<1>2. ends \subseteq Hash BY <1>1
<1>3. LatestValidHash(c, inv, p) = IF p \in c.blocks_by_hash THEN p
                                   ELSE IF p \in Hash /\ ends # {} THEN CHOOSE x \in ends : TRUE
                                   ELSE None
  BY DEF LatestValidHash
<1> HIDE DEF ends
<1>4. LatestValidHash(c, inv, p) \in Hash \cup {None} BY <1>1, <1>2, <1>3
<1> QED BY <1>4 DEF PrepareInvalidResponse

\* lowest_buffered_ancestor_or: the hash itself, or the parent of one of its ancestors.
LEMMA LowestBufferedAncestorOrIs ==
    ASSUME NEW b, b.blocks \subseteq Hash, NEW h \in Hash \cup {Zero}
    PROVE  /\ LowestBufferedAncestorOr(b, h) \in Hash \cup {Zero}
           /\ \/ LowestBufferedAncestorOr(b, h) = h
              \/ \E a \in Ancestry[h] : h \in Hash /\ LowestBufferedAncestorOr(b, h) = Parent[a]
           /\ LowestBufferedAncestorOr(b, h) \notin b.blocks
<1>1. CASE h \notin b.blocks BY <1>1 DEF LowestBufferedAncestorOr
<1>2. CASE h \in b.blocks
  <2>1. /\ LowestAncestor(b, h) \in Ancestry[h]
        /\ Parent[LowestAncestor(b, h)] \notin b.blocks
    BY <1>2, LowestAncestorIs
  <2>2. h \in Hash /\ LowestAncestor(b, h) \in Hash BY <1>2, <2>1, AncestryContains
  <2>3. LowestBufferedAncestorOr(b, h) = Parent[LowestAncestor(b, h)]
    BY <1>2 DEF LowestBufferedAncestorOr
  <2> QED BY <2>1, <2>2, <2>3, ParentAssumption
<1> QED BY <1>1, <1>2

\* The requests of the tree are requests of the downloader.
LEMMA RequestTypes ==
    /\ \A b, h : h \in Hash \cup {Zero} => BlockRequests(b, h) \subseteq Request
    /\ \A h \in Hash : WitnessRequest(h) \subseteq Request
    /\ \A missing \in SUBSET Code : BytecodeRequests(missing) \subseteq Request
    /\ \A h \in Hash \cup {Zero} : \A kind \in {"finalized", "block", "witness"} :
           Req(kind, h) \in Request
BY DEF BlockRequests, WitnessRequest, BytecodeRequests, Request, Req

\* insert_block's exits.
Exits == {"AlreadySeen", "Invalid", "Disconnected", "NoWitness", "Fatal", "Valid"}

\* What each exit of insert_block says about the block and the chain.
LEMMA InsertExitIs ==
    ASSUME NEW c, NEW db, NEW h \in Hash, NEW w
    PROVE  /\ InsertExit(c, db, h, w) \in Exits
           /\ InsertExit(c, db, h, w) = "AlreadySeen" <=> h \in c.blocks_by_hash
           /\ InsertExit(c, db, h, w) = "Invalid" => Verdict[h] \in {"block", "header", "exec"}
           /\ InsertExit(c, db, h, w) = "Valid" =>
                  /\ Verdict[h] \in {"valid", "sender"}
                  /\ Parent[h] \in c.blocks_by_hash
                  /\ w # None
           /\ InsertExit(c, db, h, w) = "Disconnected" => Parent[h] \notin c.blocks_by_hash
           /\ InsertExit(c, db, h, w) = "NoWitness" => w = None
BY VerdictAssumption DEF InsertExit, ExecuteExit, Exits

\* The buffer after insert_block is consistent.
LEMMA BufferAfterInsertOK ==
    ASSUME NEW b, BufferOK(b), NEW h \in Hash, NEW w \in Witness \cup {None}, NEW r
    PROVE  BufferOK(BufferAfterInsert(b, h, w, r))
<1>1. CASE r = "Disconnected"
  <2> DEFINE i == IF w = None THEN b ELSE InsertWitness(b, h, w, {})
  <2>1. BufferOK(i) BY InsertWitnessOK
  <2>2. BufferAfterInsert(b, h, w, r) = InsertBlock(i, h) BY <1>1 DEF BufferAfterInsert
  <2> HIDE DEF i
  <2> QED BY <2>1, <2>2, InsertBlockOK
<1>2. CASE r = "NoWitness" BY <1>2, InsertBlockOK DEF BufferAfterInsert
<1>3. CASE r \notin {"Disconnected", "NoWitness"} BY <1>3 DEF BufferAfterInsert
<1> QED BY <1>1, <1>2, <1>3

-----------------------------------------------------------------------------
(***************************************************************************)
(* The base invariant: the types, the consistent buffer, and the shape of  *)
(* a running handler.  A handler that connects children has inserted their *)
(* parent, and a payload that is being handled is not parked.              *)
(***************************************************************************)
TaskOK(t, p, blocks) ==
    /\ t \in Task
    /\ t.on \in {"idle", "stopped"} => t.block = None /\ t.unlocked = {}
    /\ t.block = None => Pending(t) = {}
    /\ t.on = "payload" => t.block # None /\ p = None /\ t.unlocked = {}
    /\ t.block # None => t.block \in blocks

\* The part of the invariant that every other one needs: types, the buffer, the running handler.
EngineBase ==
    /\ TypeOK
    /\ BufferOK(buffer)
    /\ outcomes \in Seq(Request)
    /\ TaskOK(task, parked, chain.blocks_by_hash)

\* No handler is running.
LEMMA IdleFacts ==
    /\ Idle \in Task /\ Pending(Idle) = {}
    /\ Idle.on = "idle" /\ Idle.block = None /\ Idle.unlocked = {}
    /\ \A p, blocks : TaskOK(Idle, p, blocks)
<1>1. /\ Idle \in Task /\ Pending(Idle) = {}
      /\ Idle.on = "idle" /\ Idle.block = None /\ Idle.unlocked = {}
  BY DEF Idle, Task, Pending, NoBlocks
<1> QED BY <1>1 DEF TaskOK

\* The loop over unlocked blocks.
LEMMA UnlockingFacts ==
    ASSUME NEW S \in SUBSET Hash
    PROVE  /\ Unlocking(S) \in Task /\ Pending(Unlocking(S)) = {}
           /\ Unlocking(S).block = None /\ Unlocking(S).unlocked = S
           /\ Unlocking(S).on \in {"idle", "download"}
           /\ \A p, blocks : TaskOK(Unlocking(S), p, blocks)
<1>1. CASE S = {} BY <1>1, IdleFacts DEF Unlocking
<1>2. CASE S # {}
  <2>1. Unlocking(S) = [on |-> "download", block |-> None, has_witness |-> FALSE,
                        connect |-> NoBlocks, unlocked |-> S]
    BY <1>2 DEF Unlocking, Idle
  <2>2. /\ Unlocking(S) \in Task
        /\ Unlocking(S).block = None /\ Unlocking(S).unlocked = S
        /\ Unlocking(S).on = "download"
        /\ Unlocking(S).connect = NoBlocks
    BY <2>1 DEF Task, NoBlocks
  <2>3. Pending(Unlocking(S)) = {} BY <2>2 DEF Pending, NoBlocks
  <2> QED BY <2>2, <2>3 DEF TaskOK
<1> QED BY <1>1, <1>2

\* An answer is well typed when its parts are.
LEMMA AnswerType ==
    /\ NoReply \in Reply
    /\ \A call \in {"newPayload", "forkchoiceUpdated"}, h \in Hash \cup {Zero, None},
          status \in {"VALID", "INVALID", "SYNCING", "ERROR"}, lv \in Hash \cup {Zero, None} :
           Answer(call, h, status, lv) \in Reply
BY DEF NoReply, Answer, Reply

\* The answer to a parked payload.
LEMMA AnswerParkedType ==
    ASSUME parked \in Hash \cup {None}, NEW h, NEW status \in {"VALID", "INVALID", "SYNCING", "ERROR"},
           NEW lv \in Hash \cup {Zero, None}, AnswerParked(h, status, lv)
    PROVE  /\ parked' \in Hash \cup {None} /\ reply' \in Reply
           /\ parked = None => parked' = None
BY AnswerType DEF AnswerParked

\* The genesis block, the zero hash and None are told apart.
LEMMA Distinct == Genesis \in Hash /\ Zero \notin Hash /\ None \notin Hash /\ None # Zero
BY HashAssumption

\* The engine starts in the base invariant.
LEMMA InitBase == Init => EngineBase
<1> SUFFICES ASSUME Init PROVE EngineBase OBVIOUS
<1>1. outcomes = <<>> /\ outcomes \in Seq(Request) /\ Len(outcomes) = 0 BY DEF Init
<1>2. BufferOK(buffer) BY NewBufferOK DEF Init
<1>3. TypeOK
  <2>1. invalid_headers \in InvalidHeaders BY DEF Init, InvalidHeaders
  <2>2. buffer \in Buffer BY <1>2 DEF BufferOK
  <2>3. \A i \in 1..Len(outcomes) : outcomes[i] \in Request BY <1>1
  <2> QED BY <2>1, <2>2, <2>3, Distinct, GenesisChainType, IdleFacts, AnswerType DEF Init, TypeOK
<1> QED BY <1>1, <1>2, <1>3, IdleFacts DEF Init, EngineBase

\* MarkInvalid keeps the type of the cache.
LEMMA MarkInvalidType ==
    ASSUME NEW inv \in InvalidHeaders, NEW h \in Hash, NEW a \in Hash
    PROVE  /\ MarkInvalid(inv, h, a) \in InvalidHeaders
           /\ \A x \in Hash : MarkInvalid(inv, h, a)[x] =
                  IF x = h /\ inv[x] = None THEN a ELSE inv[x]
BY DEF MarkInvalid, InvalidHeaders

\* The cache of invalid headers after insert_block.
LEMMA InvalidAfterInsertType ==
    ASSUME NEW inv \in InvalidHeaders, NEW h \in Hash, NEW r
    PROVE  InvalidAfterInsert(inv, h, r) \in InvalidHeaders
BY MarkInvalidType DEF InvalidAfterInsert

\* What a lookup in the cache of invalid headers gives.
LEMMA InvalidEntryType ==
    ASSUME NEW inv \in InvalidHeaders, NEW x PROVE InvalidEntry(inv, x) \in Hash \cup {None}
BY DEF InvalidEntry, InvalidHeaders

\* Chain and head after insert_block.
LEMMA ChainAfterInsertType ==
    ASSUME NEW c \in Chain, NEW h \in Hash, NEW r
    PROVE  /\ ChainAfterInsert(c, h, r) \in Chain
           /\ ChainAfterInsert(c, h, r).blocks_by_hash =
                  IF r = "Valid" THEN c.blocks_by_hash \cup {h} ELSE c.blocks_by_hash
<1>1. CASE r = "Valid" BY <1>1, ChainInsertBlockType DEF ChainAfterInsert, BlockAdded
<1>2. CASE r # "Valid" BY <1>2 DEF ChainAfterInsert
<1> QED BY <1>1, <1>2

\* The witness remove_witness returns.
LEMMA ReadyWitnessType ==
    ASSUME NEW b, BufferOK(b), NEW h \in Hash PROVE ReadyWitness(b, h) \in Witness \cup {None}
BY DEF ReadyWitness, BufferOK, Buffer

-----------------------------------------------------------------------------
\* The messages of the consensus client that are refused keep the base invariant.
LEMMA RefusedPayloadBase ==
    ASSUME EngineBase, NEW h \in Payloads,
           MalformedPayload(h) \/ UnrecoverablePayload(h) \/ RejectedPayload(h)
    PROVE  EngineBase'
<1>1. h \in Hash /\ Parent[h] \in Hash \cup {Zero} BY EngineAssumption, ParentAssumption
<1> DEFINE b == RemoveWitness(buffer, h)
<1>2. buffer' = b /\ BufferOK(b)
  BY <1>1, RemoveWitnessOK DEF EngineBase, MalformedPayload, UnrecoverablePayload, RejectedPayload
<1>3. UNCHANGED <<chain, database, canonical_head, sync_target, inflight, outcomes, parked, task, installed>>
  BY DEF MalformedPayload, UnrecoverablePayload, RejectedPayload
<1>4. invalid_headers' \in InvalidHeaders /\ reply' \in Reply
  <2>1. CASE MalformedPayload(h)
    BY <2>1, AnswerType DEF MalformedPayload, EngineBase, TypeOK
  <2>2. CASE UnrecoverablePayload(h)
    BY <2>2, <1>1, AnswerType, InvalidResponseType DEF UnrecoverablePayload, EngineBase, TypeOK
  <2>3. CASE RejectedPayload(h)
    <3> DEFINE entry == InvalidEntry(invalid_headers, PayloadCheck(b, h))
    <3>1. /\ entry \in Hash \cup {None} /\ entry # None
          /\ invalid_headers' = MarkInvalid(invalid_headers, h, entry)
          /\ reply' = Answer("newPayload", h, "INVALID",
                             PrepareInvalidResponse(chain, invalid_headers, Parent[entry]))
      BY <2>3, InvalidEntryType DEF RejectedPayload, EngineBase, TypeOK
    <3> HIDE DEF entry
    <3>2. PrepareInvalidResponse(chain, invalid_headers, Parent[entry]) \in Hash \cup {Zero, None}
      BY InvalidResponseType DEF EngineBase, TypeOK
    <3> QED BY <1>1, <3>1, <3>2, AnswerType, MarkInvalidType DEF EngineBase, TypeOK
  <2> QED BY <2>1, <2>2, <2>3
<1> HIDE DEF b
<1>5. buffer' \in Buffer BY <1>2 DEF BufferOK
<1>6. TypeOK' BY <1>3, <1>4, <1>5 DEF EngineBase, TypeOK
<1> QED BY <1>2, <1>3, <1>6 DEF EngineBase

\* A payload that reaches insert_block keeps the base invariant.
LEMMA NewPayloadBase == ASSUME EngineBase, NEW h \in Payloads, NewPayload(h) PROVE EngineBase'
<1> DEFINE w == ReadyWitness(buffer, h)
           b == RemoveWitness(buffer, h)
           r == InsertExit(chain, database, h, w)
<1>1. h \in Hash /\ Parent[h] \in Hash \cup {Zero} BY EngineAssumption, ParentAssumption
<1>2. BufferOK(b) /\ w \in Witness \cup {None}
  BY <1>1, RemoveWitnessOK, ReadyWitnessType DEF EngineBase
<1>3. /\ ReadyForMessage
      /\ chain' = ChainAfterInsert(chain, h, r)
      /\ invalid_headers' = InvalidAfterInsert(invalid_headers, h, r)
      /\ UNCHANGED <<database, canonical_head, sync_target, outcomes, installed>>
  BY DEF NewPayload
<1>4. /\ chain' \in Chain /\ chain.blocks_by_hash \subseteq chain'.blocks_by_hash
      /\ r \in {"Valid", "AlreadySeen"} => h \in chain'.blocks_by_hash
  <2>1. r = "AlreadySeen" => h \in chain.blocks_by_hash BY <1>1, InsertExitIs
  <2> HIDE DEF r
  <2> QED BY <1>1, <1>3, <2>1, ChainAfterInsertType DEF EngineBase, TypeOK
<1>5. invalid_headers' \in InvalidHeaders
  BY <1>1, <1>3, InvalidAfterInsertType DEF EngineBase, TypeOK
<1>6. MissingAncestor(b, h) \in Hash \cup {Zero}
  BY <1>1, <1>2, LowestBufferedAncestorOrIs DEF MissingAncestor, BufferOK, Buffer
<1>7. LatestValidHash(chain, invalid_headers, Parent[h]) \in Hash \cup {Zero, None}
  BY InvalidResponseType DEF EngineBase, TypeOK
<1> DEFINE t == [Idle EXCEPT !.on = "payload", !.block = h, !.has_witness = (w # None),
                             !.connect = RemovedWithChildren(b, h)]
           B == BufferAfterInsert(b, h, w, r)
           bufferT == RemoveBlockWithChildren(b, h)
<1>8. /\ BufferOK(B) /\ BufferOK(bufferT)
      /\ RemovedWithChildren(b, h) \in [Hash -> Witness \cup {None}]
  BY <1>1, <1>2, BufferAfterInsertOK, RemoveBlockWithChildrenOK, RemoveBlockWithChildrenEffect
     DEF WithChildrenRemoved
<1>9. \/ /\ r \in {"Valid", "AlreadySeen"} /\ buffer' = bufferT /\ task' = t
         /\ reply' = NoReply /\ UNCHANGED <<inflight, parked>>
      \/ /\ r = "Disconnected" /\ buffer' = B
         /\ inflight' = inflight \cup BlockRequests(buffer', MissingAncestor(b, h))
                            \cup (IF w = None THEN WitnessRequest(h) ELSE {})
         /\ reply' = Answer("newPayload", h, "SYNCING", None)
         /\ UNCHANGED <<parked, task>>
      \/ /\ r = "NoWitness" /\ buffer' = B
         /\ inflight' = inflight \cup WitnessRequest(h)
         /\ parked' = h /\ reply' = NoReply /\ UNCHANGED task
      \/ /\ r = "Invalid" /\ buffer' = b
         /\ reply' = Answer("newPayload", h, "INVALID",
                            LatestValidHash(chain, invalid_headers, Parent[h]))
         /\ UNCHANGED <<inflight, parked, task>>
      \/ /\ r = "Fatal" /\ buffer' = b
         /\ reply' = Answer("newPayload", h, "ERROR", None)
         /\ UNCHANGED <<inflight, parked, task>>
  BY DEF NewPayload
<1>10. t \in Task /\ t.on = "payload" /\ t.block = h /\ t.unlocked = {} /\ h # None
  BY <1>1, <1>8, Distinct DEF Idle, Task, NoBlocks
<1>11. task = Idle /\ parked = None BY <1>3 DEF ReadyForMessage
<1> HIDE DEF w, b, r, t, B, bufferT
<1>12. BufferOK(buffer') /\ buffer' \in Buffer BY <1>2, <1>8, <1>9 DEF BufferOK
<1>13. inflight' \subseteq Request
  <2>1. /\ BlockRequests(buffer', MissingAncestor(b, h)) \subseteq Request
        /\ WitnessRequest(h) \subseteq Request /\ inflight \subseteq Request
    BY <1>1, <1>6, RequestTypes DEF EngineBase, TypeOK
  <2> QED BY <1>9, <2>1
<1>14. reply' \in Reply /\ parked' \in Hash \cup {None}
  BY <1>1, <1>7, <1>9, <1>11, AnswerType
<1>15. (task' = t /\ parked' = None /\ h \in chain'.blocks_by_hash) \/ task' = Idle
  BY <1>4, <1>9, <1>11
<1>16. TaskOK(task', parked', chain'.blocks_by_hash) BY <1>10, <1>15, IdleFacts DEF TaskOK
<1>17. task' \in Task BY <1>16 DEF TaskOK
<1>18. TypeOK' BY <1>3, <1>4, <1>5, <1>12, <1>13, <1>14, <1>17 DEF EngineBase, TypeOK
<1> QED BY <1>3, <1>12, <1>16, <1>18 DEF EngineBase

\* One round of try_connect_buffered_blocks keeps the base invariant.
LEMMA ConnectBase == ASSUME EngineBase, NEW c \in Hash, Connect(c) PROVE EngineBase'
<1> DEFINE w == task.connect[c]
           r == InsertExit(chain, database, c, w)
           inserted == ChainAfterInsert(chain, c, r)
<1>1. task \in Task /\ w \in Witness \cup {None} BY DEF EngineBase, TypeOK, Task
<1>2. /\ c \in Pending(task)
      /\ buffer' = BufferAfterInsert(buffer, c, w, r)
      /\ invalid_headers' = InvalidAfterInsert(invalid_headers, c, r)
      /\ IF r = "Valid" /\ sync_target = c
           THEN /\ chain' = ChainAfterNewHead(inserted, canonical_head, c)
                /\ canonical_head' = HeadAfterNewHead(inserted, canonical_head, c)
           ELSE chain' = inserted /\ UNCHANGED canonical_head
      /\ \/ /\ r # "Fatal" /\ task' = [task EXCEPT !.connect[c] = None]
            /\ reply' = NoReply /\ UNCHANGED parked
         \/ /\ r = "Fatal" /\ task.on = "payload" /\ task' = Idle
            /\ reply' = Answer("newPayload", task.block, "ERROR", None)
            /\ UNCHANGED parked
         \/ /\ r = "Fatal" /\ task.on = "download" /\ task' = Unlocking(task.unlocked)
            /\ AnswerParked(task.block, "ERROR", None)
      /\ UNCHANGED <<database, sync_target, inflight, outcomes, installed>>
  BY DEF Connect
<1> HIDE DEF w, r
<1>3. BufferOK(buffer') /\ buffer' \in Buffer BY <1>1, <1>2, BufferAfterInsertOK DEF EngineBase, BufferOK
<1>4. invalid_headers' \in InvalidHeaders BY <1>2, InvalidAfterInsertType DEF EngineBase, TypeOK
<1>5. inserted \in Chain /\ chain.blocks_by_hash \subseteq inserted.blocks_by_hash
  BY ChainAfterInsertType DEF EngineBase, TypeOK
<1> HIDE DEF inserted
<1>6. /\ chain' \in Chain /\ canonical_head' \in Hash
      /\ chain.blocks_by_hash \subseteq chain'.blocks_by_hash
  BY <1>2, <1>5, ChainAfterNewHeadType DEF EngineBase, TypeOK, SameBlocks
<1>7. task.block # None
  BY <1>2 DEF EngineBase, TaskOK
<1>8. task.unlocked \in SUBSET Hash /\ task.block \in Hash BY <1>1, <1>7 DEF Task
<1>9. reply' \in Reply /\ parked' \in Hash \cup {None}
  <2>1. parked \in Hash \cup {None} BY DEF EngineBase, TypeOK
  <2> QED BY <1>2, <1>8, <2>1, AnswerType, AnswerParkedType
<1>10. TaskOK(task', parked', chain'.blocks_by_hash)
  <2>1. CASE task' = [task EXCEPT !.connect[c] = None] /\ UNCHANGED parked
    <3>1. /\ task' \in Task /\ task'.on = task.on /\ task'.block = task.block
          /\ task'.unlocked = task.unlocked
      BY <1>1, <2>1 DEF Task
    <3> QED BY <1>6, <1>7, <2>1, <3>1 DEF EngineBase, TaskOK
  <2>2. CASE task' = Idle BY <2>2, IdleFacts
  <2>3. CASE task' = Unlocking(task.unlocked) BY <1>8, <2>3, UnlockingFacts
  <2> QED BY <1>2, <2>1, <2>2, <2>3
<1>11. task' \in Task BY <1>10 DEF TaskOK
<1>12. TypeOK' BY <1>2, <1>3, <1>4, <1>6, <1>9, <1>11 DEF EngineBase, TypeOK
<1> QED BY <1>2, <1>3, <1>10, <1>12 DEF EngineBase

\* The end of a handler keeps the base invariant.
LEMMA FinishBase == ASSUME EngineBase, Finish PROVE EngineBase'
<1> DEFINE h == task.block
<1>1. /\ h # None
      /\ IF sync_target = h
           THEN /\ chain' = ChainAfterNewHead(chain, canonical_head, h)
                /\ canonical_head' = HeadAfterNewHead(chain, canonical_head, h)
           ELSE UNCHANGED <<chain, canonical_head>>
      /\ \/ /\ task.on = "payload"
            /\ inflight' = IF sync_target = h /\ ~task.has_witness
                             THEN inflight \cup WitnessRequest(h) ELSE inflight
            /\ task' = Idle
            /\ reply' = Answer("newPayload", h, "VALID", h)
            /\ UNCHANGED parked
         \/ /\ task.on = "download"
            /\ task' = Unlocking(task.unlocked)
            /\ AnswerParked(h, "VALID", h)
            /\ UNCHANGED inflight
      /\ UNCHANGED <<database, buffer, invalid_headers, sync_target, outcomes, installed>>
  BY DEF Finish
<1>2. h \in Hash /\ task.unlocked \in SUBSET Hash BY <1>1 DEF EngineBase, TypeOK, Task
<1> HIDE DEF h
<1>3. chain' \in Chain /\ canonical_head' \in Hash
  BY <1>1, ChainAfterNewHeadType DEF EngineBase, TypeOK
<1>4. inflight' \subseteq Request
  <2>1. WitnessRequest(h) \subseteq Request BY <1>2, RequestTypes
  <2> QED BY <1>1, <2>1 DEF EngineBase, TypeOK
<1>5. reply' \in Reply /\ parked' \in Hash \cup {None}
  <2>1. parked \in Hash \cup {None} BY DEF EngineBase, TypeOK
  <2> QED BY <1>1, <1>2, <2>1, AnswerType, AnswerParkedType
<1>6. TaskOK(task', parked', chain'.blocks_by_hash) BY <1>1, <1>2, IdleFacts, UnlockingFacts
<1>7. task' \in Task BY <1>6 DEF TaskOK
<1>8. TypeOK' BY <1>1, <1>3, <1>4, <1>5, <1>7 DEF EngineBase, TypeOK
<1> QED BY <1>1, <1>6, <1>8 DEF EngineBase

\* What AnswerForkchoice leaves.
LEMMA AnswerForkchoiceType ==
    ASSUME sync_target \in Hash \cup {None}, NEW s \in ForkchoiceStates,
           NEW status \in {"VALID", "INVALID", "SYNCING"}, status = "SYNCING" => s.head # Zero,
           NEW lv \in Hash \cup {Zero, None}, AnswerForkchoice(s, status, lv)
    PROVE  sync_target' \in Hash \cup {None} /\ reply' \in Reply
<1>1. s.head \in Hash \cup {Zero} BY EngineAssumption
<1>2. sync_target' \in Hash \cup {None} BY <1>1 DEF AnswerForkchoice
<1>3. reply' = Answer("forkchoiceUpdated", s.head, status, lv) BY DEF AnswerForkchoice
<1> QED BY <1>1, <1>2, <1>3, AnswerType

\* Forkchoice updates keep the base invariant.
LEMMA ForkchoiceBase ==
    ASSUME EngineBase, NEW s \in ForkchoiceStates,
           \/ ForkchoiceRejected(s) \/ ForkchoiceCurrent(s) \/ ForkchoiceNewHead(s)
           \/ ForkchoiceKnownHead(s) \/ ForkchoiceSyncing(s)
    PROVE  EngineBase'
<1>1. /\ s.head \in Hash \cup {Zero} /\ s.safe \in Hash \cup {Zero} /\ s.finalized \in Hash \cup {Zero}
  BY EngineAssumption
<1>2. /\ sync_target \in Hash \cup {None} /\ chain \in Chain /\ canonical_head \in Hash
      /\ inflight \subseteq Request /\ buffer \in Buffer
  BY DEF EngineBase, TypeOK
<1>3. CASE ForkchoiceRejected(s) \/ ForkchoiceCurrent(s) \/ ForkchoiceKnownHead(s)
  <2>1. UNCHANGED <<chain, database, buffer, invalid_headers, canonical_head, inflight, outcomes,
                    parked, task, installed>>
    BY <1>3 DEF ForkchoiceRejected, ForkchoiceCurrent, ForkchoiceKnownHead, tree
  <2>2. sync_target' \in Hash \cup {None} /\ reply' \in Reply
    <3> DEFINE lv == PrepareInvalidResponse(chain, invalid_headers,
                         Parent[InvalidEntry(invalid_headers, LowestBufferedAncestorOr(buffer, s.head))])
    <3>1. lv \in Hash \cup {Zero, None} BY <1>2, InvalidResponseType
    <3>2. CASE ForkchoiceRejected(s)
      <4>1. AnswerForkchoice(s, "INVALID", None) \/ AnswerForkchoice(s, "INVALID", lv)
        BY <3>2 DEF ForkchoiceRejected
      <4> HIDE DEF lv
      <4> QED BY <1>2, <3>1, <4>1, AnswerForkchoiceType
    <3>3. CASE ForkchoiceCurrent(s) \/ ForkchoiceKnownHead(s)
      <4>1. /\ s.head \in Hash
            /\ AnswerForkchoice(s, "INVALID", None) \/ AnswerForkchoice(s, "VALID", s.head)
        BY <1>1, <3>3 DEF ForkchoiceCurrent, ForkchoiceKnownHead, ForkchoiceAccepted
      <4> QED BY <1>2, <4>1, AnswerForkchoiceType
    <3> QED BY <1>3, <3>2, <3>3
  <2>3. TypeOK' BY <2>1, <2>2 DEF EngineBase, TypeOK
  <2> QED BY <2>1, <2>3 DEF EngineBase
<1>4. CASE ForkchoiceNewHead(s)
  <2> DEFINE updated == ChainAfterNewHead(chain, canonical_head, s.head)
  <2>1. /\ ReadyForMessage /\ s.head # Zero
        /\ canonical_head' = s.head
        /\ IF ConsistentForkchoice(updated, s)
             THEN /\ chain' = OnFinalized(updated, s.finalized)
                  /\ buffer' = IF s.finalized \in chain'.blocks_by_hash
                                 THEN EvictOldBlocks(buffer, Number[s.finalized])
                                 ELSE buffer
                  /\ AnswerForkchoice(s, "VALID", s.head)
             ELSE /\ chain' = updated
                  /\ UNCHANGED buffer
                  /\ AnswerForkchoice(s, "INVALID", None)
        /\ UNCHANGED <<database, invalid_headers, inflight, outcomes, parked, task, installed>>
    BY <1>4 DEF ForkchoiceNewHead, ForkchoiceAccepted
  <2>2. updated \in Chain BY <1>2, ChainAfterNewHeadType
  <2> HIDE DEF updated
  <2>3. chain' \in Chain /\ canonical_head' \in Hash BY <1>1, <2>1, <2>2, OnFinalizedType
  <2>4. BufferOK(buffer') /\ buffer' \in Buffer
    <3>1. s.finalized \in chain'.blocks_by_hash => Number[s.finalized] \in Numbers
      BY <2>3, NumbersNat DEF Chain
    <3> QED BY <2>1, <3>1, EvictOldBlocksOK DEF EngineBase, BufferOK
  <2>5. sync_target' \in Hash \cup {None} /\ reply' \in Reply
    <3>1. AnswerForkchoice(s, "INVALID", None) \/ AnswerForkchoice(s, "VALID", s.head) BY <2>1
    <3>2. s.head \in Hash BY <1>1, <2>1
    <3> QED BY <1>2, <3>1, <3>2, AnswerForkchoiceType
  <2>6. task = Idle BY <2>1 DEF ReadyForMessage
  <2>7. TypeOK' BY <2>1, <2>3, <2>4, <2>5 DEF EngineBase, TypeOK
  <2> QED BY <2>1, <2>4, <2>6, <2>7, IdleFacts DEF EngineBase
<1>5. CASE ForkchoiceSyncing(s)
  <2> DEFINE safe == s.safe # Zero /\ ~IsBlockPersistedOrBuffered(chain, buffer, s.safe)
             wanted == LowestBufferedAncestorOr(buffer, IF safe THEN s.safe ELSE s.head)
  <2>1. /\ UNCHANGED <<chain, database, buffer, invalid_headers, canonical_head, outcomes,
                       parked, task, installed>>
        /\ s.head # Zero
        /\ AnswerForkchoice(s, "SYNCING", None)
        /\ \/ inflight' = inflight \cup {Req("finalized", s.finalized)}
           \/ inflight' = inflight \cup BlockRequests(buffer, wanted)
           \/ inflight' = inflight
    BY <1>5 DEF ForkchoiceSyncing, ForkchoiceAccepted, tree
  <2>2. wanted \in Hash \cup {Zero}
    BY <1>1, <1>2, LowestBufferedAncestorOrIs DEF Buffer
  <2> HIDE DEF wanted
  <2>3. inflight' \subseteq Request
    <3>1. BlockRequests(buffer, wanted) \subseteq Request /\ Req("finalized", s.finalized) \in Request
      BY <1>1, <2>2, RequestTypes
    <3> QED BY <1>2, <2>1, <3>1
  <2>4. sync_target' \in Hash \cup {None} /\ reply' \in Reply BY <1>2, <2>1, AnswerForkchoiceType
  <2>5. TypeOK' BY <2>1, <2>3, <2>4 DEF EngineBase, TypeOK
  <2> QED BY <2>1, <2>5 DEF EngineBase
<1> QED BY <1>3, <1>4, <1>5

\* What on_download_outcome takes from the queue.
LEMMA NextOutcomeType ==
    ASSUME outcomes \in Seq(Request), NEW kind, NEW id, outcomes # <<>>,
           Head(outcomes) = Req(kind, id), outcomes' = Tail(outcomes)
    PROVE  /\ outcomes' \in Seq(Request)
           /\ \A i \in 1..Len(outcomes') : outcomes'[i] \in Request
           /\ Req(kind, id) \in Request
<1>1. outcomes' \in Seq(Request) /\ Head(outcomes) \in Request OBVIOUS
<1>2. \A i \in 1..Len(outcomes') : outcomes'[i] \in Request BY <1>1
<1> QED BY <1>1, <1>2

\* Polling the downloader keeps the base invariant.
LEMMA PollBase == ASSUME EngineBase, PollDownloader PROVE EngineBase'
<1>1. PICK batch \in Batches :
          outcomes' = batch /\ inflight' = inflight \ {batch[i] : i \in DOMAIN batch}
  BY DEF PollDownloader
<1>2. UNCHANGED <<chain, database, buffer, invalid_headers, canonical_head, sync_target, parked,
                  task, installed>> /\ reply' = NoReply
  BY DEF PollDownloader, tree
<1>3. inflight \subseteq Request BY DEF EngineBase, TypeOK
<1>4. PICK n \in 1..MaxBatch : batch \in [1..n -> inflight] BY DEF Batches
<1>5. n \in Nat BY EngineAssumption
<1>6. batch \in Seq(Request) /\ \A i \in 1..Len(batch) : batch[i] \in Request
  <2>1. batch \in [1..n -> Request] BY <1>3, <1>4
  <2>2. batch \in Seq(Request) BY <1>5, <2>1
  <2> QED BY <2>2
<1>7. TypeOK' BY <1>1, <1>2, <1>3, <1>6, AnswerType DEF EngineBase, TypeOK
<1> QED BY <1>1, <1>2, <1>6, <1>7 DEF EngineBase

\* The handlers of downloads keep the base invariant.
LEMMA FinalizedBase == ASSUME EngineBase, NEW f \in Hash, FinalizedDownloaded(f) PROVE EngineBase'
<1> DEFINE A == {a \in Ancestry[f] : Number[a] + Window >= Number[f]}
           i == InsertCanonicalHashes(chain, A)
<1>1. A \in SUBSET Hash BY AncestryContains
<1>2. chain' = ChainInsertBlock(i, f, FALSE) BY DEF FinalizedDownloaded
<1> HIDE DEF A
<1>3. i \in Chain BY <1>1, InsertCanonicalHashesType DEF EngineBase, TypeOK
<1> HIDE DEF i
<1>4. chain' \in Chain BY <1>2, <1>3, ChainInsertBlockType
<1>5. /\ outcomes' \in Seq(Request) /\ \A k \in 1..Len(outcomes') : outcomes'[k] \in Request
      /\ reply' = NoReply
  BY NextOutcomeType DEF FinalizedDownloaded, NextOutcome, EngineBase
<1>6. /\ UNCHANGED <<database, buffer, invalid_headers, sync_target, inflight, parked>>
      /\ canonical_head' = f /\ installed' = installed \cup {f} /\ task' = Unlocking({f})
  BY DEF FinalizedDownloaded
<1>7. task' \in Task /\ TaskOK(task', parked', chain'.blocks_by_hash) BY <1>6, UnlockingFacts
<1>8. TypeOK' BY <1>4, <1>5, <1>6, <1>7, AnswerType DEF EngineBase, TypeOK
<1> QED BY <1>5, <1>6, <1>7, <1>8 DEF EngineBase

\* A downloaded block keeps the base invariant.
LEMMA BlockBase == ASSUME EngineBase, NEW h \in Hash, BlockDownloaded(h) PROVE EngineBase'
<1>1. /\ outcomes' \in Seq(Request) /\ \A k \in 1..Len(outcomes') : outcomes'[k] \in Request
      /\ reply' = NoReply /\ task = Idle
  BY NextOutcomeType DEF BlockDownloaded, NextOutcome, EngineBase
<1>2. /\ UNCHANGED <<chain, database, invalid_headers, canonical_head, sync_target, inflight,
                     parked, installed>>
      /\ \/ UNCHANGED <<buffer, task>>
         \/ buffer' = InsertBlock(buffer, h) /\ task' = Unlocking({h})
  BY DEF BlockDownloaded
<1>3. BufferOK(buffer') /\ buffer' \in Buffer BY <1>2, InsertBlockOK DEF EngineBase, BufferOK
<1>4. task' \in Task /\ TaskOK(task', parked', chain'.blocks_by_hash)
  BY <1>1, <1>2, UnlockingFacts, IdleFacts
<1>5. TypeOK' BY <1>1, <1>2, <1>3, <1>4, AnswerType DEF EngineBase, TypeOK
<1> QED BY <1>1, <1>3, <1>4, <1>5 DEF EngineBase

\* A witness that a peer sends is a witness, and names bytecodes.
LEMMA WitnessType ==
    ASSUME NEW h, NEW w \in WitnessesOf(h)
    PROVE  /\ w \in Witness /\ w # None /\ w.codes \in SUBSET Code
           /\ w.state = "full" => CodesOf[h] \subseteq w.codes
<1>1. w \in Witness /\ (w.state = "full" => CodesOf[h] \subseteq w.codes) BY DEF WitnessesOf
<1>2. w \in [state : {"full", "corrupt"}, codes : SUBSET Code] BY <1>1, VerdictAssumption
<1> QED BY <1>1, <1>2, BufferAssumption

\* A downloaded witness keeps the base invariant.
LEMMA WitnessBase ==
    ASSUME EngineBase, NEW h \in Hash, NEW w \in WitnessesOf(h), WitnessDownloaded(h, w) PROVE EngineBase'
<1> DEFINE missing == MissingCodeHashes(database, w.codes)
<1>1. /\ outcomes' \in Seq(Request) /\ \A k \in 1..Len(outcomes') : outcomes'[k] \in Request
      /\ reply' = NoReply
  BY NextOutcomeType DEF WitnessDownloaded, NextOutcome, EngineBase
<1>2. missing \in SUBSET Code /\ w \in Witness BY WitnessType DEF MissingCodeHashes
<1>3. /\ buffer' = InsertWitness(buffer, h, w, missing)
      /\ inflight' = inflight \cup BytecodeRequests(missing)
      /\ task' = Unlocking(IF missing = {} THEN {h} ELSE {})
      /\ UNCHANGED <<chain, database, invalid_headers, canonical_head, sync_target, parked,
                     installed>>
  BY DEF WitnessDownloaded
<1> HIDE DEF missing
<1>4. BufferOK(buffer') /\ buffer' \in Buffer BY <1>2, <1>3, InsertWitnessOK DEF EngineBase, BufferOK
<1>5. inflight' \subseteq Request
  <2>1. BytecodeRequests(missing) \subseteq Request BY <1>2, RequestTypes
  <2> QED BY <1>3, <2>1 DEF EngineBase, TypeOK
<1>6. task' \in Task /\ TaskOK(task', parked', chain'.blocks_by_hash) BY <1>3, UnlockingFacts
<1>7. TypeOK' BY <1>1, <1>3, <1>4, <1>5, <1>6, AnswerType DEF EngineBase, TypeOK
<1> QED BY <1>1, <1>4, <1>6, <1>7 DEF EngineBase

\* A bytecode, stored or not, keeps the base invariant.
LEMMA BytecodeBase ==
    ASSUME EngineBase, NEW k \in Code, BytecodeDownloaded(k) \/ BytecodeLost(k) PROVE EngineBase'
<1>1. /\ outcomes' \in Seq(Request) /\ \A i \in 1..Len(outcomes') : outcomes'[i] \in Request
      /\ reply' = NoReply /\ task = Idle
  BY NextOutcomeType DEF BytecodeDownloaded, BytecodeLost, NextOutcome, EngineBase
<1>2. /\ UNCHANGED <<chain, invalid_headers, canonical_head, sync_target, inflight, parked, installed>>
      /\ \/ UNCHANGED <<database, buffer, task>>
         \/ /\ database' = database \cup {k} /\ buffer' = OnBytecodeReceived(buffer, k)
            /\ task' = Unlocking(UnlockedBy(buffer, k))
  BY DEF BytecodeDownloaded, BytecodeLost, InsertBytecode, tree
<1>3. BufferOK(buffer') /\ buffer' \in Buffer BY <1>2, OnBytecodeReceivedOK DEF EngineBase, BufferOK
<1>4. UnlockedBy(buffer, k) \in SUBSET Hash BY DEF UnlockedBy
<1>5. task' \in Task /\ TaskOK(task', parked', chain'.blocks_by_hash)
  BY <1>1, <1>2, <1>4, UnlockingFacts, IdleFacts
<1>6. TypeOK' BY <1>1, <1>2, <1>3, <1>5, AnswerType DEF EngineBase, TypeOK
<1> QED BY <1>1, <1>3, <1>5, <1>6 DEF EngineBase

\* An error that ends the engine keeps the base invariant.
LEMMA EngineStopsBase ==
    ASSUME EngineBase, NEW h \in Hash, NEW kind \in {"finalized", "witness"}, EngineStops(kind, h)
    PROVE  EngineBase'
<1>1. outcomes' \in Seq(Request) /\ \A i \in 1..Len(outcomes') : outcomes'[i] \in Request
  BY NextOutcomeType DEF EngineStops, EngineBase
<1>2. /\ task' = [Idle EXCEPT !.on = "stopped"] /\ AnswerParked(parked, "ERROR", None)
      /\ UNCHANGED <<chain, database, buffer, invalid_headers, canonical_head, sync_target,
                     inflight, installed>>
  BY DEF EngineStops, tree
<1>3. reply' \in Reply /\ parked' \in Hash \cup {None}
  <2>1. parked \in Hash \cup {None} BY DEF EngineBase, TypeOK
  <2> QED BY <1>2, <2>1, AnswerParkedType
<1>4. task' \in Task /\ task'.on = "stopped" /\ task'.block = None /\ task'.unlocked = {} /\ Pending(task') = {}
  BY <1>2 DEF Idle, Task, NoBlocks, Pending
<1>5. TaskOK(task', parked', chain'.blocks_by_hash) BY <1>4 DEF TaskOK
<1>6. TypeOK' BY <1>1, <1>2, <1>3, <1>4 DEF EngineBase, TypeOK
<1> QED BY <1>1, <1>2, <1>5, <1>6 DEF EngineBase

\* Skipping an unlocked block that is gone keeps the base invariant.
LEMMA SkipBase == ASSUME EngineBase, NEW h \in Hash, SkipUnlocked(h) PROVE EngineBase'
<1>1. /\ UNCHANGED <<chain, database, buffer, invalid_headers, canonical_head, sync_target,
                     inflight, outcomes, parked, installed>>
      /\ reply' = NoReply /\ task' = Unlocking(task.unlocked \ {h})
  BY DEF SkipUnlocked, tree
<1>2. task.unlocked \ {h} \in SUBSET Hash BY DEF EngineBase, TypeOK, Task
<1>3. task' \in Task /\ TaskOK(task', parked', chain'.blocks_by_hash) BY <1>1, <1>2, UnlockingFacts
<1>4. TypeOK' BY <1>1, <1>3, AnswerType DEF EngineBase, TypeOK
<1> QED BY <1>1, <1>3, <1>4 DEF EngineBase

\* on_downloaded_block keeps the base invariant.
LEMMA InsertUnlockedBase == ASSUME EngineBase, NEW h \in Hash, InsertUnlocked(h) PROVE EngineBase'
<1> DEFINE w     == ReadyWitness(buffer, h)
           b     == RemoveBlock(buffer, h)
           entry == InvalidEntry(invalid_headers, LowestBufferedAncestorOr(b, h))
           r     == IF entry # None THEN "Known" ELSE InsertExit(chain, database, h, w)
           rest  == Unlocking(task.unlocked \ {h})
           t     == [task EXCEPT !.block = h, !.connect = RemovedWithChildren(b, h),
                                 !.unlocked = @ \ {h}]
           B     == BufferAfterInsert(b, h, w, r)
           lv1   == PrepareInvalidResponse(chain, invalid_headers, Parent[entry])
           lv2   == LatestValidHash(chain, invalid_headers, Parent[h])
           bt    == RemoveBlockWithChildren(b, h)
<1>1. Parent[h] \in Hash \cup {Zero} BY ParentAssumption
<1>2. BufferOK(b) /\ w \in Witness \cup {None}
  BY RemoveBlockOK, ReadyWitnessType DEF EngineBase
<1>3. /\ chain' = ChainAfterInsert(chain, h, r)
      /\ task.on = "download"
      /\ UNCHANGED <<database, canonical_head, sync_target, outcomes, installed>>
      /\ \/ /\ r = "Known" /\ buffer' = b
            /\ invalid_headers' = MarkInvalid(invalid_headers, h, entry)
            /\ task' = rest /\ AnswerParked(h, "INVALID", lv1)
            /\ UNCHANGED inflight
         \/ /\ r = "Valid" /\ buffer' = bt /\ task' = t /\ reply' = NoReply
            /\ UNCHANGED <<invalid_headers, inflight, parked>>
         \/ /\ r = "AlreadySeen" /\ buffer' = b /\ task' = rest /\ AnswerParked(h, "VALID", h)
            /\ UNCHANGED <<invalid_headers, inflight>>
         \/ /\ r = "Disconnected" /\ buffer' = B
            /\ inflight' = inflight \cup BlockRequests(buffer', MissingAncestor(b, h))
            /\ task' = rest /\ AnswerParked(h, "SYNCING", None)
            /\ UNCHANGED invalid_headers
         \/ /\ r = "Invalid" /\ buffer' = b
            /\ invalid_headers' = InvalidAfterInsert(invalid_headers, h, r)
            /\ task' = rest /\ AnswerParked(h, "INVALID", lv2)
            /\ UNCHANGED inflight
         \/ /\ r = "Fatal" /\ buffer' = b /\ task' = rest /\ AnswerParked(h, "ERROR", None)
            /\ UNCHANGED <<invalid_headers, inflight>>
  BY DEF InsertUnlocked
<1>4. entry \in Hash \cup {None} /\ (r = "Known" => entry # None)
  <2>1. r = "Known" => entry # None BY InsertExitIs DEF Exits
  <2> QED BY <2>1, InvalidEntryType DEF EngineBase, TypeOK
<1>5. /\ lv1 \in Hash \cup {Zero, None} /\ lv2 \in Hash \cup {Zero, None}
      /\ MissingAncestor(b, h) \in Hash \cup {Zero}
  BY <1>1, <1>2, InvalidResponseType, LowestBufferedAncestorOrIs
     DEF EngineBase, TypeOK, MissingAncestor, BufferOK, Buffer
<1>6. /\ BufferOK(B) /\ BufferOK(bt)
      /\ RemovedWithChildren(b, h) \in [Hash -> Witness \cup {None}]
  BY <1>2, BufferAfterInsertOK, RemoveBlockWithChildrenOK, RemoveBlockWithChildrenEffect
     DEF WithChildrenRemoved
<1>7. task \in Task /\ task.unlocked \ {h} \in SUBSET Hash BY DEF EngineBase, TypeOK, Task
<1>8. task.on = "download" => t \in Task /\ t.on = "download" /\ t.block = h
  BY <1>6, <1>7 DEF Task
<1>9. rest \in Task /\ \A p, blocks : TaskOK(rest, p, blocks) BY <1>7, UnlockingFacts
<1> HIDE DEF w, b, entry, r, rest, t, B, lv1, lv2, bt
<1>10. /\ chain' \in Chain
       /\ r = "Valid" => h \in chain'.blocks_by_hash
  BY <1>3, ChainAfterInsertType DEF EngineBase, TypeOK
<1>11. BufferOK(buffer') /\ buffer' \in Buffer BY <1>2, <1>3, <1>6 DEF BufferOK
<1>12. invalid_headers' \in InvalidHeaders
  <2>1. invalid_headers \in InvalidHeaders BY DEF EngineBase, TypeOK
  <2>2. r = "Known" => MarkInvalid(invalid_headers, h, entry) \in InvalidHeaders
    BY <1>4, <2>1, MarkInvalidType
  <2>3. InvalidAfterInsert(invalid_headers, h, r) \in InvalidHeaders
    BY <2>1, InvalidAfterInsertType
  <2> QED BY <1>3, <2>1, <2>2, <2>3
<1>13. inflight' \subseteq Request
  <2>1. BlockRequests(buffer', MissingAncestor(b, h)) \subseteq Request BY <1>5, RequestTypes
  <2> QED BY <1>3, <2>1 DEF EngineBase, TypeOK
<1>14. reply' \in Reply /\ parked' \in Hash \cup {None}
  <2>1. parked \in Hash \cup {None} BY DEF EngineBase, TypeOK
  <2> QED BY <1>3, <1>5, <2>1, AnswerType, AnswerParkedType
<1>15. TaskOK(task', parked', chain'.blocks_by_hash)
  <2>1. CASE r = "Valid" /\ task' = t
    BY <1>3, <1>8, <1>10, <2>1, Distinct DEF TaskOK
  <2>2. CASE task' = rest BY <1>9, <2>2
  <2> QED BY <1>3, <2>1, <2>2
<1>16. task' \in Task BY <1>15 DEF TaskOK
<1>17. TypeOK' BY <1>3, <1>10, <1>11, <1>12, <1>13, <1>14, <1>16 DEF EngineBase, TypeOK
<1> QED BY <1>3, <1>11, <1>15, <1>17 DEF EngineBase

\* Timeouts, the cache's evictions and restarts keep the base invariant.
LEMMA OtherBase ==
    ASSUME EngineBase, ParkedTimeout \/ (\E h \in Hash : ForgetInvalid(h)) \/ Restart
    PROVE  EngineBase'
<1>1. CASE ParkedTimeout
  <2>1. /\ UNCHANGED <<chain, database, buffer, invalid_headers, canonical_head, sync_target,
                       inflight, outcomes, task, installed>>
        /\ parked' = None /\ parked # None /\ task = Idle
        /\ reply' = Answer("newPayload", parked, "SYNCING", None)
    BY <1>1 DEF ParkedTimeout, tree
  <2>2. TypeOK' BY <2>1, AnswerType DEF EngineBase, TypeOK
  <2> QED BY <2>1, <2>2, IdleFacts DEF EngineBase
<1>2. CASE \E h \in Hash : ForgetInvalid(h)
  <2>1. PICK h \in Hash : ForgetInvalid(h) BY <1>2
  <2>2. invalid_headers' \in InvalidHeaders BY <2>1 DEF ForgetInvalid, InvalidHeaders, EngineBase, TypeOK
  <2>3. TypeOK' BY <2>1, <2>2, AnswerType DEF ForgetInvalid, EngineBase, TypeOK
  <2> QED BY <2>1, <2>3 DEF ForgetInvalid, EngineBase
<1>3. CASE Restart
  <2>1. outcomes' = <<>> /\ outcomes' \in Seq(Request) /\ Len(outcomes') = 0 BY <1>3 DEF Restart
  <2>2. BufferOK(buffer') /\ buffer' \in Buffer BY <1>3, NewBufferOK DEF Restart, BufferOK
  <2>3. invalid_headers' \in InvalidHeaders BY <1>3 DEF Restart, InvalidHeaders
  <2>4. \A i \in 1..Len(outcomes') : outcomes'[i] \in Request BY <2>1
  <2>5. TypeOK'
    BY <1>3, <2>2, <2>3, <2>4, Distinct, GenesisChainType, IdleFacts, AnswerType
       DEF Restart, EngineBase, TypeOK
  <2> QED BY <1>3, <2>1, <2>2, <2>5, IdleFacts DEF Restart, EngineBase
<1> QED BY <1>1, <1>2, <1>3

\* Every step keeps the base invariant.
LEMMA NextBase == EngineBase /\ [Next]_vars => EngineBase'
<1> SUFFICES ASSUME EngineBase, [Next]_vars PROVE EngineBase' OBVIOUS
<1>1. CASE UNCHANGED vars BY <1>1 DEF vars, tree, EngineBase, TypeOK
<1>2. CASE Next
  <2>1. CASE OnNewPayload BY <2>1, RefusedPayloadBase, NewPayloadBase DEF OnNewPayload
  <2>2. CASE OnForkchoiceUpdated BY <2>2, ForkchoiceBase DEF OnForkchoiceUpdated
  <2>3. CASE OnDownloadOutcome
    BY <2>3, FinalizedBase, BlockBase, WitnessBase, BytecodeBase, EngineStopsBase DEF OnDownloadOutcome
  <2>4. CASE Continue BY <2>4, ConnectBase, SkipBase, InsertUnlockedBase, FinishBase DEF Continue
  <2> QED BY <1>2, <2>1, <2>2, <2>3, <2>4, PollBase, OtherBase DEF Next
<1> QED BY <1>1, <1>2

(***************************************************************************)
(* In every state the buffer's collections describe the same blocks        *)
(* (block_buffer.rs:31-54), and what a handler has still to do is          *)
(* consistent with the parked payload and with the blocks in memory        *)
(* (engine.rs:105-180, tree/mod.rs:624-660).                               *)
(***************************************************************************)
THEOREM EngineBaseInvariant == Spec => []EngineBase
BY InitBase, NextBase, PTL DEF Spec

(***************************************************************************)
(* Type correctness of the engine, the tree, the buffer and the chain      *)
(* state in every handler, between its steps too (engine.rs, tree/mod.rs). *)
(***************************************************************************)
THEOREM EngineTypeOK == Spec => []TypeOK
<1>1. EngineBase => TypeOK BY DEF EngineBase
<1> QED BY <1>1, EngineBaseInvariant, PTL

-----------------------------------------------------------------------------
(***************************************************************************)
(* The ways in which a step changes the chain or the head: a block is      *)
(* executed on a parent in memory and possibly made the head, the head     *)
(* moves to a block in memory, a forkchoice update is handled, a finalized *)
(* block is installed, or the node restarts.                               *)
(***************************************************************************)
Insertable(h) ==
    /\ h \notin chain.blocks_by_hash /\ Parent[h] \in chain.blocks_by_hash
    /\ Verdict[h] \in {"valid", "sender"}
    /\ Verdict[h] # "sender" \/ h \in buffer.blocks \/ h \in Pending(task)

\* insert_block executes h.
Executed(h) == /\ Insertable(h)
               /\ chain' = ChainInsertBlock(chain, h, TRUE)
               /\ UNCHANGED <<canonical_head, installed>>

\* insert_block executes h, the sync target, and makes it the head.
ExecutedHead(h) ==
    /\ Insertable(h)
    /\ chain' = ChainAfterNewHead(ChainInsertBlock(chain, h, TRUE), canonical_head, h)
    /\ canonical_head' = HeadAfterNewHead(ChainInsertBlock(chain, h, TRUE), canonical_head, h)
    /\ UNCHANGED installed

\* The head moves to h, which is in memory.
MovedHead(h) == /\ chain' = ChainAfterNewHead(chain, canonical_head, h)
                /\ canonical_head' = HeadAfterNewHead(chain, canonical_head, h)
                /\ UNCHANGED installed

\* How a step may change the chain.
ChainStep ==
    \/ UNCHANGED <<chain, canonical_head, installed>>
    \/ \E h \in Hash : Executed(h) \/ ExecutedHead(h) \/ MovedHead(h) \/ FinalizedDownloaded(h)
    \/ \E s \in ForkchoiceStates : ForkchoiceNewHead(s)
    \/ Restart

\* A payload changes the chain by executing its block.
LEMMA NewPayloadChain ==
    ASSUME EngineBase, NEW h \in Payloads, NewPayload(h)
    PROVE  UNCHANGED <<chain, canonical_head, installed>> \/ Executed(h)
<1> DEFINE r == InsertExit(chain, database, h, ReadyWitness(buffer, h))
<1>1. h \in Hash BY EngineAssumption
<1>2. /\ chain' = ChainAfterInsert(chain, h, r) /\ UNCHANGED <<canonical_head, installed>>
      /\ Verdict[h] # "sender"
  BY DEF NewPayload
<1>3. r = "Valid" => Insertable(h)
  BY <1>1, <1>2, InsertExitIs DEF Insertable
<1> HIDE DEF r
<1> QED BY <1>2, <1>3 DEF ChainAfterInsert, Executed

\* An unlocked block changes the chain when it is executed.
LEMMA InsertUnlockedChain ==
    ASSUME EngineBase, NEW h \in Hash, InsertUnlocked(h)
    PROVE  UNCHANGED <<chain, canonical_head, installed>> \/ Executed(h)
<1> DEFINE i == InsertExit(chain, database, h, ReadyWitness(buffer, h))
           entry == InvalidEntry(invalid_headers, LowestBufferedAncestorOr(RemoveBlock(buffer, h), h))
           r == IF entry # None THEN "Known" ELSE i
<1>1. /\ chain' = ChainAfterInsert(chain, h, r) /\ UNCHANGED <<canonical_head, installed>>
      /\ h \in buffer.blocks
  BY DEF InsertUnlocked, Removable
<1>2. i = "Valid" => Insertable(h)
  BY <1>1, InsertExitIs DEF Insertable
<1> HIDE DEF i, entry
<1> QED BY <1>1, <1>2 DEF ChainAfterInsert, Executed

\* A child that is connected changes the chain when it is executed.
LEMMA ConnectChain ==
    ASSUME EngineBase, NEW c \in Hash, Connect(c)
    PROVE  UNCHANGED <<chain, canonical_head, installed>> \/ Executed(c) \/ ExecutedHead(c)
<1> DEFINE r == InsertExit(chain, database, c, task.connect[c])
<1>1. /\ IF r = "Valid" /\ sync_target = c
           THEN /\ chain' = ChainAfterNewHead(ChainAfterInsert(chain, c, r), canonical_head, c)
                /\ canonical_head' = HeadAfterNewHead(ChainAfterInsert(chain, c, r), canonical_head, c)
           ELSE chain' = ChainAfterInsert(chain, c, r) /\ UNCHANGED canonical_head
      /\ UNCHANGED installed /\ c \in Pending(task)
  BY DEF Connect
<1>2. r = "Valid" => Insertable(c) BY <1>1, InsertExitIs DEF Insertable
<1> HIDE DEF r
<1> QED BY <1>1, <1>2 DEF ChainAfterInsert, Executed, ExecutedHead

\* Every step is one of them.
LEMMA ChainSteps == EngineBase /\ Next => ChainStep
<1> SUFFICES ASSUME EngineBase, Next PROVE ChainStep OBVIOUS
<1>1. CASE OnNewPayload
  <2>1. PICK h \in Payloads : MalformedPayload(h) \/ UnrecoverablePayload(h) \/ RejectedPayload(h)
                                  \/ NewPayload(h)
    BY <1>1 DEF OnNewPayload
  <2>2. h \in Hash BY EngineAssumption
  <2>3. CASE NewPayload(h) BY <2>2, <2>3, NewPayloadChain DEF ChainStep
  <2>4. CASE MalformedPayload(h) \/ UnrecoverablePayload(h) \/ RejectedPayload(h)
    BY <2>4 DEF ChainStep, MalformedPayload, UnrecoverablePayload, RejectedPayload
  <2> QED BY <2>1, <2>3, <2>4
<1>2. CASE OnForkchoiceUpdated
  <2>1. PICK s \in ForkchoiceStates : \/ ForkchoiceRejected(s) \/ ForkchoiceCurrent(s)
                                      \/ ForkchoiceNewHead(s) \/ ForkchoiceKnownHead(s)
                                      \/ ForkchoiceSyncing(s)
    BY <1>2 DEF OnForkchoiceUpdated
  <2>2. CASE ForkchoiceNewHead(s) BY <2>2 DEF ChainStep
  <2>3. CASE \/ ForkchoiceRejected(s) \/ ForkchoiceCurrent(s) \/ ForkchoiceKnownHead(s)
             \/ ForkchoiceSyncing(s)
    BY <2>3 DEF ChainStep, ForkchoiceRejected, ForkchoiceCurrent, ForkchoiceKnownHead,
                ForkchoiceSyncing, tree
  <2> QED BY <2>1, <2>2, <2>3
<1>3. CASE OnDownloadOutcome
  BY <1>3 DEF ChainStep, OnDownloadOutcome, BlockDownloaded, WitnessDownloaded,
              BytecodeDownloaded, BytecodeLost, EngineStops, tree
<1>4. CASE Continue
  <2>1. CASE \E h \in Hash : Connect(h) BY <2>1, ConnectChain DEF ChainStep
  <2>2. CASE \E h \in Hash : SkipUnlocked(h) BY <2>2 DEF ChainStep, SkipUnlocked, tree
  <2>3. CASE \E h \in Hash : InsertUnlocked(h) BY <2>3, InsertUnlockedChain DEF ChainStep
  <2>4. CASE Finish
    <3>1. task.block \in Hash BY <2>4 DEF Finish, EngineBase, TypeOK, Task
    <3>2. UNCHANGED <<chain, canonical_head, installed>> \/ MovedHead(task.block)
      BY <2>4 DEF Finish, MovedHead
    <3> QED BY <3>1, <3>2 DEF ChainStep
  <2> QED BY <1>4, <2>1, <2>2, <2>3, <2>4 DEF Continue
<1>5. CASE \/ PollDownloader \/ ParkedTimeout \/ \E h \in Hash : ForgetInvalid(h)
  BY <1>5 DEF ChainStep, PollDownloader, ParkedTimeout, ForgetInvalid, tree
<1> QED BY <1>1, <1>2, <1>3, <1>4, <1>5 DEF Next, ChainStep

-----------------------------------------------------------------------------
\* ChainIndexed of a chain state.
Indexed(c) == /\ \A n \in Numbers : c.block_hashes_by_number[n] =
                                        {h \in c.blocks_by_hash : Number[h] = n}
              /\ c.witnesses \subseteq c.blocks_by_hash

\* insert_block of the chain state keeps the maps in step.
LEMMA InsertKeepsIndexed ==
    ASSUME NEW c \in Chain, Indexed(c), NEW h \in Hash, NEW w \in BOOLEAN
    PROVE  Indexed(ChainInsertBlock(c, h, w))
<1> DEFINE f == ChainInsertBlock(c, h, w)
<1>1. BlockAdded(f, c, h) BY ChainInsertBlockType
<1> HIDE DEF f
<1>2. f.witnesses \subseteq f.blocks_by_hash BY <1>1 DEF Indexed, BlockAdded
<1>3. ASSUME NEW n \in Numbers
      PROVE  f.block_hashes_by_number[n] = {x \in f.blocks_by_hash : Number[x] = n}
  <2>1. c.block_hashes_by_number[n] = {x \in c.blocks_by_hash : Number[x] = n} BY DEF Indexed
  <2> QED BY <1>1, <2>1 DEF BlockAdded
<1>4. Indexed(f) BY <1>2, <1>3 DEF Indexed
<1> QED BY <1>4 DEF f

\* The blocks remove_blocks_on_finalized prunes are the ones below the finalized block.
LEMMA PrunedAre ==
    ASSUME NEW c \in Chain, Indexed(c), NEW f \in Hash
    PROVE  \A h \in Hash : h \in Pruned(c, f) <=> h \in c.blocks_by_hash /\ Number[h] < Number[f]
<1> TAKE h \in Hash
<1>1. ASSUME h \in Pruned(c, f) PROVE h \in c.blocks_by_hash /\ Number[h] < Number[f]
  <2>1. PICK n \in Numbers : n < Number[f] /\ h \in c.block_hashes_by_number[n]
    BY <1>1 DEF Pruned
  <2> QED BY <2>1 DEF Indexed
<1>2. ASSUME h \in c.blocks_by_hash, Number[h] < Number[f] PROVE h \in Pruned(c, f)
  <2>1. Number[h] \in Numbers BY NumbersNat
  <2>2. h \in c.block_hashes_by_number[Number[h]] BY <1>2, <2>1 DEF Indexed
  <2> QED BY <1>2, <2>1, <2>2 DEF Pruned
<1> QED BY <1>1, <1>2

\* Finalization keeps the maps in step.
LEMMA OnFinalizedKeepsIndexed ==
    ASSUME NEW c \in Chain, Indexed(c), NEW f PROVE Indexed(OnFinalized(c, f))
<1>1. CASE f \notin c.blocks_by_hash BY <1>1, OnFinalizedType
<1>2. CASE f \in c.blocks_by_hash
  <2> DEFINE d == OnFinalized(c, f)
  <2>1. PrunedTo(d, c, f) /\ f \in Hash BY <1>2, OnFinalizedType DEF Chain
  <2> HIDE DEF d
  <2>2. d.witnesses \subseteq d.blocks_by_hash BY <2>1 DEF PrunedTo, Indexed
  <2>3. \A h \in Hash : h \in d.blocks_by_hash <=> h \in c.blocks_by_hash /\ ~(Number[h] < Number[f])
    BY <2>1, PrunedAre DEF PrunedTo, Chain
  <2>4. d.blocks_by_hash \subseteq Hash BY <2>1 DEF PrunedTo, Chain
  <2>5. ASSUME NEW n \in Numbers
        PROVE  d.block_hashes_by_number[n] = {h \in d.blocks_by_hash : Number[h] = n}
    <3>1. d.block_hashes_by_number[n] = IF n < Number[f] THEN {} ELSE c.block_hashes_by_number[n]
      BY <2>1 DEF PrunedTo
    <3>2. c.block_hashes_by_number[n] = {h \in c.blocks_by_hash : Number[h] = n} BY DEF Indexed
    <3>3. c.blocks_by_hash \subseteq Hash BY DEF Chain
    <3> QED BY <2>3, <2>4, <3>1, <3>2, <3>3
  <2>6. Indexed(d) BY <2>2, <2>5 DEF Indexed
  <2> QED BY <2>6 DEF d
<1> QED BY <1>1, <1>2

\* Chain states with the same blocks are indexed alike.
LEMMA SameBlocksIndexed ==
    ASSUME NEW c, NEW d, SameBlocks(d, c), Indexed(c) PROVE Indexed(d)
BY DEF SameBlocks, Indexed

\* Every step keeps the maps of the chain state in step.
LEMMA NextIndexed == EngineBase /\ Indexed(chain) /\ [Next]_vars => Indexed(chain)'
<1> SUFFICES ASSUME EngineBase, Indexed(chain), [Next]_vars PROVE Indexed(chain') OBVIOUS
<1>1. chain \in Chain /\ canonical_head \in Hash BY DEF EngineBase, TypeOK
<1>2. CASE UNCHANGED <<chain, canonical_head, installed>> BY <1>2
<1>3. ASSUME NEW h \in Hash, Executed(h) \/ ExecutedHead(h) PROVE Indexed(chain')
  <2> DEFINE d == ChainInsertBlock(chain, h, TRUE)
  <2>1. d \in Chain /\ Indexed(d) BY <1>1, ChainInsertBlockType, InsertKeepsIndexed
  <2>2. chain' = d \/ chain' = ChainAfterNewHead(d, canonical_head, h)
    BY <1>3 DEF Executed, ExecutedHead
  <2> HIDE DEF d
  <2> QED BY <1>1, <2>1, <2>2, ChainAfterNewHeadType, SameBlocksIndexed
<1>4. ASSUME NEW h \in Hash, MovedHead(h) PROVE Indexed(chain')
  BY <1>1, <1>4, ChainAfterNewHeadType, SameBlocksIndexed DEF MovedHead
<1>5. ASSUME NEW f \in Hash, FinalizedDownloaded(f) PROVE Indexed(chain')
  <2> DEFINE A == {a \in Ancestry[f] : Number[a] + Window >= Number[f]}
             d == InsertCanonicalHashes(chain, A)
  <2>1. A \in SUBSET Hash BY AncestryContains
  <2>2. chain' = ChainInsertBlock(d, f, FALSE) BY <1>5 DEF FinalizedDownloaded
  <2> HIDE DEF A
  <2>3. d \in Chain /\ Indexed(d) BY <1>1, <2>1, InsertCanonicalHashesType, SameBlocksIndexed
  <2> HIDE DEF d
  <2> QED BY <2>2, <2>3, InsertKeepsIndexed
<1>6. ASSUME NEW s \in ForkchoiceStates, ForkchoiceNewHead(s) PROVE Indexed(chain')
  <2> DEFINE d == ChainAfterNewHead(chain, canonical_head, s.head)
  <2>1. chain' = d \/ chain' = OnFinalized(d, s.finalized) BY <1>6 DEF ForkchoiceNewHead
  <2>2. d \in Chain /\ Indexed(d) BY <1>1, ChainAfterNewHeadType, SameBlocksIndexed
  <2> HIDE DEF d
  <2> QED BY <2>1, <2>2, OnFinalizedKeepsIndexed
<1>7. CASE Restart
  <2>1. Indexed(GenesisChain)
    BY HashAssumption, ParentAssumption DEF GenesisChain, Indexed, Numbers
  <2> QED BY <1>7, <2>1 DEF Restart
<1>8. CASE UNCHANGED vars BY <1>8 DEF vars, tree
<1> QED BY <1>2, <1>3, <1>4, <1>5, <1>6, <1>7, <1>8, ChainSteps DEF ChainStep

(***************************************************************************)
(* The three maps of ChainState never drift apart, whatever executions,    *)
(* finalized downloads and prunings happen in which order.                 *)
(***************************************************************************)
THEOREM EngineChainIndexed == Spec => []ChainIndexed
<1>1. Init => Indexed(chain)
  BY HashAssumption, ParentAssumption DEF Init, GenesisChain, Indexed, Numbers
<1>2. Indexed(chain) => ChainIndexed BY DEF Indexed, ChainIndexed
<1> QED BY <1>1, <1>2, NextIndexed, EngineBaseInvariant, PTL DEF Spec

-----------------------------------------------------------------------------
(***************************************************************************)
(* What a step leaves of the buffer.  But for downloaded witnesses and     *)
(* bytecodes and a restart, no witness gets in but the ones that were      *)
(* there and the ones of blocks being connected (C), nothing more is       *)
(* awaited, and no block whose senders are not recovered gets in.          *)
(***************************************************************************)
Kept(f, b, C) ==
    \A x \in Hash :
        /\ f.missing_bytecodes[x] \subseteq b.missing_bytecodes[x]
        /\ f.witnesses[x] # None =>
               \/ /\ f.witnesses[x] = b.witnesses[x]
                  /\ f.missing_bytecodes[x] = b.missing_bytecodes[x]
               \/ f.witnesses[x] = C[x]
        /\ x \in f.blocks => x \in b.blocks \/ C[x] # None \/ Verdict[x] # "sender"

\* The blocks being connected after the step were, or left the buffer complete.
PendingFrom(t, b, C) ==
    \A x \in Pending(t) : \/ t.connect[x] = C[x]
                          \/ Removable(b, x) /\ t.connect[x] = b.witnesses[x]

\* The buffer gets no new witness, and only complete blocks leave it for the running handler.
BufferKept == /\ UNCHANGED database
              /\ Kept(buffer', buffer, task.connect)
              /\ PendingFrom(task', buffer, task.connect)

\* How a step may change the buffer.
BufferStep == \/ BufferKept
              \/ \E h \in Hash : \E w \in WitnessesOf(h) : WitnessDownloaded(h, w)
              \/ \E k \in Code : BytecodeDownloaded(k)
              \/ Restart

\* What takes from the buffer only keeps it.
LEMMA LeftKept == ASSUME NEW f, NEW b, LeftOf(f, b), NEW C PROVE Kept(f, b, C)
BY DEF LeftOf, WitnessesLeft, Kept

\* insert_block, after the witness or the block was taken out of the buffer, keeps it.
LEMMA BufferAfterInsertKept ==
    ASSUME NEW a, NEW b, BufferOK(b), LeftOf(b, a), NEW C, NEW h \in Hash,
           NEW w \in Witness \cup {None}, NEW r,
           h \in a.blocks \/ C[h] # None \/ Verdict[h] # "sender",
           w # None => \/ w = C[h]
                       \/ w = a.witnesses[h] /\ b.missing_bytecodes[h] = a.missing_bytecodes[h]
    PROVE  Kept(BufferAfterInsert(b, h, w, r), a, C)
<1>1. CASE r = "Disconnected"
  <2> DEFINE i == IF w = None THEN b ELSE InsertWitness(b, h, w, {})
             f == InsertBlock(i, h)
  <2>1. BufferOK(i) BY InsertWitnessOK
  <2>2. BufferAfterInsert(b, h, w, r) = f BY <1>1 DEF BufferAfterInsert
  <2>3. i.blocks = b.blocks
    BY InsertWitnessEffect DEF WitnessInserted
  <2>4. \A x \in Hash : /\ i.missing_bytecodes[x] = b.missing_bytecodes[x]
                        /\ x # h \/ w = None => i.witnesses[x] = b.witnesses[x]
                        /\ w # None => i.witnesses[h] = w
    BY InsertWitnessEffect DEF WitnessInserted
  <2> HIDE DEF i
  <2>5. BlockInserted(f, i, h) BY <2>1, InsertBlockEffect
  <2> HIDE DEF f
  <2>6. Kept(f, a, C)
    <3> SUFFICES ASSUME NEW x \in Hash
                 PROVE  /\ f.missing_bytecodes[x] \subseteq a.missing_bytecodes[x]
                        /\ f.witnesses[x] # None =>
                               \/ /\ f.witnesses[x] = a.witnesses[x]
                                  /\ f.missing_bytecodes[x] = a.missing_bytecodes[x]
                               \/ f.witnesses[x] = C[x]
                        /\ x \in f.blocks => x \in a.blocks \/ C[x] # None \/ Verdict[x] # "sender"
      BY DEF Kept
    <3>1. x \in f.blocks => x \in a.blocks \/ C[x] # None \/ Verdict[x] # "sender"
      BY <2>3, <2>5 DEF BlockInserted, LeftOf
    <3>2. \/ f.witnesses[x] = i.witnesses[x] /\ f.missing_bytecodes[x] = i.missing_bytecodes[x]
          \/ f.witnesses[x] = None /\ f.missing_bytecodes[x] = {}
      BY <2>5 DEF BlockInserted, WitnessesLeft
    <3>3. \/ b.witnesses[x] = a.witnesses[x] /\ b.missing_bytecodes[x] = a.missing_bytecodes[x]
          \/ b.witnesses[x] = None /\ b.missing_bytecodes[x] = {}
      BY DEF LeftOf, WitnessesLeft
    <3>4. f.missing_bytecodes[x] \subseteq a.missing_bytecodes[x] BY <2>4, <3>2, <3>3
    <3>5. f.witnesses[x] # None =>
              \/ f.witnesses[x] = a.witnesses[x] /\ f.missing_bytecodes[x] = a.missing_bytecodes[x]
              \/ f.witnesses[x] = C[x]
      BY <2>4, <3>2, <3>3
    <3> QED BY <3>1, <3>4, <3>5
  <2> QED BY <2>2, <2>6
<1>2. CASE r = "NoWitness"
  <2>1. BlockInserted(BufferAfterInsert(b, h, w, r), b, h)
    BY <1>2, InsertBlockEffect DEF BufferAfterInsert
  <2> QED BY <2>1 DEF BlockInserted, WitnessesLeft, LeftOf, Kept
<1>3. CASE r \notin {"Disconnected", "NoWitness"}
  <2>1. BufferAfterInsert(b, h, w, r) = b BY <1>3 DEF BufferAfterInsert
  <2> QED BY <2>1, LeftKept
<1> QED BY <1>1, <1>2, <1>3

\* The two buffers are taken from one after the other.
LEMMA LeftTrans == ASSUME NEW f, NEW b, NEW a, LeftOf(f, b), LeftOf(b, a) PROVE LeftOf(f, a)
BY DEF LeftOf, WitnessesLeft

\* No block is being connected once the handler is done.
LEMMA NonePending ==
    ASSUME NEW b, NEW C
    PROVE  /\ PendingFrom(Idle, b, C)
           /\ \A T \in SUBSET Hash : PendingFrom(Unlocking(T), b, C)
           /\ \A t : (\A x \in Pending(t) : t.connect[x] = C[x]) => PendingFrom(t, b, C)
BY IdleFacts, UnlockingFacts DEF PendingFrom

\* Blocks that leave a buffer with fewer witnesses were complete before.
LEMMA RemovedPending ==
    ASSUME NEW a, NEW b, BufferOK(b), NEW h \in Hash, NEW C, NEW t, t.connect = RemovedWithChildren(b, h),
           \A x \in Hash : Removable(b, x) => Removable(a, x) /\ b.witnesses[x] = a.witnesses[x]
    PROVE  PendingFrom(t, a, C)
<1> DEFINE returned == RemovedWithChildren(b, h)
           f == RemoveBlockWithChildren(b, h)
           walked == Linked(b, {h})
<1>1. WithChildrenRemoved(f, returned, walked, b, h) BY RemoveBlockWithChildrenEffect
<1> HIDE DEF returned, f, walked
<1>2. \A x \in Hash : returned[x] # None => Removable(b, x) /\ returned[x] = b.witnesses[x]
  BY <1>1 DEF WithChildrenRemoved
<1>3. \A x \in Hash : returned[x] # None => Removable(a, x) /\ returned[x] = a.witnesses[x]
  BY <1>2
<1>4. t.connect = returned BY DEF returned
<1> QED BY <1>3, <1>4 DEF PendingFrom, Pending

\* A block that is complete in what is left of a buffer was complete in the buffer.
LEMMA LeftRemovable ==
    ASSUME NEW f, NEW b, LeftOf(f, b)
    PROVE  \A x \in Hash : Removable(f, x) => Removable(b, x) /\ f.witnesses[x] = b.witnesses[x]
BY DEF LeftOf, WitnessesLeft, Removable, ReadyWitness

\* A payload's witness was complete in the buffer.
LEMMA NewPayloadBuffer == ASSUME EngineBase, NEW h \in Payloads, NewPayload(h) PROVE BufferKept
<1> DEFINE w == ReadyWitness(buffer, h)
           b == RemoveWitness(buffer, h)
           r == InsertExit(chain, database, h, w)
<1>1. h \in Hash /\ Verdict[h] # "sender" BY EngineAssumption DEF NewPayload
<1>2. BufferOK(b) /\ w \in Witness \cup {None} /\ LeftOf(b, buffer) /\ b.missing_bytecodes = buffer.missing_bytecodes
  BY <1>1, RemoveWitnessOK, ReadyWitnessType, RemoveWitnessEffect DEF EngineBase, WitnessRemoved
<1>3. w # None => w = buffer.witnesses[h] BY DEF ReadyWitness
<1> DEFINE t == [Idle EXCEPT !.on = "payload", !.block = h, !.has_witness = (w # None),
                             !.connect = RemovedWithChildren(b, h)]
           B == BufferAfterInsert(b, h, w, r)
           bt == RemoveBlockWithChildren(b, h)
<1>4. /\ UNCHANGED database /\ task = Idle
      /\ \/ buffer' = bt /\ task' = t
         \/ buffer' = B /\ UNCHANGED task
         \/ buffer' = b /\ UNCHANGED task
  BY DEF NewPayload, ReadyForMessage
<1>5. t.connect = RemovedWithChildren(b, h) BY DEF Idle
<1> DEFINE C == task.connect
<1> HIDE DEF w, b, r, t
<1>6. Kept(B, buffer, C) BY <1>1, <1>2, <1>3, BufferAfterInsertKept
<1>7. LeftOf(bt, buffer) /\ PendingFrom(t, buffer, C)
  <2>1. LeftOf(bt, b) BY <1>1, <1>2, RemoveBlockWithChildrenEffect DEF WithChildrenRemoved
  <2>2. \A x \in Hash : Removable(b, x) => Removable(buffer, x) /\ b.witnesses[x] = buffer.witnesses[x]
    BY <1>2, LeftRemovable
  <2>3. PendingFrom(t, buffer, C) BY <1>1, <1>2, <1>5, <2>2, RemovedPending
  <2> QED BY <1>2, <2>1, <2>3, LeftTrans
<1> HIDE DEF B, bt
<1>8. Kept(buffer', buffer, C) BY <1>2, <1>4, <1>6, <1>7, LeftKept
<1>9. PendingFrom(task', buffer, C) BY <1>4, <1>7, NonePending
<1> QED BY <1>4, <1>8, <1>9 DEF BufferKept, C

\* So was the witness of an unlocked block.
LEMMA InsertUnlockedBuffer == ASSUME EngineBase, NEW h \in Hash, InsertUnlocked(h) PROVE BufferKept
<1> DEFINE w     == ReadyWitness(buffer, h)
           b     == RemoveBlock(buffer, h)
           entry == InvalidEntry(invalid_headers, LowestBufferedAncestorOr(b, h))
           r     == IF entry # None THEN "Known" ELSE InsertExit(chain, database, h, w)
           rest  == Unlocking(task.unlocked \ {h})
           t     == [task EXCEPT !.block = h, !.connect = RemovedWithChildren(b, h),
                                 !.unlocked = @ \ {h}]
           B     == BufferAfterInsert(b, h, w, r)
           bt    == RemoveBlockWithChildren(b, h)
           C     == task.connect
<1>1. /\ UNCHANGED database /\ Removable(buffer, h)
      /\ \/ buffer' = bt /\ task' = t
         \/ buffer' = B /\ task' = rest
         \/ buffer' = b /\ task' = rest
  BY DEF InsertUnlocked
<1>2. /\ BufferOK(b) /\ w \in Witness \cup {None} /\ LeftOf(b, buffer)
      /\ b.missing_bytecodes[h] = {}
  BY <1>1, RemoveBlockOK, ReadyWitnessType, RemoveBlockEffect DEF EngineBase, BlockRemoved
<1>3. /\ w = buffer.witnesses[h] /\ buffer.missing_bytecodes[h] = {}
      /\ h \in buffer.blocks
  BY <1>1 DEF ReadyWitness, Removable
<1>4. t.connect = RemovedWithChildren(b, h) BY DEF EngineBase, TypeOK, Task
<1>5. task.unlocked \ {h} \in SUBSET Hash BY DEF EngineBase, TypeOK, Task
<1> HIDE DEF w, b, r, t, entry, C
<1>6. Kept(B, buffer, C) BY <1>2, <1>3, BufferAfterInsertKept
<1>7. LeftOf(bt, buffer) /\ PendingFrom(t, buffer, C)
  <2>1. LeftOf(bt, b) BY <1>2, RemoveBlockWithChildrenEffect DEF WithChildrenRemoved
  <2>2. \A x \in Hash : Removable(b, x) => Removable(buffer, x) /\ b.witnesses[x] = buffer.witnesses[x]
    BY <1>2, LeftRemovable
  <2>3. PendingFrom(t, buffer, C) BY <1>2, <1>4, <2>2, RemovedPending
  <2> QED BY <1>2, <2>1, <2>3, LeftTrans
<1>8. PendingFrom(rest, buffer, C) BY <1>5, NonePending
<1> HIDE DEF B, bt, rest
<1>9. Kept(buffer', buffer, C) BY <1>1, <1>2, <1>6, <1>7, LeftKept
<1>10. PendingFrom(task', buffer, C) BY <1>1, <1>7, <1>8
<1> QED BY <1>1, <1>9, <1>10 DEF BufferKept, C

\* A child that cannot be connected yet goes back to the buffer.
LEMMA ConnectBuffer == ASSUME EngineBase, NEW c \in Hash, Connect(c) PROVE BufferKept
<1> DEFINE w == task.connect[c]
           r == InsertExit(chain, database, c, w)
           C == task.connect
<1>1. /\ UNCHANGED database /\ w # None
      /\ buffer' = BufferAfterInsert(buffer, c, w, r)
      /\ \/ task' = [task EXCEPT !.connect[c] = None]
         \/ task' = Idle
         \/ task' = Unlocking(task.unlocked)
  BY DEF Connect, Pending
<1>2. task \in Task /\ w \in Witness \cup {None} /\ task.unlocked \in SUBSET Hash
  BY DEF EngineBase, TypeOK, Task
<1>3. BufferOK(buffer) /\ LeftOf(buffer, buffer) BY DEF EngineBase, LeftOf, WitnessesLeft
<1>4. PendingFrom(task', buffer, C)
  <2>1. CASE task' = [task EXCEPT !.connect[c] = None]
    <3>1. \A x \in Pending(task') : task'.connect[x] = C[x] BY <1>2, <2>1 DEF Pending, Task
    <3> QED BY <3>1, NonePending
  <2> QED BY <1>1, <1>2, <2>1, NonePending
<1>5. w = C[c] OBVIOUS
<1> HIDE DEF w, r, C
<1>6. Kept(buffer', buffer, C) BY <1>1, <1>2, <1>3, <1>5, BufferAfterInsertKept
<1> QED BY <1>1, <1>4, <1>6 DEF BufferKept, C

\* Every step treats the buffer so.
LEMMA BufferSteps == EngineBase /\ Next => BufferStep
<1> SUFFICES ASSUME EngineBase, Next PROVE BufferStep OBVIOUS
<1>1. BufferOK(buffer) /\ LeftOf(buffer, buffer) BY DEF EngineBase, LeftOf, WitnessesLeft
<1>2. ASSUME UNCHANGED database, LeftOf(buffer', buffer),
             UNCHANGED task \/ Pending(task') = {}
      PROVE  BufferStep
  <2>1. PendingFrom(task', buffer, task.connect) BY <1>2 DEF PendingFrom
  <2> QED BY <1>2, <2>1, LeftKept DEF BufferStep, BufferKept
<1>3. CASE OnNewPayload
  <2>1. PICK h \in Payloads : MalformedPayload(h) \/ UnrecoverablePayload(h) \/ RejectedPayload(h)
                                  \/ NewPayload(h)
    BY <1>3 DEF OnNewPayload
  <2>2. h \in Hash BY EngineAssumption
  <2>3. CASE NewPayload(h) BY <2>3, NewPayloadBuffer DEF BufferStep
  <2>4. CASE MalformedPayload(h) \/ UnrecoverablePayload(h) \/ RejectedPayload(h)
    <3>1. buffer' = RemoveWitness(buffer, h) /\ UNCHANGED <<database, task>>
      BY <2>4 DEF MalformedPayload, UnrecoverablePayload, RejectedPayload
    <3>2. LeftOf(buffer', buffer) BY <1>1, <2>2, <3>1, RemoveWitnessEffect DEF WitnessRemoved
    <3> QED BY <1>2, <3>1, <3>2
  <2> QED BY <2>1, <2>3, <2>4
<1>4. CASE OnForkchoiceUpdated
  <2>1. PICK s \in ForkchoiceStates : \/ ForkchoiceRejected(s) \/ ForkchoiceCurrent(s)
                                      \/ ForkchoiceNewHead(s) \/ ForkchoiceKnownHead(s)
                                      \/ ForkchoiceSyncing(s)
    BY <1>4 DEF OnForkchoiceUpdated
  <2>2. CASE ForkchoiceNewHead(s)
    <3>1. /\ UNCHANGED <<database, task>>
          /\ \/ UNCHANGED buffer
             \/ /\ buffer' = EvictOldBlocks(buffer, Number[s.finalized])
                /\ s.finalized \in chain'.blocks_by_hash
      BY <2>2 DEF ForkchoiceNewHead
    <3>2. chain' \in Chain BY <2>1, ForkchoiceBase DEF EngineBase, TypeOK
    <3>3. s.finalized \in chain'.blocks_by_hash => Number[s.finalized] \in Numbers
      BY <3>2, NumbersNat DEF Chain
    <3>4. LeftOf(buffer', buffer) BY <1>1, <3>1, <3>3, EvictOldBlocksEffect
    <3> QED BY <1>2, <3>1, <3>4
  <2>3. CASE \/ ForkchoiceRejected(s) \/ ForkchoiceCurrent(s) \/ ForkchoiceKnownHead(s)
             \/ ForkchoiceSyncing(s)
    <3>1. UNCHANGED <<database, buffer, task>>
      BY <2>3 DEF ForkchoiceRejected, ForkchoiceCurrent, ForkchoiceKnownHead, ForkchoiceSyncing, tree
    <3> QED BY <1>1, <1>2, <3>1
  <2> QED BY <2>1, <2>2, <2>3
<1>5. CASE OnDownloadOutcome
  <2>1. ASSUME NEW h \in Hash, FinalizedDownloaded(h) PROVE BufferStep
    <3>1. UNCHANGED <<database, buffer>> /\ task' = Unlocking({h}) BY <2>1 DEF FinalizedDownloaded
    <3>2. Pending(task') = {} BY <3>1, UnlockingFacts
    <3> QED BY <1>1, <1>2, <3>1, <3>2
  <2>2. ASSUME NEW h \in Hash, BlockDownloaded(h) PROVE BufferStep
    <3>1. CASE UNCHANGED <<database, buffer, task>> BY <1>1, <1>2, <3>1
    <3>2. CASE buffer' = InsertBlock(buffer, h) /\ Verdict[h] # "sender"
      <4>1. BlockInserted(buffer', buffer, h) BY <1>1, <3>2, InsertBlockEffect
      <4>2. UNCHANGED database /\ task' = Unlocking({h}) BY <2>2, <3>2 DEF BlockDownloaded
      <4>3. Kept(buffer', buffer, task.connect)
        BY <3>2, <4>1 DEF BlockInserted, WitnessesLeft, Kept
      <4>4. PendingFrom(task', buffer, task.connect) BY <4>2, NonePending
      <4> QED BY <4>2, <4>3, <4>4 DEF BufferStep, BufferKept
    <3> QED BY <2>2, <3>1, <3>2 DEF BlockDownloaded
  <2>3. ASSUME NEW h \in Hash, NEW kind \in {"finalized", "witness"}, EngineStops(kind, h)
        PROVE  BufferStep
    <3>1. UNCHANGED <<database, buffer>> /\ task' = [Idle EXCEPT !.on = "stopped"]
      BY <2>3 DEF EngineStops, tree
    <3>2. Pending(task') = {} BY <3>1 DEF Idle, Pending, NoBlocks
    <3> QED BY <1>1, <1>2, <3>1, <3>2
  <2>4. ASSUME NEW k \in Code, BytecodeLost(k) PROVE BufferStep
    <3>1. UNCHANGED <<database, buffer, task>> BY <2>4 DEF BytecodeLost, tree
    <3> QED BY <1>1, <1>2, <3>1
  <2> QED BY <1>5, <2>1, <2>2, <2>3, <2>4 DEF OnDownloadOutcome, BufferStep
<1>6. CASE Continue
  <2>1. CASE \E h \in Hash : Connect(h) BY <2>1, ConnectBuffer DEF BufferStep
  <2>2. ASSUME NEW h \in Hash, SkipUnlocked(h) PROVE BufferStep
    <3>1. UNCHANGED <<database, buffer>> /\ task' = Unlocking(task.unlocked \ {h})
      BY <2>2 DEF SkipUnlocked, tree
    <3>2. task.unlocked \ {h} \in SUBSET Hash BY DEF EngineBase, TypeOK, Task
    <3>3. Pending(task') = {} BY <3>1, <3>2, UnlockingFacts
    <3> QED BY <1>1, <1>2, <3>1, <3>3
  <2>3. CASE \E h \in Hash : InsertUnlocked(h) BY <2>3, InsertUnlockedBuffer DEF BufferStep
  <2>4. CASE Finish
    <3>1. /\ UNCHANGED <<database, buffer>>
          /\ task' = Idle \/ task' = Unlocking(task.unlocked)
      BY <2>4 DEF Finish
    <3>2. task.unlocked \in SUBSET Hash BY DEF EngineBase, TypeOK, Task
    <3>3. Pending(task') = {} BY <3>1, <3>2, UnlockingFacts, IdleFacts
    <3> QED BY <1>1, <1>2, <3>1, <3>3
  <2> QED BY <1>6, <2>1, <2>2, <2>3, <2>4 DEF Continue
<1>7. CASE \/ PollDownloader \/ ParkedTimeout \/ \E h \in Hash : ForgetInvalid(h)
  <2>1. UNCHANGED <<database, buffer, task>>
    BY <1>7 DEF PollDownloader, ParkedTimeout, ForgetInvalid, tree
  <2> QED BY <1>1, <1>2, <2>1
<1> QED BY <1>3, <1>4, <1>5, <1>6, <1>7 DEF Next, BufferStep

-----------------------------------------------------------------------------
(***************************************************************************)
(* The witnesses in the buffer and of the blocks being connected are ones  *)
(* that a peer sent for that very block.                                   *)
(***************************************************************************)
WitnessesFit ==
    \A h \in Hash : /\ buffer.witnesses[h] # None => buffer.witnesses[h] \in WitnessesOf(h)
                    /\ task.connect[h] # None => task.connect[h] \in WitnessesOf(h)

\* No witness is moved from one block to another.
LEMMA NextFit == EngineBase /\ WitnessesFit /\ [Next]_vars => WitnessesFit'
<1> SUFFICES ASSUME EngineBase, WitnessesFit, [Next]_vars,
                    NEW h \in Hash
             PROVE  /\ buffer'.witnesses[h] # None => buffer'.witnesses[h] \in WitnessesOf(h)
                    /\ task'.connect[h] # None => task'.connect[h] \in WitnessesOf(h)
  BY DEF WitnessesFit
<1>1. BufferOK(buffer) BY DEF EngineBase
<1>2. CASE UNCHANGED vars BY <1>2 DEF vars, tree, WitnessesFit
<1>3. CASE BufferKept
  <2>1. h \in Pending(task') <=> task'.connect[h] # None BY DEF Pending
  <2>2. Removable(buffer, h) => buffer.witnesses[h] # None BY DEF Removable, ReadyWitness
  <2> QED BY <1>3, <2>1, <2>2 DEF BufferKept, Kept, PendingFrom, WitnessesFit
<1>4. ASSUME NEW x \in Hash, NEW w \in WitnessesOf(x), WitnessDownloaded(x, w)
      PROVE  /\ buffer'.witnesses[h] # None => buffer'.witnesses[h] \in WitnessesOf(h)
             /\ task'.connect[h] # None => task'.connect[h] \in WitnessesOf(h)
  <2> DEFINE missing == MissingCodeHashes(database, w.codes)
  <2>1. /\ buffer' = InsertWitness(buffer, x, w, missing)
        /\ task' = Unlocking(IF missing = {} THEN {x} ELSE {})
    BY <1>4 DEF WitnessDownloaded
  <2>2. WitnessInserted(buffer', buffer, x, w, missing) BY <1>1, <2>1, InsertWitnessEffect
  <2>3. h \notin Pending(task') BY <2>1, UnlockingFacts
  <2> QED BY <2>2, <2>3 DEF WitnessInserted, WitnessesFit, Pending
<1>5. ASSUME NEW k \in Code, BytecodeDownloaded(k)
      PROVE  /\ buffer'.witnesses[h] # None => buffer'.witnesses[h] \in WitnessesOf(h)
             /\ task'.connect[h] # None => task'.connect[h] \in WitnessesOf(h)
  <2>1. buffer' = OnBytecodeReceived(buffer, k) /\ task' = Unlocking(UnlockedBy(buffer, k))
    BY <1>5 DEF BytecodeDownloaded
  <2>2. BytecodeReceived(buffer', buffer, k) BY <1>1, <2>1, OnBytecodeReceivedEffect
  <2>3. UnlockedBy(buffer, k) \in SUBSET Hash BY DEF UnlockedBy
  <2>4. h \notin Pending(task') BY <2>1, <2>3, UnlockingFacts
  <2> QED BY <2>2, <2>4 DEF BytecodeReceived, WitnessesFit, Pending
<1>6. CASE Restart
  <2>1. buffer' = NewBuffer /\ task' = Idle BY <1>6 DEF Restart
  <2>2. NewBuffer.witnesses[h] = None BY DEF NewBuffer
  <2> QED BY <2>1, <2>2, IdleFacts DEF Pending
<1> QED BY <1>2, <1>3, <1>4, <1>5, <1>6, BufferSteps DEF BufferStep

\* The buffer's half of the bookkeeping: the buffered witness w of a block that awaits m.
Awaits(w, m, db) == w.codes \subseteq db \cup m /\ m \cap db = {}

\* The handler's half: w is the witness of h, which is being connected.
Lacks(h, w, db) == ~(w.codes \subseteq db /\ (w.state = "full" => CodesOf[h] \subseteq db))

\* The bookkeeping in terms of its two halves.
LEMMA AccountedHalves ==
    BytecodesAccountedFor <=>
        /\ \A h \in Hash : buffer.witnesses[h] # None =>
               Awaits(buffer.witnesses[h], buffer.missing_bytecodes[h], database)
        /\ \A h \in Pending(task) : ~Lacks(h, task.connect[h], database)
BY DEF BytecodesAccountedFor, Awaits, Lacks

\* Every step keeps the bytecodes accounted for.
LEMMA NextAccounted ==
    EngineBase /\ WitnessesFit /\ BytecodesAccountedFor /\ [Next]_vars => BytecodesAccountedFor'
<1> SUFFICES ASSUME EngineBase, WitnessesFit, BytecodesAccountedFor, [Next]_vars
             PROVE  BytecodesAccountedFor'
  OBVIOUS
<1>1. BufferOK(buffer) /\ AwaitedHaveWitness(buffer) BY DEF EngineBase, BufferOK
<1>2. CASE UNCHANGED vars BY <1>2 DEF vars, tree, BytecodesAccountedFor
<1>3. CASE BufferKept
  <2>1. ASSUME NEW h \in Hash, buffer'.witnesses[h] # None
        PROVE  Awaits(buffer'.witnesses[h], buffer'.missing_bytecodes[h], database')
    <3>1. CASE /\ buffer'.witnesses[h] = buffer.witnesses[h]
               /\ buffer'.missing_bytecodes[h] = buffer.missing_bytecodes[h]
      BY <1>3, <2>1, <3>1, AccountedHalves DEF BufferKept
    <3>2. CASE buffer'.witnesses[h] = task.connect[h]
      <4>1. ~Lacks(h, task.connect[h], database) BY <2>1, <3>2, AccountedHalves DEF Pending
      <4>2. buffer.missing_bytecodes[h] \cap database = {}
        BY <1>1 DEF AwaitedHaveWitness, BytecodesAccountedFor
      <4>3. buffer'.missing_bytecodes[h] \subseteq buffer.missing_bytecodes[h] /\ database' = database
        BY <1>3 DEF BufferKept, Kept
      <4> QED BY <3>2, <4>1, <4>2, <4>3 DEF Awaits, Lacks
    <3> QED BY <1>3, <2>1, <3>1, <3>2 DEF BufferKept, Kept
  <2>2. ASSUME NEW h \in Pending(task') PROVE ~Lacks(h, task'.connect[h], database')
    <3>1. h \in Hash /\ task'.connect[h] # None /\ database' = database
      BY <1>3 DEF Pending, BufferKept
    <3>2. CASE task'.connect[h] = task.connect[h]
      BY <3>1, <3>2, AccountedHalves DEF Pending
    <3>3. CASE Removable(buffer, h) /\ task'.connect[h] = buffer.witnesses[h]
      <4> DEFINE w == buffer.witnesses[h]
      <4>1. w # None /\ buffer.missing_bytecodes[h] = {} BY <3>3 DEF Removable, ReadyWitness
      <4>2. w.codes \subseteq database BY <3>1, <4>1 DEF BytecodesAccountedFor
      <4>3. w.state = "full" => CodesOf[h] \subseteq w.codes
        BY <3>1, <4>1, WitnessType DEF WitnessesFit
      <4> QED BY <3>1, <3>3, <4>2, <4>3 DEF Lacks
    <3> QED BY <1>3, <3>2, <3>3 DEF BufferKept, PendingFrom
  <2> QED BY <2>1, <2>2 DEF BytecodesAccountedFor, Awaits, Lacks
<1>4. ASSUME NEW h \in Hash, NEW w \in WitnessesOf(h), WitnessDownloaded(h, w)
      PROVE  BytecodesAccountedFor'
  <2> DEFINE missing == w.codes \ database
  <2>1. /\ buffer' = InsertWitness(buffer, h, w, missing) /\ UNCHANGED database
        /\ task' = Unlocking(IF missing = {} THEN {h} ELSE {})
    BY <1>4 DEF WitnessDownloaded, MissingCodeHashes
  <2>2. WitnessInserted(buffer', buffer, h, w, missing) BY <1>1, <2>1, InsertWitnessEffect
  <2>3. Pending(task') = {} BY <2>1, UnlockingFacts
  <2>4. buffer.missing_bytecodes[h] \cap database = {}
    BY <1>1 DEF AwaitedHaveWitness, BytecodesAccountedFor
  <2>5. ASSUME NEW x \in Hash, buffer'.witnesses[x] # None
        PROVE  Awaits(buffer'.witnesses[x], buffer'.missing_bytecodes[x], database')
    <3>1. CASE x = h BY <2>1, <2>2, <2>4, <3>1 DEF WitnessInserted, Awaits
    <3>2. CASE x # h BY <2>1, <2>2, <2>5, <3>2, AccountedHalves DEF WitnessInserted
    <3> QED BY <3>1, <3>2
  <2> QED BY <2>3, <2>5 DEF BytecodesAccountedFor, Awaits
<1>5. ASSUME NEW k \in Code, BytecodeDownloaded(k) PROVE BytecodesAccountedFor'
  <2>1. /\ buffer' = OnBytecodeReceived(buffer, k) /\ database' = database \cup {k}
        /\ task' = Unlocking(UnlockedBy(buffer, k))
    BY <1>5 DEF BytecodeDownloaded, InsertBytecode
  <2>2. BytecodeReceived(buffer', buffer, k) BY <1>1, <2>1, OnBytecodeReceivedEffect
  <2>3. UnlockedBy(buffer, k) \in SUBSET Hash BY DEF UnlockedBy
  <2>4. Pending(task') = {} BY <2>1, <2>3, UnlockingFacts
  <2>5. ASSUME NEW x \in Hash, buffer'.witnesses[x] # None
        PROVE  Awaits(buffer'.witnesses[x], buffer'.missing_bytecodes[x], database')
    <3>1. /\ Awaits(buffer.witnesses[x], buffer.missing_bytecodes[x], database)
          /\ buffer'.witnesses[x] = buffer.witnesses[x]
          /\ buffer'.missing_bytecodes[x] = buffer.missing_bytecodes[x] \ {k}
      BY <2>2, <2>5, AccountedHalves DEF BytecodeReceived
    <3> QED BY <2>1, <3>1 DEF Awaits
  <2> QED BY <2>4, <2>5 DEF BytecodesAccountedFor, Awaits
<1>6. CASE Restart
  <2>1. buffer' = NewBuffer /\ task' = Idle BY <1>6 DEF Restart
  <2>2. \A x \in Hash : NewBuffer.witnesses[x] = None BY DEF NewBuffer
  <2> QED BY <2>1, <2>2, IdleFacts DEF BytecodesAccountedFor
<1> QED BY <1>2, <1>3, <1>4, <1>5, <1>6, BufferSteps DEF BufferStep

\* In every state the witnesses are those of their blocks.
LEMMA FitInvariant == Spec => []WitnessesFit
<1>1. Init => WitnessesFit
  <2>1. \A x \in Hash : NewBuffer.witnesses[x] = None BY DEF NewBuffer
  <2>2. \A x \in Hash : Idle.connect[x] = None BY DEF Idle, NoBlocks
  <2> QED BY <2>1, <2>2 DEF Init, WitnessesFit
<1> QED BY <1>1, NextFit, EngineBaseInvariant, PTL DEF Spec

(***************************************************************************)
(* Whatever the nodes of the witnesses that peers send, the buffer awaits  *)
(* every bytecode that the buffered witness names and the database lacks,  *)
(* none that the database has, and a block that is executed with a full    *)
(* witness lacks nothing that execution asks for.                          *)
(***************************************************************************)
THEOREM EngineBytecodes == Spec => []BytecodesAccountedFor
<1>1. Init => BytecodesAccountedFor
  <2>1. \A x \in Hash : NewBuffer.witnesses[x] = None BY DEF NewBuffer
  <2> QED BY <2>1, IdleFacts DEF Init, BytecodesAccountedFor
<1> QED BY <1>1, NextAccounted, FitInvariant, EngineBaseInvariant, PTL DEF Spec

-----------------------------------------------------------------------------
(***************************************************************************)
(* The ways in which a step uses the downloader.                           *)
(***************************************************************************)
Asked == inflight \subseteq inflight' /\ UNCHANGED outcomes

\* The outcome of a request is taken from the queue.
Took(kind, id) == /\ outcomes # <<>> /\ Head(outcomes) = Req(kind, id)
                  /\ outcomes' = Tail(outcomes) /\ inflight \subseteq inflight'

\* How a step may change the requests in flight and the outcomes.
RequestStep ==
    \/ Asked
    \/ PollDownloader
    \/ \E kind \in {"finalized", "block", "witness"} : \E h \in Hash : Took(kind, h)
    \/ \E k \in Code : Took("code", k) /\ (BytecodeDownloaded(k) \/ BytecodeLost(k))
    \/ Restart

\* Every step is one of them.
LEMMA RequestSteps == EngineBase /\ Next => RequestStep
<1> SUFFICES ASSUME EngineBase, Next PROVE RequestStep OBVIOUS
<1>1. CASE OnNewPayload
  <2>1. Asked
    BY <1>1 DEF OnNewPayload, MalformedPayload, UnrecoverablePayload, RejectedPayload, NewPayload, Asked
  <2> QED BY <2>1 DEF RequestStep
<1>2. CASE OnForkchoiceUpdated
  <2>1. PICK s \in ForkchoiceStates : \/ ForkchoiceRejected(s) \/ ForkchoiceCurrent(s)
                                      \/ ForkchoiceNewHead(s) \/ ForkchoiceKnownHead(s)
                                      \/ ForkchoiceSyncing(s)
    BY <1>2 DEF OnForkchoiceUpdated
  <2>2. CASE \/ ForkchoiceRejected(s) \/ ForkchoiceCurrent(s)
             \/ ForkchoiceNewHead(s) \/ ForkchoiceKnownHead(s)
    BY <2>2 DEF ForkchoiceRejected, ForkchoiceCurrent, ForkchoiceNewHead, ForkchoiceKnownHead,
                Asked, RequestStep
  <2>3. CASE ForkchoiceSyncing(s)
    <3>1. /\ UNCHANGED outcomes
          /\ \/ \E R : inflight' = inflight \cup R
             \/ UNCHANGED inflight
      BY <2>3 DEF ForkchoiceSyncing
    <3> QED BY <3>1 DEF Asked, RequestStep
  <2> QED BY <2>1, <2>2, <2>3
<1>3. CASE OnDownloadOutcome
  <2>1. ASSUME NEW h \in Hash,
               \/ FinalizedDownloaded(h) \/ BlockDownloaded(h)
               \/ \E w \in WitnessesOf(h) : WitnessDownloaded(h, w)
               \/ \E kind \in {"finalized", "witness"} : EngineStops(kind, h)
        PROVE  \E kind \in {"finalized", "block", "witness"} : Took(kind, h)
    BY <2>1 DEF FinalizedDownloaded, BlockDownloaded, WitnessDownloaded, EngineStops,
                NextOutcome, Took
  <2>2. ASSUME NEW k \in Code, BytecodeDownloaded(k) \/ BytecodeLost(k) PROVE Took("code", k)
    BY <2>2 DEF BytecodeDownloaded, BytecodeLost, NextOutcome, Took
  <2> QED BY <1>3, <2>1, <2>2 DEF OnDownloadOutcome, RequestStep
<1>4. CASE Continue
  <2>1. Asked
    <3>1. CASE \E h \in Hash : Connect(h) BY <3>1 DEF Connect, Asked
    <3>2. CASE \E h \in Hash : SkipUnlocked(h) BY <3>2 DEF SkipUnlocked, Asked
    <3>3. CASE \E h \in Hash : InsertUnlocked(h) BY <3>3 DEF InsertUnlocked, Asked
    <3>4. CASE Finish BY <3>4 DEF Finish, Asked
    <3> QED BY <1>4, <3>1, <3>2, <3>3, <3>4 DEF Continue
  <2> QED BY <2>1 DEF RequestStep
<1>5. CASE ParkedTimeout \/ \E h \in Hash : ForgetInvalid(h)
  BY <1>5 DEF ParkedTimeout, ForgetInvalid, Asked, RequestStep
<1> QED BY <1>1, <1>2, <1>3, <1>4, <1>5 DEF Next, RequestStep

\* A request is still there after a step, unless it is the one whose outcome is handled.
LEMMA RequestedStays ==
    ASSUME EngineBase, NEW q, q \in inflight \/ (\E i \in 1..Len(outcomes) : outcomes[i] = q)
    PROVE  /\ Asked \/ PollDownloader =>
                  q \in inflight' \/ \E i \in 1..Len(outcomes') : outcomes'[i] = q
           /\ \A kind, id : Took(kind, id) /\ q # Req(kind, id) =>
                  q \in inflight' \/ \E i \in 1..Len(outcomes') : outcomes'[i] = q
<1>1. outcomes \in Seq(Request) BY DEF EngineBase
<1>2. ASSUME Asked PROVE q \in inflight' \/ \E i \in 1..Len(outcomes') : outcomes'[i] = q
  BY <1>2 DEF Asked
<1>3. ASSUME PollDownloader PROVE q \in inflight' \/ \E i \in 1..Len(outcomes') : outcomes'[i] = q
  <2>1. outcomes = <<>> BY <1>3 DEF PollDownloader
  <2>2. q \in inflight BY <2>1
  <2>3. PICK batch \in Batches :
            outcomes' = batch /\ inflight' = inflight \ {batch[i] : i \in DOMAIN batch}
    BY <1>3 DEF PollDownloader
  <2>4. DOMAIN outcomes' = 1..Len(outcomes') BY <1>3, PollBase DEF EngineBase
  <2> QED BY <2>2, <2>3, <2>4
<1>4. ASSUME NEW kind, NEW id, Took(kind, id), q # Req(kind, id)
      PROVE  q \in inflight' \/ \E i \in 1..Len(outcomes') : outcomes'[i] = q
  <2>1. CASE q \in inflight BY <1>4, <2>1 DEF Took
  <2>2. CASE \E i \in 1..Len(outcomes) : outcomes[i] = q
    <3>1. PICK i \in 1..Len(outcomes) : outcomes[i] = q BY <2>2
    <3>2. outcomes # <<>> /\ outcomes[1] = Req(kind, id) /\ outcomes' = Tail(outcomes)
      BY <1>1, <1>4 DEF Took
    <3>3. i # 1 BY <1>4, <3>1, <3>2
    <3>4. Len(outcomes') = Len(outcomes) - 1 /\ i - 1 \in 1..Len(outcomes') /\ outcomes'[i - 1] = outcomes[i]
      BY <1>1, <3>1, <3>2, <3>3
    <3> QED BY <3>1, <3>4
  <2> QED BY <2>1, <2>2
<1> QED BY <1>2, <1>3, <1>4

\* As long as bytecodes can be stored, every step keeps the awaited bytecodes requested.
LEMMA NextAwaited ==
    ASSUME "bytecode" \notin Faults
    PROVE  EngineBase /\ AwaitedBytecodesRequested /\ [Next]_vars => AwaitedBytecodesRequested'
<1> SUFFICES ASSUME EngineBase, AwaitedBytecodesRequested, [Next]_vars
             PROVE  AwaitedBytecodesRequested'
  OBVIOUS
<1>1. BufferOK(buffer) BY DEF EngineBase
<1>2. CASE UNCHANGED vars
  BY <1>2 DEF vars, tree, AwaitedBytecodesRequested, Requested
<1>3. CASE Restart
  <2>1. \A x \in Hash : NewBuffer.missing_bytecodes[x] = {} BY DEF NewBuffer
  <2> QED BY <1>3, <2>1 DEF Restart, AwaitedBytecodesRequested
<1>4. ASSUME Next, ~Restart PROVE AwaitedBytecodesRequested'
  <2> SUFFICES ASSUME NEW h \in Hash, NEW k \in buffer'.missing_bytecodes[h]
               PROVE  Requested("code", k)'
    BY DEF AwaitedBytecodesRequested
  <2>1. RequestStep /\ BufferStep BY <1>4, RequestSteps, BufferSteps
  <2>2. CASE \E j \in Hash : \E w \in WitnessesOf(j) : WitnessDownloaded(j, w)
    <3>1. PICK j \in Hash : \E w \in WitnessesOf(j) : WitnessDownloaded(j, w) BY <2>2
    <3>2. PICK w \in WitnessesOf(j) : WitnessDownloaded(j, w) BY <3>1
    <3> DEFINE missing == MissingCodeHashes(database, w.codes)
    <3>3. /\ buffer' = InsertWitness(buffer, j, w, missing)
          /\ inflight' = inflight \cup BytecodeRequests(missing)
          /\ Took("witness", j)
      BY <3>2 DEF WitnessDownloaded, NextOutcome, Took
    <3> HIDE DEF missing
    <3>4. WitnessInserted(buffer', buffer, j, w, missing) BY <1>1, <3>3, InsertWitnessEffect
    <3>5. k \in missing \/ k \in buffer.missing_bytecodes[h] BY <3>4 DEF WitnessInserted
    <3>6. CASE k \in missing BY <3>3, <3>6 DEF BytecodeRequests, Requested
    <3>7. CASE k \in buffer.missing_bytecodes[h]
      <4>1. Requested("code", k) BY <3>7 DEF AwaitedBytecodesRequested
      <4>2. Req("code", k) # Req("witness", j) BY DEF Req
      <4> QED BY <3>3, <4>1, <4>2, RequestedStays DEF Requested
    <3> QED BY <3>5, <3>6, <3>7
  <2>3. ASSUME NEW j \in Code, BytecodeDownloaded(j) PROVE Requested("code", k)'
    <3>1. buffer' = OnBytecodeReceived(buffer, j) /\ Took("code", j)
      BY <2>3 DEF BytecodeDownloaded, NextOutcome, Took
    <3>2. BytecodeReceived(buffer', buffer, j) BY <1>1, <3>1, OnBytecodeReceivedEffect
    <3>3. k \in buffer.missing_bytecodes[h] /\ k # j BY <3>2 DEF BytecodeReceived
    <3>4. Requested("code", k) /\ Req("code", k) # Req("code", j)
      BY <3>3 DEF AwaitedBytecodesRequested, Req
    <3> QED BY <3>1, <3>4, RequestedStays DEF Requested
  <2>4. CASE BufferKept /\ ~\E j \in Code : BytecodeDownloaded(j)
    <3>1. k \in buffer.missing_bytecodes[h] BY <2>4 DEF BufferKept, Kept
    <3>2. Requested("code", k) BY <3>1 DEF AwaitedBytecodesRequested
    <3>3. \A j \in Code : ~BytecodeLost(j) BY DEF BytecodeLost
    <3>4. \A kind \in {"finalized", "block", "witness"} : \A j : Req("code", k) # Req(kind, j)
      BY DEF Req
    <3> QED BY <1>4, <2>1, <2>4, <3>2, <3>3, <3>4, RequestedStays DEF RequestStep, Requested
  <2> QED BY <1>4, <2>1, <2>2, <2>3, <2>4 DEF BufferStep
<1> QED BY <1>2, <1>3, <1>4

(***************************************************************************)
(* No block waits for a bytecode nobody asked for, unless a bytecode that  *)
(* arrived could not be stored.                                            *)
(***************************************************************************)
THEOREM EngineAwaitedRequested ==
    ASSUME "bytecode" \notin Faults PROVE Spec => []AwaitedBytecodesRequested
<1>1. Init => AwaitedBytecodesRequested
  <2>1. \A x \in Hash : NewBuffer.missing_bytecodes[x] = {} BY DEF NewBuffer
  <2> QED BY <2>1 DEF Init, AwaitedBytecodesRequested
<1>2. EngineBase /\ AwaitedBytecodesRequested /\ [Next]_vars => AwaitedBytecodesRequested'
  BY NextAwaited
<1> QED BY <1>1, <1>2, EngineBaseInvariant, PTL DEF Spec

-----------------------------------------------------------------------------
\* Polling completes requests as module Downloads says.
LEMMA PollCompletes == ASSUME EngineBase, PollDownloader PROVE Queue!Complete
<1>1. outcomes = <<>> BY DEF PollDownloader
<1>2. PICK batch \in Batches :
          /\ \A i, j \in DOMAIN batch :
                 i < j => batch[i] # batch[j] /\ Rank(batch[i]) <= Rank(batch[j])
          /\ outcomes' = batch
          /\ inflight' = inflight \ {batch[i] : i \in DOMAIN batch}
  BY DEF PollDownloader
<1>3. batch \in Seq(Request) BY <1>2, PollBase DEF EngineBase
<1>4. \A i \in DOMAIN batch : batch[i] \in inflight
  <2>1. PICK n \in 1..MaxBatch : batch \in [1..n -> inflight] BY DEF Batches
  <2> QED BY <2>1
<1>5. DOMAIN batch \subseteq Nat BY <1>3
<1> DEFINE new == SubSeq(outcomes', Len(outcomes) + 1, Len(outcomes'))
<1>6. new = batch
  <2>1. Len(outcomes) + 1 = 1 BY <1>1
  <2>2. SubSeq(batch, 1, Len(batch)) = batch BY <1>3
  <2> QED BY <1>2, <2>1, <2>2
<1>7. Len(outcomes) <= Len(outcomes') BY <1>1, <1>2, <1>3
<1>8. SubSeq(outcomes', 1, Len(outcomes)) = outcomes BY <1>1, <1>2, <1>3
<1>9. {new[i] : i \in DOMAIN new} = inflight \ inflight'
  <2>1. {batch[i] : i \in DOMAIN batch} = inflight \ inflight' BY <1>2, <1>4
  <2> QED BY <1>6, <2>1
<1>10. \A i, j \in DOMAIN new : new[i] = new[j] => i = j
  <2>1. \A i, j \in DOMAIN batch : batch[i] = batch[j] => i = j BY <1>2, <1>5
  <2> QED BY <1>6, <2>1
<1>11. Queue!Ranked(outcomes') BY <1>2 DEF Queue!Ranked
<1>12. inflight' \subseteq inflight BY <1>2
<1> QED BY ONLY <1>7, <1>8, <1>9, <1>10, <1>11, <1>12 DEF Queue!Complete

(***************************************************************************)
(* The engine uses its downloader as module Downloads says, as long as the *)
(* node runs: together with DownloaderRefinesDownloads, the composition of *)
(* engine and downloader.                                                  *)
(***************************************************************************)
THEOREM EngineUsesDownloads == ASSUME "restart" \notin Faults PROVE Spec => UsesDownloads
<1>1. Init => Queue!Init BY DEF Init, Queue!Init
<1>2. EngineBase /\ [Next]_vars => [Queue!Next]_<<inflight, outcomes>>
  <2> SUFFICES ASSUME EngineBase, [Next]_vars
               PROVE  Queue!Next \/ UNCHANGED <<inflight, outcomes>>
    OBVIOUS
  <2>1. CASE UNCHANGED vars BY <2>1 DEF vars
  <2>2. CASE Next
    <3>1. CASE Asked BY <3>1 DEF Asked, Queue!Ask, Queue!Next
    <3>2. CASE PollDownloader BY <3>2, PollCompletes DEF Queue!Next
    <3>3. ASSUME NEW kind, NEW id, Took(kind, id) PROVE Queue!Next
      BY <3>3 DEF Took, Queue!Handle, Queue!Next
    <3>4. ~Restart BY DEF Restart
    <3> QED BY <2>2, <3>1, <3>2, <3>3, <3>4, RequestSteps DEF RequestStep
  <2> QED BY <2>1, <2>2
<1> QED BY <1>1, <1>2, EngineBaseInvariant, PTL DEF Spec, UsesDownloads, Queue!Spec

-----------------------------------------------------------------------------
\* The first conjunct of VerdictsAreRight, for a cache of invalid headers.
InvalidAreBad(inv) ==
    \A h \in Hash : inv[h] # None =>
        ~Good(h) /\ inv[h] \in Ancestry[h] /\ Verdict[inv[h]] # "valid"

\* Blocks of whose transactions a sender cannot be recovered stay outside.
SendersRecovered == \A h \in Hash : h \in buffer.blocks \/ h \in Pending(task) => Verdict[h] # "sender"

\* A finalized block is downloaded because a forkchoice update named it.
Finals == {s.finalized : s \in ForkchoiceStates}

\* A finalized block that is asked for was named by some forkchoice state.
IsFinal(q) == q.kind = "finalized" => q.id \in Finals

\* So it is for everything that is in flight or queued.
FinalizedNamed ==
    /\ \A q \in inflight : IsFinal(q)
    /\ \A i \in 1..Len(outcomes) : IsFinal(outcomes[i])

\* The inductive form of VerdictsAreRight.
VerdictInv == VerdictsAreRight /\ SendersRecovered /\ FinalizedNamed

\* A block is bad when one of its ancestors is.
LEMMA BadAncestor ==
    ASSUME NEW h \in Hash, NEW a \in Ancestry[h]
    PROVE  /\ a \in Hash
           /\ Good(h) => Good(a) /\ Verdict[a] = "valid"
           /\ ~Good(a) => ~Good(h)
<1>1. a \in Hash /\ Ancestry[a] \subseteq Ancestry[h] BY AncestryTrans
<1> QED BY <1>1 DEF Good

\* A valid block on a good parent is good.
LEMMA GoodOnGood ==
    ASSUME NEW h \in Hash, Parent[h] \in Hash, Good(Parent[h]), Verdict[h] = "valid" PROVE Good(h)
BY AncestryStep DEF Good

\* The genesis block is good.
LEMMA GenesisGood == Genesis \in Hash /\ Good(Genesis)
<1>1. Genesis \in Hash /\ Parent[Genesis] \notin Hash BY HashAssumption, ParentAssumption
<1> QED BY <1>1, AncestryStep, VerdictAssumption DEF Good

\* Marking a block with one of its bad ancestors keeps the cache right.
LEMMA MarkKeepsBad ==
    ASSUME NEW inv \in InvalidHeaders, InvalidAreBad(inv), NEW h \in Hash, NEW a \in Ancestry[h],
           Verdict[a] # "valid"
    PROVE  InvalidAreBad(MarkInvalid(inv, h, a))
<1>1. a \in Hash /\ ~Good(h) BY BadAncestor DEF Good
<1> DEFINE m == MarkInvalid(inv, h, a)
<1>2. \A x \in Hash : m[x] = IF x = h /\ inv[x] = None THEN a ELSE inv[x] BY <1>1, MarkInvalidType
<1> HIDE DEF m
<1>3. InvalidAreBad(m)
  <2> SUFFICES ASSUME NEW x \in Hash, m[x] # None
               PROVE  ~Good(x) /\ m[x] \in Ancestry[x] /\ Verdict[m[x]] # "valid"
    BY DEF InvalidAreBad
  <2>1. CASE x = h /\ inv[x] = None BY <1>1, <1>2, <2>1
  <2>2. CASE ~(x = h /\ inv[x] = None)
    <3>1. m[x] = inv[x] BY <1>2, <2>2
    <3> QED BY <3>1 DEF InvalidAreBad
  <2> QED BY <2>1, <2>2
<1> QED BY <1>3 DEF m

\* The entry found from lowest_buffered_ancestor_or is a bad ancestor.
LEMMA EntryIsBad ==
    ASSUME NEW inv \in InvalidHeaders, InvalidAreBad(inv), NEW b, b.blocks \subseteq Hash, NEW h \in Hash,
           NEW x, x = LowestBufferedAncestorOr(b, h) \/ x = Parent[h],
           InvalidEntry(inv, x) # None
    PROVE  /\ x \in Ancestry[h] /\ x \in Hash
           /\ InvalidEntry(inv, x) \in Ancestry[x]
           /\ InvalidEntry(inv, x) \in Ancestry[h] /\ Verdict[InvalidEntry(inv, x)] # "valid"
<1>1. x \in Hash /\ InvalidEntry(inv, x) = inv[x] BY DEF InvalidEntry
<1>2. x \in Ancestry[h] BY <1>1, LowestBufferedAncestorOrIs, AncestryContains
<1>3. inv[x] \in Ancestry[x] /\ Verdict[inv[x]] # "valid" BY <1>1 DEF InvalidAreBad
<1>4. Ancestry[x] \subseteq Ancestry[h] BY <1>2, AncestryTrans
<1> QED BY <1>1, <1>2, <1>3, <1>4

\* insert_block condemns blocks that do not pass the checks only.
LEMMA InsertCondemnsBad ==
    ASSUME NEW inv \in InvalidHeaders, InvalidAreBad(inv), NEW h \in Hash, NEW c, NEW db, NEW w
    PROVE  InvalidAreBad(InvalidAfterInsert(inv, h, InsertExit(c, db, h, w)))
<1> DEFINE r == InsertExit(c, db, h, w)
<1>1. r = "Invalid" => Verdict[h] # "valid" BY InsertExitIs
<1>2. h \in Ancestry[h] BY AncestryContains
<1> HIDE DEF r
<1>3. InvalidAreBad(InvalidAfterInsert(inv, h, r)) BY <1>1, <1>2, MarkKeepsBad DEF InvalidAfterInsert
<1> QED BY <1>3 DEF r

\* Every step keeps the cache right.
LEMMA NextInvalid ==
    EngineBase /\ InvalidAreBad(invalid_headers) /\ Next => InvalidAreBad(invalid_headers')
<1> SUFFICES ASSUME EngineBase, InvalidAreBad(invalid_headers), Next
             PROVE  InvalidAreBad(invalid_headers')
  OBVIOUS
<1>1. invalid_headers \in InvalidHeaders /\ BufferOK(buffer) BY DEF EngineBase, TypeOK
<1>2. CASE UNCHANGED invalid_headers BY <1>2
<1>3. ASSUME NEW h \in Payloads, RejectedPayload(h) PROVE InvalidAreBad(invalid_headers')
  <2> DEFINE b == RemoveWitness(buffer, h)
             x == PayloadCheck(b, h)
             entry == InvalidEntry(invalid_headers, x)
  <2>1. h \in Hash BY EngineAssumption
  <2>2. entry # None /\ invalid_headers' = MarkInvalid(invalid_headers, h, entry)
    BY <1>3 DEF RejectedPayload
  <2>3. BufferOK(b) BY <1>1, <2>1, RemoveWitnessOK
  <2>4. b.blocks \subseteq Hash BY <2>3 DEF BufferOK, Buffer
  <2>5. x = LowestBufferedAncestorOr(b, h) \/ x = Parent[h] BY DEF PayloadCheck
  <2> HIDE DEF b, x
  <2>6. entry \in Ancestry[h] /\ Verdict[entry] # "valid"
    BY <1>1, <2>1, <2>2, <2>4, <2>5, EntryIsBad
  <2> HIDE DEF entry
  <2> QED BY <1>1, <2>1, <2>2, <2>6, MarkKeepsBad
<1>4. ASSUME NEW h \in Payloads, NewPayload(h) PROVE InvalidAreBad(invalid_headers')
  <2>1. h \in Hash BY EngineAssumption
  <2>2. invalid_headers' = InvalidAfterInsert(invalid_headers, h,
                               InsertExit(chain, database, h, ReadyWitness(buffer, h)))
    BY <1>4 DEF NewPayload
  <2> QED BY <1>1, <2>1, <2>2, InsertCondemnsBad
<1>5. ASSUME NEW c \in Hash, Connect(c) PROVE InvalidAreBad(invalid_headers')
  <2>1. invalid_headers' = InvalidAfterInsert(invalid_headers, c,
                               InsertExit(chain, database, c, task.connect[c]))
    BY <1>5 DEF Connect
  <2> QED BY <1>1, <2>1, InsertCondemnsBad
<1>6. ASSUME NEW h \in Hash, InsertUnlocked(h) PROVE InvalidAreBad(invalid_headers')
  <2> DEFINE w     == ReadyWitness(buffer, h)
             b     == RemoveBlock(buffer, h)
             x     == LowestBufferedAncestorOr(b, h)
             entry == InvalidEntry(invalid_headers, x)
             i     == InsertExit(chain, database, h, w)
             r     == IF entry # None THEN "Known" ELSE i
  <2>1. \/ r = "Known" /\ invalid_headers' = MarkInvalid(invalid_headers, h, entry)
        \/ r # "Known" /\ invalid_headers' = invalid_headers
        \/ r # "Known" /\ invalid_headers' = InvalidAfterInsert(invalid_headers, h, r)
    BY <1>6 DEF InsertUnlocked
  <2>2. BufferOK(b) BY <1>1, RemoveBlockOK
  <2>3. b.blocks \subseteq Hash BY <2>2 DEF BufferOK, Buffer
  <2>4. i # "Known" BY InsertExitIs DEF Exits
  <2>5. InvalidAreBad(InvalidAfterInsert(invalid_headers, h, i)) BY <1>1, InsertCondemnsBad
  <2> HIDE DEF b, i
  <2>6. entry # None => entry \in Ancestry[h] /\ Verdict[entry] # "valid"
    BY <1>1, <2>3, EntryIsBad
  <2> HIDE DEF entry, x
  <2>7. entry # None => InvalidAreBad(MarkInvalid(invalid_headers, h, entry))
    BY <1>1, <2>6, MarkKeepsBad
  <2> QED BY <2>1, <2>4, <2>5, <2>7
<1>7. ASSUME NEW h \in Hash, ForgetInvalid(h) PROVE InvalidAreBad(invalid_headers')
  <2>1. invalid_headers' = [invalid_headers EXCEPT ![h] = None] BY <1>7 DEF ForgetInvalid
  <2> QED BY <1>1, <2>1 DEF InvalidAreBad, InvalidHeaders
<1>8. CASE Restart BY <1>8 DEF Restart, InvalidAreBad
<1>9. CASE OnNewPayload
  BY <1>2, <1>3, <1>4, <1>9 DEF OnNewPayload, MalformedPayload, UnrecoverablePayload
<1>10. CASE OnForkchoiceUpdated
  BY <1>2, <1>10 DEF OnForkchoiceUpdated, ForkchoiceRejected, ForkchoiceCurrent, ForkchoiceNewHead,
                     ForkchoiceKnownHead, ForkchoiceSyncing, tree
<1>11. CASE OnDownloadOutcome
  BY <1>2, <1>11 DEF OnDownloadOutcome, FinalizedDownloaded, BlockDownloaded, WitnessDownloaded,
                     BytecodeDownloaded, BytecodeLost, EngineStops, tree
<1>12. CASE Continue
  BY <1>2, <1>5, <1>6, <1>12 DEF Continue, SkipUnlocked, Finish, tree
<1>13. CASE PollDownloader \/ ParkedTimeout
  BY <1>2, <1>13 DEF PollDownloader, ParkedTimeout, tree
<1> QED BY <1>7, <1>8, <1>9, <1>10, <1>11, <1>12, <1>13 DEF Next

\* Every step keeps blocks without senders outside.
LEMMA NextSenders == EngineBase /\ SendersRecovered /\ Next => SendersRecovered'
<1> SUFFICES ASSUME EngineBase, SendersRecovered, Next PROVE SendersRecovered' OBVIOUS
<1>1. BufferOK(buffer) BY DEF EngineBase
<1>2. CASE BufferKept
  <2>1. ASSUME NEW x \in Hash, x \in buffer'.blocks PROVE Verdict[x] # "sender"
    <3>1. x \in buffer.blocks \/ task.connect[x] # None \/ Verdict[x] # "sender"
      BY <1>2, <2>1 DEF BufferKept, Kept
    <3> QED BY <3>1 DEF SendersRecovered, Pending
  <2>2. ASSUME NEW x \in Hash, x \in Pending(task') PROVE Verdict[x] # "sender"
    <3>1. task'.connect[x] # None BY <2>2 DEF Pending
    <3>2. task'.connect[x] = task.connect[x] \/ Removable(buffer, x)
      BY <1>2, <2>2 DEF BufferKept, PendingFrom
    <3> QED BY <3>1, <3>2 DEF SendersRecovered, Pending, Removable
  <2> QED BY <2>1, <2>2 DEF SendersRecovered
<1>3. ASSUME NEW h \in Hash, NEW w \in WitnessesOf(h), WitnessDownloaded(h, w) PROVE SendersRecovered'
  <2> DEFINE missing == MissingCodeHashes(database, w.codes)
  <2>1. /\ buffer' = InsertWitness(buffer, h, w, missing)
        /\ task' = Unlocking(IF missing = {} THEN {h} ELSE {})
    BY <1>3 DEF WitnessDownloaded
  <2> HIDE DEF missing
  <2>2. buffer'.blocks = buffer.blocks BY <1>1, <2>1, InsertWitnessEffect DEF WitnessInserted
  <2>3. Pending(task') = {} BY <2>1, UnlockingFacts
  <2> QED BY <2>2, <2>3 DEF SendersRecovered
<1>4. ASSUME NEW k \in Code, BytecodeDownloaded(k) PROVE SendersRecovered'
  <2>1. buffer' = OnBytecodeReceived(buffer, k) /\ task' = Unlocking(UnlockedBy(buffer, k))
    BY <1>4 DEF BytecodeDownloaded
  <2>2. buffer'.blocks = buffer.blocks BY <1>1, <2>1, OnBytecodeReceivedEffect DEF BytecodeReceived
  <2>3. UnlockedBy(buffer, k) \in SUBSET Hash BY DEF UnlockedBy
  <2>4. Pending(task') = {} BY <2>1, <2>3, UnlockingFacts
  <2> QED BY <2>2, <2>4 DEF SendersRecovered
<1>5. CASE Restart
  <2>1. NewBuffer.blocks = {} BY DEF NewBuffer
  <2> QED BY <1>5, <2>1, IdleFacts DEF Restart, SendersRecovered
<1> QED BY <1>2, <1>3, <1>4, <1>5, BufferSteps DEF BufferStep

\* The requests for blocks, witnesses and bytecodes are not for finalized blocks.
LEMMA OtherRequests ==
    /\ \A b, h : \A q \in BlockRequests(b, h) : IsFinal(q)
    /\ \A h : \A q \in WitnessRequest(h) : IsFinal(q)
    /\ \A missing : \A q \in BytecodeRequests(missing) : IsFinal(q)
    /\ \A s \in ForkchoiceStates : IsFinal(Req("finalized", s.finalized))
BY DEF BlockRequests, WitnessRequest, BytecodeRequests, Req, IsFinal, Finals

\* No step asks for another finalized block.
LEMMA NewRequestsFinal == EngineBase /\ Next => \A q \in inflight' : q \in inflight \/ IsFinal(q)
<1> SUFFICES ASSUME EngineBase, Next, NEW q \in inflight', q \notin inflight PROVE IsFinal(q)
  OBVIOUS
<1>1. CASE OnNewPayload
  <2>1. PICK h \in Payloads : NewPayload(h)
    BY <1>1 DEF OnNewPayload, MalformedPayload, UnrecoverablePayload, RejectedPayload
  <2>2. \E b, x : q \in BlockRequests(b, x) \/ q \in WitnessRequest(x) BY <2>1 DEF NewPayload
  <2> QED BY <2>2, OtherRequests
<1>2. CASE OnForkchoiceUpdated
  <2>1. PICK s \in ForkchoiceStates : ForkchoiceSyncing(s)
    BY <1>2 DEF OnForkchoiceUpdated, ForkchoiceRejected, ForkchoiceCurrent, ForkchoiceNewHead,
                ForkchoiceKnownHead
  <2>2. q = Req("finalized", s.finalized) \/ \E x : q \in BlockRequests(buffer, x)
    BY <2>1 DEF ForkchoiceSyncing
  <2> QED BY <2>2, OtherRequests
<1>3. CASE OnDownloadOutcome
  <2>1. \E missing : q \in BytecodeRequests(missing)
    BY <1>3 DEF OnDownloadOutcome, FinalizedDownloaded, BlockDownloaded, WitnessDownloaded,
                BytecodeDownloaded, BytecodeLost, EngineStops
  <2> QED BY <2>1, OtherRequests
<1>4. CASE Continue
  <2>1. \E b, x : q \in BlockRequests(b, x) \/ q \in WitnessRequest(x)
    <3>1. CASE \E h \in Hash : Connect(h) BY <3>1 DEF Connect
    <3>2. CASE \E h \in Hash : SkipUnlocked(h) BY <3>2 DEF SkipUnlocked
    <3>3. CASE \E h \in Hash : InsertUnlocked(h) BY <3>3 DEF InsertUnlocked
    <3>4. CASE Finish BY <3>4 DEF Finish
    <3> QED BY <1>4, <3>1, <3>2, <3>3, <3>4 DEF Continue
  <2> QED BY <2>1, OtherRequests
<1>5. CASE PollDownloader BY <1>5 DEF PollDownloader
<1>6. CASE ParkedTimeout \/ (\E h \in Hash : ForgetInvalid(h)) \/ Restart
  BY <1>6 DEF ParkedTimeout, ForgetInvalid, Restart
<1> QED BY <1>1, <1>2, <1>3, <1>4, <1>5, <1>6 DEF Next

\* Every step keeps the requests for finalized blocks to those a forkchoice update named.
LEMMA NextFinalizedNamed == EngineBase /\ FinalizedNamed /\ Next => FinalizedNamed'
<1> SUFFICES ASSUME EngineBase, FinalizedNamed, Next PROVE FinalizedNamed' OBVIOUS
<1>1. \A q \in inflight' : IsFinal(q) BY NewRequestsFinal DEF FinalizedNamed
<1>2. outcomes \in Seq(Request) /\ \A i \in 1..Len(outcomes) : IsFinal(outcomes[i])
  BY DEF EngineBase, FinalizedNamed
<1>3. \A i \in 1..Len(outcomes') : IsFinal(outcomes'[i])
  <2>1. CASE Asked BY <1>2, <2>1 DEF Asked
  <2>2. CASE PollDownloader
    <3>1. PICK batch \in Batches : outcomes' = batch BY <2>2 DEF PollDownloader
    <3>2. PICK n \in 1..MaxBatch : batch \in [1..n -> inflight] BY DEF Batches
    <3>3. outcomes' \in Seq(Request) BY <2>2, PollBase DEF EngineBase
    <3>4. \A i \in 1..Len(outcomes') : outcomes'[i] \in inflight BY <3>1, <3>2, <3>3
    <3> QED BY <3>4 DEF FinalizedNamed
  <2>3. ASSUME NEW kind, NEW id, Took(kind, id) PROVE \A i \in 1..Len(outcomes') : IsFinal(outcomes'[i])
    <3>1. outcomes # <<>> /\ outcomes' = Tail(outcomes) BY <2>3 DEF Took
    <3>2. \A i \in 1..Len(outcomes') : i + 1 \in 1..Len(outcomes) /\ outcomes'[i] = outcomes[i + 1]
      BY <1>2, <3>1
    <3> QED BY <1>2, <3>2
  <2>4. CASE Restart
    <3>1. outcomes' = <<>> BY <2>4 DEF Restart
    <3>2. Len(outcomes') = 0 BY <3>1
    <3> QED BY <3>2
  <2> QED BY <2>1, <2>2, <2>3, <2>4, RequestSteps DEF RequestStep
<1> QED BY <1>1, <1>3 DEF FinalizedNamed

\* Every step keeps the blocks in memory good and the head among them.
LEMMA NextChainGood ==
    ASSUME TrustedForkchoice
    PROVE  EngineBase /\ Indexed(chain) /\ VerdictInv /\ Next =>
               /\ \A h \in chain'.blocks_by_hash : Good(h)
               /\ canonical_head' \in chain'.blocks_by_hash
<1> SUFFICES ASSUME EngineBase, Indexed(chain), VerdictInv, Next
             PROVE  /\ \A h \in chain'.blocks_by_hash : Good(h)
                    /\ canonical_head' \in chain'.blocks_by_hash
  OBVIOUS
<1>1. /\ chain \in Chain /\ canonical_head \in Hash
      /\ \A h \in chain.blocks_by_hash : h \in Hash /\ Good(h)
      /\ canonical_head \in chain.blocks_by_hash
  BY DEF EngineBase, TypeOK, VerdictInv, VerdictsAreRight, Chain
<1>2. CASE UNCHANGED <<chain, canonical_head, installed>> BY <1>1, <1>2
<1>3. ASSUME NEW h \in Hash, Insertable(h)
      PROVE  LET d == ChainInsertBlock(chain, h, TRUE)
             IN  /\ d \in Chain /\ d.blocks_by_hash = chain.blocks_by_hash \cup {h}
                 /\ \A x \in d.blocks_by_hash : Good(x)
  <2> DEFINE d == ChainInsertBlock(chain, h, TRUE)
  <2>1. d \in Chain /\ d.blocks_by_hash = chain.blocks_by_hash \cup {h}
    BY <1>1, ChainInsertBlockType DEF BlockAdded
  <2>2. Verdict[h] = "valid" /\ Parent[h] \in Hash /\ Good(Parent[h])
    BY <1>1, <1>3 DEF Insertable, VerdictInv, SendersRecovered
  <2>3. Good(h) BY <2>2, GoodOnGood
  <2> HIDE DEF d
  <2>4. \A x \in d.blocks_by_hash : Good(x) BY <1>1, <2>1, <2>3
  <2> QED BY <2>1, <2>4 DEF d
<1>4. ASSUME NEW h \in Hash, Executed(h) \/ ExecutedHead(h)
      PROVE  /\ \A x \in chain'.blocks_by_hash : Good(x)
             /\ canonical_head' \in chain'.blocks_by_hash
  <2> DEFINE d == ChainInsertBlock(chain, h, TRUE)
  <2>1. Insertable(h) BY <1>4 DEF Executed, ExecutedHead
  <2>2. /\ d \in Chain /\ d.blocks_by_hash = chain.blocks_by_hash \cup {h}
        /\ \A x \in d.blocks_by_hash : Good(x)
    BY <1>3, <2>1
  <2>3. \/ chain' = d /\ canonical_head' = canonical_head
        \/ /\ chain' = ChainAfterNewHead(d, canonical_head, h)
           /\ canonical_head' = HeadAfterNewHead(d, canonical_head, h)
    BY <1>4 DEF Executed, ExecutedHead
  <2> HIDE DEF d
  <2> QED BY <1>1, <2>2, <2>3, ChainAfterNewHeadType DEF SameBlocks
<1>5. ASSUME NEW h \in Hash, MovedHead(h)
      PROVE  /\ \A x \in chain'.blocks_by_hash : Good(x)
             /\ canonical_head' \in chain'.blocks_by_hash
  BY <1>1, <1>5, ChainAfterNewHeadType DEF MovedHead, SameBlocks
<1>6. ASSUME NEW f \in Hash, FinalizedDownloaded(f)
      PROVE  /\ \A x \in chain'.blocks_by_hash : Good(x)
             /\ canonical_head' \in chain'.blocks_by_hash
  <2> DEFINE A == {a \in Ancestry[f] : Number[a] + Window >= Number[f]}
             d == InsertCanonicalHashes(chain, A)
  <2>1. A \in SUBSET Hash BY AncestryContains
  <2>2. /\ chain' = ChainInsertBlock(d, f, FALSE) /\ canonical_head' = f
        /\ Verdict[f] # "sender" /\ outcomes # <<>> /\ Head(outcomes) = Req("finalized", f)
    BY <1>6 DEF FinalizedDownloaded, NextOutcome
  <2> HIDE DEF A
  <2>3. d \in Chain /\ d.blocks_by_hash = chain.blocks_by_hash
    BY <1>1, <2>1, InsertCanonicalHashesType DEF SameBlocks
  <2> HIDE DEF d
  <2>4. chain'.blocks_by_hash = chain.blocks_by_hash \cup {f}
    BY <2>2, <2>3, ChainInsertBlockType DEF BlockAdded
  <2>5. f \in Finals
    <3>1. outcomes \in Seq(Request) BY DEF EngineBase
    <3>2. 1 \in 1..Len(outcomes) /\ outcomes[1] = Req("finalized", f) BY <2>2, <3>1
    <3>3. IsFinal(Req("finalized", f)) BY <3>2 DEF VerdictInv, FinalizedNamed
    <3> QED BY <3>3 DEF IsFinal, Req
  <2>6. Good(f) BY <2>2, <2>5 DEF TrustedForkchoice, Finals
  <2> QED BY <1>1, <2>2, <2>4, <2>6
<1>7. ASSUME NEW s \in ForkchoiceStates, ForkchoiceNewHead(s)
      PROVE  /\ \A x \in chain'.blocks_by_hash : Good(x)
             /\ canonical_head' \in chain'.blocks_by_hash
  <2> DEFINE d == ChainAfterNewHead(chain, canonical_head, s.head)
  <2>1. /\ canonical_head' = s.head
        /\ chain' = d \/ chain' = OnFinalized(d, s.finalized)
        /\ s.head \in chain.blocks_by_hash
    BY <1>7 DEF ForkchoiceNewHead, HasNewChain
  <2>2. d \in Chain /\ SameBlocks(d, chain) BY <1>1, ChainAfterNewHeadType
  <2>3. Indexed(d) BY <2>2, SameBlocksIndexed
  <2> HIDE DEF d
  <2>4. d.blocks_by_hash = chain.blocks_by_hash BY <2>2 DEF SameBlocks
  <2>5. CASE s.finalized \notin d.blocks_by_hash BY <1>1, <2>1, <2>2, <2>4, <2>5, OnFinalizedType
  <2>6. CASE s.finalized \in d.blocks_by_hash
    <3>1. s.finalized \in Hash /\ s.head \in Hash BY <1>1, <2>1, <2>4, <2>6
    <3>2. s.finalized \in Ancestry[s.head] BY <3>1 DEF TrustedForkchoice
    <3>3. ~(Number[s.head] < Number[s.finalized]) BY <3>1, <3>2, AncestryLower
    <3>4. s.head \notin Pruned(d, s.finalized) BY <2>2, <2>3, <3>1, <3>3, PrunedAre
    <3>5. PrunedTo(OnFinalized(d, s.finalized), d, s.finalized) BY <2>2, <2>6, OnFinalizedType
    <3>6. OnFinalized(d, s.finalized).blocks_by_hash = d.blocks_by_hash \ Pruned(d, s.finalized)
      BY <3>5 DEF PrunedTo
    <3> QED BY <1>1, <2>1, <2>4, <3>4, <3>6
  <2> QED BY <2>5, <2>6
<1>8. CASE Restart
  <2>1. chain' = GenesisChain /\ canonical_head' = Genesis BY <1>8 DEF Restart
  <2>2. GenesisChain.blocks_by_hash = {Genesis} BY DEF GenesisChain
  <2> QED BY <2>1, <2>2, GenesisGood
<1> QED BY <1>2, <1>4, <1>5, <1>6, <1>7, <1>8, ChainSteps DEF ChainStep

\* The invariants so far together.
EngineInv == EngineBase /\ Indexed(chain) /\ VerdictInv

\* They hold throughout.
LEMMA EngineInvariant == ASSUME TrustedForkchoice PROVE Spec => []EngineInv
<1>1. Init => EngineInv
  <2> SUFFICES ASSUME Init PROVE EngineInv OBVIOUS
  <2>1. EngineBase BY InitBase
  <2>2. Indexed(chain) BY HashAssumption, ParentAssumption DEF Init, GenesisChain, Indexed, Numbers
  <2>3. VerdictsAreRight
    <3>1. chain.blocks_by_hash = {Genesis} BY DEF Init, GenesisChain
    <3> QED BY <3>1, GenesisGood DEF Init, VerdictsAreRight
  <2>4. SendersRecovered
    <3>1. NewBuffer.blocks = {} BY DEF NewBuffer
    <3> QED BY <3>1, IdleFacts DEF Init, SendersRecovered
  <2>5. FinalizedNamed
    <3>1. outcomes = <<>> /\ Len(outcomes) = 0 BY DEF Init
    <3> QED BY <3>1 DEF Init, FinalizedNamed
  <2> QED BY <2>1, <2>2, <2>3, <2>4, <2>5 DEF EngineInv, VerdictInv
<1>2. EngineInv /\ [Next]_vars => EngineInv'
  <2> SUFFICES ASSUME EngineInv, [Next]_vars PROVE EngineInv' OBVIOUS
  <2>1. CASE UNCHANGED vars
    BY <2>1 DEF vars, tree, EngineInv, EngineBase, TypeOK, VerdictInv, VerdictsAreRight,
                SendersRecovered, FinalizedNamed
  <2>2. CASE Next
    <3>1. EngineBase' BY NextBase DEF EngineInv
    <3>2. Indexed(chain') BY NextIndexed DEF EngineInv
    <3>3. InvalidAreBad(invalid_headers) BY DEF EngineInv, VerdictInv, VerdictsAreRight, InvalidAreBad
    <3>4. InvalidAreBad(invalid_headers') BY <2>2, <3>3, NextInvalid DEF EngineInv
    <3>5. /\ \A h \in chain'.blocks_by_hash : Good(h)
          /\ canonical_head' \in chain'.blocks_by_hash
      BY <2>2, NextChainGood DEF EngineInv
    <3>6. VerdictsAreRight' BY <3>4, <3>5 DEF VerdictsAreRight, InvalidAreBad
    <3>7. SendersRecovered' /\ FinalizedNamed'
      BY <2>2, NextSenders, NextFinalizedNamed DEF EngineInv, VerdictInv
    <3> QED BY <3>1, <3>2, <3>6, <3>7 DEF EngineInv, VerdictInv
  <2> QED BY <2>1, <2>2
<1> QED BY <1>1, <1>2, PTL DEF Spec

(***************************************************************************)
(* No order of payloads, downloads, retries and restarts condemns a good   *)
(* block or lets a bad one be built upon, provided that the consensus      *)
(* client keeps TrustedForkchoice.                                         *)
(***************************************************************************)
THEOREM EngineVerdicts == ASSUME TrustedForkchoice PROVE Spec => []VerdictsAreRight
<1>1. EngineInv => VerdictsAreRight BY DEF EngineInv, VerdictInv
<1> QED BY <1>1, EngineInvariant, PTL

-----------------------------------------------------------------------------
\* lv is the deepest good ancestor of h.
DeepestGood(h, lv) == /\ lv \in Ancestry[h] /\ Good(lv)
                      /\ \A a \in Ancestry[h] : Good(a) => Number[a] <= Number[lv]

(***************************************************************************)
(* latest_valid_hash_for_invalid_payload finds the deepest good ancestor:  *)
(* every jump of the walk passes over blocks with a bad ancestor only.     *)
(***************************************************************************)
LEMMA LatestValidHashIs ==
    ASSUME NEW c \in Chain, \A h \in c.blocks_by_hash : Good(h),
           NEW inv \in InvalidHeaders, InvalidAreBad(inv),
           NEW p \in Hash, LatestValidHash(c, inv, p) # None
    PROVE  DeepestGood(p, LatestValidHash(c, inv, p))
<1> DEFINE next == [x \in Hash |-> IF inv[x] = None THEN {} ELSE {Parent[inv[x]]} \cap Hash]
           walk == Reach({p}, next)
           ends == {x \in walk : inv[x] = None /\ x \in c.blocks_by_hash}
           lv   == LatestValidHash(c, inv, p)
           S    == {x \in Ancestry[p] : \A a \in Ancestry[p] : Number[a] > Number[x] => ~Good(a)}
<1>1. lv = IF p \in c.blocks_by_hash THEN p
           ELSE IF p \in Hash /\ ends # {} THEN CHOOSE x \in ends : TRUE
           ELSE None
  BY DEF LatestValidHash
<1>2. p \in Ancestry[p] /\ Ancestry[p] \subseteq Hash BY AncestryContains
<1>3. walk \subseteq S
  <2>1. S \in SUBSET Hash BY <1>2
  <2>2. p \in S
    <3>1. \A a \in Ancestry[p] : Number[a] <= Number[p] /\ Number[a] \in Nat /\ Number[p] \in Nat
      BY AncestryLower
    <3> QED BY <1>2, <3>1
  <2>3. Closed(S, next)
    <3> SUFFICES ASSUME NEW x \in S, NEW y \in next[x] PROVE y \in S BY DEF Closed
    <3>1. x \in Hash /\ inv[x] # None /\ y = Parent[inv[x]] /\ y \in Hash BY <1>2
    <3> DEFINE e == inv[x]
    <3>2. e \in Ancestry[x] /\ Verdict[e] # "valid" BY <3>1 DEF InvalidAreBad
    <3>3. e \in Ancestry[p] /\ e \in Hash BY <1>2, <3>2, AncestryTrans
    <3>4. y \in Ancestry[p] BY <3>1, <3>3, AncestryContains
    <3>5. Number[e] = Number[y] + 1 /\ Number[y] \in Nat BY <3>1, <3>3, ParentNumber
    <3> HIDE DEF e
    <3>6. ASSUME NEW a \in Ancestry[p], Number[a] > Number[y] PROVE ~Good(a)
      <4>1. a \in Hash /\ Number[a] \in Nat BY <1>2, ParentAssumption
      <4>2. Number[e] <= Number[a] BY <3>5, <3>6, <4>1
      <4>3. e \in Ancestry[a] BY <3>3, <4>2, AncestryLinear
      <4> QED BY <3>2, <4>3 DEF Good
    <3> QED BY <3>4, <3>6
  <2> HIDE DEF S, next
  <2> QED BY <2>1, <2>2, <2>3 DEF Reach
<1>4. CASE p \in c.blocks_by_hash
  <2>1. lv = p /\ Good(p) BY <1>1, <1>4
  <2>2. \A a \in Ancestry[p] : Number[a] <= Number[p] BY AncestryLower
  <2> QED BY <1>2, <2>1, <2>2 DEF DeepestGood
<1>5. CASE p \notin c.blocks_by_hash
  <2> HIDE DEF walk, S
  <2>1. lv \in ends BY <1>1, <1>5
  <2>2. lv \in S /\ Good(lv) BY <1>3, <2>1
  <2> HIDE DEF lv, ends
  <2>3. lv \in Ancestry[p] /\ \A a \in Ancestry[p] : Number[a] > Number[lv] => ~Good(a) BY <2>2 DEF S
  <2>4. \A a \in Ancestry[p] : Number[a] \in Nat BY <1>2, ParentAssumption
  <2>5. DeepestGood(p, lv) BY <2>2, <2>3, <2>4 DEF DeepestGood
  <2> QED BY <2>5 DEF lv
<1> QED BY <1>4, <1>5

\* Below a bad ancestor e, the deepest good ancestor of h is the one of the parent of e.
LEMMA DeepestBelowBad ==
    ASSUME NEW h \in Hash, NEW e \in Ancestry[h], Verdict[e] # "valid", Parent[e] \in Hash,
           NEW lv, DeepestGood(Parent[e], lv)
    PROVE  DeepestGood(h, lv)
<1>1. e \in Hash /\ Ancestry[e] \subseteq Ancestry[h] BY AncestryTrans
<1>2. Ancestry[e] = {e} \cup Ancestry[Parent[e]] BY <1>1, AncestryStep
<1>3. lv \in Ancestry[h] /\ Good(lv) BY <1>1, <1>2 DEF DeepestGood
<1>4. ASSUME NEW a \in Ancestry[h], Good(a) PROVE Number[a] <= Number[lv]
  <2>1. a \in Hash /\ Number[a] \in Nat /\ Number[e] \in Nat BY <1>1, AncestryContains, ParentAssumption
  <2>2. ~(Number[e] <= Number[a])
    <3> SUFFICES ASSUME Number[e] <= Number[a] PROVE FALSE OBVIOUS
    <3>1. e \in Ancestry[a] BY AncestryLinear
    <3> QED BY <1>4, <3>1 DEF Good
  <2>3. Number[a] <= Number[e] /\ a # e BY <2>1, <2>2
  <2>4. a \in Ancestry[e] BY <2>3, AncestryLinear
  <2>5. a \in Ancestry[Parent[e]] BY <1>2, <2>3, <2>4
  <2> QED BY <1>4, <2>5 DEF DeepestGood
<1> QED BY <1>3, <1>4 DEF DeepestGood

\* Both answers about a block h with a bad ancestor e.
LEMMA InvalidAnswerIs ==
    ASSUME EngineInv, NEW h \in Hash, NEW e \in Ancestry[h], Verdict[e] # "valid"
    PROVE  /\ LatestValidHash(chain, invalid_headers, Parent[e]) \in Hash =>
                  DeepestGood(h, LatestValidHash(chain, invalid_headers, Parent[e]))
           /\ PrepareInvalidResponse(chain, invalid_headers, Parent[e]) \in Hash =>
                  DeepestGood(h, PrepareInvalidResponse(chain, invalid_headers, Parent[e]))
<1> DEFINE lv == LatestValidHash(chain, invalid_headers, Parent[e])
           pr == PrepareInvalidResponse(chain, invalid_headers, Parent[e])
<1>1. /\ chain \in Chain /\ invalid_headers \in InvalidHeaders
      /\ InvalidAreBad(invalid_headers) /\ \A x \in chain.blocks_by_hash : Good(x)
  BY DEF EngineInv, EngineBase, TypeOK, VerdictInv, VerdictsAreRight, InvalidAreBad
<1>2. ASSUME lv \in Hash PROVE DeepestGood(h, lv)
  <2>1. lv # None BY <1>2, Distinct
  <2>2. Parent[e] \in Hash BY <1>1, <2>1 DEF LatestValidHash, Chain
  <2>3. DeepestGood(Parent[e], lv) BY <1>1, <2>1, <2>2, LatestValidHashIs
  <2> HIDE DEF lv
  <2> QED BY <2>2, <2>3, DeepestBelowBad
<1>3. pr = Zero \/ pr = lv BY DEF PrepareInvalidResponse
<1> HIDE DEF lv, pr
<1>4. pr \in Hash => DeepestGood(h, pr) BY <1>2, <1>3, Distinct
<1> QED BY <1>2, <1>4 DEF lv, pr

\* LatestValidHashIsRight of an answer.
AnswerIsRight(a) ==
    a.status = "INVALID" /\ a.hash \in Hash /\ a.latest_valid \in Hash =>
        DeepestGood(a.hash, a.latest_valid)

\* Answers that name no ancestor.
LEMMA OtherAnswers ==
    /\ AnswerIsRight(NoReply)
    /\ \A call, h, lv : \A status \in {"VALID", "SYNCING", "ERROR"} : AnswerIsRight(Answer(call, h, status, lv))
    /\ \A call, h, status : AnswerIsRight(Answer(call, h, status, None))
    /\ \A call, status, lv : /\ AnswerIsRight(Answer(call, None, status, lv))
                             /\ AnswerIsRight(Answer(call, Zero, status, lv))
BY Distinct DEF AnswerIsRight, Answer, NoReply

\* An answer with the deepest good ancestor.
LEMMA InvalidAnswers ==
    ASSUME NEW call, NEW h, NEW lv, lv \in Hash => DeepestGood(h, lv)
    PROVE  AnswerIsRight(Answer(call, h, "INVALID", lv))
BY DEF AnswerIsRight, Answer

\* Every answer to a payload is right.
LEMMA PayloadAnswersRight == ASSUME EngineInv, OnNewPayload PROVE AnswerIsRight(reply')
<1>1. PICK h \in Payloads : MalformedPayload(h) \/ UnrecoverablePayload(h) \/ RejectedPayload(h)
                                \/ NewPayload(h)
  BY DEF OnNewPayload
<1>2. h \in Hash /\ h \in Ancestry[h] BY EngineAssumption, AncestryContains
<1>3. /\ invalid_headers \in InvalidHeaders /\ BufferOK(buffer)
      /\ InvalidAreBad(invalid_headers)
  BY DEF EngineInv, EngineBase, TypeOK, VerdictInv, VerdictsAreRight, InvalidAreBad
<1>4. CASE MalformedPayload(h) BY <1>4, OtherAnswers DEF MalformedPayload
<1>5. CASE UnrecoverablePayload(h)
  <2> DEFINE lv == LatestValidHash(chain, invalid_headers, Parent[h])
  <2>1. Verdict[h] # "valid" /\ reply' = Answer("newPayload", h, "INVALID", lv)
    BY <1>5 DEF UnrecoverablePayload
  <2>2. lv \in Hash => DeepestGood(h, lv) BY <1>2, <2>1, InvalidAnswerIs
  <2> HIDE DEF lv
  <2> QED BY <2>1, <2>2, InvalidAnswers
<1>6. CASE RejectedPayload(h)
  <2> DEFINE b == RemoveWitness(buffer, h)
             x == PayloadCheck(b, h)
             entry == InvalidEntry(invalid_headers, x)
             lv == PrepareInvalidResponse(chain, invalid_headers, Parent[entry])
  <2>1. entry # None /\ reply' = Answer("newPayload", h, "INVALID", lv)
    BY <1>6 DEF RejectedPayload
  <2>2. BufferOK(b) BY <1>2, <1>3, RemoveWitnessOK
  <2>3. b.blocks \subseteq Hash BY <2>2 DEF BufferOK, Buffer
  <2>4. x = LowestBufferedAncestorOr(b, h) \/ x = Parent[h] BY DEF PayloadCheck
  <2> HIDE DEF b, x
  <2>5. entry \in Ancestry[h] /\ Verdict[entry] # "valid"
    BY <1>2, <1>3, <2>1, <2>3, <2>4, EntryIsBad
  <2> HIDE DEF entry
  <2>6. lv \in Hash => DeepestGood(h, lv) BY <1>2, <2>5, InvalidAnswerIs
  <2> HIDE DEF lv
  <2> QED BY <2>1, <2>6, InvalidAnswers
<1>7. CASE NewPayload(h)
  <2> DEFINE r == InsertExit(chain, database, h, ReadyWitness(buffer, h))
             lv == LatestValidHash(chain, invalid_headers, Parent[h])
  <2>1. \/ reply' = NoReply
        \/ reply' = Answer("newPayload", h, "SYNCING", None)
        \/ reply' = Answer("newPayload", h, "ERROR", None)
        \/ r = "Invalid" /\ reply' = Answer("newPayload", h, "INVALID", lv)
    BY <1>7 DEF NewPayload
  <2>2. r = "Invalid" => Verdict[h] # "valid" BY <1>2, InsertExitIs
  <2>3. r = "Invalid" => (lv \in Hash => DeepestGood(h, lv)) BY <1>2, <2>2, InvalidAnswerIs
  <2> HIDE DEF lv, r
  <2> QED BY <2>1, <2>3, InvalidAnswers, OtherAnswers
<1> QED BY <1>1, <1>4, <1>5, <1>6, <1>7

\* Every answer to a forkchoice update is right.
LEMMA ForkchoiceAnswersRight == ASSUME EngineInv, OnForkchoiceUpdated PROVE AnswerIsRight(reply')
<1>1. PICK s \in ForkchoiceStates : \/ ForkchoiceRejected(s) \/ ForkchoiceCurrent(s)
                                    \/ ForkchoiceNewHead(s) \/ ForkchoiceKnownHead(s)
                                    \/ ForkchoiceSyncing(s)
  BY DEF OnForkchoiceUpdated
<1>2. /\ invalid_headers \in InvalidHeaders /\ BufferOK(buffer)
      /\ InvalidAreBad(invalid_headers)
  BY DEF EngineInv, EngineBase, TypeOK, VerdictInv, VerdictsAreRight, InvalidAreBad
<1>3. CASE ForkchoiceRejected(s)
  <2> DEFINE x == LowestBufferedAncestorOr(buffer, s.head)
             entry == InvalidEntry(invalid_headers, x)
             lv == PrepareInvalidResponse(chain, invalid_headers, Parent[entry])
  <2>1. \/ s.head = Zero /\ reply' = Answer("forkchoiceUpdated", s.head, "INVALID", None)
        \/ s.head # Zero /\ entry # None /\ reply' = Answer("forkchoiceUpdated", s.head, "INVALID", lv)
    BY <1>3 DEF ForkchoiceRejected, AnswerForkchoice
  <2>2. s.head \in Hash \cup {Zero} BY EngineAssumption
  <2>3. buffer.blocks \subseteq Hash BY <1>2 DEF BufferOK, Buffer
  <2>4. s.head # Zero /\ entry # None => entry \in Ancestry[s.head] /\ Verdict[entry] # "valid"
    <3> HIDE DEF x
    <3> SUFFICES ASSUME s.head \in Hash, entry # None
                 PROVE  entry \in Ancestry[s.head] /\ Verdict[entry] # "valid"
      BY <2>2
    <3>1. x = LowestBufferedAncestorOr(buffer, s.head) BY DEF x
    <3> QED BY <1>2, <2>3, <3>1, EntryIsBad
  <2> HIDE DEF entry
  <2>5. s.head # Zero /\ entry # None => (lv \in Hash => DeepestGood(s.head, lv))
    BY <2>2, <2>4, InvalidAnswerIs
  <2> HIDE DEF lv
  <2> QED BY <2>1, <2>5, InvalidAnswers, OtherAnswers
<1>4. CASE \/ ForkchoiceCurrent(s) \/ ForkchoiceNewHead(s) \/ ForkchoiceKnownHead(s)
           \/ ForkchoiceSyncing(s)
  <2>1. \/ reply' = Answer("forkchoiceUpdated", s.head, "INVALID", None)
        \/ reply' = Answer("forkchoiceUpdated", s.head, "VALID", s.head)
        \/ reply' = Answer("forkchoiceUpdated", s.head, "SYNCING", None)
    BY <1>4 DEF ForkchoiceCurrent, ForkchoiceNewHead, ForkchoiceKnownHead, ForkchoiceSyncing,
                AnswerForkchoice
  <2> QED BY <2>1, OtherAnswers
<1> QED BY <1>1, <1>3, <1>4

\* The answer to a parked payload is right when the answer given is.
LEMMA ParkedAnswerRight ==
    ASSUME NEW h, NEW status, NEW lv, AnswerParked(h, status, lv),
           AnswerIsRight(Answer("newPayload", h, status, lv))
    PROVE  AnswerIsRight(reply')
BY OtherAnswers DEF AnswerParked

\* The answers of handlers that go on are right.
LEMMA ContinueAnswersRight == ASSUME EngineInv, Continue PROVE AnswerIsRight(reply')
<1>1. ASSUME NEW h \in Hash, InsertUnlocked(h) PROVE AnswerIsRight(reply')
  <2> DEFINE w     == ReadyWitness(buffer, h)
             b     == RemoveBlock(buffer, h)
             x     == LowestBufferedAncestorOr(b, h)
             entry == InvalidEntry(invalid_headers, x)
             i     == InsertExit(chain, database, h, w)
             r     == IF entry # None THEN "Known" ELSE i
             lv1   == PrepareInvalidResponse(chain, invalid_headers, Parent[entry])
             lv2   == LatestValidHash(chain, invalid_headers, Parent[h])
  <2>1. \/ reply' = NoReply
        \/ r = "Known" /\ AnswerParked(h, "INVALID", lv1)
        \/ r = "Invalid" /\ AnswerParked(h, "INVALID", lv2)
        \/ AnswerParked(h, "VALID", h)
        \/ AnswerParked(h, "SYNCING", None)
        \/ AnswerParked(h, "ERROR", None)
    BY <1>1 DEF InsertUnlocked
  <2>2. /\ invalid_headers \in InvalidHeaders /\ BufferOK(buffer) /\ h \in Ancestry[h]
        /\ InvalidAreBad(invalid_headers)
    BY AncestryContains
       DEF EngineInv, EngineBase, TypeOK, VerdictInv, VerdictsAreRight, InvalidAreBad
  <2>3. BufferOK(b) BY <2>2, RemoveBlockOK
  <2>4. b.blocks \subseteq Hash BY <2>3 DEF BufferOK, Buffer
  <2>5. i \in Exits /\ (i = "Invalid" => Verdict[h] # "valid") BY InsertExitIs
  <2>6. /\ r = "Known" => entry # None
        /\ r = "Invalid" => Verdict[h] # "valid"
    BY <2>5 DEF Exits
  <2> HIDE DEF b, i, r
  <2>7. entry # None => entry \in Ancestry[h] /\ Verdict[entry] # "valid"
    BY <2>2, <2>4, EntryIsBad
  <2> HIDE DEF entry, x
  <2>8. r = "Known" => (lv1 \in Hash => DeepestGood(h, lv1)) BY <2>6, <2>7, InvalidAnswerIs
  <2>9. r = "Invalid" => (lv2 \in Hash => DeepestGood(h, lv2)) BY <2>2, <2>6, InvalidAnswerIs
  <2> HIDE DEF lv1, lv2
  <2>10. CASE r = "Known" /\ AnswerParked(h, "INVALID", lv1)
    <3>1. AnswerIsRight(Answer("newPayload", h, "INVALID", lv1)) BY <2>8, <2>10, InvalidAnswers
    <3> QED BY <2>10, <3>1, ParkedAnswerRight
  <2>11. CASE r = "Invalid" /\ AnswerParked(h, "INVALID", lv2)
    <3>1. AnswerIsRight(Answer("newPayload", h, "INVALID", lv2)) BY <2>9, <2>11, InvalidAnswers
    <3> QED BY <2>11, <3>1, ParkedAnswerRight
  <2> QED BY <2>1, <2>10, <2>11, ParkedAnswerRight, OtherAnswers
<1>2. ASSUME NEW c \in Hash, Connect(c) PROVE AnswerIsRight(reply')
  <2>1. \/ reply' = NoReply
        \/ reply' = Answer("newPayload", task.block, "ERROR", None)
        \/ AnswerParked(task.block, "ERROR", None)
    BY <1>2 DEF Connect
  <2> QED BY <2>1, OtherAnswers, ParkedAnswerRight
<1>3. CASE Finish
  <2>1. \/ reply' = Answer("newPayload", task.block, "VALID", task.block)
        \/ AnswerParked(task.block, "VALID", task.block)
    BY <1>3 DEF Finish
  <2> QED BY <2>1, OtherAnswers, ParkedAnswerRight
<1>4. ASSUME NEW h \in Hash, SkipUnlocked(h) PROVE AnswerIsRight(reply')
  BY <1>4, OtherAnswers DEF SkipUnlocked
<1> QED BY <1>1, <1>2, <1>3, <1>4 DEF Continue

(***************************************************************************)
(* The latestValidHash of every INVALID answer is the deepest good         *)
(* ancestor of the rejected block, for every state of the cache: entries   *)
(* may be missing, forgotten, or name different ancestors of one chain.    *)
(***************************************************************************)
THEOREM EngineLatestValidHash == ASSUME TrustedForkchoice PROVE Spec => []LatestValidHashIsRight
<1>1. \A a : AnswerIsRight(a) => (a.status = "INVALID" /\ a.hash \in Hash /\ a.latest_valid \in Hash =>
          /\ a.latest_valid \in Ancestry[a.hash] /\ Good(a.latest_valid)
          /\ \A x \in Ancestry[a.hash] : Good(x) => Number[x] <= Number[a.latest_valid])
  BY DEF AnswerIsRight, DeepestGood
<1>2. Init => LatestValidHashIsRight
  BY <1>1, OtherAnswers DEF Init, LatestValidHashIsRight
<1>3. EngineInv /\ LatestValidHashIsRight /\ [Next]_vars => LatestValidHashIsRight'
  <2> SUFFICES ASSUME EngineInv, LatestValidHashIsRight, [Next]_vars PROVE LatestValidHashIsRight'
    OBVIOUS
  <2>1. CASE UNCHANGED vars BY <2>1 DEF vars, LatestValidHashIsRight
  <2>2. CASE Next
    <3> SUFFICES AnswerIsRight(reply') BY <1>1 DEF LatestValidHashIsRight
    <3>1. CASE OnDownloadOutcome
      <4>1. reply' = NoReply \/ AnswerParked(parked, "ERROR", None)
        BY <3>1 DEF OnDownloadOutcome, FinalizedDownloaded, BlockDownloaded, WitnessDownloaded,
                    BytecodeDownloaded, BytecodeLost, NextOutcome, EngineStops
      <4> QED BY <4>1, OtherAnswers, ParkedAnswerRight
    <3>2. CASE PollDownloader \/ (\E h \in Hash : ForgetInvalid(h)) \/ Restart
      BY <3>2, OtherAnswers DEF PollDownloader, ForgetInvalid, Restart
    <3>3. CASE ParkedTimeout BY <3>3, OtherAnswers DEF ParkedTimeout
    <3> QED BY <2>2, <3>1, <3>2, <3>3, PayloadAnswersRight, ForkchoiceAnswersRight,
               ContinueAnswersRight DEF Next
  <2> QED BY <2>1, <2>2
<1> QED BY <1>2, <1>3, EngineInvariant, PTL DEF Spec

-----------------------------------------------------------------------------
\* The tree changes as module EngineApi says.
LEMMA ApiTree ==
    ASSUME TrustedForkchoice
    PROVE  EngineInv /\ Next /\ ~Restart => Api!Execute \/ Api!Install \/ Api!MoveHead
<1> SUFFICES ASSUME EngineInv, Next, ~Restart PROVE Api!Execute \/ Api!Install \/ Api!MoveHead
  OBVIOUS
<1>1. /\ chain \in Chain /\ canonical_head \in Hash /\ chain.blocks_by_hash \subseteq Hash
      /\ canonical_head \in chain.blocks_by_hash
  BY DEF EngineInv, EngineBase, TypeOK, VerdictInv, VerdictsAreRight, Chain
<1>2. /\ \A h \in chain'.blocks_by_hash : Good(h)
      /\ canonical_head' \in chain'.blocks_by_hash
  BY NextChainGood DEF EngineInv
<1>3. CASE UNCHANGED <<chain, canonical_head, installed>> BY <1>1, <1>3 DEF Api!MoveHead
<1>4. ASSUME NEW h \in Hash, Executed(h) \/ ExecutedHead(h) PROVE Api!Execute
  <2> DEFINE d == ChainInsertBlock(chain, h, TRUE)
  <2>1. d \in Chain /\ d.blocks_by_hash = chain.blocks_by_hash \cup {h}
    BY <1>1, ChainInsertBlockType DEF BlockAdded
  <2>2. /\ \/ chain' = d /\ canonical_head' = canonical_head
           \/ /\ chain' = ChainAfterNewHead(d, canonical_head, h)
              /\ canonical_head' = HeadAfterNewHead(d, canonical_head, h)
        /\ Parent[h] \in chain.blocks_by_hash
    BY <1>4 DEF Executed, ExecutedHead, Insertable
  <2> HIDE DEF d
  <2>a. /\ ChainAfterNewHead(d, canonical_head, h).blocks_by_hash = d.blocks_by_hash
        /\ HeadAfterNewHead(d, canonical_head, h) \in {canonical_head, h}
    BY <1>1, <2>1, ChainAfterNewHeadType DEF SameBlocks
  <2>3. /\ chain'.blocks_by_hash = chain.blocks_by_hash \cup {h}
        /\ canonical_head' \in {canonical_head, h}
    BY <2>1, <2>2, <2>a
  <2>4. Good(h) BY <1>2, <2>3
  <2> QED BY <2>2, <2>3, <2>4 DEF Api!Execute
<1>5. ASSUME NEW h \in Hash, MovedHead(h) PROVE Api!MoveHead
  <2>1. chain'.blocks_by_hash = chain.blocks_by_hash
    BY <1>1, <1>5, ChainAfterNewHeadType DEF MovedHead, SameBlocks
  <2> QED BY <1>2, <2>1 DEF Api!MoveHead
<1>6. ASSUME NEW f \in Hash, FinalizedDownloaded(f) PROVE Api!Install
  <2> DEFINE A == {a \in Ancestry[f] : Number[a] + Window >= Number[f]}
             d == InsertCanonicalHashes(chain, A)
  <2>1. A \in SUBSET Hash BY AncestryContains
  <2>2. chain' = ChainInsertBlock(d, f, FALSE) /\ canonical_head' = f
    BY <1>6 DEF FinalizedDownloaded
  <2> HIDE DEF A
  <2>3. d \in Chain /\ d.blocks_by_hash = chain.blocks_by_hash
    BY <1>1, <2>1, InsertCanonicalHashesType DEF SameBlocks
  <2> HIDE DEF d
  <2>4. chain'.blocks_by_hash = chain.blocks_by_hash \cup {f}
    BY <2>2, <2>3, ChainInsertBlockType DEF BlockAdded
  <2> QED BY <1>2, <2>2, <2>4 DEF Api!Install
<1>7. ASSUME NEW s \in ForkchoiceStates, ForkchoiceNewHead(s) PROVE Api!MoveHead
  <2> DEFINE d == ChainAfterNewHead(chain, canonical_head, s.head)
  <2>1. chain' = d \/ chain' = OnFinalized(d, s.finalized) BY <1>7 DEF ForkchoiceNewHead
  <2>2. d \in Chain /\ d.blocks_by_hash = chain.blocks_by_hash
    BY <1>1, ChainAfterNewHeadType DEF SameBlocks
  <2> HIDE DEF d
  <2>a. OnFinalized(d, s.finalized).blocks_by_hash \subseteq d.blocks_by_hash
    <3>1. CASE s.finalized \in d.blocks_by_hash BY <2>2, <3>1, OnFinalizedType DEF PrunedTo
    <3>2. CASE s.finalized \notin d.blocks_by_hash BY <2>2, <3>2, OnFinalizedType
    <3> QED BY <3>1, <3>2
  <2>3. chain'.blocks_by_hash \subseteq chain.blocks_by_hash BY <2>1, <2>2, <2>a
  <2> QED BY <1>2, <2>3 DEF Api!MoveHead
<1> QED BY <1>3, <1>4, <1>5, <1>6, <1>7, ChainSteps DEF ChainStep, EngineInv

\* The parts of an answer.
LEMMA AnswerParts ==
    /\ NoReply.status = "none"
    /\ \A call, h, status, lv : /\ Answer(call, h, status, lv).call = call
                                /\ Answer(call, h, status, lv).hash = h
                                /\ Answer(call, h, status, lv).status = status
BY DEF NoReply, Answer

\* An answer to the waiting call, or to one that never waited.
LEMMA ApiAnswers ==
    ASSUME NEW call, NEW h, NEW status \in {"VALID", "INVALID", "SYNCING", "ERROR"}, NEW lv,
           reply' = Answer(call, h, status, lv), WaitingCall' = None,
           WaitingCall = None \/ (call = "newPayload" /\ h = WaitingCall),
           status = "VALID" => h \in Hash /\ Good(h) /\ h \in chain'.blocks_by_hash,
           status = "INVALID" /\ call = "newPayload" /\ h \in Hash => ~Good(h)
    PROVE  Api!AnswerCall
<1>1. reply'.call = call /\ reply'.hash = h /\ reply'.status = status BY AnswerParts
<1> QED BY <1>1 DEF Api!AnswerCall, Api!Silent

\* The same for the answer to a parked payload.
LEMMA ApiParked ==
    ASSUME EngineBase, task.on # "payload", task'.on # "payload",
           NEW h, NEW status \in {"VALID", "INVALID", "SYNCING", "ERROR"}, NEW lv,
           AnswerParked(h, status, lv),
           status = "VALID" => h \in Hash /\ Good(h) /\ h \in chain'.blocks_by_hash,
           status = "INVALID" /\ h \in Hash => ~Good(h)
    PROVE  Api!NoAnswer \/ Api!AnswerCall
<1>1. CASE parked # None /\ parked = h
  <2>1. parked' = None /\ reply' = Answer("newPayload", h, status, lv) BY <1>1 DEF AnswerParked
  <2>2. WaitingCall = h /\ WaitingCall' = None BY <1>1, <2>1 DEF WaitingCall
  <2> QED BY <2>1, <2>2, ApiAnswers
<1>2. CASE ~(parked # None /\ parked = h)
  <2>1. parked' = parked /\ reply' = NoReply BY <1>2 DEF AnswerParked
  <2>2. WaitingCall' = WaitingCall BY <2>1 DEF WaitingCall
  <2> QED BY <2>1, <2>2, AnswerParts DEF Api!NoAnswer, Api!Silent
<1> QED BY <1>1, <1>2

\* A step without answer after which the same call waits.
LEMMA ApiSilent ==
    ASSUME reply' = NoReply, WaitingCall' = WaitingCall PROVE Api!NoAnswer
BY AnswerParts DEF Api!NoAnswer, Api!Silent

\* Payloads are answered, or wait, as module EngineApi says.
LEMMA ApiPayload ==
    ASSUME EngineInv, OnNewPayload PROVE Api!NoAnswer \/ Api!Call \/ Api!AnswerCall
<1>1. PICK h \in Payloads : MalformedPayload(h) \/ UnrecoverablePayload(h) \/ RejectedPayload(h)
                                \/ NewPayload(h)
  BY DEF OnNewPayload
<1>2. h \in Hash /\ h \in Ancestry[h] /\ h # None BY EngineAssumption, AncestryContains, Distinct
<1>3. task = Idle /\ parked = None /\ WaitingCall = None
  BY <1>1, IdleFacts DEF MalformedPayload, UnrecoverablePayload, RejectedPayload, NewPayload,
                         ReadyForMessage, WaitingCall
<1>4. UNCHANGED <<parked, task>> => WaitingCall' = None BY <1>3 DEF WaitingCall
<1>5. CASE MalformedPayload(h)
  <2>1. reply' = Answer("newPayload", None, "INVALID", None) /\ WaitingCall' = None
    BY <1>4, <1>5 DEF MalformedPayload
  <2> QED BY <1>3, <2>1, Distinct, ApiAnswers
<1>6. CASE UnrecoverablePayload(h)
  <2> DEFINE lv == LatestValidHash(chain, invalid_headers, Parent[h])
  <2>1. /\ reply' = Answer("newPayload", h, "INVALID", lv) /\ WaitingCall' = None
        /\ Verdict[h] # "valid"
    BY <1>4, <1>6 DEF UnrecoverablePayload
  <2>2. ~Good(h) BY <1>2, <2>1 DEF Good
  <2> HIDE DEF lv
  <2> QED BY <1>3, <2>1, <2>2, ApiAnswers
<1>7. CASE RejectedPayload(h)
  <2> DEFINE b == RemoveWitness(buffer, h)
             x == PayloadCheck(b, h)
             entry == InvalidEntry(invalid_headers, x)
             lv == PrepareInvalidResponse(chain, invalid_headers, Parent[entry])
  <2>1. entry # None /\ reply' = Answer("newPayload", h, "INVALID", lv) /\ WaitingCall' = None
    BY <1>4, <1>7 DEF RejectedPayload
  <2>2. BufferOK(b) BY <1>2, RemoveWitnessOK DEF EngineInv, EngineBase
  <2>3. b.blocks \subseteq Hash BY <2>2 DEF BufferOK, Buffer
  <2>4. x = LowestBufferedAncestorOr(b, h) \/ x = Parent[h] BY DEF PayloadCheck
  <2>5. invalid_headers \in InvalidHeaders /\ InvalidAreBad(invalid_headers)
    BY DEF EngineInv, EngineBase, TypeOK, VerdictInv, VerdictsAreRight, InvalidAreBad
  <2> HIDE DEF b, x
  <2>6. entry \in Ancestry[h] /\ Verdict[entry] # "valid"
    BY <1>2, <2>1, <2>3, <2>4, <2>5, EntryIsBad
  <2>7. ~Good(h) BY <2>6 DEF Good
  <2> HIDE DEF entry, lv
  <2> QED BY <1>3, <2>1, <2>7, ApiAnswers
<1>8. CASE NewPayload(h)
  <2> DEFINE w == ReadyWitness(buffer, h)
             b == RemoveWitness(buffer, h)
             r == InsertExit(chain, database, h, w)
             t == [Idle EXCEPT !.on = "payload", !.block = h, !.has_witness = (w # None),
                               !.connect = RemovedWithChildren(b, h)]
             lv == LatestValidHash(chain, invalid_headers, Parent[h])
  <2>1. \/ task' = t /\ reply' = NoReply /\ UNCHANGED parked
        \/ reply' = Answer("newPayload", h, "SYNCING", None) /\ UNCHANGED <<parked, task>>
        \/ parked' = h /\ reply' = NoReply
        \/ r = "Invalid" /\ reply' = Answer("newPayload", h, "INVALID", lv) /\ UNCHANGED <<parked, task>>
        \/ reply' = Answer("newPayload", h, "ERROR", None) /\ UNCHANGED <<parked, task>>
    BY <1>8 DEF NewPayload
  <2>2. t.on = "payload" /\ t.block = h BY DEF Idle
  <2>3. r = "Invalid" => ~Good(h) BY <1>2, InsertExitIs DEF Good
  <2> HIDE DEF t, r, lv
  <2>4. CASE task' = t /\ reply' = NoReply /\ UNCHANGED parked
    <3>1. WaitingCall' = h BY <1>3, <2>2, <2>4 DEF WaitingCall
    <3> QED BY <1>2, <1>3, <2>4, <3>1, AnswerParts DEF Api!Call, Api!Silent
  <2>5. CASE parked' = h /\ reply' = NoReply
    <3>1. WaitingCall' = h BY <1>2, <2>5 DEF WaitingCall
    <3> QED BY <1>2, <1>3, <2>5, <3>1, AnswerParts DEF Api!Call, Api!Silent
  <2> QED BY <1>3, <1>4, <2>1, <2>3, <2>4, <2>5, ApiAnswers
<1> QED BY <1>1, <1>5, <1>6, <1>7, <1>8

\* Forkchoice updates are answered at once.
LEMMA ApiForkchoice ==
    ASSUME TrustedForkchoice, EngineInv, OnForkchoiceUpdated PROVE Api!AnswerCall
<1>1. PICK s \in ForkchoiceStates : \/ ForkchoiceRejected(s) \/ ForkchoiceCurrent(s)
                                    \/ ForkchoiceNewHead(s) \/ ForkchoiceKnownHead(s)
                                    \/ ForkchoiceSyncing(s)
  BY DEF OnForkchoiceUpdated
<1>2. UNCHANGED <<parked, task>> /\ ReadyForMessage
  BY <1>1 DEF ForkchoiceRejected, ForkchoiceCurrent, ForkchoiceNewHead, ForkchoiceKnownHead,
              ForkchoiceSyncing, ForkchoiceAccepted
<1>3. WaitingCall = None /\ WaitingCall' = None
  BY <1>2, IdleFacts DEF ReadyForMessage, WaitingCall
<1>4. \/ \E lv : reply' = Answer("forkchoiceUpdated", s.head, "INVALID", lv)
      \/ /\ reply' = Answer("forkchoiceUpdated", s.head, "VALID", s.head)
         /\ s.head = canonical_head'
      \/ /\ reply' = Answer("forkchoiceUpdated", s.head, "VALID", s.head)
         /\ s.head \in chain.blocks_by_hash /\ UNCHANGED chain
      \/ reply' = Answer("forkchoiceUpdated", s.head, "SYNCING", None)
  BY <1>1 DEF ForkchoiceRejected, ForkchoiceCurrent, ForkchoiceNewHead, ForkchoiceKnownHead,
              ForkchoiceSyncing, AnswerForkchoice, tree
<1>5. Next BY DEF Next
<1>6. /\ \A h \in chain'.blocks_by_hash : Good(h)
      /\ canonical_head' \in chain'.blocks_by_hash /\ chain' \in Chain
  BY <1>5, NextChainGood, NextBase DEF EngineInv, EngineBase, TypeOK
<1>7. chain'.blocks_by_hash \subseteq Hash BY <1>6 DEF Chain
<1> QED BY <1>3, <1>4, <1>6, <1>7, ApiAnswers

\* Handlers that go on answer as module EngineApi says.
LEMMA ApiContinue ==
    ASSUME TrustedForkchoice, EngineInv, Continue PROVE Api!NoAnswer \/ Api!AnswerCall
<1>1. /\ EngineBase /\ task \in Task /\ TaskOK(task, parked, chain.blocks_by_hash)
      /\ chain \in Chain /\ \A x \in chain.blocks_by_hash : Good(x)
      /\ task.unlocked \in SUBSET Hash
  BY DEF EngineInv, EngineBase, TypeOK, VerdictInv, VerdictsAreRight, Task
<1>2. Next BY DEF Next
<1>3. \A S \in SUBSET Hash : Unlocking(S).on # "payload" BY UnlockingFacts
<1>4. ASSUME NEW h \in Hash, InsertUnlocked(h) PROVE Api!NoAnswer \/ Api!AnswerCall
  <2> DEFINE w     == ReadyWitness(buffer, h)
             b     == RemoveBlock(buffer, h)
             x     == LowestBufferedAncestorOr(b, h)
             entry == InvalidEntry(invalid_headers, x)
             i     == InsertExit(chain, database, h, w)
             r     == IF entry # None THEN "Known" ELSE i
             rest  == Unlocking(task.unlocked \ {h})
             t     == [task EXCEPT !.block = h, !.connect = RemovedWithChildren(b, h),
                                   !.unlocked = @ \ {h}]
             lv1   == PrepareInvalidResponse(chain, invalid_headers, Parent[entry])
             lv2   == LatestValidHash(chain, invalid_headers, Parent[h])
  <2>1. /\ task.on = "download"
        /\ \/ task' = t /\ reply' = NoReply /\ UNCHANGED parked
           \/ r = "Known" /\ AnswerParked(h, "INVALID", lv1) /\ task' = rest
           \/ r = "Invalid" /\ AnswerParked(h, "INVALID", lv2) /\ task' = rest
           \/ r = "AlreadySeen" /\ chain' = ChainAfterInsert(chain, h, r)
                /\ AnswerParked(h, "VALID", h) /\ task' = rest
           \/ AnswerParked(h, "SYNCING", None) /\ task' = rest
           \/ AnswerParked(h, "ERROR", None) /\ task' = rest
    BY <1>4 DEF InsertUnlocked
  <2>2. t.on = task.on BY <1>1 DEF Task
  <2>3. rest.on # "payload" BY <1>1, <1>3
  <2>4. i \in Exits /\ (i = "Invalid" => Verdict[h] # "valid") /\ (i = "AlreadySeen" => h \in chain.blocks_by_hash)
    BY InsertExitIs
  <2>5. /\ r = "Known" => entry # None
        /\ r = "Invalid" => Verdict[h] # "valid"
        /\ r = "AlreadySeen" => h \in chain.blocks_by_hash
    BY <2>4 DEF Exits
  <2>6. BufferOK(b) /\ h \in Ancestry[h] BY <1>1, RemoveBlockOK, AncestryContains DEF EngineBase
  <2>7. b.blocks \subseteq Hash BY <2>6 DEF BufferOK, Buffer
  <2>8. invalid_headers \in InvalidHeaders /\ InvalidAreBad(invalid_headers)
    BY DEF EngineInv, EngineBase, TypeOK, VerdictInv, VerdictsAreRight, InvalidAreBad
  <2> HIDE DEF b, i, r, t, rest, lv1, lv2
  <2>9. entry # None => entry \in Ancestry[h] /\ Verdict[entry] # "valid"
    BY <2>7, <2>8, EntryIsBad
  <2> HIDE DEF entry, x
  <2>10. r \in {"Known", "Invalid"} => ~Good(h) BY <2>5, <2>6, <2>9 DEF Good
  <2>11. r = "AlreadySeen" /\ chain' = ChainAfterInsert(chain, h, r) => Good(h) /\ h \in chain'.blocks_by_hash
    BY <1>1, <2>5 DEF ChainAfterInsert
  <2>12. CASE task' = t /\ reply' = NoReply /\ UNCHANGED parked
    <3>1. WaitingCall' = WaitingCall BY <2>1, <2>2, <2>12 DEF WaitingCall
    <3> QED BY <2>12, <3>1, ApiSilent
  <2>13. CASE task' = rest
    <3>1. task.on # "payload" /\ task'.on # "payload" BY <2>1, <2>3, <2>13
    <3>2. CASE r = "Known" /\ AnswerParked(h, "INVALID", lv1) BY <1>1, <2>10, <3>1, <3>2, ApiParked
    <3>3. CASE r = "Invalid" /\ AnswerParked(h, "INVALID", lv2) BY <1>1, <2>10, <3>1, <3>3, ApiParked
    <3>4. CASE r = "AlreadySeen" /\ chain' = ChainAfterInsert(chain, h, r) /\ AnswerParked(h, "VALID", h)
      BY <1>1, <2>11, <3>1, <3>4, ApiParked
    <3>5. CASE AnswerParked(h, "SYNCING", None) BY <1>1, <3>1, <3>5, ApiParked
    <3>6. CASE AnswerParked(h, "ERROR", None) BY <1>1, <3>1, <3>6, ApiParked
    <3> QED BY <2>1, <2>12, <3>2, <3>3, <3>4, <3>5, <3>6
  <2> QED BY <2>1, <2>12, <2>13
<1>5. ASSUME NEW c \in Hash, Connect(c) PROVE Api!NoAnswer \/ Api!AnswerCall
  <2>1. \/ /\ task' = [task EXCEPT !.connect[c] = None] /\ reply' = NoReply /\ UNCHANGED parked
        \/ /\ task.on = "payload" /\ task' = Idle /\ UNCHANGED parked
           /\ reply' = Answer("newPayload", task.block, "ERROR", None)
        \/ /\ task.on = "download" /\ task' = Unlocking(task.unlocked)
           /\ AnswerParked(task.block, "ERROR", None)
    BY <1>5 DEF Connect
  <2>2. CASE task' = [task EXCEPT !.connect[c] = None] /\ reply' = NoReply /\ UNCHANGED parked
    <3>1. task'.on = task.on /\ task'.block = task.block BY <1>1, <2>2 DEF Task
    <3>2. WaitingCall' = WaitingCall BY <2>2, <3>1 DEF WaitingCall
    <3> QED BY <2>2, <3>2, ApiSilent
  <2>3. CASE /\ task.on = "payload" /\ task' = Idle /\ UNCHANGED parked
             /\ reply' = Answer("newPayload", task.block, "ERROR", None)
    <3>1. WaitingCall = task.block /\ WaitingCall' = None
      BY <1>1, <2>3, IdleFacts DEF TaskOK, WaitingCall
    <3> QED BY <2>3, <3>1, ApiAnswers
  <2>4. CASE /\ task.on = "download" /\ task' = Unlocking(task.unlocked)
             /\ AnswerParked(task.block, "ERROR", None)
    BY <1>1, <1>3, <2>4, ApiParked
  <2> QED BY <2>1, <2>2, <2>3, <2>4
<1>6. CASE Finish
  <2> DEFINE h == task.block
  <2>1. /\ h # None
        /\ \/ chain' = ChainAfterNewHead(chain, canonical_head, h)
           \/ UNCHANGED chain
        /\ \/ /\ task.on = "payload" /\ task' = Idle /\ UNCHANGED parked
              /\ reply' = Answer("newPayload", h, "VALID", h)
           \/ /\ task.on = "download" /\ task' = Unlocking(task.unlocked)
              /\ AnswerParked(h, "VALID", h)
    BY <1>6 DEF Finish
  <2>2. h \in chain.blocks_by_hash /\ h \in Hash BY <1>1, <2>1 DEF TaskOK, Chain
  <2>3. chain'.blocks_by_hash = chain.blocks_by_hash
    BY <1>1, <2>1, ChainAfterNewHeadType DEF SameBlocks, EngineBase, TypeOK
  <2>4. Good(h) /\ h \in chain'.blocks_by_hash BY <1>1, <2>2, <2>3
  <2>5. CASE /\ task.on = "payload" /\ task' = Idle /\ UNCHANGED parked
             /\ reply' = Answer("newPayload", h, "VALID", h)
    <3>1. WaitingCall = h /\ WaitingCall' = None
      BY <1>1, <2>5, IdleFacts DEF TaskOK, WaitingCall
    <3> HIDE DEF h
    <3> QED BY <2>2, <2>4, <2>5, <3>1, ApiAnswers
  <2>6. CASE /\ task.on = "download" /\ task' = Unlocking(task.unlocked)
             /\ AnswerParked(h, "VALID", h)
    <3>1. task.on # "payload" /\ task'.on # "payload" BY <1>1, <1>3, <2>6
    <3> HIDE DEF h
    <3> QED BY <1>1, <2>2, <2>4, <2>6, <3>1, ApiParked
  <2> QED BY <2>1, <2>5, <2>6
<1>7. ASSUME NEW h \in Hash, SkipUnlocked(h) PROVE Api!NoAnswer
  <2>1. /\ task.on = "download" /\ task' = Unlocking(task.unlocked \ {h})
        /\ reply' = NoReply /\ UNCHANGED parked
    BY <1>7 DEF SkipUnlocked
  <2>2. task'.on # "payload" BY <1>1, <1>3, <2>1
  <2>3. WaitingCall' = WaitingCall BY <2>1, <2>2 DEF WaitingCall
  <2> QED BY <2>1, <2>3, ApiSilent
<1> QED BY <1>4, <1>5, <1>6, <1>7 DEF Continue

\* Downloads that arrive give no answer, unless the engine stops.
LEMMA ApiDownloads ==
    ASSUME EngineInv, OnDownloadOutcome PROVE Api!NoAnswer \/ Api!AnswerCall
<1>1. EngineBase /\ task = Idle /\ task.on # "payload"
  BY IdleFacts DEF EngineInv, OnDownloadOutcome, FinalizedDownloaded, BlockDownloaded,
                   WitnessDownloaded, BytecodeDownloaded, BytecodeLost, NextOutcome, EngineStops
<1>2. \A S \in SUBSET Hash : Unlocking(S).on # "payload" BY UnlockingFacts
<1>3. ASSUME NEW h \in Hash, NEW kind \in {"finalized", "witness"}, EngineStops(kind, h)
      PROVE  Api!NoAnswer \/ Api!AnswerCall
  <2>1. AnswerParked(parked, "ERROR", None) /\ task' = [Idle EXCEPT !.on = "stopped"]
    BY <1>3 DEF EngineStops
  <2>2. task'.on = "stopped" BY <2>1 DEF Idle
  <2> QED BY <1>1, <2>1, <2>2, ApiParked
<1>4. ASSUME reply' = NoReply, UNCHANGED parked, task'.on # "payload" PROVE Api!NoAnswer
  <2>1. WaitingCall' = WaitingCall BY <1>1, <1>4 DEF WaitingCall
  <2> QED BY <1>4, <2>1, ApiSilent
<1>5. ASSUME NEW h \in Hash,
             FinalizedDownloaded(h) \/ BlockDownloaded(h) \/ \E w \in WitnessesOf(h) : WitnessDownloaded(h, w)
      PROVE  Api!NoAnswer
  <2>1. /\ reply' = NoReply /\ UNCHANGED parked
        /\ UNCHANGED task \/ task' = Unlocking({h}) \/ task' = Unlocking({})
    BY <1>5 DEF FinalizedDownloaded, BlockDownloaded, WitnessDownloaded, NextOutcome
  <2> QED BY <1>1, <1>2, <1>4, <2>1
<1>6. ASSUME NEW k \in Code, BytecodeDownloaded(k) \/ BytecodeLost(k) PROVE Api!NoAnswer
  <2>1. /\ reply' = NoReply /\ UNCHANGED parked
        /\ UNCHANGED task \/ task' = Unlocking(UnlockedBy(buffer, k))
    BY <1>6 DEF BytecodeDownloaded, BytecodeLost, NextOutcome
  <2>2. UnlockedBy(buffer, k) \in SUBSET Hash BY DEF UnlockedBy
  <2> QED BY <1>1, <1>2, <1>4, <2>1, <2>2
<1> QED BY <1>3, <1>5, <1>6 DEF OnDownloadOutcome

(***************************************************************************)
(* The engine implements module EngineApi: every newPayload call is        *)
(* answered once, none is read while one waits, VALID and INVALID are said *)
(* of good and of bad blocks only, and a block becomes valid on a valid    *)
(* parent or as a finalized block only (engine.rs:205-320).                *)
(***************************************************************************)
THEOREM EngineRefinesApi == ASSUME TrustedForkchoice PROVE Spec => ImplementsEngineApi
<1>1. Init => Api!Init
  <2> SUFFICES ASSUME Init PROVE Api!Init OBVIOUS
  <2>1. chain.blocks_by_hash = {Genesis} BY DEF Init, GenesisChain
  <2>2. WaitingCall = None BY IdleFacts DEF Init, WaitingCall
  <2> QED BY <2>1, <2>2, AnswerParts DEF Init, Api!Init, Api!Silent
<1>2. EngineInv /\ [Next]_vars =>
          [Api!Next]_<<chain.blocks_by_hash, canonical_head, WaitingCall, reply>>
  <2> SUFFICES ASSUME EngineInv, [Next]_vars
               PROVE  \/ Api!Next
                      \/ UNCHANGED <<chain.blocks_by_hash, canonical_head, WaitingCall, reply>>
    OBVIOUS
  <2>1. CASE UNCHANGED vars BY <2>1 DEF vars, tree, WaitingCall
  <2>2. CASE Restart
    <3>1. /\ chain'.blocks_by_hash = {Genesis} /\ canonical_head' = Genesis
          /\ reply'.status = "none" /\ WaitingCall' = None
      BY <2>2, AnswerParts, IdleFacts DEF Restart, GenesisChain, WaitingCall
    <3> QED BY <3>1 DEF Api!Restart, Api!Next, Api!Silent
  <2>3. CASE Next /\ ~Restart
    <3>1. Api!Execute \/ Api!Install \/ Api!MoveHead BY <2>3, ApiTree
    <3>2. Api!NoAnswer \/ Api!Call \/ Api!AnswerCall
      <4>1. CASE PollDownloader \/ \E h \in Hash : ForgetInvalid(h)
        <5>1. reply' = NoReply /\ UNCHANGED <<parked, task>> BY <4>1 DEF PollDownloader, ForgetInvalid
        <5>2. WaitingCall' = WaitingCall BY <5>1 DEF WaitingCall
        <5> QED BY <5>1, <5>2, ApiSilent
      <4>2. CASE ParkedTimeout
        <5>1. /\ reply' = Answer("newPayload", parked, "SYNCING", None) /\ parked' = None
              /\ parked # None /\ task = Idle /\ UNCHANGED task
          BY <4>2 DEF ParkedTimeout
        <5>2. WaitingCall = parked /\ WaitingCall' = None BY <5>1, IdleFacts DEF WaitingCall
        <5> QED BY <5>1, <5>2, ApiAnswers
      <4> QED BY <2>3, <4>1, <4>2, ApiPayload, ApiForkchoice, ApiDownloads, ApiContinue DEF Next
    <3> QED BY <3>1, <3>2 DEF Api!Next
  <2> QED BY <2>1, <2>2, <2>3
<1> QED BY <1>1, <1>2, EngineInvariant, PTL DEF Spec, ImplementsEngineApi, Api!Spec

-----------------------------------------------------------------------------
\* Of the common ancestors of two blocks one is the highest.
LEMMA HighestCommon ==
    ASSUME NEW h \in Hash, NEW C, C \subseteq Ancestry[h], C # {}
    PROVE  \E m \in C : \A x \in C : Number[x] <= Number[m]
<1> DEFINE Found == \E m \in C : \A x \in C : Number[x] <= Number[m]
           S == {x \in Hash : Found \/ C \subseteq Ancestry[x]}
<1> HIDE DEF Found
<1>1. C \subseteq Hash /\ \A x \in Hash : Number[x] \in Nat BY AncestryContains, ParentAssumption
<1>2. ASSUME NEW x \in Hash, C \subseteq Ancestry[x], x \in C PROVE Found
  <2>1. \A y \in C : Number[y] <= Number[x] BY <1>1, <1>2, AncestryLower
  <2> QED BY <1>2, <2>1 DEF Found
<1>3. ASSUME NEW x \in Hash, x \in S, Parent[x] \in Hash PROVE Parent[x] \in S
  <2>1. CASE Found BY <1>3, <2>1
  <2>2. CASE x \in C /\ C \subseteq Ancestry[x] BY <1>2, <1>3, <2>2
  <2>3. CASE x \notin C /\ C \subseteq Ancestry[x]
    <3>1. Ancestry[x] = {x} \cup Ancestry[Parent[x]] BY <1>3, AncestryStep
    <3> QED BY <1>3, <2>3, <3>1
  <2> QED BY <1>3, <2>1, <2>2, <2>3
<1>4. h \in S OBVIOUS
<1>5. Ancestry[h] \subseteq S BY <1>3, <1>4, AncestryLeast
<1>6. PICK y \in C : TRUE OBVIOUS
<1>7. y \in Hash /\ (Found \/ C \subseteq Ancestry[y]) BY <1>5, <1>6
<1> QED BY <1>2, <1>7 DEF Found

\* The block where two chains fork is an ancestor of both.
LEMMA ForkBlockIs ==
    ASSUME NEW head \in Hash, NEW new \in Hash, Parent[new] \in Hash,
           Ancestry[Parent[new]] \cap Ancestry[head] # {}
    PROVE  /\ ForkBlock(head, new) \in Hash
           /\ ForkBlock(head, new) \in Ancestry[head] \cap Ancestry[new]
           /\ Number[ForkBlock(head, new)] < Number[new]
<1> DEFINE C == Ancestry[Parent[new]] \cap Ancestry[head]
           f == ForkBlock(head, new)
<1>1. C \subseteq Ancestry[head] /\ C # {} OBVIOUS
<1>2. f = CHOOSE m \in C : \A x \in C : Number[x] <= Number[m] BY DEF ForkBlock
<1>3. \E m \in C : \A x \in C : Number[x] <= Number[m] BY <1>1, HighestCommon
<1>4. f \in C BY <1>2, <1>3
<1>5. Ancestry[new] = {new} \cup Ancestry[Parent[new]] BY AncestryStep
<1>6. f \in Hash BY <1>4, AncestryContains
<1>7. Number[f] \in Nat /\ Number[Parent[new]] \in Nat /\ Number[f] <= Number[Parent[new]]
  BY <1>4, AncestryLower
<1>8. Number[new] = Number[Parent[new]] + 1 BY ParentNumber
<1> QED BY <1>4, <1>5, <1>6, <1>7, <1>8

(***************************************************************************)
(* The canonical hashes cn belong to the chain of head, where the blocks   *)
(* of inst have been installed: every entry has the number it is stored    *)
(* under, and the covered ones are ancestors of the head.                  *)
(***************************************************************************)
Covered(inst, head, n) ==
    inst = {} \/ (n <= Number[head] /\ \A f \in inst : Number[f] <= n + Window)

\* The canonical hashes cn are the chain of head, where finalized downloads left nothing older.
Follows(cn, head, inst) ==
    /\ \A n \in Numbers : cn[n] \in Hash => Number[cn[n]] = n
    /\ \A n \in Numbers : cn[n] \in Hash /\ Covered(inst, head, n) => cn[n] \in Ancestry[head]
    /\ cn[Number[head]] = head

\* What a new head leaves in the canonical hashes.
NewHeadHashes(dn, cn, head, new) ==
    LET f == ForkBlock(head, new) IN
    \A n \in Numbers :
        \/ /\ dn[n] \in Ancestry[new] /\ Number[dn[n]] = n
        \/ /\ \A x \in Ancestry[new] : Number[f] < Number[x] => Number[x] # n
           /\ dn[n] = IF cn[n] \in Ancestry[head] /\ Number[cn[n]] > Number[f] THEN None ELSE cn[n]

\* on_canonical_chain_update replaces the blocks above the fork.
LEMMA ChainAfterNewHeadIs ==
    ASSUME NEW c \in Chain, NEW head \in Hash, NEW new \in Hash, HasNewChain(c, head, new)
    PROVE  NewHeadHashes(ChainAfterNewHead(c, head, new).canonical_hashes_by_number,
                         c.canonical_hashes_by_number, head, new)
<1> DEFINE f == ForkBlock(head, new)
           A == Above(new, f)
           B == Above(head, f)
           r == RemoveCanonicalHashes(c, B)
           cn == c.canonical_hashes_by_number
           rn == r.canonical_hashes_by_number
           dn == ChainAfterNewHead(c, head, new).canonical_hashes_by_number
<1>1. A \in SUBSET Hash /\ B \in SUBSET Hash BY AboveInHash
<1>2. ChainAfterNewHead(c, head, new) = InsertCanonicalHashes(r, A)
  BY DEF ChainAfterNewHead, OnChainUpdate
<1>3. A = {x \in Ancestry[new] : Number[x] > Number[f]} /\ B = {x \in Ancestry[head] : Number[x] > Number[f]}
  BY DEF Above
<1>n. Ancestry[new] \subseteq Hash /\ \A x \in Hash : Number[x] \in Nat BY AncestryContains, ParentAssumption
<1> HIDE DEF A, B
<1>4. r \in Chain /\ rn = [n \in Numbers |-> IF cn[n] \in B THEN None ELSE cn[n]]
  BY <1>1, RemoveCanonicalHashesType
<1> HIDE DEF r
<1>5. dn = [n \in Numbers |-> IF \E h \in A : Number[h] = n THEN CHOOSE h \in A : Number[h] = n
                              ELSE rn[n]]
  BY <1>1, <1>2, <1>4, InsertCanonicalHashesType
<1> HIDE DEF dn, rn, cn
<1>f. f \in Hash BY ForkBlockIs DEF HasNewChain
<1> HIDE DEF f
<1>6. ASSUME NEW n \in Numbers
      PROVE  \/ /\ dn[n] \in Ancestry[new] /\ Number[dn[n]] = n
             \/ /\ \A x \in Ancestry[new] : Number[f] < Number[x] => Number[x] # n
                /\ dn[n] = IF cn[n] \in Ancestry[head] /\ Number[cn[n]] > Number[f] THEN None ELSE cn[n]
  <2>1. CASE \E h \in A : Number[h] = n
    <3>1. dn[n] = CHOOSE h \in A : Number[h] = n BY <1>5, <2>1
    <3>2. dn[n] \in A /\ Number[dn[n]] = n BY <2>1, <3>1
    <3> QED BY <1>3, <3>2
  <2>2. CASE ~\E h \in A : Number[h] = n
    <3>1. dn[n] = IF cn[n] \in B THEN None ELSE cn[n] BY <1>4, <1>5, <2>2
    <3>2. \A x \in Ancestry[new] : Number[f] < Number[x] => Number[x] # n BY <1>3, <1>f, <1>n, <2>2
    <3> QED BY <1>3, <3>1, <3>2
  <2> QED BY <2>1, <2>2
<1> QED BY <1>6 DEF NewHeadHashes, f, dn, cn

\* A new head takes the canonical hashes with it.
LEMMA NewHeadFollows ==
    ASSUME NEW c \in Chain, NEW head \in Hash, NEW new, NEW inst \in SUBSET Hash,
           Follows(c.canonical_hashes_by_number, head, inst)
    PROVE  Follows(ChainAfterNewHead(c, head, new).canonical_hashes_by_number,
                   HeadAfterNewHead(c, head, new), inst)
<1>1. CASE ~HasNewChain(c, head, new) BY <1>1 DEF ChainAfterNewHead, HeadAfterNewHead
<1>2. CASE HasNewChain(c, head, new)
  <2> DEFINE f == ForkBlock(head, new)
             cn == c.canonical_hashes_by_number
             dn == ChainAfterNewHead(c, head, new).canonical_hashes_by_number
  <2>1. new \in Hash /\ HeadAfterNewHead(c, head, new) = new
    BY <1>2 DEF HasNewChain, HeadAfterNewHead, Chain
  <2>2. /\ f \in Hash /\ f \in Ancestry[head] /\ f \in Ancestry[new]
        /\ Number[f] < Number[new]
    BY <1>2, <2>1, ForkBlockIs DEF HasNewChain
  <2>3. NewHeadHashes(dn, cn, head, new) BY <1>2, <2>1, ChainAfterNewHeadIs
  <2>4. cn \in [Numbers -> Hash \cup {None}] BY DEF Chain
  <2> HIDE DEF dn, cn
  <2>5. \A n \in Numbers :
            \/ /\ dn[n] \in Ancestry[new] /\ Number[dn[n]] = n
            \/ /\ \A x \in Ancestry[new] : Number[f] < Number[x] => Number[x] # n
               /\ dn[n] = IF cn[n] \in Ancestry[head] /\ Number[cn[n]] > Number[f] THEN None ELSE cn[n]
    BY <2>3 DEF NewHeadHashes
  <2> HIDE DEF f
  <2>6. Follows(cn, head, inst) BY DEF cn
  <2>7. /\ \A x \in Hash : Number[x] \in Nat /\ Number[x] \in Numbers
        /\ Numbers \subseteq Nat
        /\ \A x \in Ancestry[new] : x \in Hash
        /\ new \in Ancestry[new] /\ head \in Ancestry[head] /\ None \notin Hash
    BY <2>1, NumbersNat, AncestryContains, Distinct
  <2>8. \A n \in Numbers : dn[n] \in Hash => Number[dn[n]] = n BY <2>5, <2>6, <2>7 DEF Follows
  <2>9. ASSUME NEW n \in Numbers, dn[n] \in Hash, Covered(inst, new, n) PROVE dn[n] \in Ancestry[new]
    <3> SUFFICES ASSUME dn[n] \notin Ancestry[new] PROVE FALSE OBVIOUS
    <3>1. /\ dn[n] = cn[n]
          /\ \A x \in Ancestry[new] : Number[f] < Number[x] => Number[x] # n
          /\ ~(cn[n] \in Ancestry[head] /\ Number[cn[n]] > Number[f])
      BY <2>5, <2>7, <2>9
    <3>2. Number[cn[n]] = n BY <2>9, <3>1, <2>6 DEF Follows
    <3>3. n \in Nat /\ Number[f] \in Nat /\ Number[new] \in Nat /\ Number[head] \in Nat
      BY <2>1, <2>2, <2>7
    <3>4. CASE Covered(inst, head, n)
      <4>1. cn[n] \in Ancestry[head] BY <2>6, <2>9, <3>1, <3>4 DEF Follows
      <4>2. Number[cn[n]] <= Number[f] BY <3>1, <3>2, <3>3, <4>1
      <4>3. cn[n] \in Ancestry[f] BY <2>2, <4>1, <4>2, AncestryLinear
      <4>4. Ancestry[f] \subseteq Ancestry[new] BY <2>1, <2>2, AncestryTrans
      <4> QED BY <3>1, <4>3, <4>4
    <3>5. CASE ~Covered(inst, head, n)
      <4>1. n <= Number[new] /\ ~(n <= Number[head]) BY <2>9, <3>5 DEF Covered
      <4>2. Number[f] <= Number[head] BY <2>2, AncestryLower
      <4>3. Number[f] <= n /\ Number[f] < n BY <3>3, <4>1, <4>2
      <4>4. \E x \in Ancestry[new] : Number[x] = n
        BY <2>1, <2>2, <3>3, <4>1, <4>3, AncestryContiguous
      <4> QED BY <3>1, <3>3, <4>3, <4>4
    <3> QED BY <3>4, <3>5
  <2>10. dn[Number[new]] = new
    <3>1. Number[new] \in Numbers BY <2>1, <2>7
    <3>2. CASE dn[Number[new]] \in Ancestry[new] /\ Number[dn[Number[new]]] = Number[new]
      BY <2>1, <2>7, <3>2, AncestryUnique
    <3> QED BY <2>1, <2>2, <2>5, <2>7, <3>1, <3>2
  <2> QED BY <2>1, <2>8, <2>9, <2>10 DEF Follows, dn
<1> QED BY <1>1, <1>2

\* Finalization keeps the canonical hashes of the window, the head's among them.
LEMMA FinalizedFollows ==
    ASSUME NEW c \in Chain, NEW head \in Hash, NEW inst, NEW f,
           Follows(c.canonical_hashes_by_number, head, inst),
           f \in c.blocks_by_hash => f \in Ancestry[head]
    PROVE  Follows(OnFinalized(c, f).canonical_hashes_by_number, head, inst)
<1>1. CASE f \notin c.blocks_by_hash BY <1>1, OnFinalizedType
<1>2. CASE f \in c.blocks_by_hash
  <2> DEFINE cn == c.canonical_hashes_by_number
             dn == OnFinalized(c, f).canonical_hashes_by_number
  <2>1. dn = KeepWindow(cn, Number[f]) BY <1>2, OnFinalizedType DEF PrunedTo
  <2>2. \A n \in Numbers : dn[n] = IF n + Window < Number[f] THEN None ELSE cn[n]
    BY <2>1 DEF KeepWindow
  <2>3. Number[head] \in Numbers /\ Number[head] \in Nat /\ Number[f] \in Nat /\ Number[f] <= Number[head]
    BY <1>2, NumbersNat, AncestryLower
  <2>4. ~(Number[head] + Window < Number[f]) BY <2>3, WindowAssumption
  <2>5. Follows(cn, head, inst) OBVIOUS
  <2> HIDE DEF cn, dn
  <2>6. Follows(dn, head, inst) BY <2>2, <2>3, <2>4, <2>5, Distinct DEF Follows
  <2> QED BY <2>6 DEF dn
<1> QED BY <1>1, <1>2

\* A finalized block that descends from genesis brings the hashes of its window.
LEMMA InstalledFollows ==
    ASSUME NEW c \in Chain, NEW f \in Hash, NEW head, NEW inst,
           Follows(c.canonical_hashes_by_number, head, inst), Genesis \in Ancestry[f]
    PROVE  Follows(InsertCanonicalHashes(c, {a \in Ancestry[f] : Number[a] + Window >= Number[f]})
                       .canonical_hashes_by_number, f, inst \cup {f})
<1> DEFINE A == {a \in Ancestry[f] : Number[a] + Window >= Number[f]}
           cn == c.canonical_hashes_by_number
           dn == InsertCanonicalHashes(c, A).canonical_hashes_by_number
<1>1. A \in SUBSET Hash /\ f \in A
  <2>1. Number[f] \in Nat /\ Window \in Nat BY ParentAssumption, WindowAssumption
  <2>2. Number[f] + Window >= Number[f] BY <2>1
  <2> QED BY <2>2, AncestryContains
<1>2. \A a : a \in A <=> a \in Ancestry[f] /\ Number[a] + Window >= Number[f] OBVIOUS
<1> HIDE DEF A
<1>3. dn = [n \in Numbers |-> IF \E h \in A : Number[h] = n THEN CHOOSE h \in A : Number[h] = n
                              ELSE cn[n]]
  BY <1>1, InsertCanonicalHashesType
<1>4. Follows(cn, head, inst) OBVIOUS
<1> HIDE DEF cn, dn
<1>5. ASSUME NEW n \in Numbers
      PROVE  \/ dn[n] \in A /\ Number[dn[n]] = n
             \/ dn[n] = cn[n] /\ \A h \in A : Number[h] # n
  <2>1. CASE \E h \in A : Number[h] = n
    <3>1. dn[n] = CHOOSE h \in A : Number[h] = n BY <1>3, <2>1
    <3> QED BY <2>1, <3>1
  <2>2. CASE ~\E h \in A : Number[h] = n BY <1>3, <2>2
  <2> QED BY <2>1, <2>2
<1>6. \A n \in Numbers : dn[n] \in Hash => Number[dn[n]] = n BY <1>4, <1>5 DEF Follows
<1>7. ASSUME NEW n \in Numbers, Covered(inst \cup {f}, f, n) PROVE dn[n] \in Ancestry[f]
  <2>1. n \in Nat /\ n <= Number[f] /\ Number[f] <= n + Window BY <1>7, NumbersNat DEF Covered
  <2>2. Number[Genesis] = 0 BY HashAssumption, ParentAssumption
  <2>3. PICK x \in Ancestry[f] : Number[x] = n BY <2>1, <2>2, AncestryContiguous
  <2>4. x \in A BY <1>2, <2>1, <2>3
  <2> QED BY <1>2, <1>5, <2>3, <2>4
<1>8. dn[Number[f]] = f
  <2>1. Number[f] \in Numbers BY NumbersNat
  <2>2. dn[Number[f]] \in A /\ Number[dn[Number[f]]] = Number[f] BY <1>1, <1>5, <2>1
  <2> QED BY <1>1, <1>2, <2>2, AncestryUnique
<1> QED BY <1>6, <1>7, <1>8 DEF Follows, dn, A

\* The block of a finalized download was named by a forkchoice update.
LEMMA InstalledIsFinal ==
    ASSUME TrustedForkchoice, EngineBase, FinalizedNamed, NEW f \in Hash, FinalizedDownloaded(f)
    PROVE  Good(f) /\ Genesis \in Ancestry[f]
<1>1. Verdict[f] # "sender" /\ outcomes # <<>> /\ Head(outcomes) = Req("finalized", f)
  BY DEF FinalizedDownloaded, NextOutcome
<1>2. outcomes \in Seq(Request) BY DEF EngineBase
<1>3. 1 \in 1..Len(outcomes) /\ outcomes[1] = Req("finalized", f) BY <1>1, <1>2
<1>4. IsFinal(Req("finalized", f)) BY <1>3 DEF FinalizedNamed
<1>5. f \in Finals BY <1>4 DEF IsFinal, Req
<1> QED BY <1>1, <1>5 DEF TrustedForkchoice, Finals

\* The canonical hashes the node starts with.
LEMMA GenesisFollows == Follows(GenesisChain.canonical_hashes_by_number, Genesis, {})
<1> DEFINE cn == [n \in Numbers |-> IF n = 0 THEN Genesis ELSE None]
<1>1. GenesisChain.canonical_hashes_by_number = cn BY DEF GenesisChain
<1>2. Genesis \in Hash /\ Number[Genesis] = 0 /\ Number[Genesis] \in Numbers /\ None \notin Hash
  BY HashAssumption, ParentAssumption, NumbersNat
<1>3. Genesis \in Ancestry[Genesis] BY <1>2, AncestryContains
<1> QED BY <1>1, <1>2, <1>3 DEF Follows

\* The canonical hashes of the node belong to the chain of its head.
HashesFollow == Follows(chain.canonical_hashes_by_number, canonical_head, installed)

\* Every step keeps the canonical hashes on the chain of the head.
LEMMA NextFollows ==
    ASSUME TrustedForkchoice
    PROVE  EngineInv /\ HashesFollow /\ [Next]_vars => HashesFollow'
<1> SUFFICES ASSUME EngineInv, HashesFollow, [Next]_vars PROVE HashesFollow' OBVIOUS
<1>1. /\ chain \in Chain /\ canonical_head \in Hash /\ chain.blocks_by_hash \subseteq Hash
      /\ installed \in SUBSET Hash
      /\ Follows(chain.canonical_hashes_by_number, canonical_head, installed)
  BY DEF EngineInv, EngineBase, TypeOK, Chain, HashesFollow
<1>2. CASE UNCHANGED <<chain, canonical_head, installed>> BY <1>1, <1>2 DEF HashesFollow
<1>3. ASSUME NEW h \in Hash, Executed(h) \/ ExecutedHead(h) PROVE HashesFollow'
  <2> DEFINE d == ChainInsertBlock(chain, h, TRUE)
  <2>1. d \in Chain /\ d.canonical_hashes_by_number = chain.canonical_hashes_by_number
    BY <1>1, ChainInsertBlockType DEF BlockAdded
  <2>2. /\ \/ chain' = d /\ canonical_head' = canonical_head
           \/ /\ chain' = ChainAfterNewHead(d, canonical_head, h)
              /\ canonical_head' = HeadAfterNewHead(d, canonical_head, h)
        /\ installed' = installed
    BY <1>3 DEF Executed, ExecutedHead
  <2> HIDE DEF d
  <2>3. Follows(ChainAfterNewHead(d, canonical_head, h).canonical_hashes_by_number,
                HeadAfterNewHead(d, canonical_head, h), installed)
    BY <1>1, <2>1, NewHeadFollows
  <2> QED BY <1>1, <2>1, <2>2, <2>3 DEF HashesFollow
<1>4. ASSUME NEW h \in Hash, MovedHead(h) PROVE HashesFollow'
  <2>1. Follows(ChainAfterNewHead(chain, canonical_head, h).canonical_hashes_by_number,
                HeadAfterNewHead(chain, canonical_head, h), installed)
    BY <1>1, NewHeadFollows
  <2> QED BY <1>4, <2>1 DEF HashesFollow, MovedHead
<1>5. ASSUME NEW f \in Hash, FinalizedDownloaded(f) PROVE HashesFollow'
  <2> DEFINE A == {a \in Ancestry[f] : Number[a] + Window >= Number[f]}
             d == InsertCanonicalHashes(chain, A)
  <2>1. A \in SUBSET Hash BY AncestryContains
  <2>2. /\ chain' = ChainInsertBlock(d, f, FALSE) /\ canonical_head' = f
        /\ installed' = installed \cup {f}
    BY <1>5 DEF FinalizedDownloaded
  <2>3. Genesis \in Ancestry[f] BY <1>5, InstalledIsFinal DEF EngineInv, VerdictInv
  <2>4. Follows(d.canonical_hashes_by_number, f, installed \cup {f}) BY <1>1, <2>3, InstalledFollows
  <2> HIDE DEF A
  <2>5. d \in Chain BY <1>1, <2>1, InsertCanonicalHashesType
  <2> HIDE DEF d
  <2>6. chain'.canonical_hashes_by_number = d.canonical_hashes_by_number
    BY <2>2, <2>5, ChainInsertBlockType DEF BlockAdded
  <2> QED BY <2>2, <2>4, <2>6 DEF HashesFollow
<1>6. ASSUME NEW s \in ForkchoiceStates, ForkchoiceNewHead(s) PROVE HashesFollow'
  <2> DEFINE d == ChainAfterNewHead(chain, canonical_head, s.head)
  <2>1. /\ canonical_head' = s.head /\ installed' = installed
        /\ chain' = d \/ chain' = OnFinalized(d, s.finalized)
        /\ HasNewChain(chain, canonical_head, s.head)
    BY <1>6 DEF ForkchoiceNewHead
  <2>2. s.head \in Hash /\ HeadAfterNewHead(chain, canonical_head, s.head) = s.head
    BY <1>1, <2>1 DEF HasNewChain, HeadAfterNewHead
  <2>3. d \in Chain /\ d.blocks_by_hash \subseteq Hash BY <1>1, ChainAfterNewHeadType DEF Chain
  <2>4. Follows(d.canonical_hashes_by_number, s.head, installed) BY <1>1, <2>2, NewHeadFollows
  <2>5. s.finalized \in d.blocks_by_hash => s.finalized \in Ancestry[s.head]
    BY <2>2, <2>3 DEF TrustedForkchoice
  <2> HIDE DEF d
  <2>6. Follows(OnFinalized(d, s.finalized).canonical_hashes_by_number, s.head, installed)
    BY <2>2, <2>3, <2>4, <2>5, FinalizedFollows
  <2> QED BY <2>1, <2>4, <2>6 DEF HashesFollow
<1>7. CASE Restart
  <2>1. chain' = GenesisChain /\ canonical_head' = Genesis /\ installed' = {} BY <1>7 DEF Restart
  <2>2. Follows(GenesisChain.canonical_hashes_by_number, Genesis, {}) BY GenesisFollows
  <2> QED BY <2>1, <2>2 DEF HashesFollow
<1>8. CASE UNCHANGED vars BY <1>8, <1>2 DEF vars, tree
<1> QED BY <1>2, <1>3, <1>4, <1>5, <1>6, <1>7, <1>8, ChainSteps DEF ChainStep, EngineInv

(***************************************************************************)
(* canonical_hashes_by_number is the chain of the canonical head (and the  *)
(* head is in it) after every sequence of extensions, rewinds, reorgs,     *)
(* finalized downloads and prunings, where a finalized download has not    *)
(* left older hashes behind.                                               *)
(***************************************************************************)
THEOREM EngineCanonicalHashes ==
    ASSUME TrustedForkchoice PROVE Spec => []CanonicalHashesFollowHead
<1>1. Init => HashesFollow
  <2> SUFFICES ASSUME Init PROVE HashesFollow OBVIOUS
  <2>1. chain = GenesisChain /\ canonical_head = Genesis /\ installed = {} BY DEF Init
  <2> QED BY <2>1, GenesisFollows DEF HashesFollow
<1>2. EngineInv /\ HashesFollow => CanonicalHashesFollowHead
  <2> SUFFICES ASSUME EngineInv, HashesFollow PROVE CanonicalHashesFollowHead OBVIOUS
  <2> DEFINE cn == chain.canonical_hashes_by_number
  <2>1. cn \in [Numbers -> Hash \cup {None}] /\ canonical_head \in Hash
    BY DEF EngineInv, EngineBase, TypeOK, Chain
  <2>2. Follows(cn, canonical_head, installed) BY DEF HashesFollow
  <2> HIDE DEF cn
  <2>3. ASSUME NEW n \in Numbers, cn[n] # None, Covered(installed, canonical_head, n)
        PROVE  cn[n] = AncestorAt(canonical_head, n)
    <3>1. cn[n] \in Ancestry[canonical_head] /\ Number[cn[n]] = n
      BY <2>1, <2>2, <2>3 DEF Follows
    <3> QED BY <2>1, <3>1, AncestorAtNumber
  <2>4. cn[Number[canonical_head]] = canonical_head BY <2>2 DEF Follows
  <2> QED BY <2>3, <2>4 DEF CanonicalHashesFollowHead, Covered, cn
<1> QED BY <1>1, <1>2, NextFollows, EngineInvariant, PTL DEF Spec

-----------------------------------------------------------------------------
(***************************************************************************)
(* Which complete blocks are left in the buffer b, while the blocks of U   *)
(* are unlocked and those of P are being connected: one that is not linked *)
(* to its parent, or waits for a block of P, is unlocked itself; so is one *)
(* whose parent is in memory, unless that parent was installed.            *)
(***************************************************************************)
Waiting(b, U, P, mem, inst) ==
    \A x \in Hash : Removable(b, x) /\ x \notin U =>
        /\ x \in b.parent_to_child[Parent[x]]
        /\ Parent[x] \notin P
        /\ Parent[x] \in mem => x \in mem \/ Parent[x] \in inst

\* Blocks that were complete stay linked, new ones are unlocked or have no parent in memory.
LEMMA WaitingStep ==
    ASSUME NEW b, NEW U, NEW P, NEW mem, NEW inst, Waiting(b, U, P, mem, inst),
           NEW f, NEW V, NEW Q, NEW new, NEW more,
           Q \subseteq P, inst \subseteq more,
           \A x \in Hash : Removable(f, x) =>
               \/ x \in V
               \/ /\ Removable(b, x) /\ x \notin U
                  /\ x \in b.parent_to_child[Parent[x]] => x \in f.parent_to_child[Parent[x]]
                  /\ Parent[x] \in new /\ x \notin new =>
                         (Parent[x] \in mem /\ x \notin mem) \/ Parent[x] \in more
               \/ /\ x \in f.parent_to_child[Parent[x]]
                  /\ Parent[x] \notin Q /\ Parent[x] \notin new
    PROVE  Waiting(f, V, Q, new, more)
BY DEF Waiting

\* Taking from the buffer, or from the unlocked blocks what is not complete, changes nothing.
LEMMA WaitingLeft ==
    ASSUME NEW b, NEW U, NEW P, NEW mem, NEW inst, Waiting(b, U, P, mem, inst),
           NEW f, LeftOf(f, b), LinksKept(f, b), NEW V, \A x \in U : x \in V \/ ~Removable(f, x),
           NEW Q, Q \subseteq P
    PROVE  Waiting(f, V, Q, mem, inst)
<1>1. \A x \in Hash : Removable(f, x) => Removable(b, x) /\ x \in f.blocks
  BY LeftRemovable DEF Removable
<1>2. \A x \in f.blocks : x \in b.parent_to_child[Parent[x]] => x \in f.parent_to_child[Parent[x]]
  BY DEF LinksKept
<1> QED BY <1>1, <1>2, WaitingStep

\* What is connected to h after it was put in memory leaves no complete child behind.
LEMMA WaitingConnects ==
    ASSUME NEW b, BufferOK(b), NEW U, NEW P, NEW mem, NEW inst, Waiting(b, U, P, mem, inst),
           NEW h \in Hash, NEW t, t.connect = RemovedWithChildren(b, h)
    PROVE  Waiting(RemoveBlockWithChildren(b, h), U, Pending(t), mem \cup {h}, inst)
<1> DEFINE f == RemoveBlockWithChildren(b, h)
           W == Linked(b, {h})
<1>1. WithChildrenRemoved(f, RemovedWithChildren(b, h), W, b, h) BY RemoveBlockWithChildrenEffect
<1>2. W \subseteq Hash BY ReachInHash DEF Linked
<1> HIDE DEF f, W
<1>3. /\ LeftOf(f, b)
      /\ f.blocks = b.blocks \ {x \in W : Removable(b, x)}
      /\ \A x \in f.blocks : x \in b.parent_to_child[Parent[x]] /\ x \notin W =>
                                 x \in f.parent_to_child[Parent[x]]
      /\ h \in W
      /\ \A x \in W : b.parent_to_child[x] \subseteq W
      /\ \A x \in Hash : RemovedWithChildren(b, h)[x] # None => x \in W
  BY <1>1 DEF WithChildrenRemoved
<1>4. \A x \in Hash : Removable(f, x) => Removable(b, x) BY <1>3, LeftRemovable
<1>5. \A x \in Hash : Removable(f, x) => x \in f.blocks BY DEF Removable
<1>6. Pending(t) \subseteq W BY <1>3 DEF Pending
<1>7. Waiting(f, U, Pending(t), mem \cup {h}, inst)
  <2> SUFFICES ASSUME NEW x \in Hash, Removable(f, x), x \notin U
               PROVE  /\ x \in f.parent_to_child[Parent[x]]
                      /\ Parent[x] \notin Pending(t)
                      /\ Parent[x] \in mem \cup {h} => x \in mem \cup {h} \/ Parent[x] \in inst
    BY DEF Waiting
  <2>1. Removable(b, x) /\ x \in f.blocks BY <1>4, <1>5
  <2>2. x \notin W BY <1>3, <2>1
  <2>3. /\ x \in b.parent_to_child[Parent[x]]
        /\ Parent[x] \in mem => x \in mem \/ Parent[x] \in inst
    BY <2>1 DEF Waiting
  <2>4. Parent[x] \notin W BY <1>3, <2>2, <2>3
  <2> QED BY <1>3, <1>6, <2>1, <2>2, <2>3, <2>4
<1> QED BY <1>7 DEF f

\* A block whose parent is not in memory goes back to the buffer with its link.
LEMMA WaitingDisconnected ==
    ASSUME NEW b, BufferOK(b), NEW U, NEW P, NEW mem, NEW inst, Waiting(b, U, P, mem, inst),
           NEW h \in Hash, NEW w \in Witness \cup {None}, Parent[h] \notin mem, 
           NEW Q, Q \subseteq P, Parent[h] \notin Q
    PROVE  Waiting(BufferAfterInsert(b, h, w, "Disconnected"), U, Q, mem, inst)
<1> DEFINE i == IF w = None THEN b ELSE InsertWitness(b, h, w, {})
           f == InsertBlock(i, h)
<1>1. BufferOK(i) BY InsertWitnessOK
<1>2. BufferAfterInsert(b, h, w, "Disconnected") = f BY DEF BufferAfterInsert
<1>3. /\ i.blocks = b.blocks /\ i.parent_to_child = b.parent_to_child
      /\ \A x \in Hash : x # h => /\ i.witnesses[x] = b.witnesses[x]
                                  /\ i.missing_bytecodes[x] = b.missing_bytecodes[x]
  BY InsertWitnessEffect DEF WitnessInserted
<1> HIDE DEF i
<1>4. BlockInserted(f, i, h) BY <1>1, InsertBlockEffect
<1> HIDE DEF f
<1>5. /\ f.blocks \subseteq b.blocks \cup {h}
      /\ \A x \in f.blocks : x \in b.parent_to_child[Parent[x]] => x \in f.parent_to_child[Parent[x]]
      /\ h \in f.parent_to_child[Parent[h]]
      /\ WitnessesLeft(f, i)
  BY <1>3, <1>4 DEF BlockInserted, LinksKept
<1>6. ASSUME NEW x \in Hash, x # h, Removable(f, x) PROVE Removable(b, x) /\ x \in f.blocks
  <2>1. x \in f.blocks /\ x \in b.blocks /\ f.missing_bytecodes[x] = {} /\ f.witnesses[x] # None
    BY <1>5, <1>6 DEF Removable, ReadyWitness
  <2>2. f.witnesses[x] = i.witnesses[x] /\ f.missing_bytecodes[x] = i.missing_bytecodes[x]
    BY <1>5, <2>1 DEF WitnessesLeft
  <2> QED BY <1>3, <1>6, <2>1, <2>2 DEF Removable, ReadyWitness
<1>7. Waiting(f, U, Q, mem, inst) BY <1>5, <1>6, WaitingStep
<1> QED BY <1>2, <1>7

\* A block without complete witness goes to the buffer, and is not complete there.
LEMMA WaitingIncomplete ==
    ASSUME NEW b, BufferOK(b), NEW U, NEW P, NEW mem, NEW inst, Waiting(b, U, P, mem, inst),
           NEW h \in Hash, NEW V, U \subseteq V, h \in V \/ ReadyWitness(b, h) = None
    PROVE  Waiting(InsertBlock(b, h), V, P, mem, inst)
<1> DEFINE f == InsertBlock(b, h)
<1>1. BlockInserted(f, b, h) BY InsertBlockEffect
<1> HIDE DEF f
<1>2. /\ f.blocks \subseteq b.blocks \cup {h}
      /\ \A x \in f.blocks : x \in b.parent_to_child[Parent[x]] => x \in f.parent_to_child[Parent[x]]
      /\ f.witnesses[h] = b.witnesses[h] /\ f.missing_bytecodes[h] = b.missing_bytecodes[h]
      /\ WitnessesLeft(f, b)
  BY <1>1 DEF BlockInserted, LinksKept
<1>3. ASSUME NEW x \in Hash, x # h, Removable(f, x) PROVE Removable(b, x) /\ x \in f.blocks
  <2>1. x \in f.blocks /\ x \in b.blocks /\ f.missing_bytecodes[x] = {} /\ f.witnesses[x] # None
    BY <1>2, <1>3 DEF Removable, ReadyWitness
  <2>2. f.witnesses[x] = b.witnesses[x] /\ f.missing_bytecodes[x] = b.missing_bytecodes[x]
    BY <1>2, <2>1 DEF WitnessesLeft
  <2> QED BY <2>1, <2>2 DEF Removable, ReadyWitness
<1>4. Removable(f, h) => h \in V BY <1>2 DEF Removable, ReadyWitness
<1>5. Waiting(f, V, P, mem, inst) BY <1>2, <1>3, <1>4, WaitingStep
<1> QED BY <1>5 DEF f

\* What waits in the engine's buffer.
BlocksWaiting == Waiting(buffer, task.unlocked, Pending(task), chain.blocks_by_hash, installed)

\* A payload leaves no complete child of its block behind.
LEMMA NewPayloadWaiting ==
    ASSUME EngineBase, BlocksWaiting, NEW h \in Payloads, NewPayload(h) PROVE BlocksWaiting'
<1> DEFINE w == ReadyWitness(buffer, h)
           b == RemoveWitness(buffer, h)
           r == InsertExit(chain, database, h, w)
           t == [Idle EXCEPT !.on = "payload", !.block = h, !.has_witness = (w # None),
                             !.connect = RemovedWithChildren(b, h)]
           mem == chain.blocks_by_hash
<1>1. h \in Hash BY EngineAssumption
<1>2. /\ BufferOK(b) /\ w \in Witness \cup {None} /\ LeftOf(b, buffer) /\ LinksKept(b, buffer)
      /\ ReadyWitness(b, h) = None
  BY <1>1, RemoveWitnessOK, ReadyWitnessType, RemoveWitnessEffect DEF EngineBase, WitnessRemoved
<1>3. /\ task = Idle /\ installed' = installed
      /\ chain' = ChainAfterInsert(chain, h, r)
      /\ \/ r \in {"Valid", "AlreadySeen"} /\ buffer' = RemoveBlockWithChildren(b, h) /\ task' = t
         \/ r = "Disconnected" /\ buffer' = BufferAfterInsert(b, h, w, r) /\ task' = task
         \/ r = "NoWitness" /\ buffer' = BufferAfterInsert(b, h, w, r) /\ task' = task
         \/ r \in {"Invalid", "Fatal"} /\ buffer' = b /\ task' = task
  BY DEF NewPayload, ReadyForMessage
<1>4. /\ r = "AlreadySeen" => h \in mem
      /\ r = "Disconnected" => Parent[h] \notin mem
  BY <1>1, InsertExitIs
<1>5. t.connect = RemovedWithChildren(b, h) /\ t.unlocked = {} BY DEF Idle
<1> HIDE DEF w, b, r, t
<1>6. chain'.blocks_by_hash = IF r = "Valid" THEN mem \cup {h} ELSE mem
  BY <1>1, <1>3, ChainAfterInsertType DEF EngineBase, TypeOK
<1>7. task.unlocked = {} /\ Pending(task) = {} BY <1>3, IdleFacts
<1>8. Waiting(b, {}, {}, mem, installed) BY <1>2, <1>7, WaitingLeft DEF BlocksWaiting
<1> HIDE DEF mem
<1>9. CASE r \in {"Valid", "AlreadySeen"}
  <2>1. buffer' = RemoveBlockWithChildren(b, h) /\ task' = t BY <1>3, <1>9
  <2>2. chain'.blocks_by_hash = mem \cup {h} BY <1>4, <1>6, <1>9
  <2>3. Waiting(RemoveBlockWithChildren(b, h), {}, Pending(t), mem \cup {h}, installed)
    BY <1>1, <1>2, <1>5, <1>8, WaitingConnects
  <2> QED BY <1>3, <1>5, <2>1, <2>2, <2>3 DEF BlocksWaiting
<1>10. CASE r = "Disconnected"
  <2>1. Waiting(BufferAfterInsert(b, h, w, "Disconnected"), {}, {}, mem, installed)
    BY <1>1, <1>2, <1>4, <1>8, <1>10, WaitingDisconnected
  <2>2. buffer' = BufferAfterInsert(b, h, w, "Disconnected") /\ task' = task /\ chain'.blocks_by_hash = mem
    BY <1>3, <1>6, <1>10
  <2> QED BY <1>3, <1>7, <2>1, <2>2 DEF BlocksWaiting
<1>11. CASE r = "NoWitness"
  <2>1. buffer' = InsertBlock(b, h) /\ task' = task /\ chain'.blocks_by_hash = mem
    BY <1>3, <1>6, <1>11 DEF BufferAfterInsert
  <2>2. Waiting(InsertBlock(b, h), {}, {}, mem, installed) BY <1>1, <1>2, <1>8, WaitingIncomplete
  <2> QED BY <1>3, <1>7, <2>1, <2>2 DEF BlocksWaiting
<1>12. CASE r \in {"Invalid", "Fatal"}
  <2>1. buffer' = b /\ task' = task /\ chain'.blocks_by_hash = mem BY <1>3, <1>6, <1>12
  <2> QED BY <1>3, <1>7, <1>8, <2>1 DEF BlocksWaiting
<1> QED BY <1>3, <1>9, <1>10, <1>11, <1>12

\* Nor does an unlocked block.
LEMMA InsertUnlockedWaiting ==
    ASSUME EngineBase, BlocksWaiting, NEW h \in Hash, InsertUnlocked(h) PROVE BlocksWaiting'
<1> DEFINE w     == ReadyWitness(buffer, h)
           b     == RemoveBlock(buffer, h)
           entry == InvalidEntry(invalid_headers, LowestBufferedAncestorOr(b, h))
           r     == IF entry # None THEN "Known" ELSE InsertExit(chain, database, h, w)
           U     == task.unlocked \ {h}
           t     == [task EXCEPT !.block = h, !.connect = RemovedWithChildren(b, h),
                                 !.unlocked = @ \ {h}]
           mem   == chain.blocks_by_hash
<1>1. /\ Removable(buffer, h) /\ installed' = installed /\ task.block = None
      /\ chain' = ChainAfterInsert(chain, h, r)
      /\ \/ r = "Valid" /\ buffer' = RemoveBlockWithChildren(b, h) /\ task' = t
         \/ r = "Disconnected" /\ buffer' = BufferAfterInsert(b, h, w, r) /\ task' = Unlocking(U)
         \/ r # "Valid" /\ buffer' = b /\ task' = Unlocking(U)
  BY DEF InsertUnlocked
<1>2. /\ BufferOK(b) /\ w \in Witness \cup {None} /\ LeftOf(b, buffer) /\ LinksKept(b, buffer)
      /\ h \notin b.blocks
  BY <1>1, RemoveBlockOK, ReadyWitnessType, RemoveBlockEffect DEF EngineBase, BlockRemoved
<1>3. r = "Disconnected" => Parent[h] \notin mem BY InsertExitIs
<1>4. task \in Task /\ U \in SUBSET Hash /\ Pending(task) = {}
  BY <1>1 DEF EngineBase, TypeOK, Task, TaskOK
<1>5. t.connect = RemovedWithChildren(b, h) /\ t.unlocked = U BY <1>4 DEF Task
<1>u. Unlocking(U).unlocked = U /\ Pending(Unlocking(U)) = {} BY <1>4, UnlockingFacts
<1> HIDE DEF w, b, r, t, entry
<1>6. chain'.blocks_by_hash = IF r = "Valid" THEN mem \cup {h} ELSE mem
  BY <1>1, ChainAfterInsertType DEF EngineBase, TypeOK
<1>7. Waiting(b, U, {}, mem, installed)
  <2>1. \A x \in task.unlocked : x \in U \/ ~Removable(b, x) BY <1>2 DEF Removable
  <2> QED BY <1>2, <1>4, <2>1, WaitingLeft DEF BlocksWaiting
<1> HIDE DEF mem, U
<1>8. CASE r = "Valid" /\ buffer' = RemoveBlockWithChildren(b, h) /\ task' = t
  <2>1. Waiting(RemoveBlockWithChildren(b, h), U, Pending(t), mem \cup {h}, installed)
    BY <1>2, <1>5, <1>7, WaitingConnects
  <2> QED BY <1>1, <1>5, <1>6, <1>8, <2>1 DEF BlocksWaiting
<1>9. CASE r = "Disconnected" /\ buffer' = BufferAfterInsert(b, h, w, r) /\ task' = Unlocking(U)
  <2>1. Waiting(BufferAfterInsert(b, h, w, "Disconnected"), U, {}, mem, installed)
    BY <1>2, <1>3, <1>7, <1>9, WaitingDisconnected
  <2>2. chain'.blocks_by_hash = mem BY <1>6, <1>9
  <2> QED BY <1>1, <1>u, <1>9, <2>1, <2>2 DEF BlocksWaiting
<1>10. CASE r # "Valid" /\ buffer' = b /\ task' = Unlocking(U)
  <2>1. chain'.blocks_by_hash = mem BY <1>6, <1>10
  <2> QED BY <1>1, <1>u, <1>7, <1>10, <2>1 DEF BlocksWaiting
<1> QED BY <1>1, <1>8, <1>9, <1>10

\* A connected child whose own children wait has them unlocked or connected next.
LEMMA ConnectWaiting ==
    ASSUME EngineBase, BlocksWaiting, NEW c \in Hash, Connect(c) PROVE BlocksWaiting'
<1> DEFINE w == task.connect[c]
           r == InsertExit(chain, database, c, w)
           t == [task EXCEPT !.connect[c] = None]
           U == task.unlocked
           P == Pending(task)
           mem == chain.blocks_by_hash
<1>1. /\ c \in P /\ P \cap Ancestry[c] = {c} /\ installed' = installed
      /\ buffer' = BufferAfterInsert(buffer, c, w, r)
      /\ IF r = "Valid" /\ sync_target = c
           THEN chain' = ChainAfterNewHead(ChainAfterInsert(chain, c, r), canonical_head, c)
           ELSE chain' = ChainAfterInsert(chain, c, r)
      /\ \/ task' = t
         \/ task.on = "payload" /\ task' = Idle
         \/ task' = Unlocking(U)
  BY DEF Connect
<1>2. /\ task \in Task /\ w \in Witness \cup {None} /\ U \in SUBSET Hash /\ w # None
      /\ task.on = "payload" => U = {}
      /\ BufferOK(buffer)
  BY <1>1 DEF EngineBase, TypeOK, TaskOK, Task, Pending
<1>3. task'.unlocked = U /\ Pending(task') \subseteq P \ {c}
  <2>1. t.unlocked = U /\ Pending(t) = P \ {c} BY <1>2 DEF Task, Pending
  <2> QED BY <1>1, <1>2, <2>1, IdleFacts, UnlockingFacts
<1>4. /\ r = "Disconnected" => Parent[c] \notin mem
      /\ r # "NoWitness" /\ r \in Exits
  BY <1>2, InsertExitIs
<1> HIDE DEF w, r, t
<1>5. chain'.blocks_by_hash = IF r = "Valid" THEN mem \cup {c} ELSE mem
  <2>1. /\ ChainAfterInsert(chain, c, r) \in Chain
        /\ ChainAfterInsert(chain, c, r).blocks_by_hash = IF r = "Valid" THEN mem \cup {c} ELSE mem
    BY ChainAfterInsertType DEF EngineBase, TypeOK
  <2>2. SameBlocks(ChainAfterNewHead(ChainAfterInsert(chain, c, r), canonical_head, c),
                   ChainAfterInsert(chain, c, r))
    BY <2>1, ChainAfterNewHeadType DEF EngineBase, TypeOK
  <2> QED BY <1>1, <2>1, <2>2 DEF SameBlocks
<1>6. Waiting(buffer, U, P, mem, installed) BY DEF BlocksWaiting
<1>7. Parent[c] \notin P
  <2>1. Parent[c] \in P => Parent[c] \in Hash BY DEF Pending
  <2>2. Parent[c] \in Hash => Parent[c] \in Ancestry[c] /\ Parent[c] # c
    BY AncestryContains, ParentNumber, ParentAssumption
  <2> QED BY <1>1, <2>1, <2>2
<1> HIDE DEF U, P, mem
<1>8. CASE r = "Disconnected"
  <2>1. Waiting(BufferAfterInsert(buffer, c, w, "Disconnected"), U, Pending(task'), mem, installed)
    BY <1>2, <1>3, <1>4, <1>6, <1>7, <1>8, WaitingDisconnected
  <2>2. chain'.blocks_by_hash = mem BY <1>5, <1>8
  <2> QED BY <1>1, <1>3, <1>8, <2>1, <2>2 DEF BlocksWaiting
<1>9. CASE r # "Disconnected"
  <2>1. buffer' = buffer BY <1>1, <1>4, <1>9 DEF BufferAfterInsert, Exits
  <2>2. chain'.blocks_by_hash = mem \/ chain'.blocks_by_hash = mem \cup {c} BY <1>5
  <2>3. \A x \in Hash : Removable(buffer, x) /\ Parent[x] = c => x \in U
    BY <1>1, <1>6 DEF Waiting
  <2>4. Waiting(buffer, U, Pending(task'), chain'.blocks_by_hash, installed)
    BY <1>3, <1>6, <2>2, <2>3, WaitingStep
  <2> QED BY <1>1, <1>3, <2>1, <2>4 DEF BlocksWaiting
<1> QED BY <1>8, <1>9

\* A forkchoice update prunes the chain from below and takes from the buffer.
LEMMA NewHeadWaiting ==
    ASSUME EngineBase, Indexed(chain), BlocksWaiting, NEW s \in ForkchoiceStates, ForkchoiceNewHead(s)
    PROVE  BlocksWaiting'
<1> DEFINE d == ChainAfterNewHead(chain, canonical_head, s.head)
           mem == chain.blocks_by_hash
<1>1. /\ UNCHANGED <<task, installed>>
      /\ \/ chain' = OnFinalized(d, s.finalized)
         \/ chain' = d /\ buffer' = buffer
      /\ \/ buffer' = buffer
         \/ /\ buffer' = EvictOldBlocks(buffer, Number[s.finalized])
            /\ s.finalized \in chain'.blocks_by_hash
  BY DEF ForkchoiceNewHead
<1>2. /\ d \in Chain /\ Indexed(d) /\ d.blocks_by_hash = mem /\ chain \in Chain /\ mem \subseteq Hash
  BY ChainAfterNewHeadType, SameBlocksIndexed DEF EngineBase, TypeOK, SameBlocks, Chain
<1>3. chain' \in Chain
  BY ForkchoiceBase DEF EngineBase, TypeOK
<1>4. LeftOf(buffer', buffer) /\ LinksKept(buffer', buffer)
  <2>1. CASE buffer' = buffer BY <2>1 DEF LeftOf, WitnessesLeft, LinksKept
  <2>2. CASE buffer' = EvictOldBlocks(buffer, Number[s.finalized]) /\ s.finalized \in chain'.blocks_by_hash
    <3>1. Number[s.finalized] \in Numbers BY <1>3, <2>2, NumbersNat DEF Chain
    <3> QED BY <2>2, <3>1, EvictOldBlocksEffect DEF EngineBase
  <2> QED BY <1>1, <2>1, <2>2
<1> HIDE DEF d, mem
<1>5. ASSUME NEW x \in Hash, Parent[x] \in chain'.blocks_by_hash, x \notin chain'.blocks_by_hash
      PROVE  Parent[x] \in mem /\ x \notin mem
  <2>1. CASE chain' = d \/ s.finalized \notin mem BY <1>1, <1>2, <1>5, <2>1, OnFinalizedType
  <2>2. CASE chain' # d /\ s.finalized \in mem
    <3>1. s.finalized \in Hash BY <1>2, <2>2
    <3>2. PrunedTo(chain', d, s.finalized) BY <1>1, <1>2, <2>2, OnFinalizedType
    <3>3. /\ chain'.blocks_by_hash = mem \ Pruned(d, s.finalized) /\ Parent[x] \in Hash
      BY <1>2, <1>5, <3>2 DEF PrunedTo
    <3>4. \A y \in mem : y \in Pruned(d, s.finalized) <=> Number[y] < Number[s.finalized]
      BY <1>2, <3>1, PrunedAre
    <3>5. /\ Number[x] = Number[Parent[x]] + 1
          /\ Number[Parent[x]] \in Nat /\ Number[s.finalized] \in Nat
      BY <3>1, <3>3, ParentNumber, ParentAssumption
    <3> QED BY <1>5, <3>3, <3>4, <3>5
  <2> QED BY <2>1, <2>2
<1>6. Waiting(buffer, task.unlocked, Pending(task), mem, installed) BY DEF BlocksWaiting, mem
<1>7. Waiting(buffer', task.unlocked, Pending(task), mem, installed) BY <1>4, <1>6, WaitingLeft
<1>8. Waiting(buffer', task.unlocked, Pending(task), chain'.blocks_by_hash, installed)
  BY <1>5, <1>7 DEF Waiting
<1> QED BY <1>1, <1>8 DEF BlocksWaiting

\* Downloads unlock the blocks they complete.
LEMMA DownloadWaiting ==
    ASSUME EngineBase, BlocksWaiting, OnDownloadOutcome PROVE BlocksWaiting'
<1> DEFINE mem == chain.blocks_by_hash
<1>1. task = Idle
  BY DEF OnDownloadOutcome, FinalizedDownloaded, BlockDownloaded, WitnessDownloaded,
         BytecodeDownloaded, BytecodeLost, EngineStops, NextOutcome
<1>2. BufferOK(buffer) /\ chain \in Chain /\ Waiting(buffer, {}, {}, mem, installed)
  BY <1>1, IdleFacts DEF BlocksWaiting, EngineBase, TypeOK
<1> HIDE DEF mem
<1>3. ASSUME NEW f \in Hash, FinalizedDownloaded(f) PROVE BlocksWaiting'
  <2> DEFINE A == {a \in Ancestry[f] : Number[a] + Window >= Number[f]}
             d == InsertCanonicalHashes(chain, A)
  <2>1. A \in SUBSET Hash BY AncestryContains
  <2>2. /\ chain' = ChainInsertBlock(d, f, FALSE) /\ buffer' = buffer
        /\ installed' = installed \cup {f} /\ task' = Unlocking({f})
    BY <1>3 DEF FinalizedDownloaded
  <2> HIDE DEF A
  <2>3. d \in Chain /\ d.blocks_by_hash = mem
    BY <1>2, <2>1, InsertCanonicalHashesType DEF SameBlocks, mem
  <2> HIDE DEF d
  <2>4. chain'.blocks_by_hash = mem \cup {f} BY <2>2, <2>3, ChainInsertBlockType DEF BlockAdded
  <2>5. task'.unlocked = {f} /\ Pending(task') = {} BY <2>2, UnlockingFacts
  <2>6. Waiting(buffer, {f}, {}, mem \cup {f}, installed \cup {f}) BY <1>2, WaitingStep
  <2> QED BY <2>2, <2>4, <2>5, <2>6 DEF BlocksWaiting
<1>4. ASSUME NEW h \in Hash, BlockDownloaded(h) PROVE BlocksWaiting'
  <2>1. UNCHANGED <<chain, installed>> BY <1>4 DEF BlockDownloaded
  <2>2. CASE UNCHANGED <<buffer, task>> BY <1>1, <1>2, <2>1, <2>2, IdleFacts DEF BlocksWaiting, mem
  <2>3. CASE buffer' = InsertBlock(buffer, h) /\ task' = Unlocking({h})
    <3>1. task'.unlocked = {h} /\ Pending(task') = {} BY <2>3, UnlockingFacts
    <3>2. Waiting(InsertBlock(buffer, h), {h}, {}, mem, installed) BY <1>2, WaitingIncomplete
    <3> QED BY <2>1, <2>3, <3>1, <3>2 DEF BlocksWaiting, mem
  <2> QED BY <1>4, <2>2, <2>3 DEF BlockDownloaded
<1>5. ASSUME NEW h \in Hash, NEW w \in WitnessesOf(h), WitnessDownloaded(h, w) PROVE BlocksWaiting'
  <2> DEFINE missing == MissingCodeHashes(database, w.codes)
             U == IF missing = {} THEN {h} ELSE {}
  <2>1. /\ UNCHANGED <<chain, installed>> /\ task' = Unlocking(U)
        /\ buffer' = InsertWitness(buffer, h, w, missing)
    BY <1>5 DEF WitnessDownloaded
  <2>2. WitnessInserted(buffer', buffer, h, w, missing) BY <1>2, <2>1, InsertWitnessEffect
  <2>3. task'.unlocked = U /\ Pending(task') = {} BY <2>1, UnlockingFacts
  <2> HIDE DEF missing
  <2>4. \A x \in Hash : Removable(buffer', x) => x \in U \/ Removable(buffer, x)
    BY <2>2 DEF WitnessInserted, Removable, ReadyWitness
  <2>5. buffer'.parent_to_child = buffer.parent_to_child BY <2>2 DEF WitnessInserted
  <2>6. Waiting(buffer', U, {}, mem, installed) BY <1>2, <2>4, <2>5 DEF Waiting
  <2> QED BY <2>1, <2>3, <2>6 DEF BlocksWaiting, mem
<1>6. ASSUME NEW k \in Code, BytecodeDownloaded(k) PROVE BlocksWaiting'
  <2> DEFINE U == UnlockedBy(buffer, k)
  <2>1. /\ UNCHANGED <<chain, installed>> /\ task' = Unlocking(U)
        /\ buffer' = OnBytecodeReceived(buffer, k)
    BY <1>6 DEF BytecodeDownloaded
  <2>2. BytecodeReceived(buffer', buffer, k) BY <1>2, <2>1, OnBytecodeReceivedEffect
  <2>3. U \in SUBSET Hash /\ \A x \in Hash : x \in U <=> buffer.missing_bytecodes[x] = {k}
    BY DEF UnlockedBy
  <2> HIDE DEF U
  <2>4. task'.unlocked = U /\ Pending(task') = {} BY <2>1, <2>3, UnlockingFacts
  <2>5. ASSUME NEW x \in Hash, Removable(buffer', x) PROVE x \in U \/ Removable(buffer, x)
    <3>1. /\ x \in buffer.blocks /\ buffer.witnesses[x] # None
          /\ buffer.missing_bytecodes[x] \ {k} = {}
      BY <2>2, <2>5 DEF BytecodeReceived, Removable, ReadyWitness
    <3>2. buffer.missing_bytecodes[x] = {} \/ buffer.missing_bytecodes[x] = {k} BY <3>1
    <3> QED BY <2>3, <3>1, <3>2 DEF Removable, ReadyWitness
  <2>6. buffer'.parent_to_child = buffer.parent_to_child BY <2>2 DEF BytecodeReceived
  <2>7. Waiting(buffer', U, {}, mem, installed) BY <1>2, <2>5, <2>6 DEF Waiting
  <2> QED BY <2>1, <2>4, <2>7 DEF BlocksWaiting, mem
<1>7. ASSUME UNCHANGED <<chain, installed, buffer>>, task'.unlocked = {}, Pending(task') = {}
      PROVE  BlocksWaiting'
  BY <1>2, <1>7 DEF BlocksWaiting, mem
<1>8. ASSUME NEW k \in Code, BytecodeLost(k) PROVE BlocksWaiting'
  BY <1>1, <1>7, <1>8, IdleFacts DEF BytecodeLost, tree
<1>9. ASSUME NEW h \in Hash, NEW kind \in {"finalized", "witness"}, EngineStops(kind, h)
      PROVE  BlocksWaiting'
  <2>1. UNCHANGED <<chain, buffer, installed>> /\ task' = [Idle EXCEPT !.on = "stopped"]
    BY <1>9 DEF EngineStops, tree
  <2>2. Pending(task') = {} /\ task'.unlocked = {} BY <2>1 DEF Idle, Pending, NoBlocks
  <2> QED BY <1>7, <2>1, <2>2
<1> QED BY <1>3, <1>4, <1>5, <1>6, <1>8, <1>9 DEF OnDownloadOutcome

\* Every step keeps it so.
LEMMA NextWaiting == EngineBase /\ Indexed(chain) /\ BlocksWaiting /\ [Next]_vars => BlocksWaiting'
<1> SUFFICES ASSUME EngineBase, Indexed(chain), BlocksWaiting, [Next]_vars PROVE BlocksWaiting' OBVIOUS
<1>1. CASE UNCHANGED <<chain, buffer, task, installed>> BY <1>1 DEF BlocksWaiting
<1>2. CASE OnNewPayload
  <2>1. PICK h \in Payloads : MalformedPayload(h) \/ UnrecoverablePayload(h) \/ RejectedPayload(h)
                                  \/ NewPayload(h)
    BY <1>2 DEF OnNewPayload
  <2>2. CASE NewPayload(h) BY <2>2, NewPayloadWaiting
  <2>3. CASE MalformedPayload(h) \/ UnrecoverablePayload(h) \/ RejectedPayload(h)
    <3>1. buffer' = RemoveWitness(buffer, h) /\ UNCHANGED <<chain, task, installed>>
      BY <2>3 DEF MalformedPayload, UnrecoverablePayload, RejectedPayload
    <3>2. LeftOf(buffer', buffer) /\ LinksKept(buffer', buffer)
      BY <3>1, RemoveWitnessEffect, EngineAssumption DEF WitnessRemoved, EngineBase
    <3>3. Waiting(buffer', task.unlocked, Pending(task), chain.blocks_by_hash, installed)
      BY <3>2, WaitingLeft DEF BlocksWaiting
    <3> QED BY <3>1, <3>3 DEF BlocksWaiting
  <2> QED BY <2>1, <2>2, <2>3
<1>3. CASE OnForkchoiceUpdated
  <2>1. PICK s \in ForkchoiceStates : \/ ForkchoiceRejected(s) \/ ForkchoiceCurrent(s)
                                      \/ ForkchoiceNewHead(s) \/ ForkchoiceKnownHead(s)
                                      \/ ForkchoiceSyncing(s)
    BY <1>3 DEF OnForkchoiceUpdated
  <2>2. CASE ForkchoiceNewHead(s) BY <2>2, NewHeadWaiting
  <2>3. CASE \/ ForkchoiceRejected(s) \/ ForkchoiceCurrent(s) \/ ForkchoiceKnownHead(s)
             \/ ForkchoiceSyncing(s)
    BY <1>1, <2>3 DEF ForkchoiceRejected, ForkchoiceCurrent, ForkchoiceKnownHead, ForkchoiceSyncing, tree
  <2> QED BY <2>1, <2>2, <2>3
<1>4. CASE Continue
  <2>1. ASSUME NEW h \in Hash, SkipUnlocked(h) PROVE BlocksWaiting'
    <3> DEFINE U == task.unlocked \ {h}
    <3>1. /\ UNCHANGED <<chain, buffer, installed>> /\ task' = Unlocking(U) /\ ~Removable(buffer, h)
      BY <2>1 DEF SkipUnlocked, tree
    <3>2. U \in SUBSET Hash BY DEF EngineBase, TypeOK, Task
    <3>3. task'.unlocked = U /\ Pending(task') = {} BY <3>1, <3>2, UnlockingFacts
    <3>4. LeftOf(buffer, buffer) /\ LinksKept(buffer, buffer) BY DEF LeftOf, WitnessesLeft, LinksKept
    <3>5. Waiting(buffer, U, {}, chain.blocks_by_hash, installed)
      BY <3>1, <3>4, WaitingLeft DEF BlocksWaiting
    <3> QED BY <3>1, <3>3, <3>5 DEF BlocksWaiting
  <2>2. CASE Finish
    <3>1. /\ UNCHANGED <<buffer, installed>>
          /\ chain' = chain \/ chain' = ChainAfterNewHead(chain, canonical_head, task.block)
          /\ (task.on = "payload" /\ task' = Idle) \/ task' = Unlocking(task.unlocked)
      BY <2>2 DEF Finish
    <3>2. /\ task.unlocked \in SUBSET Hash /\ chain \in Chain /\ canonical_head \in Hash
          /\ task.on = "payload" => task.unlocked = {}
      BY DEF EngineBase, TypeOK, Task, TaskOK
    <3>3. task'.unlocked = task.unlocked /\ Pending(task') = {} BY <3>1, <3>2, UnlockingFacts, IdleFacts
    <3>4. chain'.blocks_by_hash = chain.blocks_by_hash
      BY <3>1, <3>2, ChainAfterNewHeadType DEF SameBlocks
    <3>5. Waiting(buffer, task.unlocked, {}, chain.blocks_by_hash, installed)
      BY DEF BlocksWaiting, Waiting
    <3> QED BY <3>1, <3>3, <3>4, <3>5 DEF BlocksWaiting
  <2> QED BY <1>4, <2>1, <2>2, ConnectWaiting, InsertUnlockedWaiting DEF Continue
<1>5. CASE \/ PollDownloader \/ ParkedTimeout \/ \E h \in Hash : ForgetInvalid(h)
  BY <1>1, <1>5 DEF PollDownloader, ParkedTimeout, ForgetInvalid, tree
<1>6. CASE Restart
  <2>1. buffer' = NewBuffer BY <1>6 DEF Restart
  <2>2. \A x : ~Removable(NewBuffer, x) BY DEF NewBuffer, Removable
  <2> QED BY <2>1, <2>2 DEF BlocksWaiting, Waiting
<1>7. CASE UNCHANGED vars BY <1>1, <1>7 DEF vars, tree
<1> QED BY <1>2, <1>3, <1>4, <1>5, <1>6, <1>7, DownloadWaiting DEF Next

(***************************************************************************)
(* Between two messages, a block that could be executed is in the buffer   *)
(* only under a parent that a finalized download installed: every other    *)
(* way in which a parent, a witness or a bytecode arrives, in any order    *)
(* and through any eviction, connects the blocks that waited for it.       *)
(***************************************************************************)
THEOREM EngineConnects == Spec => []ExecutableOnlyUnderInstalled
<1>1. Init => BlocksWaiting /\ EngineBase /\ Indexed(chain)
  <2> SUFFICES ASSUME Init PROVE BlocksWaiting /\ EngineBase /\ Indexed(chain) OBVIOUS
  <2>1. Indexed(chain) BY HashAssumption, ParentAssumption DEF Init, GenesisChain, Indexed, Numbers
  <2>2. \A x : ~Removable(buffer, x) BY DEF Init, NewBuffer, Removable
  <2> QED BY <2>1, <2>2, InitBase DEF BlocksWaiting, Waiting
<1>2. BlocksWaiting => ExecutableOnlyUnderInstalled
  <2> SUFFICES ASSUME BlocksWaiting, task = Idle, NEW h \in Hash, Executable(h)
               PROVE  Parent[h] \in installed
    BY DEF ExecutableOnlyUnderInstalled
  <2> QED BY IdleFacts DEF BlocksWaiting, Waiting, Executable
<1> QED BY <1>1, <1>2, NextWaiting, NextBase, NextIndexed, PTL DEF Spec

\* No finalized block is installed when none is named.
LEMMA NoFinalDownload ==
    ASSUME \A s \in ForkchoiceStates : s.finalized = Zero, EngineBase, FinalizedNamed, NEW f \in Hash
    PROVE  ~FinalizedDownloaded(f)
<1> SUFFICES ASSUME FinalizedDownloaded(f) PROVE FALSE OBVIOUS
<1>1. outcomes # <<>> /\ Head(outcomes) = Req("finalized", f) BY DEF FinalizedDownloaded, NextOutcome
<1>2. outcomes \in Seq(Request) BY DEF EngineBase
<1>3. 1 \in 1..Len(outcomes) /\ outcomes[1] = Req("finalized", f) BY <1>1, <1>2
<1>4. IsFinal(Req("finalized", f)) BY <1>3 DEF FinalizedNamed
<1>5. f \in Finals BY <1>4 DEF IsFinal, Req
<1> QED BY <1>5, Distinct DEF Finals

\* While no forkchoice update names a finalized block, none is installed.
LEMMA NextUninstalled ==
    ASSUME \A s \in ForkchoiceStates : s.finalized = Zero
    PROVE  EngineBase /\ FinalizedNamed /\ installed = {} /\ [Next]_vars => (installed = {})'
<1> SUFFICES ASSUME EngineBase, FinalizedNamed, installed = {}, [Next]_vars PROVE installed' = {}
  OBVIOUS
<1>1. ASSUME NEW f \in Hash, FinalizedDownloaded(f) PROVE FALSE BY <1>1, NoFinalDownload
<1>2. CASE Next
  BY <1>1, <1>2, ChainSteps
     DEF ChainStep, Executed, ExecutedHead, MovedHead, ForkchoiceNewHead, Restart
<1> QED BY <1>2 DEF vars

(***************************************************************************)
(* While the consensus client names no finalized block, the buffer holds   *)
(* between two messages what block_buffer.rs:20 says: only blocks that     *)
(* cannot be executed yet.                                                 *)
(***************************************************************************)
THEOREM EngineLeavesNothing ==
    ASSUME \A s \in ForkchoiceStates : s.finalized = Zero
    PROVE  Spec => []NoExecutableBlockBuffered
<1>1. Init => FinalizedNamed /\ installed = {}
  BY DEF Init, FinalizedNamed
<1>2. EngineBase /\ FinalizedNamed /\ [Next]_vars => FinalizedNamed'
  BY NextFinalizedNamed DEF vars, FinalizedNamed
<1>3. ExecutableOnlyUnderInstalled /\ installed = {} => NoExecutableBlockBuffered
  BY DEF ExecutableOnlyUnderInstalled, NoExecutableBlockBuffered
<1> QED BY <1>1, <1>2, <1>3, NextUninstalled, EngineBaseInvariant, EngineConnects, PTL DEF Spec

-----------------------------------------------------------------------------
(***************************************************************************)
(* The canonical hashes cn lack nothing that a block of mem may ask for:   *)
(* no number up to the head that is in the window of one of the blocks,    *)
(* and not below the window of a block of inst, is without a hash.         *)
(***************************************************************************)
Present(cn, mem, head, inst) ==
    \A n \in Numbers, x \in mem :
        /\ n <= Number[head] /\ n + Window > Number[x]
        /\ \A f \in inst : Number[f] <= n + Window
        => cn[n] \in Hash

\* A new head replaces the hashes it takes away.
LEMMA NewHeadPresent ==
    ASSUME NEW c \in Chain, NEW head \in Hash, NEW new, NEW inst \in SUBSET Hash, NEW mem,
           Follows(c.canonical_hashes_by_number, head, inst),
           Present(c.canonical_hashes_by_number, mem, head, inst)
    PROVE  Present(ChainAfterNewHead(c, head, new).canonical_hashes_by_number, mem,
                   HeadAfterNewHead(c, head, new), inst)
<1>1. CASE ~HasNewChain(c, head, new) BY <1>1 DEF ChainAfterNewHead, HeadAfterNewHead
<1>2. CASE HasNewChain(c, head, new)
  <2> DEFINE f == ForkBlock(head, new)
             cn == c.canonical_hashes_by_number
             dn == ChainAfterNewHead(c, head, new).canonical_hashes_by_number
  <2>1. new \in Hash /\ HeadAfterNewHead(c, head, new) = new
    BY <1>2 DEF HasNewChain, HeadAfterNewHead, Chain
  <2>2. f \in Hash /\ f \in Ancestry[head] /\ f \in Ancestry[new]
    BY <1>2, <2>1, ForkBlockIs DEF HasNewChain
  <2>3. NewHeadHashes(dn, cn, head, new) BY <1>2, <2>1, ChainAfterNewHeadIs
  <2> HIDE DEF dn, cn
  <2>4. \A n \in Numbers :
            \/ /\ dn[n] \in Ancestry[new] /\ Number[dn[n]] = n
            \/ /\ \A x \in Ancestry[new] : Number[f] < Number[x] => Number[x] # n
               /\ dn[n] = IF cn[n] \in Ancestry[head] /\ Number[cn[n]] > Number[f] THEN None ELSE cn[n]
    BY <2>3 DEF NewHeadHashes
  <2> HIDE DEF f
  <2>5. Follows(cn, head, inst) /\ Present(cn, mem, head, inst) BY DEF cn
  <2>6. ASSUME NEW n \in Numbers, NEW x \in mem, n <= Number[new], n + Window > Number[x],
               \A y \in inst : Number[y] <= n + Window
        PROVE  dn[n] \in Hash
    <3>1. CASE dn[n] \in Ancestry[new] BY <2>1, <3>1, AncestryContains
    <3>2. CASE /\ \A y \in Ancestry[new] : Number[f] < Number[y] => Number[y] # n
               /\ dn[n] = IF cn[n] \in Ancestry[head] /\ Number[cn[n]] > Number[f] THEN None ELSE cn[n]
      <4>1. n \in Nat /\ Number[f] \in Nat /\ Number[head] \in Nat /\ Number[new] \in Nat
            /\ Number[f] <= Number[head]
        BY <2>1, <2>2, NumbersNat, AncestryLower
      <4>2. n <= Number[f]
        <5> SUFFICES ASSUME Number[f] < n PROVE FALSE BY <4>1
        <5>1. Number[f] <= n BY <4>1
        <5>2. \E y \in Ancestry[new] : Number[y] = n
          BY <2>1, <2>2, <2>6, <4>1, <5>1, AncestryContiguous
        <5> QED BY <3>2, <5>2
      <4>3. n <= Number[head] BY <4>1, <4>2
      <4>4. cn[n] \in Hash BY <2>5, <2>6, <4>3 DEF Present
      <4>5. Number[cn[n]] = n BY <2>5, <4>4 DEF Follows
      <4>6. ~(Number[cn[n]] > Number[f]) BY <4>1, <4>2, <4>5
      <4> QED BY <3>2, <4>4, <4>6
    <3> QED BY <2>4, <3>1, <3>2
  <2> QED BY <2>1, <2>6 DEF Present, dn
<1> QED BY <1>1, <1>2

\* Finalization drops the hashes that no block left in memory may ask for.
LEMMA FinalizedPresent ==
    ASSUME NEW c \in Chain, Indexed(c), NEW head \in Hash, NEW inst, NEW f,
           Present(c.canonical_hashes_by_number, c.blocks_by_hash, head, inst)
    PROVE  Present(OnFinalized(c, f).canonical_hashes_by_number, OnFinalized(c, f).blocks_by_hash,
                   head, inst)
<1>1. CASE f \notin c.blocks_by_hash BY <1>1, OnFinalizedType
<1>2. CASE f \in c.blocks_by_hash
  <2> DEFINE d == OnFinalized(c, f)
             cn == c.canonical_hashes_by_number
             dn == d.canonical_hashes_by_number
  <2>1. PrunedTo(d, c, f) /\ f \in Hash /\ c.blocks_by_hash \subseteq Hash
    BY <1>2, OnFinalizedType DEF Chain
  <2> HIDE DEF d
  <2>2. \A n \in Numbers : dn[n] = IF n + Window < Number[f] THEN None ELSE cn[n]
    BY <2>1 DEF PrunedTo, KeepWindow
  <2>3. d.blocks_by_hash = c.blocks_by_hash \ Pruned(c, f) BY <2>1 DEF PrunedTo
  <2>4. ASSUME NEW x \in d.blocks_by_hash PROVE x \in c.blocks_by_hash /\ ~(Number[x] < Number[f])
    BY <2>1, <2>3, <2>4, PrunedAre
  <2>5. Present(cn, c.blocks_by_hash, head, inst) OBVIOUS
  <2> HIDE DEF cn, dn
  <2>6. ASSUME NEW n \in Numbers, NEW x \in d.blocks_by_hash, n <= Number[head],
               n + Window > Number[x], \A y \in inst : Number[y] <= n + Window
        PROVE  dn[n] \in Hash
    <3>1. n \in Nat /\ Window \in Nat /\ Number[x] \in Nat /\ Number[f] \in Nat
      BY <2>1, <2>4, NumbersNat, WindowAssumption
    <3>2. ~(n + Window < Number[f]) BY <2>4, <2>6, <3>1
    <3>3. cn[n] \in Hash BY <2>4, <2>5, <2>6 DEF Present
    <3> QED BY <2>2, <3>2, <3>3
  <2>7. Present(dn, d.blocks_by_hash, head, inst) BY <2>6 DEF Present
  <2> QED BY <2>7 DEF dn, d
<1> QED BY <1>1, <1>2

\* A finalized download brings every hash of its window.
LEMMA InstalledPresent ==
    ASSUME NEW c \in Chain, NEW f \in Hash, NEW inst, NEW mem, Genesis \in Ancestry[f]
    PROVE  Present(InsertCanonicalHashes(c, {a \in Ancestry[f] : Number[a] + Window >= Number[f]})
                       .canonical_hashes_by_number, mem, f, inst \cup {f})
<1> DEFINE A == {a \in Ancestry[f] : Number[a] + Window >= Number[f]}
           dn == InsertCanonicalHashes(c, A).canonical_hashes_by_number
<1>1. A \in SUBSET Hash BY AncestryContains
<1>2. \A a : a \in A <=> a \in Ancestry[f] /\ Number[a] + Window >= Number[f] OBVIOUS
<1> HIDE DEF A
<1>3. dn = [n \in Numbers |-> IF \E h \in A : Number[h] = n THEN CHOOSE h \in A : Number[h] = n
                              ELSE c.canonical_hashes_by_number[n]]
  BY <1>1, InsertCanonicalHashesType
<1> HIDE DEF dn
<1>4. ASSUME NEW n \in Numbers, n <= Number[f], Number[f] <= n + Window PROVE dn[n] \in Hash
  <2>1. n \in Nat BY NumbersNat
  <2>2. Number[Genesis] = 0 BY HashAssumption, ParentAssumption
  <2>3. PICK x \in Ancestry[f] : Number[x] = n BY <1>4, <2>1, <2>2, AncestryContiguous
  <2>4. x \in A BY <1>2, <1>4, <2>1, <2>3, ParentAssumption, WindowAssumption
  <2>5. dn[n] = CHOOSE h \in A : Number[h] = n BY <1>3, <2>3, <2>4
  <2> QED BY <1>1, <2>3, <2>4, <2>5
<1>5. Present(dn, mem, f, inst \cup {f}) BY <1>4 DEF Present
<1> QED BY <1>5 DEF dn, A

\* The hashes the node starts with are all that the genesis block may ask for.
LEMMA GenesisPresent ==
    Present(GenesisChain.canonical_hashes_by_number, GenesisChain.blocks_by_hash, Genesis, {})
<1>1. GenesisChain.canonical_hashes_by_number = [n \in Numbers |-> IF n = 0 THEN Genesis ELSE None]
  BY DEF GenesisChain
<1>2. Genesis \in Hash /\ Number[Genesis] = 0 /\ Numbers \subseteq Nat
  BY HashAssumption, ParentAssumption, NumbersNat
<1>3. \A n \in Numbers : n <= Number[Genesis] => n = 0 BY <1>2
<1> QED BY <1>1, <1>2, <1>3 DEF Present

\* What BLOCKHASH needs of the canonical hashes.
HashesPresent ==
    Present(chain.canonical_hashes_by_number, chain.blocks_by_hash, canonical_head, installed)

\* No step loses a hash that a block in memory may ask for.
LEMMA NextPresent ==
    ASSUME TrustedForkchoice
    PROVE  EngineInv /\ HashesFollow /\ HashesPresent /\ [Next]_vars => HashesPresent'
<1> SUFFICES ASSUME EngineInv, HashesFollow, HashesPresent, [Next]_vars PROVE HashesPresent' OBVIOUS
<1>1. /\ chain \in Chain /\ Indexed(chain) /\ canonical_head \in Hash
      /\ chain.blocks_by_hash \subseteq Hash /\ installed \in SUBSET Hash
      /\ Follows(chain.canonical_hashes_by_number, canonical_head, installed)
      /\ Present(chain.canonical_hashes_by_number, chain.blocks_by_hash, canonical_head, installed)
  BY DEF EngineInv, EngineBase, TypeOK, Chain, HashesFollow, HashesPresent
<1>2. CASE UNCHANGED <<chain, canonical_head, installed>> BY <1>1, <1>2 DEF HashesPresent
<1>3. ASSUME NEW h \in Hash, Executed(h) \/ ExecutedHead(h) PROVE HashesPresent'
  <2> DEFINE d == ChainInsertBlock(chain, h, TRUE)
             cn == d.canonical_hashes_by_number
  <2>1. /\ d \in Chain /\ cn = chain.canonical_hashes_by_number
        /\ d.blocks_by_hash = chain.blocks_by_hash \cup {h}
    BY <1>1, ChainInsertBlockType DEF BlockAdded
  <2>2. /\ \/ chain' = d /\ canonical_head' = canonical_head
           \/ /\ chain' = ChainAfterNewHead(d, canonical_head, h)
              /\ canonical_head' = HeadAfterNewHead(d, canonical_head, h)
        /\ installed' = installed
        /\ Parent[h] \in chain.blocks_by_hash
    BY <1>3 DEF Executed, ExecutedHead, Insertable
  <2>h. ChainAfterNewHead(d, canonical_head, h).blocks_by_hash = d.blocks_by_hash
    <3> HIDE DEF d
    <3> QED BY <1>1, <2>1, ChainAfterNewHeadType DEF SameBlocks
  <2> HIDE DEF d, cn
  <2>3. Present(cn, d.blocks_by_hash, canonical_head, installed)
    <3>1. ASSUME NEW n \in Numbers, NEW x \in d.blocks_by_hash, n <= Number[canonical_head],
                 n + Window > Number[x], \A f \in installed : Number[f] <= n + Window
          PROVE  cn[n] \in Hash
      <4>1. CASE x \in chain.blocks_by_hash BY <1>1, <2>1, <3>1, <4>1 DEF Present
      <4>2. CASE x = h
        <5>1. Number[h] \in Nat /\ Number[Parent[h]] \in Nat /\ Number[h] = Number[Parent[h]] + 1
          BY <1>1, <2>2, ParentNumber
        <5>2. n + Window > Number[Parent[h]] BY <3>1, <4>2, <5>1, NumbersNat, WindowAssumption
        <5> QED BY <1>1, <2>1, <2>2, <3>1, <5>2 DEF Present
      <4> QED BY <2>1, <4>1, <4>2
    <3> QED BY <3>1 DEF Present
  <2>4. Present(d.canonical_hashes_by_number, d.blocks_by_hash, canonical_head, installed)
    BY <2>3 DEF cn
  <2>5. Follows(d.canonical_hashes_by_number, canonical_head, installed) BY <1>1, <2>1 DEF cn
  <2>6. Present(ChainAfterNewHead(d, canonical_head, h).canonical_hashes_by_number, d.blocks_by_hash,
                HeadAfterNewHead(d, canonical_head, h), installed)
    BY <1>1, <2>1, <2>4, <2>5, NewHeadPresent
  <2> QED BY <2>2, <2>4, <2>6, <2>h DEF HashesPresent
<1>4. ASSUME NEW h \in Hash, MovedHead(h) PROVE HashesPresent'
  <2>1. Present(ChainAfterNewHead(chain, canonical_head, h).canonical_hashes_by_number,
                chain.blocks_by_hash, HeadAfterNewHead(chain, canonical_head, h), installed)
    BY <1>1, NewHeadPresent
  <2>2. ChainAfterNewHead(chain, canonical_head, h).blocks_by_hash = chain.blocks_by_hash
    BY <1>1, ChainAfterNewHeadType DEF SameBlocks
  <2> QED BY <1>4, <2>1, <2>2 DEF HashesPresent, MovedHead
<1>5. ASSUME NEW f \in Hash, FinalizedDownloaded(f) PROVE HashesPresent'
  <2> DEFINE A == {a \in Ancestry[f] : Number[a] + Window >= Number[f]}
             d == InsertCanonicalHashes(chain, A)
  <2>1. A \in SUBSET Hash BY AncestryContains
  <2>2. /\ chain' = ChainInsertBlock(d, f, FALSE) /\ canonical_head' = f
        /\ installed' = installed \cup {f}
    BY <1>5 DEF FinalizedDownloaded
  <2>3. Genesis \in Ancestry[f] BY <1>5, InstalledIsFinal DEF EngineInv, VerdictInv
  <2>4. Present(d.canonical_hashes_by_number, chain'.blocks_by_hash, f, installed \cup {f})
    BY <1>1, <2>3, InstalledPresent
  <2> HIDE DEF A
  <2>5. d \in Chain BY <1>1, <2>1, InsertCanonicalHashesType
  <2> HIDE DEF d
  <2>6. chain'.canonical_hashes_by_number = d.canonical_hashes_by_number
    BY <2>2, <2>5, ChainInsertBlockType DEF BlockAdded
  <2> QED BY <2>2, <2>4, <2>6 DEF HashesPresent
<1>6. ASSUME NEW s \in ForkchoiceStates, ForkchoiceNewHead(s) PROVE HashesPresent'
  <2> DEFINE d == ChainAfterNewHead(chain, canonical_head, s.head)
  <2>1. /\ canonical_head' = s.head /\ installed' = installed
        /\ chain' = d \/ chain' = OnFinalized(d, s.finalized)
        /\ HasNewChain(chain, canonical_head, s.head)
    BY <1>6 DEF ForkchoiceNewHead
  <2>2. s.head \in Hash /\ HeadAfterNewHead(chain, canonical_head, s.head) = s.head
    BY <1>1, <2>1 DEF HasNewChain, HeadAfterNewHead
  <2>3. d \in Chain /\ SameBlocks(d, chain) BY <1>1, ChainAfterNewHeadType
  <2>4. Indexed(d) BY <1>1, <2>3, SameBlocksIndexed
  <2>5. Present(d.canonical_hashes_by_number, chain.blocks_by_hash, s.head, installed)
    BY <1>1, <2>2, NewHeadPresent
  <2> HIDE DEF d
  <2>6. Present(d.canonical_hashes_by_number, d.blocks_by_hash, s.head, installed)
    BY <2>3, <2>5 DEF SameBlocks
  <2>7. Present(OnFinalized(d, s.finalized).canonical_hashes_by_number,
                OnFinalized(d, s.finalized).blocks_by_hash, s.head, installed)
    BY <2>2, <2>3, <2>4, <2>6, FinalizedPresent
  <2> QED BY <2>1, <2>6, <2>7 DEF HashesPresent
<1>7. CASE Restart
  <2>1. chain' = GenesisChain /\ canonical_head' = Genesis /\ installed' = {} BY <1>7 DEF Restart
  <2> QED BY <2>1, GenesisPresent DEF HashesPresent
<1>8. CASE UNCHANGED vars BY <1>8, <1>2 DEF vars, tree
<1> QED BY <1>2, <1>3, <1>4, <1>5, <1>6, <1>7, <1>8, ChainSteps DEF ChainStep, EngineInv

(***************************************************************************)
(* block_hash finds what the canonical hashes and the blocks in memory     *)
(* hold, for a block whose ancestors in memory lead to the chain of the    *)
(* canonical head.  The walk through memory ends above the number asked    *)
(* for, at a block whose parent is not in memory: that parent is on the    *)
(* canonical chain, and so is the hash below it.                           *)
(***************************************************************************)
LEMMA BlockHashIs ==
    ASSUME EngineInv, HashesFollow, HashesPresent,
           NEW p \in chain.blocks_by_hash, NEW n \in Numbers,
           OnCanonicalChain(p), n <= Number[p], n + Window > Number[p],
           \A f \in installed : Number[f] <= n + Window
    PROVE  BlockHash(chain, p, n) = AncestorAt(p, n)
<1> DEFINE mem == chain.blocks_by_hash
           cn == chain.canonical_hashes_by_number
           Held(a) == \A x \in Ancestry[p] : Number[x] >= Number[a] => x \in mem
           known == {a \in Ancestry[p] : Held(a)}
           first == {a \in Ancestry[p] \ known : a = p \/ \E k \in known : Parent[k] = a}
           links == \E a \in first : n <= Number[a] /\ cn[Number[a]] = a
<1>1. /\ p \in Hash /\ canonical_head \in Hash /\ installed \in SUBSET Hash /\ mem \subseteq Hash
      /\ Follows(cn, canonical_head, installed)
      /\ Present(cn, mem, canonical_head, installed)
  BY DEF EngineInv, EngineBase, TypeOK, Chain, HashesFollow, HashesPresent
<1>2. PICK a \in Ancestry[p] \cap Ancestry[canonical_head] : Above(p, a) \subseteq mem
  BY DEF OnCanonicalChain
<1>3. /\ n \in Nat /\ Window \in Nat /\ Ancestry[p] \subseteq Hash /\ p \in Ancestry[p]
      /\ \A x \in Hash : Number[x] \in Nat
  BY <1>1, NumbersNat, AncestryContains, WindowAssumption, ParentAssumption
<1>4. BlockHash(chain, p, n) = IF \E k \in known : Number[k] = n
                                 THEN CHOOSE k \in known : Number[k] = n
                               ELSE IF links THEN cn[n] ELSE None
  BY DEF BlockHash
<1>5. \A k : k \in known <=> k \in Ancestry[p] /\ Held(k) OBVIOUS
<1>6. \A q : q \in first <=> q \in Ancestry[p] /\ q \notin known /\ (q = p \/ \E k \in known : Parent[k] = q)
  OBVIOUS
<1>7. p \in known
  <2>1. \A x \in Ancestry[p] : Number[x] >= Number[p] => x = p BY <1>1, <1>3, AncestryLower
  <2> QED BY <1>3, <1>5, <2>1
<1> HIDE DEF known, first
<1>8. CASE \E k \in known : Number[k] = n
  <2>1. PICK k \in known : Number[k] = n BY <1>8
  <2>2. BlockHash(chain, p, n) \in known /\ Number[BlockHash(chain, p, n)] = n BY <1>4, <1>8
  <2>3. BlockHash(chain, p, n) = k BY <1>1, <1>5, <2>1, <2>2, AncestryUnique
  <2> QED BY <1>1, <1>5, <2>1, <2>3, AncestorAtNumber
<1>9. CASE ~\E k \in known : Number[k] = n
  <2>1. known \subseteq Ancestry[p] BY <1>5
  <2>2. ASSUME NEW k \in known PROVE Number[k] > n
    <3> SUFFICES ASSUME Number[k] < n PROVE FALSE BY <1>3, <1>9, <2>1
    <3>1. Number[k] <= n BY <1>3, <2>1
    <3>2. PICK x \in Ancestry[p] : Number[x] = n
      BY <1>1, <1>3, <2>1, <3>1, AncestryContiguous
    <3>3. Held(x) BY <1>3, <1>5, <2>1, <3>1, <3>2
    <3> QED BY <1>5, <1>9, <3>2, <3>3
  <2>3. \A x \in first : \E k \in known : Parent[k] = x BY <1>6, <1>7
  <2>4. ASSUME NEW q \in first
        PROVE  /\ q \in Ancestry[canonical_head] /\ n <= Number[q]
               /\ cn[Number[q]] = q
               /\ cn[n] \in Ancestry[p] /\ Number[cn[n]] = n
    <3>1. q \in Ancestry[p] /\ q \notin known /\ q \in Hash BY <1>3, <1>6
    <3>2. PICK k \in known : Parent[k] = q BY <2>3
    <3>3. Number[k] = Number[q] + 1 /\ Number[k] > n /\ Number[k] \in Nat /\ Number[q] \in Nat
      BY <1>3, <2>1, <2>2, <3>1, <3>2, ParentNumber
    <3>4. n <= Number[q] BY <1>3, <3>3
    <3>5. a \in Hash /\ Number[a] \in Nat BY <1>2, <1>3
    <3>6. Number[q] <= Number[a]
      <4> SUFFICES ASSUME Number[a] < Number[q] PROVE FALSE BY <3>3, <3>5
      <4>1. q \in mem BY <1>2, <3>1, <3>3, <3>5 DEF Above
      <4>2. ASSUME NEW x \in Ancestry[p], Number[x] >= Number[q] PROVE x \in mem
        <5>1. CASE Number[x] = Number[q] BY <1>1, <3>1, <4>1, <5>1, AncestryUnique
        <5>2. CASE Number[x] # Number[q]
          <6>1. Number[x] >= Number[k] BY <1>3, <3>3, <4>2, <5>2
          <6> QED BY <1>5, <6>1
        <5> QED BY <5>1, <5>2
      <4> QED BY <1>5, <3>1, <4>2
    <3>7. q \in Ancestry[a] BY <1>1, <1>2, <3>1, <3>6, AncestryLinear
    <3>8. q \in Ancestry[canonical_head] BY <1>1, <1>2, <3>7, AncestryTrans
    <3>9. Number[q] <= Number[canonical_head] /\ Number[canonical_head] \in Nat
      BY <1>1, <3>8, AncestryLower
    <3>10. ASSUME NEW m \in Numbers, n <= m, m <= Number[q]
           PROVE  cn[m] \in Ancestry[canonical_head] /\ Number[cn[m]] = m
      <4>1. m \in Nat BY NumbersNat
      <4>2. /\ m <= Number[canonical_head] /\ m + Window > Number[p]
            /\ \A f \in installed : Number[f] <= m + Window
        BY <1>1, <1>3, <3>3, <3>9, <3>10, <4>1
      <4>3. cn[m] \in Hash BY <1>1, <4>2 DEF Present
      <4>4. Covered(installed, canonical_head, m) BY <4>2 DEF Covered
      <4> QED BY <1>1, <4>3, <4>4 DEF Follows
    <3>11. Number[q] \in Numbers BY <3>1, NumbersNat
    <3>12. cn[Number[q]] \in Ancestry[canonical_head] /\ Number[cn[Number[q]]] = Number[q]
      BY <3>3, <3>4, <3>10, <3>11
    <3>13. cn[Number[q]] = q BY <1>1, <3>8, <3>12, AncestryUnique
    <3>14. cn[n] \in Ancestry[canonical_head] /\ Number[cn[n]] = n BY <1>3, <3>4, <3>10
    <3>15. cn[n] \in Ancestry[q] BY <1>1, <3>4, <3>8, <3>14, AncestryLinear
    <3>16. cn[n] \in Ancestry[p] BY <1>1, <3>1, <3>15, AncestryTrans
    <3> QED BY <3>4, <3>8, <3>13, <3>14, <3>16
  <2>5. CASE first # {}
    <3>1. PICK q \in first : TRUE BY <2>5
    <3>2. links BY <2>4, <3>1
    <3>3. BlockHash(chain, p, n) = cn[n] BY <1>4, <1>9, <3>2
    <3>4. cn[n] \in Ancestry[p] /\ Number[cn[n]] = n BY <2>4, <3>1
    <3> QED BY <1>1, <3>3, <3>4, AncestorAtNumber
  <2>6. CASE first = {}
    <3>1. ~links BY <2>6
    <3>2. BlockHash(chain, p, n) = None BY <1>4, <1>9, <3>1
    <3>3. Ancestry[p] \subseteq known
      <4>1. ASSUME NEW x \in Hash, x \in known, Parent[x] \in Hash PROVE Parent[x] \in known
        <5>1. Parent[x] \in Ancestry[p] BY <1>1, <2>1, <4>1, AncestryContains
        <5> QED BY <1>6, <2>6, <4>1, <5>1
      <4> QED BY <1>1, <1>7, <4>1, AncestryLeast
    <3>4. ~\E x \in Ancestry[p] : Number[x] = n BY <1>9, <3>3
    <3> QED BY <3>2, <3>4 DEF AncestorAt
  <2> QED BY <2>5, <2>6
<1> QED BY <1>8, <1>9

(***************************************************************************)
(* BLOCKHASH answers with the block's own ancestor, for every number in    *)
(* its window, whatever executions, reorgs, finalized downloads and        *)
(* prunings went before.                                                   *)
(***************************************************************************)
THEOREM EngineBlockHash == ASSUME TrustedForkchoice PROVE Spec => []BlockHashIsRight
<1>1. Init => HashesFollow /\ HashesPresent
  BY GenesisFollows, GenesisPresent DEF Init, HashesFollow, HashesPresent
<1>2. EngineInv /\ HashesFollow /\ [Next]_vars => HashesFollow' BY NextFollows
<1>3. EngineInv /\ HashesFollow /\ HashesPresent /\ [Next]_vars => HashesPresent' BY NextPresent
<1>4. EngineInv /\ HashesFollow /\ HashesPresent => BlockHashIsRight
  BY BlockHashIs DEF BlockHashIsRight
<1>5. Spec => []EngineInv BY EngineInvariant
<1> QED BY <1>1, <1>2, <1>3, <1>4, <1>5, PTL DEF Spec

-----------------------------------------------------------------------------
(***************************************************************************)
(* What lets the engine drop a good block: a finalized block, which prunes *)
(* the chain and evicts from the buffer; a witness that fails; a buffer    *)
(* that is full.                                                           *)
(***************************************************************************)
NothingDropped ==
    /\ \A s \in ForkchoiceStates : s.finalized = Zero
    /\ \A w \in Witness : w.state = "full"
    /\ Cardinality(Hash) <= MaxBlocks

\* What lets it drop the witness and not the block: a malformed payload under the block's
\* hash, a database that fails when the witness arrives.
NoWitnessDropped == "malformed" \notin Faults /\ "database" \notin Faults

\* The requests in flight and the ones whose outcome waits to be handled.
Asks == inflight \cup {outcomes[i] : i \in 1..Len(outcomes)}

(***************************************************************************)
(* While mem is in memory and P is being connected, every other good block *)
(* and its witness are two halves: when the buffer b holds or the requests *)
(* Q bring the witness, it holds or they bring the block; and the other    *)
(* way round, unless a witness may be dropped.                             *)
(***************************************************************************)
Halves(b, Q, mem, P) ==
    \A x \in Hash : Good(x) /\ x \notin mem /\ x \notin P =>
        LET block   == x \in b.blocks \/ Req("block", x) \in Q
            witness == b.witnesses[x] # None \/ Req("witness", x) \in Q
        IN  (witness => block) /\ (NoWitnessDropped /\ block => witness)

\* Blocks being connected have left the buffer, and the others are pursued as Halves says.
Pursued(b, Q, mem, P) == Halves(b, Q, mem, P) /\ \A x \in P : x \notin b.blocks

\* A step keeps it when both halves of a block stay as they are, or are both there.
LEMMA PursuedStep ==
    ASSUME NEW b, NEW Q, NEW mem, NEW P, Pursued(b, Q, mem, P),
           NEW f, NEW R, NEW new, NEW T,
           \A x \in T : x \notin f.blocks,
           \A x \in Hash : Good(x) /\ x \notin new /\ x \notin T =>
               \/ /\ x \notin mem /\ x \notin P
                  /\ x \in f.blocks \/ Req("block", x) \in R <=> x \in b.blocks \/ Req("block", x) \in Q
                  /\ f.witnesses[x] # None \/ Req("witness", x) \in R
                        <=> b.witnesses[x] # None \/ Req("witness", x) \in Q
               \/ /\ x \in f.blocks \/ Req("block", x) \in R
                  /\ f.witnesses[x] # None \/ Req("witness", x) \in R
    PROVE  Pursued(f, R, new, T)
<1>1. ASSUME NEW x \in Hash, Good(x), x \notin new, x \notin T
      PROVE  /\ f.witnesses[x] # None \/ Req("witness", x) \in R
                    => x \in f.blocks \/ Req("block", x) \in R
             /\ NoWitnessDropped /\ (x \in f.blocks \/ Req("block", x) \in R)
                    => f.witnesses[x] # None \/ Req("witness", x) \in R
  <2>1. x \notin mem /\ x \notin P =>
            /\ b.witnesses[x] # None \/ Req("witness", x) \in Q
                   => x \in b.blocks \/ Req("block", x) \in Q
            /\ NoWitnessDropped /\ (x \in b.blocks \/ Req("block", x) \in Q)
                   => b.witnesses[x] # None \/ Req("witness", x) \in Q
    BY <1>1 DEF Pursued, Halves
  <2>2. CASE /\ x \notin mem /\ x \notin P
             /\ x \in f.blocks \/ Req("block", x) \in R <=> x \in b.blocks \/ Req("block", x) \in Q
             /\ f.witnesses[x] # None \/ Req("witness", x) \in R
                   <=> b.witnesses[x] # None \/ Req("witness", x) \in Q
    BY <2>1, <2>2
  <2> QED BY <1>1, <2>2
<1> QED BY <1>1 DEF Pursued, Halves

\* The blocks of the tree and their witnesses, as the engine holds and asks for them.
BlocksPursued == Pursued(buffer, Asks, chain.blocks_by_hash, Pending(task))

\* Where a witness may be dropped, a step may lose one.
LEMMA WitnessLost ==
    ASSUME ~NoWitnessDropped, BlocksPursued, Pending(task) = {}, Pending(task') = {},
           chain' = chain, buffer'.blocks = buffer.blocks,
           \A x \in Hash : /\ Req("block", x) \in Asks' <=> Req("block", x) \in Asks
                           /\ Req("witness", x) \in Asks' => Req("witness", x) \in Asks
                           /\ buffer'.witnesses[x] # None => buffer.witnesses[x] # None
    PROVE  BlocksPursued'
<1>1. Pursued(buffer, Asks, chain.blocks_by_hash, {}) BY DEF BlocksPursued
<1>2. Pursued(buffer', Asks', chain.blocks_by_hash, {}) BY <1>1 DEF Pursued, Halves
<1> QED BY <1>2 DEF BlocksPursued

\* No handler answers or asks for anything of the blocks of a request but these.
LEMMA RequestsOf ==
    ASSUME NEW b, NEW m, NEW x \in Hash
    PROVE  /\ Req("block", x) \in BlockRequests(b, m) <=> x = m
           /\ Req("witness", x) \in BlockRequests(b, m) => x = m
           /\ x = m => b.witnesses[x] # None \/ Req("witness", x) \in BlockRequests(b, m)
           /\ Req("block", x) \notin WitnessRequest(m)
           /\ Req("witness", x) \in WitnessRequest(m) <=> x = m
           /\ \A missing : /\ Req("block", x) \notin BytecodeRequests(missing)
                           /\ Req("witness", x) \notin BytecodeRequests(missing)
BY DEF BlockRequests, WitnessRequest, BytecodeRequests, Req

\* What a step that takes no outcome does to the requests.
LEMMA AsksMore ==
    ASSUME NEW R, inflight' = inflight \cup R, outcomes' = outcomes PROVE Asks' = Asks \cup R
BY DEF Asks

\* A poll only moves requests from one place to the other.
LEMMA AsksPolled == ASSUME EngineBase, PollDownloader PROVE Asks' = Asks
<1>1. outcomes = <<>> /\ Len(outcomes) = 0 BY DEF PollDownloader
<1>2. PICK batch \in Batches :
          outcomes' = batch /\ inflight' = inflight \ {batch[i] : i \in DOMAIN batch}
  BY DEF PollDownloader
<1>3. DOMAIN outcomes' = 1..Len(outcomes') BY PollBase DEF EngineBase
<1>4. \A i \in DOMAIN batch : batch[i] \in inflight BY <1>2 DEF Batches
<1>5. Asks = inflight BY <1>1 DEF Asks
<1>6. Asks' = (inflight \ {batch[i] : i \in DOMAIN batch}) \cup {batch[i] : i \in DOMAIN batch}
  BY <1>2, <1>3 DEF Asks
<1> QED BY <1>4, <1>5, <1>6

\* The handler of an outcome gives up that request, and no other.
LEMMA OutcomeTaken ==
    ASSUME outcomes \in Seq(Request), NEW kind, NEW id, outcomes # <<>>,
           Head(outcomes) = Req(kind, id), outcomes' = Tail(outcomes),
           NEW R, inflight' = inflight \cup R
    PROVE  /\ Req(kind, id) \in Asks
           /\ \A q : q # Req(kind, id) => (q \in Asks' <=> q \in Asks \/ q \in R)
<1>1. outcomes[1] = Req(kind, id) /\ 1 \in 1..Len(outcomes) OBVIOUS
<1>2. /\ Len(outcomes') = Len(outcomes) - 1
      /\ \A i \in 1..Len(outcomes') : i + 1 \in 1..Len(outcomes) /\ outcomes'[i] = outcomes[i + 1]
      /\ \A i \in 1..Len(outcomes) : i # 1 => i - 1 \in 1..Len(outcomes') /\ outcomes'[i - 1] = outcomes[i]
  OBVIOUS
<1>3. ASSUME NEW q, q # Req(kind, id)
      PROVE  (\E i \in 1..Len(outcomes') : outcomes'[i] = q) <=> \E i \in 1..Len(outcomes) : outcomes[i] = q
  BY <1>1, <1>2, <1>3
<1>4. \A q : /\ q \in Asks <=> q \in inflight \/ \E i \in 1..Len(outcomes) : outcomes[i] = q
             /\ q \in Asks' <=> q \in inflight' \/ \E i \in 1..Len(outcomes') : outcomes'[i] = q
  BY DEF Asks
<1> QED BY <1>1, <1>3, <1>4

\* The same of the handlers that go on.
LEMMA AsksTaken ==
    ASSUME EngineBase, NEW kind, NEW id, NextOutcome(kind, id),
           NEW R, inflight' = inflight \cup R
    PROVE  /\ Req(kind, id) \in Asks
           /\ \A q : q # Req(kind, id) => (q \in Asks' <=> q \in Asks \/ q \in R)
BY OutcomeTaken DEF NextOutcome, EngineBase

\* A buffer with room for every block evicts none for another.
LEMMA RoomForAll ==
    ASSUME Cardinality(Hash) <= MaxBlocks, NEW b, BufferOK(b), NEW h \in Hash
    PROVE  /\ InsertBlock(b, h).blocks = b.blocks \cup {h}
           /\ \A x \in Hash : InsertBlock(b, h).witnesses[x] = b.witnesses[x]
<1>1. b \in Buffer /\ LruKeys(b.lru) = b.blocks /\ b.blocks \subseteq Hash /\ IsFiniteSet(Hash)
  BY HashAssumption DEF BufferOK, LruOrders, Buffer
<1>2. Victims(b, h) = {}
  <2> SUFFICES ASSUME h \notin b.blocks, MaxBlocks <= Cardinality(b.blocks) PROVE FALSE
    BY <1>1 DEF Victims
  <2>1. IsFiniteSet(Hash \ {h}) /\ Cardinality(Hash \ {h}) = Cardinality(Hash) - 1
        /\ Cardinality(Hash) \in Nat
    BY <1>1, FS_RemoveElement, FS_CardinalityType
  <2>2. b.blocks \subseteq Hash \ {h} BY <1>1
  <2>3. Cardinality(b.blocks) <= Cardinality(Hash \ {h}) /\ Cardinality(b.blocks) \in Nat
    BY <2>1, <2>2, FS_Subset, FS_CardinalityType
  <2> QED BY <2>1, <2>3, BufferAssumption
<1>3. /\ InsertBlock(b, h).blocks = (b.blocks \cup {h}) \ ({} \cap (b.blocks \cup {h}))
      /\ InsertBlock(b, h).witnesses =
             [x \in Hash |-> IF x \in {} \cap (b.blocks \cup {h}) THEN None ELSE b.witnesses[x]]
  BY <1>1, <1>2 DEF InsertBlock, EvictBlocks, DropWitnesses, Unindex, Buffer
<1> QED BY <1>3

\* What insert_block then does to the buffer.
LEMMA RoomAfterInsert ==
    ASSUME Cardinality(Hash) <= MaxBlocks, NEW b, BufferOK(b), NEW h \in Hash,
           NEW w \in Witness \cup {None}, NEW r
    PROVE  /\ r \notin {"Disconnected", "NoWitness"} => BufferAfterInsert(b, h, w, r) = b
           /\ r = "Disconnected" \/ (r = "NoWitness" /\ w = None) =>
                  /\ BufferAfterInsert(b, h, w, r).blocks = b.blocks \cup {h}
                  /\ \A x \in Hash : BufferAfterInsert(b, h, w, r).witnesses[x] =
                                         IF x = h /\ w # None THEN w ELSE b.witnesses[x]
<1> DEFINE i == InsertWitness(b, h, w, {})
<1>1. (BufferOK(i) /\ WitnessInserted(i, b, h, w, {})) \/ w = None
  BY InsertWitnessOK, InsertWitnessEffect
<1>2. r = "Disconnected" => BufferAfterInsert(b, h, w, r) = InsertBlock(IF w = None THEN b ELSE i, h)
  BY DEF BufferAfterInsert
<1>3. r = "NoWitness" => BufferAfterInsert(b, h, w, r) = InsertBlock(b, h) BY DEF BufferAfterInsert
<1>4. r \notin {"Disconnected", "NoWitness"} => BufferAfterInsert(b, h, w, r) = b
  BY DEF BufferAfterInsert
<1> HIDE DEF i
<1>5. /\ InsertBlock(b, h).blocks = b.blocks \cup {h}
      /\ \A x \in Hash : InsertBlock(b, h).witnesses[x] = b.witnesses[x]
  BY RoomForAll
<1>6. CASE w = None BY <1>2, <1>3, <1>4, <1>5, <1>6
<1>7. CASE w # None
  <2>1. /\ InsertBlock(i, h).blocks = i.blocks \cup {h}
        /\ \A x \in Hash : InsertBlock(i, h).witnesses[x] = i.witnesses[x]
    BY <1>1, <1>7, RoomForAll
  <2>2. i.blocks = b.blocks /\ \A x \in Hash : i.witnesses[x] = IF x = h THEN w ELSE b.witnesses[x]
    BY <1>1, <1>7 DEF WitnessInserted
  <2> QED BY <1>2, <1>4, <1>7, <2>1, <2>2
<1> QED BY <1>6, <1>7

\* What the removals leave of the blocks and witnesses they do not return.
LEMMA RemovalsLeave ==
    ASSUME NEW b, BufferOK(b), NEW h \in Hash
    PROVE  /\ \A x \in Hash : x # h => RemoveWitness(b, h).witnesses[x] = b.witnesses[x]
           /\ RemoveWitness(b, h).blocks = b.blocks
           /\ ReadyWitness(b, h) = None =>
                  RemoveWitness(b, h).witnesses[h] = b.witnesses[h]
           /\ \A x \in Hash : x # h => /\ RemoveBlock(b, h).witnesses[x] = b.witnesses[x]
                                       /\ x \in RemoveBlock(b, h).blocks <=> x \in b.blocks
           /\ \A x \in Hash : RemovedWithChildren(b, h)[x] = None =>
                  /\ RemoveBlockWithChildren(b, h).witnesses[x] = b.witnesses[x]
                  /\ x \in RemoveBlockWithChildren(b, h).blocks <=> x \in b.blocks
           /\ \A x \in Hash : RemovedWithChildren(b, h)[x] # None =>
                  x \notin RemoveBlockWithChildren(b, h).blocks
<1>1. b \in Buffer BY DEF BufferOK
<1>2. /\ \A x \in Hash : x # h => RemoveWitness(b, h).witnesses[x] = b.witnesses[x]
      /\ RemoveWitness(b, h).blocks = b.blocks
      /\ ReadyWitness(b, h) = None => RemoveWitness(b, h).witnesses[h] = b.witnesses[h]
  BY <1>1 DEF RemoveWitness, ReadyWitness, Buffer
<1>3. \A x \in Hash : x # h => /\ RemoveBlock(b, h).witnesses[x] = b.witnesses[x]
                               /\ x \in RemoveBlock(b, h).blocks <=> x \in b.blocks
  BY <1>1 DEF RemoveBlock, DropWitnesses, Unindex, Buffer
<1>4. ASSUME NEW x \in Hash, RemovedWithChildren(b, h)[x] = None
      PROVE  /\ RemoveBlockWithChildren(b, h).witnesses[x] = b.witnesses[x]
             /\ x \in RemoveBlockWithChildren(b, h).blocks <=> x \in b.blocks
  <2> DEFINE removed == {y \in Linked(b, {h}) : Removable(b, y)}
  <2>1. x \notin removed
    BY <1>4 DEF RemovedWithChildren, Removable, ReadyWitness
  <2>2. RemoveBlockWithChildren(b, h) = Unlink(DropWitnesses(Unindex(b, removed), removed), Linked(b, {h}))
    BY DEF RemoveBlockWithChildren
  <2> HIDE DEF removed
  <2> QED BY <1>1, <2>1, <2>2 DEF Unlink, DropWitnesses, Unindex, Buffer
<1>5. \A x \in Hash : RemovedWithChildren(b, h)[x] # None => x \notin RemoveBlockWithChildren(b, h).blocks
  BY RemoveBlockWithChildrenEffect DEF WithChildrenRemoved
<1> QED BY <1>2, <1>3, <1>4, <1>5

\* The bytecodes are accounted for, and the witnesses are those of their blocks.
Accounted == BytecodesAccountedFor /\ WitnessesFit

\* A complete witness that is full lacks no bytecode that execution asks for.
LEMMA ReadyCodes ==
    ASSUME Accounted, NEW h \in Hash, ReadyWitness(buffer, h) # None,
           ReadyWitness(buffer, h).state = "full"
    PROVE  CodesOf[h] \subseteq database
<1> DEFINE w == buffer.witnesses[h]
<1>1. w # None /\ buffer.missing_bytecodes[h] = {} /\ w.state = "full" BY DEF ReadyWitness
<1>2. w.codes \subseteq database BY <1>1 DEF Accounted, BytecodesAccountedFor
<1>3. w \in WitnessesOf(h) BY <1>1 DEF Accounted, WitnessesFit
<1> QED BY <1>1, <1>2, <1>3, WitnessType

\* insert_block does not fail on a witness that is complete.
LEMMA NoFatal ==
    ASSUME \A x \in Witness : x.state = "full",
           NEW h \in Hash, NEW w \in Witness \cup {None}, NEW c,
           w # None /\ w.state = "full" => CodesOf[h] \subseteq database
    PROVE  InsertExit(c, database, h, w) # "Fatal"
<1>1. w # None => w.state # "corrupt" /\ CodesOf[h] \subseteq database OBVIOUS
<1> QED BY <1>1 DEF InsertExit, ExecuteExit

\* A block that insert_block calls invalid is not good.
LEMMA InvalidNotGood ==
    ASSUME NEW h \in Hash, NEW c, NEW db, NEW w, InsertExit(c, db, h, w) = "Invalid" PROVE ~Good(h)
<1>1. Verdict[h] # "valid" BY InsertExitIs
<1> QED BY <1>1, AncestryContains DEF Good

\* A payload keeps both halves of every block, its own too.
LEMMA NewPayloadPursued ==
    ASSUME NothingDropped, EngineBase, Accounted, BlocksPursued,
           NEW h \in Payloads, NewPayload(h)
    PROVE  BlocksPursued'
<1> DEFINE w == ReadyWitness(buffer, h)
           b == RemoveWitness(buffer, h)
           r == InsertExit(chain, database, h, w)
           t == [Idle EXCEPT !.on = "payload", !.block = h, !.has_witness = (w # None),
                             !.connect = RemovedWithChildren(b, h)]
           mem == chain.blocks_by_hash
           m == MissingAncestor(b, h)
           f == BufferAfterInsert(b, h, w, r)
           bt == RemoveBlockWithChildren(b, h)
<1>1. h \in Hash /\ BufferOK(buffer) BY EngineAssumption DEF EngineBase
<1>2. /\ BufferOK(b) /\ w \in Witness \cup {None}
      /\ \A x \in Hash : x # h => b.witnesses[x] = buffer.witnesses[x]
      /\ b.blocks = buffer.blocks
      /\ w = None => b.witnesses[h] = buffer.witnesses[h]
  BY <1>1, RemoveWitnessOK, ReadyWitnessType, RemovalsLeave
<1>3. r # "Fatal"
  <2>1. w # None /\ w.state = "full" => CodesOf[h] \subseteq database BY <1>1, ReadyCodes
  <2> HIDE DEF w
  <2> QED BY <1>1, <1>2, <2>1, NoFatal DEF NothingDropped
<1>4. /\ task = Idle /\ UNCHANGED outcomes
      /\ chain' = ChainAfterInsert(chain, h, r)
      /\ \/ /\ r \in {"Valid", "AlreadySeen"} /\ buffer' = bt /\ task' = t
            /\ UNCHANGED inflight
         \/ /\ r = "Disconnected" /\ buffer' = f /\ task' = task
            /\ inflight' = inflight \cup BlockRequests(buffer', m)
                               \cup (IF w = None THEN WitnessRequest(h) ELSE {})
         \/ /\ r = "NoWitness" /\ buffer' = f /\ task' = task
            /\ inflight' = inflight \cup WitnessRequest(h)
         \/ r \in {"Invalid", "Fatal"} /\ buffer' = b /\ task' = task /\ UNCHANGED inflight
  BY DEF NewPayload, ReadyForMessage
<1>5. /\ r = "AlreadySeen" => h \in mem
      /\ r = "NoWitness" => w = None
      /\ r = "Invalid" => ~Good(h)
  BY <1>1, InsertExitIs, InvalidNotGood
<1>6. t.connect = RemovedWithChildren(b, h) BY DEF Idle
<1> HIDE DEF w, b, r, t, m
<1>7. chain'.blocks_by_hash = IF r = "Valid" THEN mem \cup {h} ELSE mem
  BY <1>1, <1>4, ChainAfterInsertType DEF EngineBase, TypeOK
<1>8. Pending(task) = {} BY <1>4, IdleFacts
<1>9. Pursued(buffer, Asks, mem, {}) BY <1>8 DEF BlocksPursued
<1> HIDE DEF mem
<1>10. CASE r \in {"Valid", "AlreadySeen"}
  <2>1. buffer' = bt /\ task' = t /\ chain'.blocks_by_hash = mem \cup {h}
    BY <1>4, <1>5, <1>7, <1>10
  <2>2. Asks' = Asks BY <1>4, <1>10 DEF Asks
  <2>3. \A x \in Hash : x \in Pending(t) <=> RemovedWithChildren(b, h)[x] # None BY <1>6 DEF Pending
  <2>4. Pending(t) \subseteq Hash BY DEF Pending
  <2>5. \A x \in Pending(t) : x \notin bt.blocks BY <1>1, <1>2, <2>3, <2>4, RemovalsLeave
  <2>6. \A x \in Hash : x \notin Pending(t) => /\ bt.witnesses[x] = b.witnesses[x]
                                               /\ x \in bt.blocks <=> x \in b.blocks
    BY <1>1, <1>2, <2>3, RemovalsLeave
  <2> HIDE DEF bt
  <2>7. Pursued(bt, Asks, mem \cup {h}, Pending(t)) BY <1>2, <1>9, <2>5, <2>6, PursuedStep
  <2> QED BY <2>1, <2>2, <2>7 DEF BlocksPursued
<1>11. CASE r = "Disconnected"
  <2> DEFINE R == BlockRequests(f, m) \cup (IF w = None THEN WitnessRequest(h) ELSE {})
  <2>1. buffer' = f /\ task' = task /\ chain'.blocks_by_hash = mem /\ inflight' = inflight \cup R
    BY <1>4, <1>7, <1>11
  <2>2. /\ f.blocks = b.blocks \cup {h}
        /\ \A x \in Hash : f.witnesses[x] = IF x = h /\ w # None THEN w ELSE b.witnesses[x]
    BY <1>1, <1>2, <1>11, RoomAfterInsert DEF NothingDropped
  <2> HIDE DEF f
  <2>3. \A x \in Hash : /\ x # h /\ x # m => Req("block", x) \notin R /\ Req("witness", x) \notin R
                        /\ x = m => Req("block", x) \in R
                                    /\ (f.witnesses[x] # None \/ Req("witness", x) \in R)
                        /\ x = h /\ w = None => Req("witness", x) \in R
    BY RequestsOf
  <2> HIDE DEF R
  <2>4. Asks' = Asks \cup R BY <1>4, <2>1, AsksMore
  <2>5. Pursued(f, Asks \cup R, mem, {})
    BY <1>2, <1>9, <2>2, <2>3, PursuedStep
  <2> QED BY <1>8, <2>1, <2>4, <2>5 DEF BlocksPursued, mem
<1>12. CASE r = "NoWitness"
  <2>1. /\ buffer' = f /\ task' = task /\ chain'.blocks_by_hash = mem
        /\ inflight' = inflight \cup WitnessRequest(h)
    BY <1>4, <1>7, <1>12
  <2>2. /\ f.blocks = b.blocks \cup {h}
        /\ \A x \in Hash : f.witnesses[x] = b.witnesses[x]
    BY <1>1, <1>2, <1>5, <1>12, RoomAfterInsert DEF NothingDropped
  <2> HIDE DEF f
  <2>3. Asks' = Asks \cup WitnessRequest(h) BY <1>4, <2>1, AsksMore
  <2> DEFINE R == WitnessRequest(h)
  <2>4. \A x \in Hash : /\ x # h => Req("block", x) \notin R /\ Req("witness", x) \notin R
                        /\ x = h => Req("witness", x) \in R
    BY RequestsOf
  <2> HIDE DEF R
  <2>5. Pursued(f, Asks \cup R, mem, {})
    BY <1>2, <1>9, <2>2, <2>4, PursuedStep
  <2> QED BY <1>8, <2>1, <2>3, <2>5 DEF BlocksPursued, mem, R
<1>13. CASE r = "Invalid"
  <2>1. buffer' = b /\ task' = task /\ chain'.blocks_by_hash = mem BY <1>4, <1>7, <1>13
  <2>2. Asks' = Asks BY <1>4, <1>13 DEF Asks
  <2>3. Pursued(b, Asks, mem, {}) BY <1>2, <1>5, <1>9, <1>13, PursuedStep
  <2> QED BY <1>8, <2>1, <2>2, <2>3 DEF BlocksPursued, mem
<1> QED BY <1>3, <1>4, <1>10, <1>11, <1>12, <1>13

\* So does an unlocked block that is inserted.
LEMMA InsertUnlockedPursued ==
    ASSUME NothingDropped, EngineInv, Accounted, BlocksPursued,
           NEW h \in Hash, InsertUnlocked(h)
    PROVE  BlocksPursued'
<1> DEFINE w     == ReadyWitness(buffer, h)
           b     == RemoveBlock(buffer, h)
           entry == InvalidEntry(invalid_headers, LowestBufferedAncestorOr(b, h))
           i     == InsertExit(chain, database, h, w)
           r     == IF entry # None THEN "Known" ELSE i
           U     == task.unlocked \ {h}
           t     == [task EXCEPT !.block = h, !.connect = RemovedWithChildren(b, h),
                                 !.unlocked = @ \ {h}]
           mem   == chain.blocks_by_hash
           m     == MissingAncestor(b, h)
           f     == BufferAfterInsert(b, h, w, r)
           bt    == RemoveBlockWithChildren(b, h)
<1>1. /\ Removable(buffer, h) /\ UNCHANGED outcomes /\ task.block = None
      /\ chain' = ChainAfterInsert(chain, h, r)
      /\ \/ r = "Valid" /\ buffer' = bt /\ task' = t /\ UNCHANGED inflight
         \/ /\ r = "Disconnected" /\ buffer' = f /\ task' = Unlocking(U)
            /\ inflight' = inflight \cup BlockRequests(buffer', m)
         \/ /\ r \in {"Known", "AlreadySeen", "Invalid", "Fatal"} /\ buffer' = b
            /\ task' = Unlocking(U) /\ UNCHANGED inflight
  BY DEF InsertUnlocked
<1>2. BufferOK(buffer) /\ EngineBase /\ invalid_headers \in InvalidHeaders /\ InvalidAreBad(invalid_headers)
  BY DEF EngineInv, EngineBase, TypeOK, VerdictInv, VerdictsAreRight, InvalidAreBad
<1>3. /\ BufferOK(b) /\ w \in Witness \cup {None} /\ w # None
      /\ \A x \in Hash : x # h => /\ b.witnesses[x] = buffer.witnesses[x]
                                  /\ x \in b.blocks <=> x \in buffer.blocks
  BY <1>1, <1>2, RemoveBlockOK, ReadyWitnessType, RemovalsLeave DEF Removable
<1>4. /\ b.blocks \subseteq Hash
      /\ task \in Task /\ U \in SUBSET Hash /\ Pending(task) = {}
  BY <1>1, <1>2, <1>3 DEF EngineBase, TypeOK, Task, TaskOK, BufferOK, Buffer
<1>5. r # "Fatal"
  <2>1. w.state = "full" => CodesOf[h] \subseteq database BY <1>3, ReadyCodes
  <2> HIDE DEF w
  <2>2. i # "Fatal" BY <1>3, <2>1, NoFatal DEF NothingDropped
  <2> HIDE DEF i, entry
  <2> QED BY <2>2
<1>6. /\ i = "AlreadySeen" => h \in mem
      /\ i = "Invalid" => ~Good(h)
      /\ i \in Exits
  BY InsertExitIs, InvalidNotGood
<1>7. entry # None => ~Good(h)
  <2>1. entry # None => entry \in Ancestry[h] /\ Verdict[entry] # "valid"
    <3> HIDE DEF b
    <3> QED BY <1>2, <1>4, EntryIsBad
  <2> HIDE DEF entry
  <2> QED BY <2>1 DEF Good
<1>8. t.connect = RemovedWithChildren(b, h) BY <1>4 DEF Task
<1>u. Pending(Unlocking(U)) = {} BY <1>4, UnlockingFacts
<1> HIDE DEF w, b, t, m, i, entry
<1>9. /\ r = "AlreadySeen" => h \in mem
      /\ r \in {"Known", "Invalid"} => ~Good(h)
  BY <1>6, <1>7 DEF Exits
<1> HIDE DEF r
<1>10. chain'.blocks_by_hash = IF r = "Valid" THEN mem \cup {h} ELSE mem
  BY <1>1, ChainAfterInsertType DEF EngineInv, EngineBase, TypeOK
<1>11. Pursued(buffer, Asks, mem, {}) BY <1>4 DEF BlocksPursued
<1> HIDE DEF mem
<1>12. CASE r = "Valid" /\ buffer' = bt /\ task' = t /\ UNCHANGED inflight
  <2>1. chain'.blocks_by_hash = mem \cup {h} BY <1>10, <1>12
  <2>2. Asks' = Asks BY <1>1, <1>12 DEF Asks
  <2>3. \A x \in Hash : x \in Pending(t) <=> RemovedWithChildren(b, h)[x] # None BY <1>8 DEF Pending
  <2>4. Pending(t) \subseteq Hash BY DEF Pending
  <2>5. \A x \in Pending(t) : x \notin bt.blocks BY <1>3, <2>3, <2>4, RemovalsLeave
  <2>6. \A x \in Hash : x \notin Pending(t) => /\ bt.witnesses[x] = b.witnesses[x]
                                               /\ x \in bt.blocks <=> x \in b.blocks
    BY <1>3, <2>3, RemovalsLeave
  <2> HIDE DEF bt
  <2>7. Pursued(bt, Asks, mem \cup {h}, Pending(t)) BY <1>3, <1>11, <2>5, <2>6, PursuedStep
  <2> QED BY <1>12, <2>1, <2>2, <2>7 DEF BlocksPursued
<1>13. CASE /\ r = "Disconnected" /\ buffer' = f /\ task' = Unlocking(U)
            /\ inflight' = inflight \cup BlockRequests(buffer', m)
  <2> DEFINE R == BlockRequests(f, m)
  <2>1. chain'.blocks_by_hash = mem /\ inflight' = inflight \cup R BY <1>10, <1>13
  <2>2. /\ f.blocks = b.blocks \cup {h}
        /\ \A x \in Hash : f.witnesses[x] = IF x = h THEN w ELSE b.witnesses[x]
    BY <1>3, <1>13, RoomAfterInsert DEF NothingDropped
  <2> HIDE DEF f
  <2>3. \A x \in Hash : /\ x # m => Req("block", x) \notin R /\ Req("witness", x) \notin R
                        /\ x = m => Req("block", x) \in R
                                    /\ (f.witnesses[x] # None \/ Req("witness", x) \in R)
    BY RequestsOf
  <2> HIDE DEF R
  <2>4. Asks' = Asks \cup R BY <1>1, <2>1, AsksMore
  <2>5. Pursued(f, Asks \cup R, mem, {}) BY <1>3, <1>11, <2>2, <2>3, PursuedStep
  <2> QED BY <1>u, <1>13, <2>1, <2>4, <2>5 DEF BlocksPursued, mem
<1>14. CASE /\ r \in {"Known", "AlreadySeen", "Invalid"} /\ buffer' = b
            /\ task' = Unlocking(U) /\ UNCHANGED inflight
  <2>1. chain'.blocks_by_hash = mem BY <1>10, <1>14
  <2>2. Asks' = Asks BY <1>1, <1>14 DEF Asks
  <2>3. Pursued(b, Asks, mem, {}) BY <1>3, <1>9, <1>11, <1>14, PursuedStep
  <2> QED BY <1>u, <1>14, <2>1, <2>2, <2>3 DEF BlocksPursued, mem
<1> QED BY <1>1, <1>5, <1>12, <1>13, <1>14

\* So does a child that is connected: it is complete, and goes back to the buffer if it must.
LEMMA ConnectPursued ==
    ASSUME NothingDropped, EngineBase, Accounted, BlocksPursued,
           NEW c \in Hash, Connect(c)
    PROVE  BlocksPursued'
<1> DEFINE w == task.connect[c]
           r == InsertExit(chain, database, c, w)
           t == [task EXCEPT !.connect[c] = None]
           P == Pending(task)
           mem == chain.blocks_by_hash
           f == BufferAfterInsert(buffer, c, w, r)
<1>1. /\ c \in P /\ UNCHANGED <<inflight, outcomes>> /\ buffer' = f
      /\ IF r = "Valid" /\ sync_target = c
           THEN chain' = ChainAfterNewHead(ChainAfterInsert(chain, c, r), canonical_head, c)
           ELSE chain' = ChainAfterInsert(chain, c, r)
      /\ task' = t \/ r = "Fatal"
  BY DEF Connect
<1>2. task \in Task /\ w \in Witness \cup {None} /\ w # None /\ BufferOK(buffer)
  BY <1>1 DEF EngineBase, TypeOK, Task, Pending
<1>3. \A x : x \in Pending(t) <=> x \in P /\ x # c BY <1>2 DEF Task, Pending
<1>4. r # "Fatal"
  <2>1. w.state = "full" => CodesOf[c] \subseteq database
    BY <1>1 DEF Accounted, BytecodesAccountedFor
  <2> HIDE DEF w
  <2> QED BY <1>2, <2>1, NoFatal DEF NothingDropped
<1>5. /\ r = "AlreadySeen" => c \in mem
      /\ r = "Invalid" => ~Good(c)
      /\ r # "NoWitness" /\ r \in Exits
  BY <1>2, InsertExitIs, InvalidNotGood
<1> HIDE DEF w, r, t
<1>6. chain'.blocks_by_hash = IF r = "Valid" THEN mem \cup {c} ELSE mem
  <2>1. /\ ChainAfterInsert(chain, c, r) \in Chain
        /\ ChainAfterInsert(chain, c, r).blocks_by_hash = IF r = "Valid" THEN mem \cup {c} ELSE mem
    BY ChainAfterInsertType DEF EngineBase, TypeOK
  <2>2. SameBlocks(ChainAfterNewHead(ChainAfterInsert(chain, c, r), canonical_head, c),
                   ChainAfterInsert(chain, c, r))
    BY <2>1, ChainAfterNewHeadType DEF EngineBase, TypeOK
  <2> QED BY <1>1, <2>1, <2>2 DEF SameBlocks
<1>7. Asks' = Asks BY <1>1 DEF Asks
<1>8. Pursued(buffer, Asks, mem, P) BY DEF BlocksPursued
<1> HIDE DEF P, mem
<1>9. /\ r # "Disconnected" => f = buffer
      /\ r = "Disconnected" => /\ f.blocks = buffer.blocks \cup {c}
                               /\ \A x \in Hash : f.witnesses[x] = IF x = c THEN w ELSE buffer.witnesses[x]
  BY <1>2, <1>5, RoomAfterInsert DEF NothingDropped
<1>10. \A x \in P : x \notin buffer.blocks BY <1>8 DEF Pursued
<1> HIDE DEF f
<1>11. Pursued(f, Asks, chain'.blocks_by_hash, Pending(t))
  <2>1. CASE r = "Disconnected"
    BY <1>2, <1>3, <1>6, <1>8, <1>9, <1>10, <2>1, PursuedStep
  <2>2. CASE r # "Disconnected"
    <3>1. c \in chain'.blocks_by_hash \/ ~Good(c) BY <1>4, <1>5, <1>6, <2>2 DEF Exits
    <3>2. mem \subseteq chain'.blocks_by_hash BY <1>6
    <3> QED BY <1>3, <1>8, <1>9, <1>10, <2>2, <3>1, <3>2, PursuedStep
  <2> QED BY <2>1, <2>2
<1> QED BY <1>1, <1>4, <1>7, <1>11 DEF BlocksPursued

\* What leaves the buffer alone and connects nothing keeps it.
LEMMA SameBufferPursued ==
    ASSUME BlocksPursued, \A x \in Hash : Good(x) => x \notin Pending(task),
           chain.blocks_by_hash \subseteq chain'.blocks_by_hash, Pending(task') = {},
           buffer'.blocks = buffer.blocks,
           \A x \in Hash : Good(x) => buffer'.witnesses[x] = buffer.witnesses[x],
           \A x \in Hash : Good(x) /\ x \notin chain'.blocks_by_hash =>
               /\ Req("block", x) \in Asks' <=> Req("block", x) \in Asks
               /\ Req("witness", x) \in Asks' <=> Req("witness", x) \in Asks
    PROVE  BlocksPursued'
<1>1. Pursued(buffer, Asks, chain.blocks_by_hash, Pending(task)) BY DEF BlocksPursued
<1>2. Pursued(buffer', Asks', chain'.blocks_by_hash, {}) BY <1>1, PursuedStep
<1> QED BY <1>2 DEF BlocksPursued

\* No handler is running: nothing is being connected.
LEMMA IdlePending == /\ task = Idle => Pending(task) = {}
                     /\ EngineBase /\ task.block = None => Pending(task) = {}
BY IdleFacts DEF EngineBase, TaskOK

\* Each download brings one half of a block, and the other is there or comes too.
LEMMA DownloadPursued ==
    ASSUME NothingDropped, EngineBase, FinalizedNamed, BlocksPursued, OnDownloadOutcome
    PROVE  BlocksPursued'
<1> DEFINE mem == chain.blocks_by_hash
<1>1. task = Idle BY DEF OnDownloadOutcome, FinalizedDownloaded, BlockDownloaded, WitnessDownloaded,
                         BytecodeDownloaded, BytecodeLost, EngineStops, NextOutcome
<1>2. /\ BufferOK(buffer) /\ Pending(task) = {}
      /\ Pursued(buffer, Asks, mem, {})
  BY <1>1, IdlePending DEF BlocksPursued, EngineBase
<1>3. ASSUME NEW h \in Hash, FinalizedDownloaded(h) PROVE FALSE
  BY <1>3, NoFinalDownload DEF NothingDropped
<1>4. ASSUME NEW h \in Hash, BlockDownloaded(h) PROVE BlocksPursued'
  <2>1. /\ UNCHANGED <<chain, inflight>> /\ NextOutcome("block", h)
        /\ inflight' = inflight \cup {}
    BY <1>4 DEF BlockDownloaded
  <2>2. /\ Req("block", h) \in Asks
        /\ \A q : q # Req("block", h) => (q \in Asks' <=> q \in Asks)
    BY <2>1, AsksTaken
  <2>3. \A x : /\ x # h => Req("block", x) # Req("block", h)
               /\ Req("witness", x) # Req("block", h)
    BY DEF Req
  <2>4. CASE Verdict[h] = "sender"
    <3>1. UNCHANGED <<buffer, task>> BY <1>4, <2>4 DEF BlockDownloaded
    <3>2. ~Good(h) BY <2>4, AncestryContains DEF Good
    <3> QED BY <1>2, <2>1, <2>2, <2>3, <3>1, <3>2, SameBufferPursued
  <2>5. CASE Verdict[h] # "sender"
    <3>1. buffer' = InsertBlock(buffer, h) /\ task' = Unlocking({h})
      BY <1>4, <2>5 DEF BlockDownloaded
    <3>2. /\ buffer'.blocks = buffer.blocks \cup {h}
          /\ \A x \in Hash : buffer'.witnesses[x] = buffer.witnesses[x]
      BY <1>2, <3>1, RoomForAll DEF NothingDropped
    <3>3. Pending(task') = {} BY <3>1, UnlockingFacts
    <3>4. Pursued(buffer', Asks', mem, {}) BY <1>2, <2>2, <2>3, <3>2, PursuedStep
    <3> QED BY <2>1, <3>3, <3>4 DEF BlocksPursued
  <2> QED BY <2>4, <2>5
<1>5. ASSUME NEW h \in Hash, NEW w \in WitnessesOf(h), WitnessDownloaded(h, w) PROVE BlocksPursued'
  <2> DEFINE missing == MissingCodeHashes(database, w.codes)
             U == IF missing = {} THEN {h} ELSE {}
             R == BytecodeRequests(missing)
  <2>1. /\ UNCHANGED chain /\ task' = Unlocking(U) /\ NextOutcome("witness", h)
        /\ buffer' = InsertWitness(buffer, h, w, missing)
        /\ inflight' = inflight \cup R
    BY <1>5 DEF WitnessDownloaded
  <2>2. Pending(task') = {} BY <2>1, UnlockingFacts
  <2>3. \A x \in Hash : Req("block", x) \notin R /\ Req("witness", x) \notin R BY RequestsOf
  <2> HIDE DEF missing, R
  <2>4. WitnessInserted(buffer', buffer, h, w, missing) BY <1>2, <2>1, InsertWitnessEffect
  <2>5. /\ buffer'.blocks = buffer.blocks /\ buffer'.witnesses[h] # None
        /\ \A x \in Hash : x # h => buffer'.witnesses[x] = buffer.witnesses[x]
    BY <2>4, WitnessType DEF WitnessInserted
  <2>6. /\ Req("witness", h) \in Asks
        /\ \A q : q # Req("witness", h) => (q \in Asks' <=> q \in Asks \/ q \in R)
    BY <2>1, AsksTaken
  <2>7. \A x : /\ x # h => Req("witness", x) # Req("witness", h)
               /\ Req("block", x) # Req("witness", h)
    BY DEF Req
  <2>8. Pursued(buffer', Asks', mem, {}) BY <1>2, <2>3, <2>5, <2>6, <2>7, PursuedStep
  <2> QED BY <2>1, <2>2, <2>8 DEF BlocksPursued
<1>6. ASSUME NEW kind \in {"code", "finalized"}, NEW id, NextOutcome(kind, id),
             UNCHANGED <<chain, inflight>>, Pending(task') = {},
             buffer'.blocks = buffer.blocks /\ buffer'.witnesses = buffer.witnesses
      PROVE  BlocksPursued'
  <2>1. \A q : q # Req(kind, id) => (q \in Asks' <=> q \in Asks)
    <3>1. inflight' = inflight \cup {} BY <1>6
    <3> QED BY <1>6, <3>1, AsksTaken
  <2>2. \A x : Req("block", x) # Req(kind, id) /\ Req("witness", x) # Req(kind, id) BY <1>6 DEF Req
  <2> QED BY <1>2, <1>6, <2>1, <2>2, SameBufferPursued
<1>7. ASSUME NEW k \in Code, BytecodeDownloaded(k) PROVE BlocksPursued'
  <2>1. /\ UNCHANGED <<chain, inflight>> /\ NextOutcome("code", k)
        /\ buffer' = OnBytecodeReceived(buffer, k) /\ task' = Unlocking(UnlockedBy(buffer, k))
    BY <1>7 DEF BytecodeDownloaded
  <2>2. UnlockedBy(buffer, k) \in SUBSET Hash BY DEF UnlockedBy
  <2>3. Pending(task') = {} BY <2>1, <2>2, UnlockingFacts
  <2>4. BytecodeReceived(buffer', buffer, k) BY <1>2, <2>1, OnBytecodeReceivedEffect
  <2> QED BY <1>6, <2>1, <2>3, <2>4 DEF BytecodeReceived
<1>8. ASSUME NEW k \in Code, BytecodeLost(k) PROVE BlocksPursued'
  BY <1>2, <1>6, <1>8 DEF BytecodeLost, tree
<1>9. ASSUME NEW h \in Hash, NEW kind \in {"finalized", "witness"}, EngineStops(kind, h)
      PROVE  BlocksPursued'
  <2>1. /\ kind = "finalized" \/ (kind = "witness" /\ "database" \in Faults)
        /\ UNCHANGED <<chain, buffer, inflight>>
        /\ task' = [Idle EXCEPT !.on = "stopped"]
        /\ outcomes # <<>> /\ Head(outcomes) = Req(kind, h) /\ outcomes' = Tail(outcomes)
    BY <1>9 DEF EngineStops, tree
  <2>2. Pending(task') = {} BY <2>1 DEF Idle, Pending, NoBlocks
  <2> DEFINE R == {}
  <2>r. inflight' = inflight \cup R BY <2>1
  <2>e. \A q : q \notin R OBVIOUS
  <2> HIDE DEF R
  <2>3. Req(kind, h) \in Asks /\ \A q : q # Req(kind, h) => (q \in Asks' <=> q \in Asks)
    <3>1. outcomes \in Seq(Request) BY DEF EngineBase
    <3>2. /\ Req(kind, h) \in Asks
          /\ \A q : q # Req(kind, h) => (q \in Asks' <=> q \in Asks \/ q \in R)
      BY <2>1, <2>r, <3>1, OutcomeTaken
    <3> QED BY <2>e, <3>2
  <2>4. CASE kind = "finalized"
    <3>1. \A x : Req("block", x) # Req(kind, h) /\ Req("witness", x) # Req(kind, h) BY <2>4 DEF Req
    <3> QED BY <1>2, <2>1, <2>2, <2>3, <3>1, SameBufferPursued
  <2>5. CASE kind = "witness" /\ "database" \in Faults
    <3>1. ~NoWitnessDropped BY <2>5 DEF NoWitnessDropped
    <3>2. \A x : Req("block", x) # Req(kind, h) BY <2>5 DEF Req
    <3> QED BY <1>2, <2>1, <2>2, <2>3, <3>1, <3>2, WitnessLost
  <2> QED BY <2>1, <2>4, <2>5
<1> QED BY <1>3, <1>4, <1>5, <1>7, <1>8, <1>9 DEF OnDownloadOutcome

\* So does a payload that is refused: it takes away the witness of a bad block only.
LEMMA RefusedPayloadPursued ==
    ASSUME NothingDropped, EngineInv, BlocksPursued, NEW h \in Hash,
           UnrecoverablePayload(h) \/ RejectedPayload(h)
    PROVE  BlocksPursued'
<1> DEFINE b == RemoveWitness(buffer, h)
           x == PayloadCheck(b, h)
<1>1. /\ task = Idle /\ task' = task /\ chain' = chain /\ buffer' = b
      /\ inflight' = inflight /\ outcomes' = outcomes
  BY DEF UnrecoverablePayload, RejectedPayload, ReadyForMessage
<1>2. BufferOK(buffer) /\ invalid_headers \in InvalidHeaders /\ InvalidAreBad(invalid_headers)
  BY DEF EngineInv, EngineBase, TypeOK, VerdictInv, VerdictsAreRight, InvalidAreBad
<1>b. buffer.blocks \subseteq Hash BY <1>2 DEF BufferOK, Buffer
<1>3. /\ b.blocks = buffer.blocks /\ b.blocks \subseteq Hash
      /\ \A y \in Hash : y # h => b.witnesses[y] = buffer.witnesses[y]
  BY <1>2, <1>b, RemovalsLeave
<1>4. ~Good(h)
  <2>1. CASE UnrecoverablePayload(h) BY <2>1, AncestryContains DEF UnrecoverablePayload, Good
  <2>2. CASE RejectedPayload(h)
    <3>1. InvalidEntry(invalid_headers, x) # None BY <2>2 DEF RejectedPayload
    <3>2. x = LowestBufferedAncestorOr(b, h) \/ x = Parent[h] BY DEF PayloadCheck
    <3> HIDE DEF b, x
    <3>3. InvalidEntry(invalid_headers, x) \in Ancestry[h]
          /\ Verdict[InvalidEntry(invalid_headers, x)] # "valid"
      BY <1>2, <1>3, <3>1, <3>2, EntryIsBad
    <3> QED BY <3>3 DEF Good
  <2> QED BY <2>1, <2>2
<1>5. Asks' = Asks BY <1>1 DEF Asks
<1>6. Pending(task) = {} BY <1>1, IdlePending
<1> HIDE DEF b
<1> QED BY <1>1, <1>3, <1>4, <1>5, <1>6, SameBufferPursued

\* A malformed payload takes away the witness of any block.
LEMMA MalformedPayloadPursued ==
    ASSUME EngineBase, BlocksPursued, NEW h \in Hash, MalformedPayload(h)
    PROVE  BlocksPursued'
<1>1. /\ task = Idle /\ task' = task /\ chain' = chain /\ buffer' = RemoveWitness(buffer, h)
      /\ inflight' = inflight /\ outcomes' = outcomes /\ "malformed" \in Faults
  BY DEF MalformedPayload, ReadyForMessage
<1>2. buffer \in Buffer BY DEF EngineBase, TypeOK
<1>3. /\ buffer'.blocks = buffer.blocks
      /\ \A x \in Hash : buffer'.witnesses[x] # None => buffer.witnesses[x] # None
  BY <1>1, <1>2 DEF RemoveWitness, Buffer
<1>4. Asks' = Asks BY <1>1 DEF Asks
<1>5. Pending(task) = {} /\ Pending(task') = {} BY <1>1, IdlePending
<1>6. ~NoWitnessDropped BY <1>1 DEF NoWitnessDropped
<1> QED BY <1>1, <1>3, <1>4, <1>5, <1>6, WitnessLost

\* So does a forkchoice update: what it asks for, it asks for in both halves.
LEMMA ForkchoicePursued ==
    ASSUME NothingDropped, EngineBase, BlocksPursued, OnForkchoiceUpdated
    PROVE  BlocksPursued'
<1> DEFINE mem == chain.blocks_by_hash
<1>1. task = Idle /\ task' = task /\ outcomes' = outcomes
  BY DEF OnForkchoiceUpdated, ForkchoiceRejected, ForkchoiceCurrent, ForkchoiceNewHead,
         ForkchoiceKnownHead, ForkchoiceSyncing, ForkchoiceAccepted, ReadyForMessage
<1>2. Pending(task) = {} /\ Pending(task') = {} BY <1>1, IdlePending
<1>3. ASSUME chain'.blocks_by_hash = mem, buffer' = buffer, inflight' = inflight PROVE BlocksPursued'
  <2>1. Asks' = Asks BY <1>1, <1>3 DEF Asks
  <2> QED BY <1>2, <1>3, <2>1, SameBufferPursued
<1>4. PICK s \in ForkchoiceStates : \/ ForkchoiceRejected(s) \/ ForkchoiceCurrent(s)
                                    \/ ForkchoiceNewHead(s) \/ ForkchoiceKnownHead(s)
                                    \/ ForkchoiceSyncing(s)
  BY DEF OnForkchoiceUpdated
<1>5. s.finalized = Zero BY DEF NothingDropped
<1>6. CASE ForkchoiceRejected(s) \/ ForkchoiceCurrent(s) \/ ForkchoiceKnownHead(s)
  BY <1>3, <1>6 DEF ForkchoiceRejected, ForkchoiceCurrent, ForkchoiceKnownHead, tree
<1>7. CASE ForkchoiceNewHead(s)
  <2> DEFINE updated == ChainAfterNewHead(chain, canonical_head, s.head)
  <2>1. /\ inflight' = inflight
        /\ \/ /\ chain' = OnFinalized(updated, s.finalized)
              /\ buffer' = IF s.finalized \in chain'.blocks_by_hash
                             THEN EvictOldBlocks(buffer, Number[s.finalized]) ELSE buffer
           \/ chain' = updated /\ buffer' = buffer
    BY <1>7 DEF ForkchoiceNewHead
  <2>2. updated \in Chain /\ SameBlocks(updated, chain)
    BY ChainAfterNewHeadType DEF EngineBase, TypeOK
  <2> HIDE DEF updated
  <2>3. Zero \notin updated.blocks_by_hash BY <2>2, Distinct DEF Chain
  <2>4. OnFinalized(updated, Zero) = updated BY <2>3 DEF OnFinalized
  <2>5. chain' = updated /\ buffer' = buffer BY <1>5, <2>1, <2>3, <2>4
  <2>6. chain'.blocks_by_hash = mem BY <2>2, <2>5 DEF SameBlocks
  <2> QED BY <1>3, <2>1, <2>5, <2>6
<1>8. CASE ForkchoiceSyncing(s)
  <2>1. /\ UNCHANGED <<chain, buffer>>
        /\ inflight' = inflight \/ \E m : inflight' = inflight \cup BlockRequests(buffer, m)
    BY <1>5, <1>8 DEF ForkchoiceSyncing, tree
  <2>2. ASSUME NEW m, inflight' = inflight \cup BlockRequests(buffer, m) PROVE BlocksPursued'
    <3> DEFINE R == BlockRequests(buffer, m)
    <3>1. \A x \in Hash : /\ x # m => Req("block", x) \notin R /\ Req("witness", x) \notin R
                          /\ x = m => Req("block", x) \in R
                                      /\ (buffer.witnesses[x] # None \/ Req("witness", x) \in R)
      BY RequestsOf
    <3>2. inflight' = inflight \cup R BY <2>2
    <3> HIDE DEF R
    <3>3. Asks' = Asks \cup R BY <1>1, <3>2, AsksMore
    <3>4. Pursued(buffer, Asks, mem, {}) BY <1>2 DEF BlocksPursued
    <3>5. Pursued(buffer, Asks \cup R, mem, {}) BY <3>1, <3>4, PursuedStep
    <3> QED BY <1>2, <2>1, <3>3, <3>5 DEF BlocksPursued
  <2> QED BY <1>3, <2>1, <2>2
<1> QED BY <1>4, <1>6, <1>7, <1>8

\* So do the steps of a running handler that insert nothing.
LEMMA ContinuePursued ==
    ASSUME EngineBase, BlocksPursued, Finish \/ \E h \in Hash : SkipUnlocked(h)
    PROVE  BlocksPursued'
<1> DEFINE mem == chain.blocks_by_hash
<1>1. CASE Finish
  <2> DEFINE h == task.block
             after == ChainAfterNewHead(chain, canonical_head, h)
  <2>1. /\ h # None /\ Pending(task) = {} /\ buffer' = buffer /\ outcomes' = outcomes
        /\ chain' = after \/ chain' = chain
        /\ inflight' = inflight \/ inflight' = inflight \cup WitnessRequest(h)
        /\ task' = Idle \/ task' = Unlocking(task.unlocked)
    BY <1>1 DEF Finish
  <2>2. SameBlocks(after, chain) BY ChainAfterNewHeadType DEF EngineBase, TypeOK
  <2>3. chain'.blocks_by_hash = mem BY <2>1, <2>2 DEF SameBlocks
  <2>4. h \in mem BY <2>1 DEF EngineBase, TaskOK
  <2>5. task.unlocked \in SUBSET Hash BY DEF EngineBase, TypeOK, Task
  <2>6. Pending(task') = {} BY <2>1, <2>5, IdleFacts, UnlockingFacts
  <2> HIDE DEF h
  <2>7. \A x \in Hash : x # h => Req("block", x) \notin WitnessRequest(h)
                                 /\ Req("witness", x) \notin WitnessRequest(h)
    BY RequestsOf
  <2>8. \A x \in Hash : x # h => /\ Req("block", x) \in Asks' <=> Req("block", x) \in Asks
                                 /\ Req("witness", x) \in Asks' <=> Req("witness", x) \in Asks
    <3>1. CASE inflight' = inflight BY <2>1, <3>1 DEF Asks
    <3>2. CASE inflight' = inflight \cup WitnessRequest(h)
      <4>1. Asks' = Asks \cup WitnessRequest(h) BY <2>1, <3>2, AsksMore
      <4> QED BY <2>7, <4>1
    <3> QED BY <2>1, <3>1, <3>2
  <2> QED BY <2>1, <2>3, <2>4, <2>6, <2>8, SameBufferPursued
<1>2. ASSUME NEW h \in Hash, SkipUnlocked(h) PROVE BlocksPursued'
  <2>1. /\ task.block = None /\ task' = Unlocking(task.unlocked \ {h})
        /\ UNCHANGED <<chain, buffer, inflight, outcomes>>
    BY <1>2 DEF SkipUnlocked, tree
  <2>2. task.unlocked \ {h} \in SUBSET Hash BY DEF EngineBase, TypeOK, Task
  <2>3. Pending(task') = {} BY <2>1, <2>2, UnlockingFacts
  <2>4. Pending(task) = {} BY <2>1, IdlePending
  <2>5. Asks' = Asks BY <2>1 DEF Asks
  <2> QED BY <2>1, <2>3, <2>4, <2>5, SameBufferPursued
<1> QED BY <1>1, <1>2

\* An engine that has just started holds no half of any block.
LEMMA FreshPursued == Pursued(NewBuffer, {}, {Genesis}, {})
<1>1. /\ NewBuffer.blocks = {}
      /\ \A x \in Hash : NewBuffer.witnesses[x] = None
  BY DEF NewBuffer
<1> QED BY <1>1 DEF Pursued, Halves

\* Every step keeps both halves of every block together.
LEMMA NextPursued ==
    ASSUME NothingDropped
    PROVE  EngineInv /\ Accounted /\ BlocksPursued /\ [Next]_vars => BlocksPursued'
<1> SUFFICES ASSUME EngineInv, Accounted, BlocksPursued, [Next]_vars PROVE BlocksPursued'
  OBVIOUS
<1>1. EngineBase /\ FinalizedNamed BY DEF EngineInv, VerdictInv
<1>2. CASE UNCHANGED <<chain, buffer, inflight, outcomes, task>>
  BY <1>2 DEF BlocksPursued, Asks
<1>3. CASE OnNewPayload
  <2>1. PICK h \in Payloads : \/ MalformedPayload(h) \/ UnrecoverablePayload(h)
                              \/ RejectedPayload(h) \/ NewPayload(h)
    BY <1>3 DEF OnNewPayload
  <2>2. h \in Hash BY EngineAssumption
  <2> QED BY <1>1, <2>1, <2>2, MalformedPayloadPursued, RefusedPayloadPursued, NewPayloadPursued
<1>4. CASE OnForkchoiceUpdated BY <1>1, <1>4, ForkchoicePursued
<1>5. CASE PollDownloader
  <2>1. Asks' = Asks BY <1>1, <1>5, AsksPolled
  <2>2. UNCHANGED <<chain, buffer, task>> BY <1>5 DEF PollDownloader, tree
  <2> QED BY <2>1, <2>2 DEF BlocksPursued
<1>6. CASE OnDownloadOutcome BY <1>1, <1>6, DownloadPursued
<1>7. CASE Continue
  BY <1>1, <1>7, ConnectPursued, InsertUnlockedPursued, ContinuePursued DEF Continue
<1>8. CASE ParkedTimeout \/ \E h \in Hash : ForgetInvalid(h)
  BY <1>2, <1>8 DEF ParkedTimeout, ForgetInvalid, tree
<1>9. CASE Restart
  <2>1. /\ chain'.blocks_by_hash = {Genesis} /\ buffer' = NewBuffer /\ task' = Idle
        /\ inflight' = {} /\ outcomes' = <<>> /\ Len(outcomes') = 0
    BY <1>9 DEF Restart, GenesisChain
  <2>2. Asks' = {} BY <2>1 DEF Asks
  <2> QED BY <2>1, <2>2, FreshPursued, IdleFacts DEF BlocksPursued
<1>10. CASE UNCHANGED vars BY <1>2, <1>10 DEF vars, tree
<1> QED BY <1>3, <1>4, <1>5, <1>6, <1>7, <1>8, <1>9, <1>10 DEF Next

\* It holds throughout.
LEMMA PursuitInvariant == ASSUME NothingDropped PROVE Spec => []BlocksPursued
<1>1. TrustedForkchoice BY Distinct DEF NothingDropped, TrustedForkchoice
<1>2. Init => BlocksPursued
  <2> SUFFICES ASSUME Init PROVE BlocksPursued OBVIOUS
  <2>1. /\ chain.blocks_by_hash = {Genesis} /\ buffer = NewBuffer /\ task = Idle
        /\ inflight = {} /\ outcomes = <<>> /\ Len(outcomes) = 0
    BY DEF Init, GenesisChain
  <2>2. Asks = {} BY <2>1 DEF Asks
  <2> QED BY <2>1, <2>2, FreshPursued, IdleFacts DEF BlocksPursued
<1>3. EngineInv /\ Accounted /\ BlocksPursued /\ [Next]_vars => BlocksPursued'
  BY NextPursued
<1>4. Spec => []EngineInv BY <1>1, EngineInvariant
<1>5. BytecodesAccountedFor /\ WitnessesFit => Accounted BY DEF Accounted
<1> QED BY <1>2, <1>3, <1>4, <1>5, EngineBytecodes, FitInvariant, PTL DEF Spec

(***************************************************************************)
(* A good block in the buffer is never forgotten: as long as nothing is    *)
(* dropped, its witness is buffered or being downloaded.                   *)
(***************************************************************************)
THEOREM EnginePursuesBlocks ==
    ASSUME NothingDropped, NoWitnessDropped PROVE Spec => []BufferedBlocksArePursued
<1>1. EngineBase /\ BlocksPursued => BufferedBlocksArePursued
  <2> SUFFICES ASSUME BlocksPursued, NEW h \in Hash, h \in buffer.blocks,
                      h \notin chain.blocks_by_hash, Good(h)
               PROVE  buffer.witnesses[h] # None \/ Requested("witness", h)
    <3>1. EngineBase => buffer.blocks \subseteq Hash BY DEF EngineBase, TypeOK, Buffer
    <3> QED BY <3>1 DEF BufferedBlocksArePursued
  <2>1. h \notin Pending(task) BY DEF BlocksPursued, Pursued
  <2>2. buffer.witnesses[h] # None \/ Req("witness", h) \in Asks
    BY <2>1 DEF BlocksPursued, Pursued, Halves
  <2> QED BY <2>2 DEF Asks, Requested
<1> QED BY <1>1, EngineBaseInvariant, PursuitInvariant, PTL

(***************************************************************************)
(* A witness waits in the buffer without its block only when the block is  *)
(* in memory or being downloaded, as long as no block is dropped.          *)
(***************************************************************************)
THEOREM EngineKeepsNoOrphans == ASSUME NothingDropped PROVE Spec => []OrphanWitnessIsNotNeeded
<1>1. BlocksPursued => OrphanWitnessIsNotNeeded
  <2> SUFFICES ASSUME BlocksPursued, task = Idle, NEW h \in Hash, h \notin buffer.blocks,
                      buffer.witnesses[h] # None, Good(h), h \notin chain.blocks_by_hash
               PROVE  Requested("block", h)
    BY DEF OrphanWitnessIsNotNeeded
  <2>1. h \notin Pending(task) BY IdlePending
  <2>2. Req("block", h) \in Asks BY <2>1 DEF BlocksPursued, Pursued, Halves
  <2> QED BY <2>2 DEF Asks, Requested
<1> QED BY <1>1, PursuitInvariant, PTL
=============================================================================
