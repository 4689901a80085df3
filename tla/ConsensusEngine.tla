--------------------------- MODULE ConsensusEngine ---------------------------
(***************************************************************************)
(* crates/engine/src/engine.rs with the tree (tree/mod.rs) and the         *)
(* downloader (download/mod.rs) it owns: the task that answers the         *)
(* consensus client, downloads blocks, witnesses and bytecodes, and        *)
(* executes blocks.                                                        *)
(*                                                                         *)
(* One task owns all of this state, so a handler is never interleaved with *)
(* another.  A handler that loops over blocks (the unlocked blocks of      *)
(* on_download_outcome, the buffered blocks of try_connect_buffered_blocks)*)
(* takes one step per block; `task` says what is left of it, and no other  *)
(* action of the engine is enabled until it is done.                       *)
(***************************************************************************)
EXTENDS TreeOps, Sequences

CONSTANTS
    Payloads,           \* the blocks the consensus client may send as payloads
    ForkchoiceStates,   \* the forkchoice states the consensus client may send
    MaxBatch,           \* bound: downloads that become ready in one poll
    Faults              \* the failures that may happen (see the actions that name one)

ASSUME EngineAssumption ==
    /\ Payloads \subseteq Hash \ {Genesis}
    /\ ForkchoiceStates \subseteq [head : Hash \cup {Zero}, safe : Hash \cup {Zero},
                                   finalized : Hash \cup {Zero}]
    /\ MaxBatch \in Nat \ {0}
    /\ Faults \subseteq {"bytecode", "database", "malformed", "forget", "restart"}

VARIABLES
    chain,              \* provider.chain_state
    database,           \* bytecodes in provider.database
    buffer,             \* tree.block_buffer
    invalid_headers,    \* tree.invalid_headers
    canonical_head,     \* tree.canonical_head.hash
    sync_target,        \* head of forkchoice_state_tracker.sync_target_state(), or None
    inflight,           \* the downloader's requests in flight
    outcomes,           \* downloader.outcomes
    parked,             \* parked_payload's block hash, or None
    task,               \* the part of the running handler still to be done
    reply,              \* the answer the last step sent to the consensus client
    installed           \* history: blocks installed by a finalized download

tree == <<chain, database, buffer, invalid_headers, canonical_head>>
vars == <<tree, sync_target, inflight, outcomes, parked, task, reply, installed>>

-----------------------------------------------------------------------------
(***************************************************************************)
(* Requests of the downloader; it polls the kinds in this order.           *)
(***************************************************************************)
Kinds == <<"finalized", "block", "witness", "code">>

Request == [kind : {"finalized", "block", "witness"}, id : Hash \cup {Zero}] \cup
           [kind : {"code"}, id : Code]

Req(kind, id) == [kind |-> kind, id |-> id]

Rank(r) == CHOOSE i \in 1..4 : Kinds[i] = r.kind

Requested(kind, id) ==
    Req(kind, id) \in inflight \/ \E i \in 1..Len(outcomes) : outcomes[i] = Req(kind, id)

(***************************************************************************)
(* A request for what does not exist (the zero hash, a witness of the      *)
(* genesis block, a bytecode that only a corrupt witness names) is retried *)
(* forever.  So is a finalized block closer than Window to genesis:        *)
(* FetchFullBlockWithAncestorsFuture only accepts a header range of the    *)
(* full length.                                                            *)
(***************************************************************************)
CanComplete(r) == /\ r.id # Zero
                  /\ r.kind = "witness" => r.id # Genesis
                  /\ r.kind = "finalized" => Number[r.id] >= Window
                  /\ r.kind = "code" => \E h \in Hash : r.id \in CodesOf[h]

\* Mutant: no witness is asked for along with a block.
BlockRequestsOnly(b, h) == {Req("block", h)}

\* on_tree_event(DownloadRequest::Block): the witness too, unless it is buffered.
BlockRequests(b, h) ==
    {Req("block", h)} \cup
        (IF h \in Hash /\ b.witnesses[h] # None THEN {} ELSE {Req("witness", h)})

\* Mutant: the request is forgotten.
NoRequest(x) == {}

\* on_tree_event(DownloadRequest::Witness)
WitnessRequest(h) == {Req("witness", h)}

\* RessDatabase::insert_bytecode and missing_code_hashes
InsertBytecode(db, k) == db \cup {k}

MissingCodeHashes(db, code_hashes) == code_hashes \ db

\* The bytecodes on_download_outcome asks for when a witness arrives.
BytecodeRequests(missing) == {Req("code", k) : k \in missing}

-----------------------------------------------------------------------------
(***************************************************************************)
(* What is left of a running handler: `on` is the message it handles,      *)
(* `block` the block just inserted whose buffered children `connect` (with *)
(* their witnesses) are being connected, `unlocked` the blocks the loop of *)
(* on_download_outcome has not visited.                                    *)
(***************************************************************************)
NoBlocks == [h \in Hash |-> None]

Idle == [on |-> "idle", block |-> None, has_witness |-> FALSE,
         connect |-> NoBlocks, unlocked |-> {}]

Unlocking(S) == IF S = {} THEN Idle ELSE [Idle EXCEPT !.on = "download", !.unlocked = S]

Pending(t) == {h \in Hash : t.connect[h] # None}

Answer(call, hash, status, latest_valid) ==
    [call |-> call, hash |-> hash, status |-> status, latest_valid |-> latest_valid]

NoReply == Answer("none", None, "none", None)

\* The parked payload's answer, when the block just processed is the parked one.
AnswerParked(h, status, latest_valid) ==
    IF parked # None /\ parked = h
      THEN parked' = None /\ reply' = Answer("newPayload", h, status, latest_valid)
      ELSE parked' = parked /\ reply' = NoReply

-----------------------------------------------------------------------------
Init ==
    /\ chain = GenesisChain
    /\ database = {}
    /\ buffer = NewBuffer
    /\ invalid_headers = [h \in Hash |-> None]
    /\ canonical_head = Genesis
    /\ sync_target = None
    /\ inflight = {}
    /\ outcomes = <<>>
    /\ parked = None
    /\ task = Idle
    /\ reply = NoReply
    /\ installed = {}

-----------------------------------------------------------------------------
(***************************************************************************)
(* A message of the consensus client is read when no download is ready and *)
(* no payload is parked.                                                   *)
(***************************************************************************)
ReadyForMessage == task = Idle /\ outcomes = <<>> /\ parked = None

(***************************************************************************)
(* NewPayload whose payload is not well formed: a block hash that is not   *)
(* the hash of the payload.  The witness buffered under that hash is gone. *)
(***************************************************************************)
MalformedPayload(h) ==
    /\ "malformed" \in Faults
    /\ ReadyForMessage
    /\ buffer' = RemoveWitness(buffer, h)
    /\ reply' = Answer("newPayload", None, "INVALID", None)
    /\ UNCHANGED <<chain, database, invalid_headers, canonical_head, sync_target, inflight,
                   outcomes, parked, task, installed>>

\* NewPayload whose transactions do not decode to senders (ensure_well_formed_payload).
UnrecoverablePayload(h) ==
    /\ ReadyForMessage
    /\ Verdict[h] = "sender"
    /\ buffer' = RemoveWitness(buffer, h)
    /\ reply' = Answer("newPayload", h, "INVALID",
                       LatestValidHash(chain, invalid_headers, Parent[h]))
    /\ UNCHANGED <<chain, database, invalid_headers, canonical_head, sync_target, inflight,
                   outcomes, parked, task, installed>>

\* The hash on_new_payload looks up in the invalid header cache.
PayloadCheck(b, h) ==
    IF LowestBufferedAncestorOr(b, h) = h THEN Parent[h] ELSE LowestBufferedAncestorOr(b, h)

\* NewPayload that links to a block known to be invalid.
RejectedPayload(h) ==
    LET b     == RemoveWitness(buffer, h)
        entry == InvalidEntry(invalid_headers, PayloadCheck(b, h))
    IN  /\ ReadyForMessage
        /\ Verdict[h] # "sender"
        /\ entry # None
        /\ buffer' = b
        /\ invalid_headers' = MarkInvalid(invalid_headers, h, entry)
        /\ reply' = Answer("newPayload", h, "INVALID",
                           PrepareInvalidResponse(chain, invalid_headers, Parent[entry]))
        /\ UNCHANGED <<chain, database, canonical_head, sync_target, inflight, outcomes,
                       parked, task, installed>>

(***************************************************************************)
(* NewPayload that reaches insert_block, with the buffered witness if it   *)
(* is complete.  After an insertion try_connect_buffered_blocks runs       *)
(* (Connect); a block without witness parks the payload.                   *)
(***************************************************************************)
NewPayload(h) ==
    LET w == ReadyWitness(buffer, h)
        b == RemoveWitness(buffer, h)
        r == InsertExit(chain, database, h, w)
    IN  /\ ReadyForMessage
        /\ Verdict[h] # "sender"
        /\ InvalidEntry(invalid_headers, PayloadCheck(b, h)) = None
        /\ chain' = ChainAfterInsert(chain, h, r)
        /\ invalid_headers' = InvalidAfterInsert(invalid_headers, h, r)
        /\ \/ /\ r \in {"Valid", "AlreadySeen"}
              /\ buffer' = RemoveBlockWithChildren(b, h)
              /\ task' = [Idle EXCEPT !.on = "payload", !.block = h, !.has_witness = (w # None),
                                      !.connect = RemovedWithChildren(b, h)]
              /\ reply' = NoReply
              /\ UNCHANGED <<inflight, parked>>
           \/ /\ r = "Disconnected"
              /\ buffer' = BufferAfterInsert(b, h, w, r)
              /\ inflight' = inflight \cup BlockRequests(buffer', MissingAncestor(b, h))
                                 \cup (IF w = None THEN WitnessRequest(h) ELSE {})
              /\ reply' = Answer("newPayload", h, "SYNCING", None)
              /\ UNCHANGED <<parked, task>>
           \/ /\ r = "NoWitness"
              /\ buffer' = BufferAfterInsert(b, h, w, r)
              /\ inflight' = inflight \cup WitnessRequest(h)
              /\ parked' = h
              /\ reply' = NoReply
              /\ UNCHANGED task
           \/ /\ r = "Invalid"
              /\ buffer' = b
              /\ reply' = Answer("newPayload", h, "INVALID",
                                 LatestValidHash(chain, invalid_headers, Parent[h]))
              /\ UNCHANGED <<inflight, parked, task>>
           \/ /\ r = "Fatal"
              /\ buffer' = b
              /\ reply' = Answer("newPayload", h, "ERROR", None)
              /\ UNCHANGED <<inflight, parked, task>>
        /\ UNCHANGED <<database, canonical_head, sync_target, outcomes, installed>>

-----------------------------------------------------------------------------
(***************************************************************************)
(* One round of the loop of try_connect_buffered_blocks.  The blocks come  *)
(* parents first.  A fatal error ends the loop and drops the blocks that   *)
(* are left, which are no longer in the buffer.                            *)
(***************************************************************************)
Connect(c) ==
    LET w == task.connect[c]
        r == InsertExit(chain, database, c, w)
        inserted == ChainAfterInsert(chain, c, r)
    IN  /\ c \in Pending(task)
        /\ Pending(task) \cap Ancestry[c] = {c}
        /\ buffer' = BufferAfterInsert(buffer, c, w, r)
        /\ invalid_headers' = InvalidAfterInsert(invalid_headers, c, r)
        /\ IF r = "Valid" /\ sync_target = c
             THEN /\ chain' = ChainAfterNewHead(inserted, canonical_head, c)
                  /\ canonical_head' = HeadAfterNewHead(inserted, canonical_head, c)
             ELSE chain' = inserted /\ UNCHANGED canonical_head
        /\ \/ /\ r # "Fatal"
              /\ task' = [task EXCEPT !.connect[c] = None]
              /\ reply' = NoReply
              /\ UNCHANGED parked
           \/ /\ r = "Fatal" /\ task.on = "payload"
              /\ task' = Idle
              /\ reply' = Answer("newPayload", task.block, "ERROR", None)
              /\ UNCHANGED parked
           \/ /\ r = "Fatal" /\ task.on = "download"
              /\ task' = Unlocking(task.unlocked)
              /\ AnswerParked(task.block, "ERROR", None)
        /\ UNCHANGED <<database, sync_target, inflight, outcomes, installed>>

(***************************************************************************)
(* The end of a handler that inserted task.block: MakeCanonical when it is *)
(* the sync target, then the answer.  on_new_payload asks for the witness  *)
(* of an already seen sync target that came without one.                   *)
(***************************************************************************)
Finish ==
    LET h == task.block
    IN  /\ h # None
        /\ Pending(task) = {}
        /\ IF sync_target = h
             THEN /\ chain' = ChainAfterNewHead(chain, canonical_head, h)
                  /\ canonical_head' = HeadAfterNewHead(chain, canonical_head, h)
             ELSE UNCHANGED <<chain, canonical_head>>
        /\ \/ /\ task.on = "payload"
              /\ inflight' = IF sync_target = h /\ ~task.has_witness
                               THEN inflight \cup WitnessRequest(h) ELSE inflight
              /\ task' = Idle
              /\ reply' = Answer("newPayload", h, "VALID", h)
              /\ UNCHANGED parked
           \/ /\ task.on = "download"
              /\ task' = Unlocking(task.unlocked)
              /\ AnswerParked(h, "VALID", h)
              /\ UNCHANGED inflight
        /\ UNCHANGED <<database, buffer, invalid_headers, sync_target, outcomes, installed>>

-----------------------------------------------------------------------------
(***************************************************************************)
(* ForkchoiceUpdated.  Payload attributes are not modelled: ress builds no *)
(* payloads, and they change the answer only.                              *)
(***************************************************************************)
\* Mutant: an invalid forkchoice state becomes the sync target too.
AnswerForkchoiceTracksInvalid(state, status, latest_valid) ==
    /\ reply' = Answer("forkchoiceUpdated", state.head, status, latest_valid)
    /\ sync_target' = IF status = "VALID" THEN None ELSE state.head

AnswerForkchoice(state, status, latest_valid) ==
    /\ reply' = Answer("forkchoiceUpdated", state.head, status, latest_valid)
    /\ sync_target' = CASE status = "VALID"   -> None
                        [] status = "SYNCING" -> state.head
                        [] OTHER              -> sync_target

\* pre_validate_forkchoice_update: the zero hash, or a head that links to an invalid block.
ForkchoiceRejected(state) ==
    LET entry == InvalidEntry(invalid_headers, LowestBufferedAncestorOr(buffer, state.head))
    IN  /\ ReadyForMessage
        /\ \/ /\ state.head = Zero
              /\ AnswerForkchoice(state, "INVALID", None)
           \/ /\ state.head # Zero /\ entry # None
              /\ AnswerForkchoice(state, "INVALID",
                     PrepareInvalidResponse(chain, invalid_headers, Parent[entry]))
        /\ UNCHANGED <<tree, inflight, outcomes, parked, task, installed>>

ForkchoiceAccepted(state) ==
    /\ ReadyForMessage
    /\ state.head # Zero
    /\ InvalidEntry(invalid_headers, LowestBufferedAncestorOr(buffer, state.head)) = None

\* 1. the head is the canonical head
ForkchoiceCurrent(state) ==
    /\ ForkchoiceAccepted(state)
    /\ state.head = canonical_head
    /\ IF ConsistentForkchoice(chain, state)
         THEN AnswerForkchoice(state, "VALID", state.head)
         ELSE AnswerForkchoice(state, "INVALID", None)
    /\ UNCHANGED <<tree, inflight, outcomes, parked, task, installed>>

(***************************************************************************)
(* 2. a new chain leads to the head: it becomes canonical, and then, if    *)
(* the safe and finalized blocks are canonical, blocks that finalization   *)
(* leaves behind are dropped.                                              *)
(***************************************************************************)
ForkchoiceNewHead(state) ==
    LET updated == ChainAfterNewHead(chain, canonical_head, state.head)
    IN  /\ ForkchoiceAccepted(state)
        /\ state.head # canonical_head
        /\ HasNewChain(chain, canonical_head, state.head)
        /\ canonical_head' = state.head
        /\ IF ConsistentForkchoice(updated, state)
             THEN /\ chain' = OnFinalized(updated, state.finalized)
                  /\ buffer' = IF state.finalized \in chain'.blocks_by_hash
                                 THEN EvictOldBlocks(buffer, Number[state.finalized])
                                 ELSE buffer
                  /\ AnswerForkchoice(state, "VALID", state.head)
             ELSE /\ chain' = updated
                  /\ UNCHANGED buffer
                  /\ AnswerForkchoice(state, "INVALID", None)
        /\ UNCHANGED <<database, invalid_headers, inflight, outcomes, parked, task, installed>>

\* 3. the head is in memory, but on_new_head found no chain to it
ForkchoiceKnownHead(state) ==
    /\ ForkchoiceAccepted(state)
    /\ state.head # canonical_head
    /\ state.head \in chain.blocks_by_hash
    /\ ~HasNewChain(chain, canonical_head, state.head)
    /\ AnswerForkchoice(state, "VALID", state.head)
    /\ UNCHANGED <<tree, inflight, outcomes, parked, task, installed>>

\* 4. the head is missing: download what is missing, the finalized block first
ForkchoiceSyncing(state) ==
    LET Known(h) == IsBlockPersistedOrBuffered(chain, buffer, h)
        wanted   == LowestBufferedAncestorOr(buffer,
                        IF state.safe # Zero /\ ~Known(state.safe) THEN state.safe ELSE state.head)
    IN  /\ ForkchoiceAccepted(state)
        /\ state.head # canonical_head
        /\ state.head \notin chain.blocks_by_hash
        /\ \/ /\ state.finalized # Zero /\ ~Known(state.finalized)
              /\ inflight' = inflight \cup {Req("finalized", state.finalized)}
           \/ /\ state.finalized = Zero \/ Known(state.finalized)
              /\ IF wanted # state.finalized /\ ~Known(wanted)
                   THEN inflight' = inflight \cup BlockRequests(buffer, wanted)
                   ELSE UNCHANGED inflight
        /\ AnswerForkchoice(state, "SYNCING", None)
        /\ UNCHANGED <<tree, outcomes, parked, task, installed>>

-----------------------------------------------------------------------------
(***************************************************************************)
(* downloader.poll: with no outcome left, every request is polled, and the *)
(* ones that are ready become outcomes, kind by kind.                      *)
(***************************************************************************)
Batches == UNION {[1..n -> inflight] : n \in 1..MaxBatch}

\* Mutant: a request that is ready stays in flight, and is ready again.
PollDownloaderKeeps ==
    /\ task = Idle
    /\ outcomes = <<>>
    /\ \E batch \in Batches :
           /\ \A i \in DOMAIN batch : CanComplete(batch[i])
           /\ \A i, j \in DOMAIN batch :
                  i < j => batch[i] # batch[j] /\ Rank(batch[i]) <= Rank(batch[j])
           /\ outcomes' = batch
    /\ reply' = NoReply
    /\ UNCHANGED <<tree, sync_target, inflight, parked, task, installed>>

PollDownloader ==
    /\ task = Idle
    /\ outcomes = <<>>
    /\ \E batch \in Batches :
           /\ \A i \in DOMAIN batch : CanComplete(batch[i])
           /\ \A i, j \in DOMAIN batch :
                  i < j => batch[i] # batch[j] /\ Rank(batch[i]) <= Rank(batch[j])
           /\ outcomes' = batch
           /\ inflight' = inflight \ {batch[i] : i \in DOMAIN batch}
    /\ reply' = NoReply
    /\ UNCHANGED <<tree, sync_target, parked, task, installed>>

\* on_download_outcome takes the first outcome.
NextOutcome(kind, id) ==
    /\ task = Idle
    /\ outcomes # <<>>
    /\ Head(outcomes) = Req(kind, id)
    /\ outcomes' = Tail(outcomes)
    /\ reply' = NoReply

(***************************************************************************)
(* A finalized block arrived with its ancestors: it is made the canonical  *)
(* head and put in memory without being executed.                          *)
(***************************************************************************)
FinalizedDownloaded(f) ==
    /\ NextOutcome("finalized", f)
    /\ Verdict[f] # "sender"
    /\ canonical_head' = f
    /\ chain' = ChainInsertBlock(
                    InsertCanonicalHashes(chain,
                        {a \in Ancestry[f] : Number[a] + Window >= Number[f]}), f, FALSE)
    /\ installed' = installed \cup {f}
    /\ task' = Unlocking({f})
    /\ UNCHANGED <<database, buffer, invalid_headers, sync_target, inflight, parked>>

\* A full block arrived; it is dropped when a sender cannot be recovered.
BlockDownloaded(h) ==
    /\ NextOutcome("block", h)
    /\ IF Verdict[h] = "sender"
         THEN UNCHANGED <<buffer, task>>
         ELSE buffer' = InsertBlock(buffer, h) /\ task' = Unlocking({h})
    /\ UNCHANGED <<chain, database, invalid_headers, canonical_head, sync_target, inflight,
                   parked, installed>>

\* A witness arrived: the bytecodes it names and the database lacks are requested.
WitnessDownloaded(h, w) ==
    LET missing == MissingCodeHashes(database, w.codes)
    IN  /\ NextOutcome("witness", h)
        /\ buffer' = InsertWitness(buffer, h, w, missing)
        /\ inflight' = inflight \cup BytecodeRequests(missing)
        /\ task' = Unlocking(IF missing = {} THEN {h} ELSE {})
        /\ UNCHANGED <<chain, database, invalid_headers, canonical_head, sync_target, parked,
                       installed>>

\* A bytecode arrived and was stored: the blocks that only lacked it are unlocked.
BytecodeDownloaded(k) ==
    /\ NextOutcome("code", k)
    /\ database' = InsertBytecode(database, k)
    /\ buffer' = OnBytecodeReceived(buffer, k)
    /\ task' = Unlocking(UnlockedBy(buffer, k))
    /\ UNCHANGED <<chain, invalid_headers, canonical_head, sync_target, inflight, parked, installed>>

\* Mutant: the blocks that wait for the bytecode are released all the same.
BytecodeLostReleases(k) ==
    /\ "bytecode" \in Faults
    /\ NextOutcome("code", k)
    /\ buffer' = OnBytecodeReceived(buffer, k)
    /\ UNCHANGED <<chain, database, invalid_headers, canonical_head, sync_target, inflight,
                   parked, task, installed>>

\* A bytecode arrived and could not be stored: the error is logged.
BytecodeLost(k) ==
    /\ "bytecode" \in Faults
    /\ NextOutcome("code", k)
    /\ UNCHANGED <<tree, sync_target, inflight, parked, task, installed>>

(***************************************************************************)
(* The errors that end the engine task: the senders of a finalized block   *)
(* cannot be recovered, or the database fails while it is asked for the    *)
(* bytecodes of a witness.  The call of a parked payload is dropped.       *)
(***************************************************************************)
EngineStops(kind, id) ==
    /\ \/ kind = "finalized" /\ Verdict[id] = "sender"
       \/ kind = "witness" /\ "database" \in Faults
    /\ task = Idle
    /\ outcomes # <<>>
    /\ Head(outcomes) = Req(kind, id)
    /\ outcomes' = Tail(outcomes)
    /\ task' = [Idle EXCEPT !.on = "stopped"]
    /\ AnswerParked(parked, "ERROR", None)
    /\ UNCHANGED <<tree, sync_target, inflight, installed>>

(***************************************************************************)
(* One round of the loop over the unlocked blocks.  A block that is not    *)
(* complete is skipped; otherwise it leaves the buffer and                 *)
(* on_downloaded_block inserts it.                                         *)
(***************************************************************************)
\* Mutant: the block leaves the buffer before its witness is looked for.
SkipUnlockedDrops(h) ==
    /\ task.on = "download" /\ task.block = None
    /\ h \in task.unlocked
    /\ ~Removable(buffer, h)
    /\ buffer' = Unindex(buffer, {h})
    /\ task' = Unlocking(task.unlocked \ {h})
    /\ reply' = NoReply
    /\ UNCHANGED <<chain, database, invalid_headers, canonical_head, sync_target, inflight,
                   outcomes, parked, installed>>

SkipUnlocked(h) ==
    /\ task.on = "download" /\ task.block = None
    /\ h \in task.unlocked
    /\ ~Removable(buffer, h)
    /\ task' = Unlocking(task.unlocked \ {h})
    /\ reply' = NoReply
    /\ UNCHANGED <<tree, sync_target, inflight, outcomes, parked, installed>>

InsertUnlocked(h) ==
    LET w     == ReadyWitness(buffer, h)
        b     == RemoveBlock(buffer, h)
        entry == InvalidEntry(invalid_headers, LowestBufferedAncestorOr(b, h))
        r     == IF entry # None THEN "Known" ELSE InsertExit(chain, database, h, w)
        rest  == Unlocking(task.unlocked \ {h})
    IN  /\ task.on = "download" /\ task.block = None
        /\ h \in task.unlocked
        /\ Removable(buffer, h)
        /\ chain' = ChainAfterInsert(chain, h, r)
        /\ \/ /\ r = "Known"
              /\ buffer' = b
              /\ invalid_headers' = MarkInvalid(invalid_headers, h, entry)
              /\ task' = rest
              /\ AnswerParked(h, "INVALID",
                     PrepareInvalidResponse(chain, invalid_headers, Parent[entry]))
              /\ UNCHANGED inflight
           \/ /\ r = "Valid"
              /\ buffer' = RemoveBlockWithChildren(b, h)
              /\ task' = [task EXCEPT !.block = h, !.connect = RemovedWithChildren(b, h),
                                      !.unlocked = @ \ {h}]
              /\ reply' = NoReply
              /\ UNCHANGED <<invalid_headers, inflight, parked>>
           \/ /\ r = "AlreadySeen"
              /\ buffer' = b
              /\ task' = rest
              /\ AnswerParked(h, "VALID", h)
              /\ UNCHANGED <<invalid_headers, inflight>>
           \/ /\ r = "Disconnected"
              /\ buffer' = BufferAfterInsert(b, h, w, r)
              /\ inflight' = inflight \cup BlockRequests(buffer', MissingAncestor(b, h))
              /\ task' = rest
              /\ AnswerParked(h, "SYNCING", None)
              /\ UNCHANGED invalid_headers
           \/ /\ r = "Invalid"
              /\ buffer' = b
              /\ invalid_headers' = InvalidAfterInsert(invalid_headers, h, r)
              /\ task' = rest
              /\ AnswerParked(h, "INVALID", LatestValidHash(chain, invalid_headers, Parent[h]))
              /\ UNCHANGED inflight
           \/ /\ r = "Fatal"
              /\ buffer' = b
              /\ task' = rest
              /\ AnswerParked(h, "ERROR", None)
              /\ UNCHANGED <<invalid_headers, inflight>>
        /\ UNCHANGED <<database, canonical_head, sync_target, outcomes, installed>>

\* Mutant: the payload is answered and stays parked.
ParkedTimeoutKeeps ==
    /\ task = Idle /\ outcomes = <<>>
    /\ parked # None
    /\ reply' = Answer("newPayload", parked, "SYNCING", None)
    /\ UNCHANGED <<tree, sync_target, inflight, outcomes, parked, task, installed>>

\* The parked payload's timeout fires when no download is ready.
ParkedTimeout ==
    /\ task = Idle /\ outcomes = <<>>
    /\ parked # None
    /\ reply' = Answer("newPayload", parked, "SYNCING", None)
    /\ parked' = None
    /\ UNCHANGED <<tree, sync_target, inflight, outcomes, task, installed>>

(***************************************************************************)
(* External: the cache of invalid headers drops an entry (it is an LRU map *)
(* and forgets an entry after 128 hits).                                   *)
(***************************************************************************)
ForgetInvalid(h) ==
    /\ "forget" \in Faults
    /\ task = Idle
    /\ invalid_headers[h] # None
    /\ invalid_headers' = [invalid_headers EXCEPT ![h] = None]
    /\ reply' = NoReply
    /\ UNCHANGED <<chain, database, buffer, canonical_head, sync_target, inflight, outcomes,
                   parked, task, installed>>

(***************************************************************************)
(* The process ends at any point, in the middle of a handler too, and is   *)
(* launched again: only the bytecodes in the database are still there, the *)
(* launcher puts the genesis block in memory, and the calls that were      *)
(* under way get no answer.                                                *)
(***************************************************************************)
Restart ==
    /\ "restart" \in Faults
    /\ chain' = GenesisChain
    /\ buffer' = NewBuffer
    /\ canonical_head' = Genesis
    /\ invalid_headers' = [h \in Hash |-> None]
    /\ sync_target' = None
    /\ inflight' = {} /\ outcomes' = <<>>
    /\ parked' = None /\ task' = Idle
    /\ reply' = NoReply /\ installed' = {}
    /\ UNCHANGED database

-----------------------------------------------------------------------------
OnNewPayload == \E h \in Payloads : \/ MalformedPayload(h)
                                    \/ UnrecoverablePayload(h)
                                    \/ RejectedPayload(h)
                                    \/ NewPayload(h)

OnForkchoiceUpdated == \E s \in ForkchoiceStates : \/ ForkchoiceRejected(s)
                                                   \/ ForkchoiceCurrent(s)
                                                   \/ ForkchoiceNewHead(s)
                                                   \/ ForkchoiceKnownHead(s)
                                                   \/ ForkchoiceSyncing(s)

OnDownloadOutcome == \/ \E h \in Hash : \/ FinalizedDownloaded(h)
                                        \/ BlockDownloaded(h)
                                        \/ \E w \in WitnessesOf(h) : WitnessDownloaded(h, w)
                                        \/ \E kind \in {"finalized", "witness"} : EngineStops(kind, h)
                     \/ \E k \in Code : BytecodeDownloaded(k) \/ BytecodeLost(k)

Continue == \/ \E h \in Hash : Connect(h) \/ SkipUnlocked(h) \/ InsertUnlocked(h)
            \/ Finish

Next == \/ OnNewPayload
        \/ OnForkchoiceUpdated
        \/ PollDownloader
        \/ OnDownloadOutcome
        \/ Continue
        \/ ParkedTimeout
        \/ \E h \in Hash : ForgetInvalid(h)
        \/ Restart

Spec == Init /\ [][Next]_vars

(***************************************************************************)
(* Fairness.  The engine task is polled again after every step it takes,   *)
(* so a handler that has begun is finished and a ready outcome is handled. *)
(* Every sweep polls every request, and a request is retried until a peer  *)
(* answers it: a request that some peer can serve completes.  Nothing is   *)
(* assumed of the consensus client, nor that the timeout fires.            *)
(***************************************************************************)
Completes(r) == PollDownloader /\ r \in inflight /\ r \notin inflight'

Fairness == /\ WF_vars(Continue)
            /\ WF_vars(OnDownloadOutcome)
            /\ \A r \in {q \in Request : CanComplete(q)} : SF_vars(Completes(r))

FairSpec == Spec /\ Fairness

-----------------------------------------------------------------------------
(***************************************************************************)
(* Type invariant: every piece of the engine's state keeps its type.       *)
(***************************************************************************)
Task == [on : {"idle", "payload", "download", "stopped"}, block : Hash \cup {None},
         has_witness : BOOLEAN, connect : [Hash -> Witness \cup {None}],
         unlocked : SUBSET Hash]

Reply == [call         : {"none", "newPayload", "forkchoiceUpdated"},
          hash         : Hash \cup {Zero, None},
          status       : {"none", "VALID", "INVALID", "SYNCING", "ERROR"},
          latest_valid : Hash \cup {Zero, None}]

TypeOK ==
    /\ chain \in Chain
    /\ database \subseteq Code
    /\ buffer \in Buffer
    /\ invalid_headers \in InvalidHeaders
    /\ canonical_head \in Hash
    /\ sync_target \in Hash \cup {None}
    /\ inflight \subseteq Request
    /\ \A i \in 1..Len(outcomes) : outcomes[i] \in Request
    /\ parked \in Hash \cup {None}
    /\ task \in Task
    /\ reply \in Reply
    /\ installed \subseteq Hash

(***************************************************************************)
(* No bytecode is overlooked: whatever nodes the peers sent, the buffer    *)
(* awaits every bytecode that the buffered witness names and the database  *)
(* lacks, and none that the database has, although bytecodes arrive        *)
(* between the check of a witness and its use, another witness of the      *)
(* block with other bytecodes replaces it (block_buffer.rs:101-112), and a *)
(* disconnected block's witness is put back with nothing missing           *)
(* (tree/mod.rs:694).  A block being connected lacks none of the bytecodes *)
(* its witness names, nor, when that is a full one, any that execution     *)
(* asks code_by_hash for (evm/db.rs:68).                                   *)
(***************************************************************************)
BytecodesAccountedFor ==
    /\ \A h \in Hash : buffer.witnesses[h] # None =>
           /\ buffer.witnesses[h].codes \subseteq database \cup buffer.missing_bytecodes[h]
           /\ buffer.missing_bytecodes[h] \cap database = {}
    /\ \A h \in Pending(task) :
           /\ task.connect[h].codes \subseteq database
           /\ task.connect[h].state = "full" => CodesOf[h] \subseteq database

(***************************************************************************)
(* Every awaited bytecode is being downloaded, or has been and waits to be *)
(* handled: no block waits for a bytecode nobody asked for.                *)
(***************************************************************************)
AwaitedBytecodesRequested ==
    \A h \in Hash : \A k \in buffer.missing_bytecodes[h] : Requested("code", k)

(***************************************************************************)
(* A good block in the buffer that is not executed yet is never forgotten: *)
(* its witness is buffered or requested.                                   *)
(***************************************************************************)
BufferedBlocksArePursued ==
    \A h \in buffer.blocks \ chain.blocks_by_hash :
        Good(h) /\ h # Genesis => buffer.witnesses[h] # None \/ Requested("witness", h)

(***************************************************************************)
(* The buffer holds "pending blocks that cannot be executed due to missing *)
(* parent" (block_buffer.rs:20): between two messages, no buffered block   *)
(* with a complete witness has its parent in memory.                       *)
(***************************************************************************)
Executable(h) == /\ Removable(buffer, h)
                 /\ Parent[h] \in chain.blocks_by_hash
                 /\ h \notin chain.blocks_by_hash

NoExecutableBlockBuffered == task = Idle => \A h \in Hash : ~Executable(h)

(***************************************************************************)
(* The one way such a block appears is that its parent was installed by a  *)
(* finalized download, after which no child is looked for                  *)
(* (engine.rs:110-124); execution always connects what waits for it.       *)
(***************************************************************************)
ExecutableOnlyUnderInstalled ==
    task = Idle => \A h \in Hash : Executable(h) => Parent[h] \in installed

(***************************************************************************)
(* The latestValidHash of an INVALID answer, when it is a block, is the    *)
(* deepest good ancestor of the rejected block: "any other ancestor of the *)
(* invalid payload with a higher blockNumber is INVALID"                   *)
(* (tree/mod.rs:854-863).                                                  *)
(***************************************************************************)
LatestValidHashIsRight ==
    reply.status = "INVALID" /\ reply.hash \in Hash /\ reply.latest_valid \in Hash =>
        /\ reply.latest_valid \in Ancestry[reply.hash] /\ Good(reply.latest_valid)
        /\ \A a \in Ancestry[reply.hash] :
               Good(a) => Number[a] <= Number[reply.latest_valid]

(***************************************************************************)
(* What the consensus client owes the node: a block it calls finalized is  *)
(* valid with all its ancestors down to genesis, unless its payload does   *)
(* not decode, and is the head it comes with or an ancestor of that head.  *)
(* The node checks none of this before it installs the finalized block     *)
(* (engine.rs:110-124).                                                    *)
(***************************************************************************)
TrustedForkchoice ==
    \A s \in ForkchoiceStates : s.finalized \in Hash =>
        /\ Verdict[s.finalized] # "sender" => Good(s.finalized) /\ Genesis \in Ancestry[s.finalized]
        /\ s.head \in Hash => s.finalized \in Ancestry[s.head]

(***************************************************************************)
(* Only bad blocks enter the invalid header cache, and blocks in memory    *)
(* are good: no order of payloads, downloads and retries condemns a good   *)
(* block or lets a bad one be built upon.                                  *)
(***************************************************************************)
VerdictsAreRight ==
    /\ \A h \in Hash : invalid_headers[h] # None =>
           ~Good(h) /\ invalid_headers[h] \in Ancestry[h] /\ Verdict[invalid_headers[h]] # "valid"
    /\ \A h \in chain.blocks_by_hash : Good(h)
    /\ canonical_head \in chain.blocks_by_hash

(***************************************************************************)
(* canonical_hashes_by_number is the chain of the canonical head, however  *)
(* forkchoice updates extend, rewind and reorg it: each entry is the head  *)
(* or one of its ancestors, and the head is there.  A finalized download   *)
(* replaces the hashes of its window only and, when it arrives late,       *)
(* rewinds the head (engine.rs:110-124): what is above the head or below   *)
(* the window may be left from another branch from then on.                *)
(***************************************************************************)
CanonicalHashesFollowHead ==
    /\ \A n \in Numbers :
           /\ chain.canonical_hashes_by_number[n] # None
           /\ \/ installed = {}
              \/ n <= Number[canonical_head] /\ \A f \in installed : Number[f] <= n + Window
           => chain.canonical_hashes_by_number[n] = AncestorAt(canonical_head, n)
    /\ chain.canonical_hashes_by_number[Number[canonical_head]] = canonical_head

(***************************************************************************)
(* BLOCKHASH is right (chain_state.rs:43-63, evm/db.rs:75): whatever the   *)
(* finalized downloads, reorgs and prunings before, a child of a block in  *)
(* memory gets the hash of its own ancestor for every number in its        *)
(* window, provided the block's ancestors in memory lead to the canonical  *)
(* chain (the others are branches that finalization cut off) and the       *)
(* number is not below the window of an installed block: a download brings *)
(* the hashes of its window only, and a block older than it, when finality *)
(* goes back to that block and prunes its ancestors, lacks some of its own.*)
(***************************************************************************)
OnCanonicalChain(p) ==
    \E a \in Ancestry[p] \cap Ancestry[canonical_head] : Above(p, a) \subseteq chain.blocks_by_hash

BlockHashIsRight ==
    \A p \in chain.blocks_by_hash : \A n \in Numbers :
        /\ OnCanonicalChain(p)
        /\ n <= Number[p] /\ n + Window > Number[p]
        /\ \A f \in installed : Number[f] <= n + Window
        => BlockHash(chain, p, n) = AncestorAt(p, n)

(***************************************************************************)
(* The engine catches up: a good block that a forkchoice update names as   *)
(* head and that is missing is eventually downloaded with its ancestors,   *)
(* executed and made canonical, unless another update replaces the target. *)
(***************************************************************************)
SyncTargetReached ==
    \A h \in Hash : Good(h) =>
        (sync_target = h ~> (canonical_head = h \/ sync_target # h))

(***************************************************************************)
(* A parked payload, while which no message is read, is answered, by the   *)
(* downloads alone.                                                        *)
(***************************************************************************)
ParkedPayloadAnswered == parked # None ~> parked = None

(***************************************************************************)
(* A witness in the buffer without its block belongs to a block that is in *)
(* memory, or whose download is under way (block_buffer.rs:101-112): it is *)
(* never the witness of a block that is still needed and was lost.         *)
(***************************************************************************)
OrphanWitnessIsNotNeeded ==
    task = Idle => \A h \in Hash \ buffer.blocks :
        buffer.witnesses[h] # None /\ Good(h) =>
            h \in chain.blocks_by_hash \/ Requested("block", h)

(***************************************************************************)
(* The engine keeps the promise of the Engine API (engine.rs:255-287 and   *)
(* tree/mod.rs): whatever the order of calls, downloads, timeouts, errors  *)
(* and restarts, every newPayload call gets one answer, no message is read *)
(* in between, and tree and answers only change as module EngineApi says.  *)
(***************************************************************************)
WaitingCall == IF parked # None THEN parked
               ELSE IF task.on = "payload" THEN task.block ELSE None

Api == INSTANCE EngineApi WITH GoodBlocks <- {h \in Hash : Good(h)},
                               valid      <- chain.blocks_by_hash,
                               head       <- canonical_head,
                               waiting    <- WaitingCall
ImplementsEngineApi == Api!Spec

(***************************************************************************)
(* The engine uses its downloader as module Downloads says, which is what  *)
(* EngineDownloader implements.                                            *)
(***************************************************************************)
Queue == INSTANCE Downloads
UsesDownloads == Queue!Spec

(***************************************************************************)
(* The maps of ChainState agree (chain_state.rs:22-32): a block is indexed *)
(* by its number exactly while it is in memory, and no witness outlives    *)
(* its block, so that finalization leaves nothing behind.                  *)
(***************************************************************************)
ChainIndexed ==
    /\ \A n \in Numbers : chain.block_hashes_by_number[n] =
                             {h \in chain.blocks_by_hash : Number[h] = n}
    /\ chain.witnesses \subseteq chain.blocks_by_hash
=============================================================================
