# Ress: TLA+ models, checks and proofs

Ress is a stateless Ethereum execution client. A consensus client sends it
payloads and forkchoice updates; ress keeps no state, so for every block it
fetches the block, an execution witness and missing contract bytecodes from
stateful peers, executes the block in memory and answers. This directory models
the program from the call of the consensus client down to the peer connections:
the consensus engine with its tree, its block buffer and the chain state they
share, its downloader, the futures that download, the network manager or the RPC
adapter that carries their requests, and the computation of the state root.
Paths below are relative to the repository; `tree/`, `download/` and `engine.rs`
are under `crates/engine/src/`.

## 1. Inventory

| Part | State | Operations | Why it is hard |
|---|---|---|---|
| Block buffer (`tree/block_buffer.rs`) | blocks, witnesses, missing bytecodes, parent links, index by number, LRU | insert block / witness, remove block, remove with children, evict old, bytecode received | six collections updated one by one on many paths; loops over a map they change; limit reached while blocks wait for data |
| Engine tree (`tree/mod.rs`) | canonical head, forkchoice tracker, invalid header cache, the buffer | new payload, forkchoice update, downloaded block, connect buffered blocks | verdicts must not depend on arrival order; caches forget; reorgs |
| Consensus engine (`engine.rs`) | parked payload, downloader, tree | messages, download outcomes, timeout, restart | a parked payload blocks messages; a timeout races a late witness; errors halfway through a loop; only bytecodes survive a restart |
| Downloader (`download/mod.rs`) | vectors of futures, queue of outcomes | start a request, poll | the sweep reorders the vectors under its index; wake-ups |
| Download futures (`download/futs.rs`) | one per request | poll, retry | wrong, empty, short, failed or late answers, in any order |
| Chain state, provider (`crates/provider`) | canonical hashes, blocks, witnesses; bytecodes on disk | insert, chain update, finalize, BLOCKHASH | pruning windows, reorgs, forks in memory |
| Network manager, handle (`crates/network`) | connections, waiting requests | forward a request, new connection | closed connections, no connection, lost wake-ups |
| RPC adapter (`crates/testing/src/rpc_adapter.rs`) | cache of bytecodes, a task per request | serve headers, bodies, bytecode, witness | concurrent calls that fail while the RPC node follows another chain |
| State root (`tree/root.rs`) | the sparse trie | update storages in parallel, then accounts | results in any order, errors, storage that was not revealed |
| Stateless EVM (`crates/evm`) | none | execute | absent entries of an incomplete witness |
| Launcher, CLI, RPC server, engine proxy | none of their own | start-up, I/O | - |

One task owns the engine, the tree, the buffer and the downloader (`engine.rs:292`):
handlers do not interleave with each other. What does interleave is everything
outside: messages of the consensus client, completions of downloads, the timeout.
The tree returns events (`tree/outcome.rs`) and the engine turns them into requests.
A future sends its requests through `RessNetworkHandle` to the task of the network
manager, or of the RPC adapter that can take its place, which resolves them through
a oneshot channel; a request that is dropped or answered badly is made again.

What makes each part correct:

* buffer - its collections describe the same blocks, its limit holds, its loops remove
  the right blocks and return parents before children;
* engine and tree - answers agree with what the blocks are, whatever the order of
  events; what is awaited has been requested; what can be executed is executed; a
  sync target is reached; a parked payload is answered;
* chain state - the canonical hashes are the chain of the head; BLOCKHASH returns
  the block's own ancestor;
* downloader and futures - every future is polled in every sweep, none that is ready is
  slept on; a future always asks for what it lacks and yields the right data once;
* network and RPC adapter - a request is never lost, slept on or left in the queue beside
  a connection; a peer that can serve it is reached; a response has no gap;
* state root - it commits to the state after the block, in whatever order tasks finish.

`PROJECT.json` lists the hazards behind these, with the line where each one bites.

## 2. Modules

| Module | Models | Notes |
|---|---|---|
| `BlockTree` | the blocks that exist | constants: hash, parent, number; `Ancestry`, `AncestorAt` |
| `BufferOps` | `block_buffer.rs` | each operation as a function of the buffer record |
| `BlockBuffer` | the buffer as a component | any sequence of its operations; properties |
| `BufferWalk` | the loops of `remove_children` and `evict_children` | the buffer with a stack; implements `BlockBuffer` |
| `BufferOpsProofs` | - | what each operation of `BufferOps` does, and that it keeps `BufferOK` |
| `BlockBufferProofs` | - | the theorems about `BlockBuffer` |
| `EngineProofs` | - | the theorems about `ConsensusEngine`, on top of `BufferOpsProofs` |
| `EngineDownloaderProofs`, `FetchProofs`, `NetworkManagerProofs`, `RpcAdapterProofs`, `StateRootProofs` | - | the theorems about the other components |
| `ChainOps` | `chain_state.rs`, `provider.rs` | operations on the chain record |
| `TreeOps` | what `tree/mod.rs` computes | exits of `insert_block`, invalid ancestors, reorgs |
| `ConsensusEngine` | `engine.rs`, `tree/mod.rs`, the provider and the database, composed | state, actions, fairness, properties |
| `EngineApi` | what the consensus client may rely on | abstract; implemented by `ConsensusEngine` |
| `Downloads` | a set of requests and a queue of outcomes | abstract; implemented by `EngineDownloader`, used by `ConsensusEngine` |
| `EngineDownloader` | `download/mod.rs` and the loop of `engine.rs` that polls it | vectors, `swap_remove`, wake-ups |
| `FetchOps` | the checks of `download/futs.rs` | headers ranges, bodies |
| `FetchBlock`, `FetchRange` | the futures for a block (with ancestors) and for a range | |
| `DownloadFutures` | the two side by side | |
| `Fetch` | what a future promises | abstract; implemented by `FetchBlock` |
| `NetworkManager` | `manager.rs`, `handle.rs` | the poll loop, the waker, the rotation; connections are external |
| `NetworkFetch` | the futures for bytecodes and witnesses on top of `NetworkManager` | |
| `RpcAdapter` | `rpc_adapter.rs` | a task per request, concurrent calls; the RPC node is external |
| `StateRoot` | `tree/root.rs` | parallel storage tasks, the channel, the accounts |
| `MC*` | - | the instances the `.cfg` files choose from |

**Data.** A block is its hash; parent and number are constant functions. What
checking a block would find is the constant `Verdict` (which phase rejects it, if
any); the bytecodes its execution asks for are `CodesOf`. A witness is what the peer
sent: `state`, `"full"` or, when it cannot be revealed, `"corrupt"`, and `codes`, the
bytecodes its nodes name (`witness.rs:48`). A full one names at least what execution
asks for, and two witnesses of a block may name different ones. Hash maps are total functions, with `None`
or the empty set for an absent entry. The LRU map is the order of use of its keys.
In the futures a body is a value that several headers may commit to, and an answer
is any short sequence of headers or bodies, or a failure. A root in `StateRoot` is
what it commits to.

**Control.** One action per handler. A handler of the engine that loops over blocks
takes one step per block: `task` holds what is left (`task.connect`: the buffered
blocks `try_connect_buffered_blocks` has taken out; `task.unlocked`: the rest of the
loop in `on_download_outcome`), and no other action of the engine is enabled meanwhile,
except a restart, which may come in the middle of a handler.

| Action of `ConsensusEngine` | Code |
|---|---|
| `MalformedPayload`, `UnrecoverablePayload`, `RejectedPayload`, `NewPayload` | `engine.rs:221-255` with `on_new_payload`, `tree/mod.rs:476-558` |
| `Connect`, `Finish` | `try_connect_buffered_blocks`, and what follows it: make canonical, answer |
| `ForkchoiceRejected`, `ForkchoiceCurrent`, `ForkchoiceNewHead`, `ForkchoiceKnownHead`, `ForkchoiceSyncing` | the exits of `on_forkchoice_updated`, with `engine.rs:256-272` |
| `PollDownloader` | the sweep of `EngineDownloader::poll` |
| `FinalizedDownloaded`, `BlockDownloaded`, `WitnessDownloaded`, `BytecodeDownloaded`, `BytecodeLost`, `EngineStops` | the arms of `on_download_outcome` and its errors |
| `SkipUnlocked`, `InsertUnlocked` | its loop over unlocked blocks, with `on_downloaded_block` |
| `ParkedTimeout` | `engine.rs:301-312` |
| `ForgetInvalid` | external: the invalid header cache of reth drops an entry |
| `Restart` | the process ends and `NodeLauncher::launch` starts it with its database |

| Module | Actions | Code |
|---|---|---|
| `BufferWalk` | `StartRemove`, `RemoveChildren`, `StartEvict`, `EvictChildren`, `Return` | one round of the `while` loops per step |
| `EngineDownloader` | `Download`; `PollOutcome`, `BeginSweep`, `PollRequest`, `EndLoop`; `PollMessages`, `EndHandler`, `Resume` | `download_*`; the statements of `EngineDownloader::poll`; the loop of `ConsensusEngine::poll` |
| `FetchBlock`, `FetchRange` | `OnHeaderResponse`, `OnBodyResponse`, `OnAncestorsResponse`, `OnHeaders`, `OnBodies`, `Retry` | one poll of the future that finds an answer |
| `NetworkManager` | `Send`; `ForwardPending`, `PollEvents`, `PollRequests`, `Resume`; `TrySend`, `NoConnection` | the handle; the branches of `poll`; the rounds of `on_peer_request` |
| `NetworkFetch` | `Ask`, `OnResponse` | the futures for bytecodes and witnesses |
| `RpcAdapter` | `Ask`, `Receive`, `Complete`, `Extend`, `ServeBlocks`, `ServeWitness` | `run` and the tasks it spawns |
| `StateRoot` | `Take`, `Send`, `Join`, `Receive`, `UpdateAccount`, `Root` | `calculate_state_root` in order |

Variables that are not state of the program are named `history` where they are
declared, and only properties read them: `installed` (blocks a finalized download has
put in memory), `since` (who was served since), `honest` (no wrong body so far),
`disturbed` (requests during which the RPC node changed); so is `reply`, the answer
the last step sent.

Abstractions to know of: in `BufferOps` the loops of the buffer are stated by the hashes
they reach (`Linked`), and `WalkRefinesBuffer` shows that the loops of `BufferWalk` do
just that; the
engine connects the blocks `remove_block_with_children` returns in any order that puts
parents first, and `ParentsFirst` says that the code's order does. `on_new_head` is
stated by the fork block and the blocks above it. A request is kept once per kind and
hash in the engine, which `EngineDownloader` implements. A name of a connection is used
again only after the manager has dropped it.

## 3. Refinements

```
  consensus client
        |  EngineApi            <- ConsensusEngine           (ImplementsEngineApi)
  ConsensusEngine, TreeOps, ChainOps, BufferOps
        |  BlockBuffer          <- BufferWalk                (ImplementsBlockBuffer)
        |  Downloads            <- ConsensusEngine uses it   (UsesDownloads)
        |                       <- EngineDownloader          (ImplementsDownloads)
  EngineDownloader
        |  Fetch                <- FetchBlock                (ImplementsFetch)
  the futures
        |
  NetworkManager, or RpcAdapter
        |
  peers, or the RPC node
```

`EngineApi` has the set of valid blocks, the head and the one call that waits: every
`newPayload` call gets one answer, none is read while one waits, VALID and INVALID are
only said of good and bad blocks, and only a restart takes anything back. The mapping
takes `blocks_by_hash`, the canonical head and the parked (or running) payload.

## 4. Runs

| Run (cfg) | Question | Bounds |
|---|---|---|
| `block_buffer` (BlockBuffer) | do the collections stay in step, and do the loops do what `BufferOps` says? | 4 blocks with a fork, room for 3, 1 bytecode |
| `engine_sync` (EngineSync) | is anything the engine waits for forgotten, is anything executable left waiting? | chain of 2 and a fork block, shared bytecode, 2 completions per poll, payloads for both tips |
| `engine_invalid` (EngineInvalid) | does any order of arrival change a verdict, an answer or the latest valid hash? | chain of 3 and a fork; one block each failing in execution, on its own, and in sender recovery; malformed payloads; the cache forgets |
| `engine_finalized` (EngineFinalized) | canonical hashes, BLOCKHASH and the chain's indexes under reorgs, finalized downloads and pruning | chain of 4 and a branch of 2 on genesis, window 2; the heads genesis, the tip of the branch and two blocks of the chain; two finalized blocks |
| `engine_faults` (EngineFaults) | corrupt witnesses, witnesses that name different bytecodes, failing database, evictions while data is on the way, restarts | chain of 3 and a fork, room for 2; a header its parent rejects, a sender that cannot be recovered; `CHECK_DEADLOCK FALSE`, because the engine may stop for good |
| `engine_liveness` (EngineLiveness) | is the target reached, is a parked payload answered? | chain of 2, shared bytecode, `FairSpec` |
| `downloader` (Downloader) | does the sweep poll everything, is a wake-up lost, is what is ready handled? | three requests of one kind and one of another, two requests per handler |
| `download_futures` (DownloadFutures) | do the futures ask for what they lack, yield what they should, and end? | chain of 4 headers and a fork, two bodies, answers of up to 3 headers or bodies, 0 to 3 ancestors |
| `network` (Network) | are requests lost, in two places, slept on, or starved? | two connections that come and go, one of which only sends wrong or empty data, a bytecode and a witness future |
| `network_events` (NetworkEvents) | violation, section 6 | the same |
| `rpc_adapter` (Rpc) | are responses sound while calls fail and the node's chain changes? | chain of 4 and a fork; headers with bodies, headers with a witness, a witness with bytecodes at the same time |
| `state_root` (StateRoot) | is the root right, does the function return, does an error of a task end in an error? | two accounts, one slot, every pre-state, every change, every complete witness; storages and accounts may fail on a node that is not revealed |

*Why the bounds are enough.* A fork of two blocks on a common parent, and a branch of
two or three blocks above what is in memory, give every relation the code
distinguishes: parent in memory / buffered / missing / invalid, sibling, ancestor,
descendant two levels down. The window of 256 is scaled to 2, so that the boundary of
pruning falls inside the tree. `MaxBatch` bounds how many requests complete in one
sweep; two are enough for an outcome to wait while another one is handled. Three
futures in a vector are the least for which `swap_remove` moves one that was not
polled and one that was. Two connections are enough for a request to be handed to the
wrong one first, and for one to close while the other stays. `BufferedBlocksArePursued`
is not checked with the small buffer: there eviction does drop the block and the
witness something waits for, and the parked payload is answered by its timeout (section
5 has its hypotheses). `CHECK_DEADLOCK FALSE` stands where futures are done, connections are
closed or a function has returned.

*Fairness.*

* `ConsensusEngine!FairSpec`: the engine task is woken and polled again after each step,
  so a handler that has begun ends (`WF` of `Continue`) and a queued outcome is handled
  (`WF` of `OnDownloadOutcome`). Each sweep polls every request and each future retries
  until its answer is good, so a request that some peer can serve completes (`SF` per
  request: sweeps are interrupted by messages). Nothing is assumed of the consensus
  client or of the timeout.
* `EngineDownloader!FairSpec`: only that the executor runs a task that was woken.
* `FuturesSpec`: retry timers fire, and a request that is made again and again is
  answered rightly again and again (`SF`).
* `FetchSpec` shows where that comes from: weak fairness of the manager, of timers and
  of connections that answer what they hold. That a request reaches the peer that has
  the data is left to the rotation. The instance has one peer that can serve both
  requests; two futures that are asked for in lockstep, one of which nobody can serve,
  could keep the rotation in step with them, and no property says otherwise.
* `RpcAdapter!FairSpec`: tasks run and calls complete or fail. `StateRoot!FairSpec`:
  threads run.

Every property of a passing run has a mutant in `PROJECT.json`: a changed definition,
as a plausible bug would change it, under which TLC finds the property violated. The
mutants stand next to the definitions they replace.

## 5. Proofs

The theorems hold for every value of the constants: any block tree, any number of
requests, connections, accounts and bytecodes, any limit and window. What the runs
check on one instance is proved as listed under "theorems" in `PROJECT.json`; the
argument of each module follows.

### Buffer (`BufferOpsProofs`, `BlockBufferProofs`)

The inductive invariant is `BufferOK(buffer)`: the type, `LruOrders` (the LRU map is a
total order of exactly the buffered blocks), the limit, `EarliestIndexes`,
`LinksBuffered`, `AwaitedHaveWitness`. The parts need each other: eviction takes the
oldest key of the LRU map, and only `LruOrders` makes it a buffered block; the limit
holds because an insertion into a full buffer removes exactly one block;
`evict_old_blocks` empties the index by number and removes what the index named, which
are all old blocks only if the index was complete. `UnindexOK` and `RemoveSetOK` say that
taking any set of blocks out of all collections keeps the invariant; removal with
children and eviction are instances. For each operation a second lemma (`...Effect`) says
what it does to blocks, witnesses and links. These lemmas are about the operators, and
`EngineProofs` uses them for the buffer inside the engine.

The loops of `BufferWalk` take blocks out of the maps they walk along, so what the stack
will reach is never what it would have reached at the start. `WalkInv` says what stays the
same: `Completed`, the buffer with everything taken out that is still linked to a hash on the
stack, is the result the atomic operation has on the buffer it was called on (`Intended`),
and `BufferOK` holds after every round. `Linked` is a least closed set, and one round moves
a hash from the stack to what was taken out without changing it. From this follow
`WalkRefinesBuffer` (a round is a stutter of `BlockBuffer`, the return is its step) and
`WalkKeepsIndexes` (the collections agree in the middle of a loop). For `ParentsFirst` the
invariant has `CameTo`: the walk came to each hash on the stack, and to each block it will
return, from the hash it started from, and every link on the way is gone. A block that is
about to be returned is still linked to its parent, so it is no ancestor of one that was
returned before it, whatever the order of the hash sets.

### Engine (`EngineProofs`)

Invariants are built one on the other, each by one lemma per action:

| Theorem | Property | Invariant and argument | Hypothesis |
|---|---|---|---|
| `EngineBaseInvariant`, `EngineTypeOK` | `TypeOK` | `EngineBase`: types, `BufferOK(buffer)`, and `TaskOK` (a handler that connects children has put their parent in memory; a payload that is handled is not parked) | - |
| `EngineChainIndexed` | `ChainIndexed` | `ChainSteps`: every step changes the chain by an execution, a new head, a finalized download, a pruning or a restart; each keeps `Indexed` | - |
| `EngineBytecodes` | `BytecodesAccountedFor` | `BufferSteps`: only a witness and a bytecode that is stored change what is awaited; with `FitInvariant` (a buffered full witness names what its block's execution asks for) a block being connected lacks nothing | - |
| `EngineAwaitedRequested` | `AwaitedBytecodesRequested` | `RequestSteps`: a request leaves `inflight` for the queue, and the queue for its handler, which takes the bytecode off every list | no bytecode fails to be stored (`"bytecode" \notin Faults`) |
| `EngineUsesDownloads` | `UsesDownloads` | step simulation | no restart, which empties the downloader |
| `EngineVerdicts` | `VerdictsAreRight` | with `SendersRecovered` (nothing without senders is buffered) and `FinalizedNamed` (a finalized request was named by a forkchoice update) | `TrustedForkchoice` |
| `EngineLatestValidHash` | `LatestValidHashIsRight` | every answer is of a bad block, and the walk up from a cached ancestor ends at the deepest good one | `TrustedForkchoice` |
| `EngineRefinesApi` | `ImplementsEngineApi` | one simulation lemma per handler, from the invariants above | `TrustedForkchoice` |
| `EngineCanonicalHashes` | `CanonicalHashesFollowHead` | `HashesFollow`: each hash is filed under its own number, is an ancestor of the head wherever finalized downloads reach, and the head is there | `TrustedForkchoice` |
| `EngineConnects` | `ExecutableOnlyUnderInstalled` | `BlocksWaiting`: a complete block under a parent in memory is one the running handler will come to, or has an installed parent; and links of complete blocks are never lost | - |
| `EngineLeavesNothing` | `NoExecutableBlockBuffered` | the same, with `installed = {}` | no forkchoice state names a finalized block |
| `EngineBlockHash` | `BlockHashIsRight` | `HashesFollow` and `HashesPresent`: no number in the window of a block in memory, up to the head, lacks a canonical hash; the walk down `blocks_by_hash` then meets the canonical chain at a block both agree on, or ends at the hash it looks for | `TrustedForkchoice` |
| `EnginePursuesBlocks`, `EngineKeepsNoOrphans` | `BufferedBlocksArePursued`, `OrphanWitnessIsNotNeeded` | `BlocksPursued`: of a good block that is neither in memory nor being connected, the block is buffered or requested when its witness is, and the witness when the block is unless `NoWitnessDropped` fails | `NothingDropped`; for the first also `NoWitnessDropped` |

`TrustedForkchoice` is the duty of the consensus client, which the node does not check:
the finalized block is valid, has its ancestors down to genesis and is an ancestor of the
head it comes with. Every instance TLC checks satisfies it (`TrustedInstance`). The
hypothesis of `EngineLeavesNothing` is needed: section 6 has the case of a finalized
download.

The two halves of a block travel apart: they are asked for together, arrive in any order,
one may come as a payload, and each may be put back when the block turns out to be
disconnected. Neither property is inductive by itself; that the two halves imply each other
is, together with `BytecodesAccountedFor`, which rules out that an execution fails for want
of a bytecode and loses what was taken out of the buffer. The hypotheses list what does drop
one half, and for each TLC finds a counterexample without it. `NothingDropped`: a witness
that cannot be revealed is taken out of the buffer with its block and the error loses the
rest; a full buffer evicts (`Cardinality(Hash) <= MaxBlocks`: room for all blocks there are);
and after finalization has pruned a block, the late download of it is buffered alone.
`NoWitnessDropped`: a malformed payload under a block's hash takes the witness away, and
the engine stops on a failing database with the witness in hand. The instance of
`engine_sync` satisfies both. Bad blocks, lost bytecodes, forgotten invalid headers and
restarts are allowed.

Three statements were corrected while they were being proved; each time TLC then
confirmed the counterexample on a larger instance, which is why `engine_finalized` has two
branches of different length. A finalized download replaces the canonical hashes of its
window only, so `CanonicalHashesFollowHead` must leave out what lies below the window
of an installed block as well as what lies above the head; and `BlockHashIsRight` needs
the ancestors of the block to lead, in memory, to the canonical chain
(`OnCanonicalChain`), which finalization can cut off for a side branch. It also leaves out
numbers below the window of an installed block. A finalized download installs a block with
the hashes of its own window and nothing below; when a later forkchoice update makes an
older block the finalized one, the blocks under that one are pruned, and the older block's
window is then only partly filled.

### Downloader (`EngineDownloaderProofs`)

`DownloaderInv`: no vector holds a request twice; `SweepIsComplete` (behind the index is
what was polled, before it what was not: the reason why `swap_remove` going downwards is
right); outcomes are ranked by kind within a sweep; a future that was polled wakes the
engine or has done so (`PolledWakes`); after a sweep all were polled. From it
`SweepIsComplete`, `SleepsOnNothing` (no lost wake-up, the safety half of
`ReadyIsHandled`) and the refinement of `Downloads`, whose single step "poll" is the sweep
with its many polls.

### Futures (`FetchProofs`)

`BlockInv`: an accepted header is the right one and not asked for any more; ancestors are
asked for only once the right block is there; nothing was yielded before. `RangeInv`: the
headers are a line from the start of at least the length asked for, and, while every body
was one that was asked for, the bodies are those of the first headers and the request is
for the rest. `NthIs` shows that the loop over the bodies then keeps them in place.
`RightBlocks`, `RangeIsRight` and `AcceptedBodies` are stated with `IsLine` and with the
set of accepted indices, without recursion and without `SelectSeq`, so that they can be
reasoned about.

### Network (`NetworkManagerProofs`), RPC adapter (`RpcAdapterProofs`)

`NetInv`: `Places` (a request whose caller waits is in the channel, in `pending_requests`,
being sent, or with one connection, and in one of these only) and `Rotation` (a connection
is in the rotation once, and was not served since one behind it was). `RequestsAccountedFor`
counts places, which follows by cardinalities of disjoint sets; `RotationIsFair` is a step
lemma. `RequestsWakeManager` is not inductive: `Asleep` adds that past the first branch of
`poll` there is nothing to forward, which holds because taking a request, the only step that
can lead to a queued one, goes back to the top. `FetchUsesManager` carries the theorems to
the futures on top.

`AdapterInv` knows of every call of every task what it asked for and what its reply can
be (`CallOK`), how many calls a task makes (`CallCount`), where every request is (`Kept`)
and what was answered (`AnswerOK`). A reply is known to be the node's current chain only
for requests during which the chain stood still. `HeadersHaveNoGap` needs arithmetic on the
four limits (`Reaches`): the limit of the request, the one of headers, the soft limit, and
genesis. A limit of 0 is allowed, and gives one header as in the code.

### State root (`StateRootProofs`)

`RootInv` says for each storage where its trie is: in the sparse trie, with its task,
updated in the channel, or back; and that the leaves are updated for the accounts that were
handled. Needed is that every result is back before accounts are updated: `Receive` leaves
its loop only on an empty channel, after all tasks were joined.

### Assumptions

On constants, each evaluated by TLC on every run: finitely many hashes, distinct from `Zero`
and `None`; parents and numbers as in a block tree; a positive buffer limit; `None` is no
value, trie, account or change; answers are no status; requests have the shape of
`RessPeerRequest` (the handle's callers ask for at least one body); the heads of the RPC node
reach genesis; counts and limits are naturals. `Ancestry` is a least closed set
(`AncestryLeast`), from which the facts about chains are proved without recursion.

### Only model-checked

* All liveness (`SyncTargetReached`, `ParkedPayloadAnswered`, `FetchesComplete`,
  `FuturesComplete`, `ReadyIsHandled`, `RequestsAnswered`, `RootComputed`): fairness and
  `ENABLED` are outside the proof system used here.

Every safety invariant, action property and refinement a run checks is stated by a theorem,
some under the hypotheses given above; the runs have no property that is neither proved nor
in this list.

## 6. Disagreements between code and comments

Shown by a run:

* `network_events` - an event that is not `Established` is taken from the channel by
  `poll` (`manager.rs:76`), which then returns `Pending` without a waker there. The next
  connection does not wake the manager, and requests that wait for a connection stay
  where they are until another request comes in. `FetchesComplete` shows that
  no wake-up is lost as long as no such event is reported.

Seen while modelling; the passing runs state what holds in spite of them:

* `remove_children` drops the whole entry of a parent (`block_buffer.rs:235`) although
  children without a complete witness stay buffered: `parent_to_child` is then no map
  "to the buffered children". `LinksAreBuffered` has the other direction.
* A finalized block is put in memory without connecting what waits for it
  (`engine.rs:110-124`): an executable block stays in the buffer until the consensus
  client sends it again. `ExecutableOnlyUnderInstalled` shows that this is the only way.
* When the older of two finalized downloads arrives last the head moves back and the
  later block remains canonical above it. `CanonicalHashesFollowHead` shows that
  nothing up to the head is affected, and nothing at all before the first one.
* `prepare_invalid_response` answers the zero hash where the comment above
  `latest_valid_hash_for_invalid_payload` asks for null.
* `on_finalized` removes blocks by number whatever chain they are on
  (`chain_state.rs:134`): the upper part of a side chain stays in memory without its
  lower part.
* A response with fewer headers than the limit is refused (`futs.rs:237`), also near
  genesis: a finalized block with fewer than 256 ancestors is never yielded.
  `FuturesComplete` is for blocks with enough of them.
* After a body that is not valid the loop of `FetchFullBlockRangeFuture` goes on with
  the next header (`futs.rs:486`), and the bodies after it are joined to the wrong
  headers. `RangeIsRight` is for answers without such a body; the engine does not use
  this future.
* `insert_witness` leaves an older entry of `missing_bytecodes` in place when nothing is
  missing for the new witness (`block_buffer.rs:110`). After a timeout the same payload
  makes the node fetch the witness again; when the second one names fewer bytecodes, the
  block goes on waiting for a bytecode that only the first one named.
  `BytecodesAccountedFor` shows that this never lets a bytecode be overlooked and that
  nothing that is stored is waited for.
* `FetchWitnessFuture` takes any data that is not empty (`futs.rs:649`).
* `download_full_block` sets its gauge from the vector of witness requests
  (`download/mod.rs:69`).
* The RPC adapter asks for a witness by number (`rpc_adapter.rs:158`): after a reorg
  between two calls it is that of another block. `WitnessIsUsable` says so for a
  chain that stands still only.
* A witness that can be revealed but lacks an account makes `basic` return none
  (`evm/src/db.rs:37`); the block is then rejected and cached as invalid.
* The engine proxy sends every engine call to reth first, and `engine_get*` to reth
  alone (`bin/adapter/src/main.rs:45`), where `README.md:104` says they go to ress.

## 7. What is left

* A proof of the safety half of the liveness properties: `SleepsOnNothing` and
  `RequestWakeUp` have it for the downloader and the manager; the engine's
  (`SyncTargetReached`) would be that a sync target always has a request that can complete.
* The loops of `on_new_head` step by step, and that they compute `ForkBlock` and `Above`.
* Witnesses that can be revealed but are not complete (section 6).

## 8. Not modelled

EVM execution, trie hashing and consensus rules (a verdict on the block instead);
incomplete but revealable witnesses; payload attributes (ress builds no payloads; they
change the answer only); the loops of `on_new_head` step by step; metrics and logging;
MDBX and its transactions; the ommers, transactions and withdrawals of a body and the
sizes of responses in bytes; process start-up, command line and RPC server, which have
no state of their own; the engine proxy of the test setup, which keeps nothing between
two calls.
