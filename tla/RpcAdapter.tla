----------------------------- MODULE RpcAdapter ------------------------------
(***************************************************************************)
(* crates/testing/src/rpc_adapter.rs: the adapter that takes the place of  *)
(* the network manager (launch.rs:226) and answers the node's requests     *)
(* with calls to an RPC node.  A request is served by a task of its own;   *)
(* its calls are under way at the same time, and the node's canonical      *)
(* chain may change between any two of them.                               *)
(***************************************************************************)
EXTENDS BlockTree, FiniteSetsExt, Sequences

CONSTANTS
    Workloads,      \* sets of requests; the node makes those of one, again and again
    Heads,          \* the blocks that may be the canonical head of the RPC node
    CodeHash,       \* hashes of bytecodes
    CodesOf,        \* the bytecodes in the execution witness of every block
    MaxHeaders,     \* MAX_HEADERS_SERVE
    MaxBodies,      \* MAX_BODIES_SERVE
    SoftLimit,      \* SOFT_RESPONSE_LIMIT, counted in headers or bodies
    Faults          \* "rpc": a call may fail

Request == UNION Workloads

(***************************************************************************)
(* RessPeerRequest: headers back from a block, the bodies of one or more   *)
(* blocks, the witness of a block, or a bytecode.                          *)
(***************************************************************************)
Requests == [kind : {"headers"}, blocks : {<<h>> : h \in Hash}, limit : Nat]
                \cup [kind : {"bodies"}, blocks : Seq(Hash) \ {<<>>}]
                \cup [kind : {"witness"}, blocks : {<<h>> : h \in Hash}]
                \cup [kind : {"code"}, code : CodeHash]

ASSUME AdapterAssumption ==
    /\ Request \subseteq Requests
    /\ \A h \in Heads : h \in Hash /\ Genesis \in Ancestry[h]
    /\ CodesOf \in [Hash -> SUBSET CodeHash]
    /\ {MaxHeaders, MaxBodies, SoftLimit} \subseteq Nat \ {0}
    /\ Faults \subseteq {"rpc"}

VARIABLES
    workload,       \* the requests that are made
    head,           \* the canonical head of the RPC node
    bytecodes,      \* the cache of bytecodes
    request_stream, \* the requests that were sent and not read yet
    calls,          \* the RPC calls of the task that serves a request, in order
    status,         \* "unsent", "waiting" or "answered"
    answer,         \* the answer: blocks, or the bytecode
    disturbed       \* history: requests during which the chain changed or a call failed

node == <<head, disturbed>>
vars == <<workload, node, bytecodes, request_stream, calls, status, answer>>

-----------------------------------------------------------------------------
Call(by, of) == [by |-> by, of |-> of, done |-> FALSE, block |-> None]

Got(c) == c.done /\ c.block # None

(***************************************************************************)
(* External: what the node answers to a call.  A block that is not         *)
(* canonical may still be known by its hash; a number names the canonical  *)
(* block, for debug_executionWitness too.                                  *)
(***************************************************************************)
NodeAnswers(c) ==
    IF c.by = "hash"
      THEN IF c.of \in Ancestry[head] THEN {c.of} ELSE {c.of, None}
      ELSE {AncestorAt(head, c.of)}

(***************************************************************************)
(* The numbers on_headers_request asks for after the start block, falling: *)
(* they are pushed to the front of the queue in rising order.              *)
(***************************************************************************)
EndNumber(start, limit) == Max({0, Number[start] - Min({limit - 1, MaxHeaders})})

\* Mutant: the numbers are asked for in rising order.
RangeCallsRising(start, limit) ==
    [i \in 1..Number[start] - EndNumber(start, limit) |->
        Call("number", EndNumber(start, limit) + i - 1)]

RangeCalls(start, limit) ==
    [i \in 1..Number[start] - EndNumber(start, limit) |-> Call("number", Number[start] - i)]

-----------------------------------------------------------------------------
Init ==
    /\ workload \in Workloads
    /\ head \in Heads
    /\ bytecodes = {}
    /\ request_stream = <<>>
    /\ calls = [r \in Request |-> <<>>]
    /\ status = [r \in Request |-> "unsent"]
    /\ answer = [r \in Request |-> <<>>]
    /\ disturbed = {}

\* RessNetworkHandle::send_request
Ask(r) ==
    /\ r \in workload /\ status[r] # "waiting"
    /\ request_stream' = Append(request_stream, r)
    /\ status' = [status EXCEPT ![r] = "waiting"]
    /\ answer' = [answer EXCEPT ![r] = <<>>]
    /\ disturbed' = disturbed \ {r}
    /\ UNCHANGED <<workload, head, bytecodes, calls>>

Answers(r, a) == /\ status' = [status EXCEPT ![r] = "answered"]
                 /\ answer' = [answer EXCEPT ![r] = a]

(***************************************************************************)
(* run reads the next request.  A bytecode is answered from the cache at   *)
(* once, with no bytes when it is not there; for the others a task is      *)
(* spawned, which first asks for blocks by hash.                           *)
(***************************************************************************)
Receive ==
    /\ request_stream # <<>>
    /\ LET r == Head(request_stream)
       IN  IF r.kind = "code"
             THEN /\ Answers(r, IF r.code \in bytecodes THEN <<r.code>> ELSE <<>>)
                  /\ UNCHANGED calls
             ELSE /\ calls' = [calls EXCEPT ![r] = [i \in 1..Len(r.blocks) |-> Call("hash", r.blocks[i])]]
                  /\ UNCHANGED <<status, answer>>
    /\ request_stream' = Tail(request_stream)
    /\ UNCHANGED <<workload, node, bytecodes>>

\* The node answers a call, or the call fails and counts as no block.
Complete(r, i) ==
    /\ i \in DOMAIN calls[r]
    /\ ~calls[r][i].done
    /\ \/ \E b \in NodeAnswers(calls[r][i]) :
              calls' = [calls EXCEPT ![r][i].done = TRUE, ![r][i].block = b]
          /\ UNCHANGED disturbed
       \/ /\ "rpc" \in Faults
          /\ calls' = [calls EXCEPT ![r][i].done = TRUE]
          /\ disturbed' = disturbed \cup {r}
    /\ UNCHANGED <<workload, head, bytecodes, request_stream, status, answer>>

\* The start block, or the block of a witness, is there: what is asked for next.
MoreCalls(r) ==
    LET start == calls[r][1].block
    IN  IF r.kind = "witness" THEN <<Call("number", Number[start])>>
        ELSE IF r.kind = "headers" /\ r.limit > 1 THEN RangeCalls(start, r.limit)
        ELSE <<>>

HasStart(r) == r.kind \in {"headers", "witness"} /\ Len(calls[r]) = 1 /\ Got(calls[r][1])

Extend(r) ==
    /\ HasStart(r) /\ MoreCalls(r) # <<>>
    /\ calls' = [calls EXCEPT ![r] = @ \o MoreCalls(r)]
    /\ UNCHANGED <<workload, node, bytecodes, request_stream, status, answer>>

(***************************************************************************)
(* The loops over the ordered calls: blocks are taken one after the other  *)
(* until one is missing or the response is full, whatever the order in     *)
(* which the calls complete.  The limits are looked at after a block was   *)
(* added to the response, for headers not after the start block.           *)
(***************************************************************************)
Full(r, n) == \/ r.kind = "headers" /\ n > 1 /\ n > SoftLimit
              \/ r.kind = "bodies" /\ (n >= MaxBodies \/ n > SoftLimit)

Taken(r) ==
    Max({n \in 0..Len(calls[r]) : \A i \in 1..n : Got(calls[r][i]) /\ (i < n => ~Full(r, i))})

\* Mutant: blocks that are missing are skipped.
BlocksSkipMissing(r) ==
    LET all == {i \in 1..Len(calls[r]) : Got(calls[r][i])}
    IN  [i \in 1..Cardinality(all) |->
            calls[r][CHOOSE k \in all : Cardinality({m \in all : m <= k}) = i].block]

Blocks(r) == [i \in 1..Taken(r) |-> calls[r][i].block]

\* Mutant: the task waits for a block that is missing.
EndedWhenComplete(r) == \/ Full(r, Taken(r))
                        \/ Taken(r) = Len(calls[r]) /\ ~(HasStart(r) /\ MoreCalls(r) # <<>>)

Ended(r) == \/ Full(r, Taken(r))
            \/ IF Taken(r) = Len(calls[r]) THEN ~(HasStart(r) /\ MoreCalls(r) # <<>>)
               ELSE calls[r][Taken(r) + 1].done

\* on_headers_request or on_block_bodies_request returns: the response is sent.
ServeBlocks(r) ==
    /\ r.kind \in {"headers", "bodies"}
    /\ calls[r] # <<>> /\ Ended(r)
    /\ Answers(r, Blocks(r))
    /\ calls' = [calls EXCEPT ![r] = <<>>]
    /\ UNCHANGED <<workload, node, bytecodes, request_stream>>

\* Mutant: the response is sent and the bytecodes are dropped.
ServeWitnessOnly(r) ==
    LET w == calls[r][Len(calls[r])].block
    IN  /\ r.kind = "witness"
        /\ calls[r] # <<>> /\ Ended(r)
        /\ Answers(r, IF w # None THEN <<w>> ELSE <<>>)
        /\ calls' = [calls EXCEPT ![r] = <<>>]
        /\ UNCHANGED <<workload, node, bytecodes, request_stream>>

\* The task of a witness ends: its bytecodes are cached, then the response is sent.
ServeWitness(r) ==
    LET w == calls[r][Len(calls[r])].block
    IN  /\ r.kind = "witness"
        /\ calls[r] # <<>> /\ Ended(r)
        /\ bytecodes' = IF w # None THEN bytecodes \cup CodesOf[w] ELSE bytecodes
        /\ Answers(r, IF w # None THEN <<w>> ELSE <<>>)
        /\ calls' = [calls EXCEPT ![r] = <<>>]
        /\ UNCHANGED <<workload, node, request_stream>>

\* External: the node follows another chain.
Reorg(h) ==
    /\ h # head
    /\ head' = h
    /\ disturbed' = Request
    /\ UNCHANGED <<workload, bytecodes, request_stream, calls, status, answer>>

Next == \/ \E r \in Request : \/ Ask(r) \/ Extend(r) \/ ServeBlocks(r) \/ ServeWitness(r)
                              \/ \E i \in DOMAIN calls[r] : Complete(r, i)
        \/ Receive
        \/ \E h \in Heads : Reorg(h)

Spec == Init /\ [][Next]_vars

(***************************************************************************)
(* Fairness: the tasks run, and a call completes or fails.                 *)
(***************************************************************************)
Fairness ==
    /\ WF_vars(Receive)
    /\ \A r \in Request :
           /\ WF_vars(\E i \in DOMAIN calls[r] : Complete(r, i))
           /\ WF_vars(Extend(r) \/ ServeBlocks(r) \/ ServeWitness(r))

FairSpec == Spec /\ Fairness

-----------------------------------------------------------------------------
(***************************************************************************)
(* A headers response has no gap, whatever fails and whatever chain the    *)
(* node follows meanwhile: it begins with the start block and the numbers  *)
(* fall one by one; while the chain stands still it is the chain of a      *)
(* canonical start block, as long as asked for or down to genesis          *)
(* (rpc_adapter.rs:70-92).                                                 *)
(***************************************************************************)
HeadersHaveNoGap ==
    \A r \in Request : r.kind = "headers" /\ answer[r] # <<>> =>
        /\ answer[r][1] = r.blocks[1]
        /\ \A i \in DOMAIN answer[r] : Number[answer[r][i]] = Number[answer[r][1]] - (i - 1)
        /\ r \notin disturbed /\ answer[r][1] \in Ancestry[head] =>
               /\ \A i \in DOMAIN answer[r] : answer[r][i] \in Ancestry[answer[r][1]]
               /\ Len(answer[r]) = Min({Max({1, r.limit}), MaxHeaders + 1, Max({2, SoftLimit + 1}),
                                        Number[r.blocks[1]] + 1})

(***************************************************************************)
(* The bodies are those of a prefix of the hashes asked for: a body never  *)
(* takes the place of a missing one, which the caller could not tell       *)
(* (rpc_adapter.rs:106-119).                                               *)
(***************************************************************************)
BodiesArePrefix ==
    \A r \in Request : r.kind = "bodies" /\ status[r] = "answered" =>
        \A i \in DOMAIN answer[r] : answer[r][i] = r.blocks[i]

(***************************************************************************)
(* When a witness is answered its bytecodes are in the cache, so that the  *)
(* requests the witness gives rise to are answered with bytes, whoever     *)
(* else caches in between (rpc_adapter.rs:167-181); and it is the witness  *)
(* of the block asked for, if that is canonical and the chain stands still *)
(* (it is asked for by number, rpc_adapter.rs:157-163, and after a reorg   *)
(* between the two calls it is the one of another block).                  *)
(***************************************************************************)
WitnessIsUsable ==
    \A r \in Request : r.kind = "witness" /\ answer[r] # <<>> =>
        /\ CodesOf[answer[r][1]] \subseteq bytecodes
        /\ r \notin disturbed /\ r.blocks[1] \in Ancestry[head] => answer[r][1] = r.blocks[1]

(***************************************************************************)
(* Every request is answered, although calls fail and the chain changes:   *)
(* no task waits for a call that was given up (rpc_adapter.rs:82, 106).    *)
(***************************************************************************)
RequestsAnswered == \A r \in Request : status[r] = "waiting" ~> status[r] = "answered"
=============================================================================
