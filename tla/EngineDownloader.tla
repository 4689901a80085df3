-------------------------- MODULE EngineDownloader ---------------------------
(***************************************************************************)
(* EngineDownloader (crates/engine/src/download/mod.rs) and the loop of    *)
(* the engine's poll that drives it (engine.rs), statement by statement    *)
(* where the order matters: the sweep over the vectors of futures with     *)
(* swap_remove and push, and the wake-ups.  A future keeps the waker of    *)
(* the engine only if it was polled before it became ready.                *)
(* Parked payloads, while which no message is read, are left to module     *)
(* ConsensusEngine.                                                        *)
(***************************************************************************)
EXTENDS Naturals, Sequences, FiniteSets, Functions

CONSTANTS
    Wanted,         \* for each kind the ids that may be downloaded
    MaxAsks,        \* bound on the requests a handler makes
    None

Kinds == <<"finalized", "block", "witness", "code">>
Kind  == {Kinds[i] : i \in DOMAIN Kinds}

ASSUME DownloaderAssumption == DOMAIN Wanted = Kind /\ MaxAsks \in Nat

Req(kind, id) == [kind |-> kind, id |-> id]

VARIABLES
    inflight,       \* the inflight_*_requests vectors, by kind
    outcomes,       \* outcomes that were not handed to the engine yet
    ready,          \* requests in flight whose future would complete now
    registered,     \* requests in flight whose future holds the engine's waker
    polled,         \* requests polled in this sweep
    kind, idx,      \* where the sweep is: the rank of the kind, and the index
    at,             \* "poll", "sweep", "handler", "messages" or "asleep"
    woken,
    messages,       \* messages of the consensus client that were not read
    handling,       \* the outcome the running handler was called with, or None
    asks            \* requests the running handler may still make

queue   == <<inflight, outcomes>>
sweep   == <<kind, idx, polled>>
handler == <<handling, asks>>
downloadervars == <<queue, sweep, ready, registered, at, woken, messages, handler>>

InFlight == UNION {{Req(k, id) : id \in Range(inflight[k])} : k \in Kind}

Init == /\ inflight = [k \in Kind |-> <<>>] /\ outcomes = <<>>
        /\ ready = {} /\ registered = {} /\ polled = {}
        /\ kind = 1 /\ idx = 0
        /\ at = "poll" /\ woken = FALSE
        /\ messages = 0 /\ handling = None /\ asks = 0

-----------------------------------------------------------------------------
\* Mutant: a request is pushed although the same one is in flight.
DownloadAgain(k, id) ==
    /\ at = "handler" /\ asks > 0
    /\ asks' = asks - 1
    /\ inflight' = [inflight EXCEPT ![k] = Append(@, id)]
    /\ UNCHANGED <<outcomes, sweep, ready, registered, at, woken, messages, handling>>

\* download_full_block, download_bytecode, download_witness and
\* download_finalized_with_ancestors, called by a handler of the engine.
Download(k, id) ==
    /\ at = "handler" /\ asks > 0
    /\ asks' = asks - 1
    /\ IF id \in Range(inflight[k])
         THEN UNCHANGED inflight
         ELSE inflight' = [inflight EXCEPT ![k] = Append(@, id)]
    /\ UNCHANGED <<outcomes, sweep, ready, registered, at, woken, messages, handling>>

-----------------------------------------------------------------------------
\* poll: an outcome that is left over is handed to the engine at once.
PollOutcome == /\ at = "poll" /\ outcomes # <<>>
               /\ outcomes' = Tail(outcomes)
               /\ at' = "handler" /\ handling' = Head(outcomes) /\ asks' = MaxAsks
               /\ UNCHANGED <<inflight, sweep, ready, registered, woken, messages>>

\* Otherwise the sweep begins, with the last of the finalized requests.
BeginSweep == /\ at = "poll" /\ outcomes = <<>>
              /\ at' = "sweep" /\ polled' = {}
              /\ kind' = 1 /\ idx' = Len(inflight[Kinds[1]])
              /\ UNCHANGED <<queue, ready, registered, woken, messages, handler>>

\* Vec::swap_remove: the last element takes the place of the removed one.
SwapRemove(s, i) == SubSeq([s EXCEPT ![i] = s[Len(s)]], 1, Len(s) - 1)

\* Mutant: a request that is not ready is put back in front of the others.
PollRequestToFront ==
    LET k    == Kinds[kind]
        q    == Req(k, inflight[k][idx])
        rest == SwapRemove(inflight[k], idx)
    IN  /\ at = "sweep" /\ idx > 0
        /\ idx' = idx - 1
        /\ polled' = polled \cup {q}
        /\ IF q \in ready
             THEN /\ inflight' = [inflight EXCEPT ![k] = rest]
                  /\ outcomes' = Append(outcomes, q)
                  /\ ready' = ready \ {q}
                  /\ registered' = registered \ {q}
             ELSE /\ inflight' = [inflight EXCEPT ![k] = <<q.id>> \o rest]
                  /\ registered' = registered \cup {q}
                  /\ UNCHANGED <<outcomes, ready>>
        /\ UNCHANGED <<kind, at, woken, messages, handler>>

(***************************************************************************)
(* One round of a for loop over the indices of a vector, from the last to  *)
(* the first: the future is taken out and polled; if it is ready its       *)
(* outcome is queued, otherwise it goes to the end of the vector.          *)
(***************************************************************************)
PollRequest ==
    LET k    == Kinds[kind]
        q    == Req(k, inflight[k][idx])
        rest == SwapRemove(inflight[k], idx)
    IN  /\ at = "sweep" /\ idx > 0
        /\ idx' = idx - 1
        /\ polled' = polled \cup {q}
        /\ IF q \in ready
             THEN /\ inflight' = [inflight EXCEPT ![k] = rest]
                  /\ outcomes' = Append(outcomes, q)
                  /\ ready' = ready \ {q}
                  /\ registered' = registered \ {q}
             ELSE /\ inflight' = [inflight EXCEPT ![k] = Append(rest, q.id)]
                  /\ registered' = registered \cup {q}
                  /\ UNCHANGED <<outcomes, ready>>
        /\ UNCHANGED <<kind, at, woken, messages, handler>>

\* The end of a loop; after the last one poll returns.
EndLoop == /\ at = "sweep" /\ idx = 0
           /\ \/ /\ kind < 4
                 /\ kind' = kind + 1 /\ idx' = Len(inflight[Kinds[kind + 1]])
                 /\ UNCHANGED <<at, outcomes, handler>>
              \/ /\ kind = 4 /\ outcomes # <<>>
                 /\ outcomes' = Tail(outcomes)
                 /\ at' = "handler" /\ handling' = Head(outcomes) /\ asks' = MaxAsks
                 /\ UNCHANGED <<kind, idx>>
              \/ /\ kind = 4 /\ outcomes = <<>>
                 /\ at' = "messages"
                 /\ UNCHANGED <<kind, idx, outcomes, handler>>
           /\ UNCHANGED <<inflight, polled, ready, registered, woken, messages>>

-----------------------------------------------------------------------------
\* The rest of the engine's poll: a message is handled, or the task sleeps.
PollMessages == /\ at = "messages"
                /\ \/ /\ messages > 0
                      /\ messages' = messages - 1
                      /\ at' = "handler" /\ asks' = MaxAsks /\ UNCHANGED handling
                   \/ /\ messages = 0
                      /\ at' = "asleep"
                      /\ UNCHANGED <<messages, handler>>
                /\ UNCHANGED <<queue, sweep, ready, registered, woken>>

\* Mutant: the engine goes on with the messages after a handler.
EndHandlerReads == /\ at = "handler"
                   /\ at' = "messages" /\ handling' = None /\ asks' = 0
                   /\ UNCHANGED <<queue, sweep, ready, registered, woken, messages>>

\* A handler returns and the loop starts over with the downloader.
EndHandler == /\ at = "handler"
              /\ at' = "poll" /\ handling' = None /\ asks' = 0
              /\ UNCHANGED <<queue, sweep, ready, registered, woken, messages>>

Resume == /\ at = "asleep" /\ woken
          /\ at' = "poll" /\ woken' = FALSE
          /\ UNCHANGED <<queue, sweep, ready, registered, messages, handler>>

\* A future becomes ready, at any time; external.
BecomesReady(q) == /\ q \in InFlight \ ready
                   /\ ready' = ready \cup {q}
                   /\ woken' = (woken \/ q \in registered)
                   /\ registered' = registered \ {q}
                   /\ UNCHANGED <<queue, sweep, at, messages, handler>>

\* The consensus client sends a message, one at a time; external.
Message == /\ messages = 0
           /\ messages' = 1 /\ woken' = TRUE
           /\ UNCHANGED <<queue, sweep, ready, registered, at, handler>>

-----------------------------------------------------------------------------
Engine == PollOutcome \/ BeginSweep \/ PollRequest \/ EndLoop \/ PollMessages \/ EndHandler \/ Resume

Next == \/ Engine
        \/ \E k \in Kind : \E id \in Wanted[k] : Download(k, id) \/ BecomesReady(Req(k, id))
        \/ Message

Spec == Init /\ [][Next]_downloadervars

\* The executor runs the engine's task when it was woken.
FairSpec == Spec /\ WF_downloadervars(Engine)

-----------------------------------------------------------------------------
(***************************************************************************)
(* Every sweep polls every future once, although the vectors are reordered *)
(* under the index (download/mod.rs:126-127 and 136): below the index      *)
(* there is what is still to be polled, from it on what has been.          *)
(***************************************************************************)
SweepIsComplete ==
    at = "sweep" => \A i \in 1..4 : \A j \in DOMAIN inflight[Kinds[i]] :
        Req(Kinds[i], inflight[Kinds[i]][j]) \in polled
            <=> i < kind \/ (i = kind /\ j > idx)

(***************************************************************************)
(* A future that is ready is handed to the engine in the end, whatever     *)
(* messages and other downloads come in between (engine.rs:295-320).       *)
(***************************************************************************)
ReadyIsHandled == \A k \in Kind : \A id \in Wanted[k] :
                      Req(k, id) \in ready ~> handling = Req(k, id)

(***************************************************************************)
(* The downloader is what the model of the engine takes it for: a set of   *)
(* requests and a queue of outcomes.                                       *)
(***************************************************************************)
RankOf(q) == CHOOSE i \in 1..4 : Kinds[i] = q.kind
Queue == INSTANCE Downloads WITH inflight <- InFlight, Rank <- RankOf
ImplementsDownloads == Queue!Spec
=============================================================================
