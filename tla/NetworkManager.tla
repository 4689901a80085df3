--------------------------- MODULE NetworkManager ----------------------------
(***************************************************************************)
(* crates/network/src: the task of RessNetworkManager (manager.rs), the    *)
(* calls of RessNetworkHandle that feed it (handle.rs), and the peer       *)
(* connections as the manager sees them.                                   *)
(*                                                                         *)
(* The manager is a future: it runs until both of its channels are empty,  *)
(* leaves its waker with them and sleeps.  `at` is the place in the loop   *)
(* of poll, `listening` the channels that hold the waker, `woken` says     *)
(* that a channel has used it.  Connections close at any time, between two *)
(* sends of on_peer_request too.                                           *)
(***************************************************************************)
EXTENDS Naturals, Sequences, FiniteSets, Functions

CONSTANTS
    Conn,           \* peer connections; a name is used again once its connection is gone
    Request,        \* the requests made through the handle
    Answer,         \* what a peer may answer
    Serves,         \* the answers of the peer behind a connection
    None,
    Other           \* a protocol event that is not Established

ASSUME NetworkAssumption ==
    /\ Serves \in [Conn -> SUBSET Answer]
    /\ None \notin Request
    /\ Other \notin Conn
    /\ Answer \cap {"unsent", "waiting", "dropped"} = {}

VARIABLES
    protocol_events,    \* channel of established connections
    peer_requests,      \* channel from the handle
    connections,        \* the manager's rotation of connections
    pending_requests,   \* requests that found no connection
    sending,            \* the request on_peer_request is busy with, or None
    at,                 \* "top", "requests" or "asleep"
    listening,          \* channels the manager's waker is registered with
    woken,              \* the waker has been used
    open,               \* connections whose task is alive
    inbox,              \* requests each connection task has to answer
    response,           \* the oneshot channel of each request
    since               \* history: connections served since this one was, or was added

queues  == <<protocol_events, peer_requests>>
manager == <<connections, pending_requests, sending, at>>
waker   == <<listening, woken>>
peers   == <<open, inbox>>
netvars == <<queues, manager, waker, peers, response, since>>

Init == /\ protocol_events = <<>> /\ peer_requests = <<>>
        /\ connections = <<>> /\ pending_requests = <<>>
        /\ sending = None /\ at = "top"
        /\ listening = {} /\ woken = FALSE
        /\ open = {} /\ inbox = [c \in Conn |-> {}]
        /\ response = [r \in Request |-> "unsent"]
        /\ since = [c \in Conn |-> {}]

\* A message entered the channel: the waker it holds is used.
Wake(channel) == /\ listening' = listening \ {channel}
                 /\ woken' = (woken \/ channel \in listening)

-----------------------------------------------------------------------------
(***************************************************************************)
(* The fetch_* methods of the handle: the request goes to the manager with *)
(* a oneshot sender, and the caller waits.  The manager never ends, so     *)
(* send_request does not fail.                                             *)
(***************************************************************************)
Send(r) == /\ response[r] # "waiting"
           /\ response' = [response EXCEPT ![r] = "waiting"]
           /\ peer_requests' = Append(peer_requests, r)
           /\ Wake("requests")
           /\ UNCHANGED <<protocol_events, manager, peers, since>>

-----------------------------------------------------------------------------
\* The first branch of poll: a connection is there for a request that waits.
ForwardPending == /\ at = "top" /\ sending = None
                  /\ connections # <<>> /\ pending_requests # <<>>
                  /\ sending' = Head(pending_requests)
                  /\ pending_requests' = Tail(pending_requests)
                  /\ UNCHANGED <<queues, connections, at, waker, peers, response, since>>

NothingToForward == sending = None /\ (connections = <<>> \/ pending_requests = <<>>)

(***************************************************************************)
(* The second branch.  An event that is not Established is taken from the  *)
(* channel, and poll goes on as if the channel were empty, without having  *)
(* left its waker there.                                                   *)
(***************************************************************************)
PollEvents == /\ at = "top" /\ NothingToForward
              /\ \/ /\ protocol_events = <<>>
                    /\ listening' = listening \cup {"events"}
                    /\ at' = "requests"
                    /\ UNCHANGED <<protocol_events, connections, since>>
                 \/ /\ protocol_events # <<>> /\ Head(protocol_events) = Other
                    /\ protocol_events' = Tail(protocol_events)
                    /\ at' = "requests"
                    /\ UNCHANGED <<connections, listening, since>>
                 \/ /\ protocol_events # <<>> /\ Head(protocol_events) # Other
                    /\ protocol_events' = Tail(protocol_events)
                    /\ connections' = Append(connections, Head(protocol_events))
                    /\ since' = [since EXCEPT ![Head(protocol_events)] = {}]
                    /\ UNCHANGED <<at, listening>>
              /\ UNCHANGED <<peer_requests, pending_requests, sending, woken, peers, response>>

\* Mutant: poll returns after it has handled a request.
PollRequestsOnce ==
    /\ at = "requests" /\ sending = None
    /\ at' = "asleep"
    /\ IF peer_requests = <<>>
         THEN listening' = listening \cup {"requests"} /\ UNCHANGED <<peer_requests, sending>>
         ELSE /\ sending' = Head(peer_requests)
              /\ peer_requests' = Tail(peer_requests)
              /\ UNCHANGED listening
    /\ UNCHANGED <<protocol_events, connections, pending_requests, woken, peers, response, since>>

\* The third branch, and Poll::Pending.
PollRequests == /\ at = "requests" /\ sending = None
                /\ IF peer_requests = <<>>
                     THEN /\ listening' = listening \cup {"requests"}
                          /\ at' = "asleep"
                          /\ UNCHANGED <<peer_requests, sending>>
                     ELSE /\ sending' = Head(peer_requests)
                          /\ peer_requests' = Tail(peer_requests)
                          /\ at' = "top"
                          /\ UNCHANGED listening
                /\ UNCHANGED <<protocol_events, connections, pending_requests, woken, peers, response, since>>

\* The executor polls the manager again after a wake-up.
Resume == /\ at = "asleep" /\ woken
          /\ at' = "top"
          /\ woken' = FALSE
          /\ UNCHANGED <<queues, connections, pending_requests, sending, listening, peers, response, since>>

-----------------------------------------------------------------------------
\* Mutant: the request that a closed connection hands back is forgotten.
TrySendLoses ==
    /\ sending # None /\ connections # <<>>
    /\ LET c == Head(connections)
       IN  IF c \in open
             THEN /\ inbox' = [inbox EXCEPT ![c] = @ \cup {sending}]
                  /\ connections' = Append(Tail(connections), c)
             ELSE connections' = Tail(connections) /\ UNCHANGED inbox
    /\ sending' = None
    /\ UNCHANGED <<queues, pending_requests, at, waker, open, response, since>>

\* Mutant: the connection goes back to the front.
TrySendToFirst ==
    /\ sending # None /\ connections # <<>>
    /\ LET c == Head(connections)
       IN  IF c \in open
             THEN /\ inbox' = [inbox EXCEPT ![c] = @ \cup {sending}]
                  /\ sending' = None
                  /\ since' = [d \in Conn |-> IF d = c THEN {} ELSE since[d] \cup {c}]
                  /\ UNCHANGED connections
             ELSE connections' = Tail(connections) /\ UNCHANGED <<inbox, sending, since>>
    /\ UNCHANGED <<queues, pending_requests, at, waker, open, response>>

(***************************************************************************)
(* One round of the loop of on_peer_request: the first connection gets the *)
(* request and goes to the back; a closed one is forgotten and the request *)
(* comes back from the failed send.                                        *)
(***************************************************************************)
TrySend ==
    /\ sending # None /\ connections # <<>>
    /\ LET c == Head(connections)
       IN  IF c \in open
             THEN /\ inbox' = [inbox EXCEPT ![c] = @ \cup {sending}]
                  /\ connections' = Append(Tail(connections), c)
                  /\ sending' = None
                  /\ since' = [d \in Conn |-> IF d = c THEN {} ELSE since[d] \cup {c}]
             ELSE connections' = Tail(connections) /\ UNCHANGED <<inbox, sending, since>>
    /\ UNCHANGED <<queues, pending_requests, at, waker, open, response>>

\* No connection is left: the request waits for one.
NoConnection == /\ sending # None /\ connections = <<>>
                /\ pending_requests' = Append(pending_requests, sending)
                /\ sending' = None
                /\ UNCHANGED <<queues, connections, at, waker, peers, response, since>>

-----------------------------------------------------------------------------
(***************************************************************************)
(* External: the connection tasks of reth_ress_protocol.                   *)
(***************************************************************************)
Establish(c) == /\ \A d \in Range(connections) \cup Range(protocol_events) \cup open : d # c
                /\ open' = open \cup {c}
                /\ protocol_events' = Append(protocol_events, c)
                /\ Wake("events")
                /\ UNCHANGED <<peer_requests, manager, inbox, response, since>>

OtherEvent == /\ Other \notin Range(protocol_events)
              /\ protocol_events' = Append(protocol_events, Other)
              /\ Wake("events")
              /\ UNCHANGED <<peer_requests, manager, peers, response, since>>

Reply(c, r, v) == /\ c \in open /\ r \in inbox[c] /\ v \in Serves[c]
                  /\ response' = [response EXCEPT ![r] = v]
                  /\ inbox' = [inbox EXCEPT ![c] = @ \ {r}]
                  /\ UNCHANGED <<queues, manager, waker, open, since>>

\* The connection ends: the requests it holds are dropped with their senders.
Close(c) == /\ c \in open
            /\ open' = open \ {c}
            /\ response' = [r \in Request |-> IF r \in inbox[c] THEN "dropped" ELSE response[r]]
            /\ inbox' = [inbox EXCEPT ![c] = {}]
            /\ UNCHANGED <<queues, manager, waker, since>>

-----------------------------------------------------------------------------
Manager == ForwardPending \/ PollEvents \/ PollRequests \/ Resume \/ TrySend \/ NoConnection

Peers == \/ \E c \in Conn : Establish(c) \/ Close(c)
         \/ OtherEvent
         \/ \E c \in Conn, r \in Request, v \in Answer : Reply(c, r, v)

Next == (\E r \in Request : Send(r)) \/ Manager \/ Peers

Spec == Init /\ [][Next]_netvars

-----------------------------------------------------------------------------
\* The places a request can be in: the positions of the three queues, the
\* hands of on_peer_request, the connections.
PlacesOf(r) ==
    {<<"channel", i>> : i \in {j \in DOMAIN peer_requests : peer_requests[j] = r}}
    \cup {<<"pending", i>> : i \in {j \in DOMAIN pending_requests : pending_requests[j] = r}}
    \cup (IF sending = r THEN {<<"sending", 0>>} ELSE {})
    \cup {<<"connection", c>> : c \in {d \in open : r \in inbox[d]}}

(***************************************************************************)
(* A request whose caller waits is in exactly one place from where it can  *)
(* still be resolved, whichever connections closed while it was being      *)
(* handed around (the request that send gives back at manager.rs:53-54,    *)
(* the queue at manager.rs:60); a request that is resolved is nowhere.     *)
(***************************************************************************)
RequestsAccountedFor ==
    \A r \in Request : Cardinality(PlacesOf(r)) = IF response[r] = "waiting" THEN 1 ELSE 0

(***************************************************************************)
(* "Rotate connections for peer requests" (manager.rs:45): a connection is *)
(* not given a second request while another one in the rotation has had    *)
(* none in between, however connections come, close and are dropped.       *)
(***************************************************************************)
RotationIsFair ==
    [][\A c \in Conn : inbox'[c] \ inbox[c] # {} =>
          \A d \in Range(connections) : c \notin since[d]]_netvars

(***************************************************************************)
(* The manager never sleeps on a request (manager.rs:69-93): while it      *)
(* sleeps and no wake-up is under way, the channel of requests is empty    *)
(* and holds its waker, so that the next request is not overlooked, and no *)
(* request waits for a connection while there is one in the rotation, in   *)
(* whatever order connections closed, were lost during a send and came.    *)
(***************************************************************************)
RequestsWakeManager ==
    at = "asleep" => /\ woken \/ (peer_requests = <<>> /\ "requests" \in listening)
                     /\ connections = <<>> \/ pending_requests = <<>>
=============================================================================
