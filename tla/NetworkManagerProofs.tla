------------------------ MODULE NetworkManagerProofs -------------------------
(***************************************************************************)
(* For any number of connections and requests: no request is lost or sent  *)
(* twice while connections come and go, the rotation of the connections is *)
(* fair, and the manager never sleeps on a request.                        *)
(*                                                                         *)
(* Places says in which queue, hand or connection every request is, as     *)
(* sets, so that the steps of the proof are about sets; Rotation orders    *)
(* the connections by the time at which they were last served.             *)
(***************************************************************************)
EXTENDS NetworkFetch, SequenceTheorems, FiniteSetTheorems, TLAPS

\* No element of s occurs twice.
NoDuplicates(s) == \A i, j \in 1..Len(s) : s[i] = s[j] => i = j

\* The types of the channels, the rotation and the responses.
TypeOK == /\ protocol_events \in Seq(Conn \cup {Other})
          /\ peer_requests \in Seq(Request)
          /\ connections \in Seq(Conn)
          /\ pending_requests \in Seq(Request)
          /\ sending \in Request \cup {None}
          /\ at \in {"top", "requests", "asleep"}
          /\ open \subseteq Conn
          /\ inbox \in [Conn -> SUBSET Request]
          /\ response \in [Request -> Answer \cup {"unsent", "waiting", "dropped"}]
          /\ since \in [Conn -> SUBSET Conn]

\* The requests whose caller waits.
Waiting == {r \in Request : response[r] = "waiting"}

\* A request whose caller waits is in one place, and the others are nowhere.
Places ==
    /\ NoDuplicates(peer_requests) /\ NoDuplicates(pending_requests)
    /\ Range(peer_requests) \cap Range(pending_requests) = {}
    /\ sending \notin Range(peer_requests) \cup Range(pending_requests)
    /\ \A c \in Conn : /\ sending \notin inbox[c]
                       /\ inbox[c] \cap (Range(peer_requests) \cup Range(pending_requests)) = {}
                       /\ \A d \in Conn : c # d => inbox[c] \cap inbox[d] = {}
                       /\ c \notin open => inbox[c] = {}
    /\ \A r \in Request : r \in Waiting <=> \/ r \in Range(peer_requests) \cup Range(pending_requests)
                                            \/ r = sending
                                            \/ \E c \in Conn : r \in inbox[c]

\* A connection is in the rotation once, and was not served since one behind it was.
Rotation ==
    /\ NoDuplicates(connections) /\ NoDuplicates(protocol_events)
    /\ Range(connections) \cap Range(protocol_events) = {}
    /\ \A i, j \in 1..Len(connections) : i <= j => connections[i] \notin since[connections[j]]

-----------------------------------------------------------------------------
\* Taking the first element of a queue without duplicates takes it out of its range.
LEMMA TailOfQueue ==
    ASSUME NEW S, NEW s \in Seq(S), s # <<>>, NoDuplicates(s)
    PROVE  /\ Tail(s) \in Seq(S) /\ NoDuplicates(Tail(s))
           /\ Head(s) \in Range(s) /\ Head(s) \in S
           /\ Range(Tail(s)) = Range(s) \ {Head(s)}
<1>1. /\ Tail(s) \in Seq(S) /\ Head(s) \in S /\ Len(Tail(s)) = Len(s) - 1
      /\ \A i \in 1..Len(Tail(s)) : Tail(s)[i] = s[i + 1]
  BY HeadTailProperties
<1>2. Len(s) \in Nat /\ Len(s) >= 1 /\ Head(s) = s[1] BY EmptySeq
<1>3. DOMAIN s = 1..Len(s) /\ DOMAIN Tail(s) = 1..Len(Tail(s)) BY <1>1, LenProperties
<1>4. NoDuplicates(Tail(s))
  <2> SUFFICES ASSUME NEW i \in 1..Len(Tail(s)), NEW j \in 1..Len(Tail(s)), Tail(s)[i] = Tail(s)[j]
               PROVE  i = j
    BY DEF NoDuplicates
  <2>1. i + 1 \in 1..Len(s) /\ j + 1 \in 1..Len(s) BY <1>1, <1>2
  <2>2. s[i + 1] = s[j + 1] BY <1>1
  <2>3. i + 1 = j + 1 BY <2>1, <2>2 DEF NoDuplicates
  <2> QED BY <2>3, <1>2
<1>5. Head(s) \in Range(s) BY <1>2, <1>3 DEF Range
<1>6. ASSUME NEW x \in Range(Tail(s)) PROVE x \in Range(s) \ {Head(s)}
  <2>1. PICK i \in 1..Len(Tail(s)) : x = Tail(s)[i] BY <1>3, <1>6 DEF Range
  <2>2. i + 1 \in 1..Len(s) /\ x = s[i + 1] /\ i + 1 # 1 BY <1>1, <1>2, <2>1
  <2>3. x # s[1] BY <2>2, <1>2 DEF NoDuplicates
  <2> QED BY <2>2, <2>3, <1>2, <1>3 DEF Range
<1>7. ASSUME NEW x \in Range(s), x # Head(s) PROVE x \in Range(Tail(s))
  <2>1. PICK i \in 1..Len(s) : x = s[i] BY <1>3, <1>7 DEF Range
  <2>2. i # 1 BY <2>1, <1>2, <1>7
  <2>3. i - 1 \in 1..Len(Tail(s)) BY <2>2, <1>1, <1>2
  <2>4. Tail(s)[i - 1] = s[i] BY <2>3, <1>1, <1>2
  <2> QED BY <2>1, <2>3, <2>4, <1>3 DEF Range
<1> QED BY <1>1, <1>4, <1>5, <1>6, <1>7

\* Appending a new element keeps a queue without duplicates and adds it to its range.
LEMMA AppendToQueue ==
    ASSUME NEW S, NEW s \in Seq(S), NEW x \in S
    PROVE  /\ Append(s, x) \in Seq(S)
           /\ Range(Append(s, x)) = Range(s) \cup {x}
           /\ NoDuplicates(s) /\ x \notin Range(s) => NoDuplicates(Append(s, x))
<1>1. /\ Append(s, x) \in Seq(S) /\ Len(Append(s, x)) = Len(s) + 1
      /\ \A i \in 1..Len(s) : Append(s, x)[i] = s[i]
      /\ Append(s, x)[Len(s) + 1] = x
  BY AppendProperties
<1>2. Len(s) \in Nat /\ DOMAIN s = 1..Len(s) BY LenProperties
<1>3. DOMAIN Append(s, x) = 1..(Len(s) + 1) BY <1>1, LenProperties
<1>4. \A i \in 1..(Len(s) + 1) : i \in 1..Len(s) \/ i = Len(s) + 1 BY <1>2
<1>5. 1..Len(s) \subseteq 1..(Len(s) + 1) /\ Len(s) + 1 \in 1..(Len(s) + 1) BY <1>2
<1>6. Range(Append(s, x)) = Range(s) \cup {x}
  BY <1>1, <1>2, <1>3, <1>4, <1>5 DEF Range
<1>7. \A i \in 1..Len(s) : s[i] \in Range(s) BY <1>2 DEF Range
<1>8. ASSUME NoDuplicates(s), x \notin Range(s) PROVE NoDuplicates(Append(s, x))
  BY <1>1, <1>2, <1>4, <1>7, <1>8 DEF NoDuplicates
<1> QED BY <1>1, <1>6, <1>8

\* The empty queue.
LEMMA EmptyQueue == NoDuplicates(<<>>) /\ Range(<<>>) = {} /\ \A S : <<>> \in Seq(S)
BY DEF NoDuplicates, Range

-----------------------------------------------------------------------------
\* At the start no request is anywhere.
LEMMA InitPlaces == Init => TypeOK /\ Places
<1> SUFFICES ASSUME Init PROVE TypeOK /\ Places OBVIOUS
<1>1. TypeOK BY EmptyQueue DEF Init, TypeOK
<1>2. Waiting = {} BY DEF Init, Waiting
<1>3. /\ NoDuplicates(peer_requests) /\ NoDuplicates(pending_requests)
      /\ Range(peer_requests) = {} /\ Range(pending_requests) = {}
  BY EmptyQueue DEF Init
<1> QED BY <1>1, <1>2, <1>3, NetworkAssumption DEF Init, Places

\* A call of the handle puts the request into the channel.
LEMMA SendKeepsPlaces == ASSUME TypeOK, Places, NEW r \in Request, Send(r) PROVE TypeOK' /\ Places'
<1>1. r \notin Waiting BY DEF Send, Waiting
<1>2. r \notin Range(peer_requests) BY <1>1 DEF Places
<1>3. /\ peer_requests' \in Seq(Request) /\ NoDuplicates(peer_requests')
      /\ Range(peer_requests') = Range(peer_requests) \cup {r}
  BY <1>2, AppendToQueue DEF Send, TypeOK, Places
<1>4. Waiting' = Waiting \cup {r} BY DEF Waiting, Send, TypeOK
<1>5. TypeOK' BY <1>3 DEF TypeOK, Send, manager, peers
<1>6. UNCHANGED <<pending_requests, sending, inbox, open>> BY DEF Send, manager, peers
<1> QED BY <1>1, <1>3, <1>4, <1>5, <1>6 DEF Places

\* The manager takes a request that waited for a connection.
LEMMA ForwardPendingKeepsPlaces == ASSUME TypeOK, Places, ForwardPending PROVE TypeOK' /\ Places'
<1>1. /\ pending_requests' \in Seq(Request) /\ NoDuplicates(pending_requests')
      /\ Range(pending_requests') = Range(pending_requests) \ {sending'}
      /\ sending' \in Range(pending_requests) /\ sending' \in Request
  BY TailOfQueue DEF ForwardPending, TypeOK, Places
<1>2. UNCHANGED <<peer_requests, protocol_events, connections, at, inbox, open, response, since>>
  BY DEF ForwardPending, queues, peers
<1>3. sending = None BY DEF ForwardPending
<1>4. TypeOK' BY <1>1, <1>2 DEF TypeOK
<1>5. Waiting' = Waiting BY <1>2 DEF Waiting
<1> QED BY <1>1, <1>2, <1>3, <1>4, <1>5, NetworkAssumption DEF Places

\* The manager takes a request from the channel.
LEMMA PollRequestsKeepsPlaces == ASSUME TypeOK, Places, PollRequests PROVE TypeOK' /\ Places'
<1>1. UNCHANGED <<protocol_events, connections, pending_requests, inbox, open, response, since>>
  BY DEF PollRequests, peers
<1>2. Waiting' = Waiting BY <1>1 DEF Waiting
<1>3. CASE peer_requests = <<>>
  <2>1. at' = "asleep" /\ UNCHANGED <<peer_requests, sending>> BY <1>3 DEF PollRequests
  <2> QED BY <1>1, <1>2, <2>1 DEF TypeOK, Places
<1>4. CASE peer_requests # <<>>
  <2>1. sending' = Head(peer_requests) /\ peer_requests' = Tail(peer_requests) /\ at' = "top"
    BY <1>4 DEF PollRequests
  <2>2. /\ peer_requests' \in Seq(Request) /\ NoDuplicates(peer_requests')
        /\ Range(peer_requests') = Range(peer_requests) \ {sending'}
        /\ sending' \in Range(peer_requests) /\ sending' \in Request
    BY <1>4, <2>1, TailOfQueue DEF TypeOK, Places
  <2>3. sending = None BY DEF PollRequests
  <2>4. TypeOK' BY <1>1, <2>1, <2>2 DEF TypeOK
  <2> QED BY <1>1, <1>2, <2>2, <2>3, <2>4, NetworkAssumption DEF Places
<1> QED BY <1>3, <1>4

\* Events and wake-ups move no request.
LEMMA PollEventsKeepsPlaces == ASSUME TypeOK, Places, Rotation, PollEvents PROVE TypeOK' /\ Places'
<1>1. UNCHANGED <<peer_requests, pending_requests, sending, inbox, open, response>>
  BY DEF PollEvents, peers
<1>2. Waiting' = Waiting BY <1>1 DEF Waiting
<1>3. TypeOK'
  <2>1. CASE protocol_events = <<>> BY <1>1, <2>1 DEF PollEvents, TypeOK
  <2>2. CASE protocol_events # <<>>
    <3> DEFINE x == Head(protocol_events)
    <3>0. protocol_events' = Tail(protocol_events) BY <2>2 DEF PollEvents
    <3>1. x \in Conn \cup {Other} /\ protocol_events' \in Seq(Conn \cup {Other})
      BY <2>2, <3>0, TailOfQueue DEF TypeOK, Rotation
    <3>2. CASE Head(protocol_events) = Other BY <1>1, <2>2, <3>1, <3>2 DEF PollEvents, TypeOK
    <3>3. CASE Head(protocol_events) # Other
      <4>1. connections' \in Seq(Conn)
        <5>1. connections' = Append(connections, x) BY <2>2, <3>3 DEF PollEvents
        <5> QED BY <3>1, <3>3, <5>1, AppendToQueue DEF TypeOK
      <4>2. since' \in [Conn -> SUBSET Conn] BY <2>2, <3>1, <3>3 DEF PollEvents, TypeOK
      <4> QED BY <1>1, <2>2, <3>1, <3>3, <4>1, <4>2 DEF PollEvents, TypeOK
    <3> QED BY <3>2, <3>3
  <2> QED BY <2>1, <2>2
<1> QED BY <1>1, <1>2, <1>3 DEF Places

\* One round of on_peer_request: the request goes into the connection, or stays in hand.
LEMMA TrySendKeepsPlaces == ASSUME TypeOK, Places, Rotation, TrySend PROVE TypeOK' /\ Places'
<1> DEFINE c == Head(connections)
<1>1. UNCHANGED <<peer_requests, protocol_events, pending_requests, at, open, response>>
  BY DEF TrySend, queues
<1>2. Waiting' = Waiting BY <1>1 DEF Waiting
<1>3. c \in Conn /\ Tail(connections) \in Seq(Conn)
  BY TailOfQueue DEF TrySend, TypeOK, Rotation
<1>4. sending \in Request BY DEF TrySend, TypeOK
<1>5. CASE c \in open
  <2>1. /\ inbox' = [inbox EXCEPT ![c] = @ \cup {sending}]
        /\ connections' = Append(Tail(connections), c)
        /\ sending' = None
        /\ since' = [d \in Conn |-> IF d = c THEN {} ELSE since[d] \cup {c}]
    BY <1>5 DEF TrySend
  <2>2. connections' \in Seq(Conn) BY <1>3, <2>1, AppendToQueue
  <2>3. TypeOK' BY <1>1, <1>3, <1>4, <2>1, <2>2 DEF TypeOK
  <2>4. \A d \in Conn : inbox'[d] = IF d = c THEN inbox[c] \cup {sending} ELSE inbox[d]
    BY <1>3, <2>1 DEF TypeOK
  <2>5. None \notin Range(peer_requests) \cup Range(pending_requests)
    BY NetworkAssumption, RangeOfSeq DEF TypeOK
  <2>6. \A d \in Conn : None \notin inbox'[d] BY <2>3, NetworkAssumption DEF TypeOK
  <2> QED BY <1>1, <1>2, <1>3, <1>4, <1>5, <2>1, <2>3, <2>4, <2>5, <2>6, NetworkAssumption DEF Places
<1>6. CASE c \notin open
  <2>1. connections' = Tail(connections) /\ UNCHANGED <<inbox, sending, since>>
    BY <1>6 DEF TrySend
  <2>2. TypeOK' BY <1>1, <1>3, <2>1 DEF TypeOK
  <2> QED BY <1>1, <1>2, <2>1, <2>2 DEF Places
<1> QED BY <1>5, <1>6

\* The request waits for a connection.
LEMMA NoConnectionKeepsPlaces == ASSUME TypeOK, Places, NoConnection PROVE TypeOK' /\ Places'
<1>1. UNCHANGED <<peer_requests, protocol_events, connections, at, inbox, open, response, since>>
  BY DEF NoConnection, queues, peers
<1>2. Waiting' = Waiting BY <1>1 DEF Waiting
<1>3. sending \in Request /\ sending' = None BY DEF NoConnection, TypeOK
<1>4. /\ pending_requests' \in Seq(Request) /\ NoDuplicates(pending_requests')
      /\ Range(pending_requests') = Range(pending_requests) \cup {sending}
  BY <1>3, AppendToQueue DEF NoConnection, TypeOK, Places
<1>5. TypeOK' BY <1>1, <1>3, <1>4 DEF TypeOK
<1>6. None \notin Range(peer_requests) \cup Range(pending_requests')
  BY <1>4, NetworkAssumption, RangeOfSeq DEF TypeOK
<1>7. \A d \in Conn : None \notin inbox[d] BY NetworkAssumption DEF TypeOK
<1> QED BY <1>1, <1>2, <1>3, <1>4, <1>5, <1>6, <1>7, NetworkAssumption DEF Places

\* A peer answers: the request leaves the connection and is resolved.
LEMMA ReplyKeepsPlaces ==
    ASSUME TypeOK, Places, NEW c \in Conn, NEW r \in Request, NEW v \in Answer, Reply(c, r, v)
    PROVE  TypeOK' /\ Places'
<1>1. UNCHANGED <<peer_requests, protocol_events, connections, pending_requests, sending, at, open, since>>
  BY DEF Reply, queues, manager
<1>2. \A d \in Conn : inbox'[d] = IF d = c THEN inbox[c] \ {r} ELSE inbox[d]
  BY DEF Reply, TypeOK
<1>3. Waiting' = Waiting \ {r} BY NetworkAssumption DEF Waiting, Reply, TypeOK
<1>4. TypeOK' BY <1>1 DEF TypeOK, Reply
<1>5. r \in inbox[c] BY DEF Reply
<1> QED BY <1>1, <1>2, <1>3, <1>4, <1>5 DEF Places

\* A connection ends, and the requests in it are dropped.
LEMMA CloseKeepsPlaces == ASSUME TypeOK, Places, NEW c \in Conn, Close(c) PROVE TypeOK' /\ Places'
<1>1. UNCHANGED <<peer_requests, protocol_events, connections, pending_requests, sending, at, since>>
  BY DEF Close, queues, manager
<1>2. \A d \in Conn : inbox'[d] = IF d = c THEN {} ELSE inbox[d] BY DEF Close, TypeOK
<1>3. Waiting' = Waiting \ inbox[c] BY DEF Waiting, Close, TypeOK
<1>4. TypeOK' BY <1>1 DEF TypeOK, Close
<1>5. open' = open \ {c} BY DEF Close
<1> QED BY <1>1, <1>2, <1>3, <1>4, <1>5 DEF Places

\* A new connection moves no request.
LEMMA EstablishKeepsPlaces == ASSUME TypeOK, Places, NEW c \in Conn, Establish(c) PROVE TypeOK' /\ Places'
<1>1. UNCHANGED <<peer_requests, connections, pending_requests, sending, at, inbox, response, since>>
  BY DEF Establish, manager
<1>2. Waiting' = Waiting BY <1>1 DEF Waiting
<1>3. protocol_events' \in Seq(Conn \cup {Other}) /\ open' = open \cup {c}
  BY AppendToQueue DEF Establish, TypeOK
<1>4. TypeOK' BY <1>1, <1>3 DEF TypeOK
<1> QED BY <1>1, <1>2, <1>3, <1>4 DEF Places

\* Another event moves no request.
LEMMA OtherEventKeepsPlaces == ASSUME TypeOK, Places, OtherEvent PROVE TypeOK' /\ Places'
<1>1. UNCHANGED <<peer_requests, connections, pending_requests, sending, at, inbox, open, response, since>>
  BY DEF OtherEvent, manager, peers
<1>2. Waiting' = Waiting BY <1>1 DEF Waiting
<1>3. protocol_events' \in Seq(Conn \cup {Other}) BY AppendToQueue DEF OtherEvent, TypeOK
<1>4. TypeOK' BY <1>1, <1>3 DEF TypeOK
<1> QED BY <1>1, <1>2, <1>4 DEF Places

-----------------------------------------------------------------------------
\* The rotation is empty at the start.
LEMMA InitRotation == Init => Rotation
BY EmptyQueue DEF Init, Rotation

\* A connection that is established anew is at the end of the rotation, served or not.
LEMMA PollEventsKeepsRotation == ASSUME TypeOK, Rotation, PollEvents PROVE Rotation'
<1>1. CASE protocol_events = <<>>
  BY <1>1 DEF PollEvents, Rotation
<1>2. CASE protocol_events # <<>>
  <2> DEFINE x == Head(protocol_events)
  <2>1. protocol_events' = Tail(protocol_events) BY <1>2 DEF PollEvents
  <2>2. /\ NoDuplicates(protocol_events') /\ x \in Conn \cup {Other}
        /\ Range(protocol_events') = Range(protocol_events) \ {x}
        /\ x \in Range(protocol_events)
    BY <1>2, <2>1, TailOfQueue DEF TypeOK, Rotation
  <2>3. CASE x = Other
    <3>1. UNCHANGED <<connections, since>> BY <1>2, <2>3 DEF PollEvents
    <3> QED BY <2>2, <3>1 DEF Rotation
  <2>4. CASE x # Other
    <3>1. connections' = Append(connections, x) /\ since' = [since EXCEPT ![x] = {}]
      BY <1>2, <2>4 DEF PollEvents
    <3>2. x \in Conn /\ x \notin Range(connections) BY <2>2, <2>4 DEF Rotation
    <3>3. /\ NoDuplicates(connections') /\ connections' \in Seq(Conn)
          /\ Range(connections') = Range(connections) \cup {x}
      BY <3>1, <3>2, AppendToQueue DEF TypeOK, Rotation
    <3>4. /\ Len(connections) \in Nat /\ Len(connections') = Len(connections) + 1
          /\ \A i \in 1..Len(connections) : connections'[i] = connections[i]
          /\ connections'[Len(connections) + 1] = x
      BY <3>1, <3>2, AppendProperties, LenProperties DEF TypeOK
    <3>5. \A i \in 1..Len(connections) : connections[i] \in Conn /\ connections[i] # x
      <4>1. DOMAIN connections = 1..Len(connections) BY LenProperties DEF TypeOK
      <4>2. \A i \in 1..Len(connections) : connections[i] \in Conn BY ElementOfSeq DEF TypeOK
      <4> QED BY <3>2, <4>1, <4>2 DEF Range
    <3>6. \A d \in Conn : since'[d] = IF d = x THEN {} ELSE since[d] BY <3>1, <3>2 DEF TypeOK
    <3>7. ASSUME NEW i \in 1..Len(connections'), NEW j \in 1..Len(connections'), i <= j
          PROVE  connections'[i] \notin since'[connections'[j]]
      <4>1. CASE j = Len(connections) + 1 BY <3>2, <3>4, <3>6, <4>1
      <4>2. CASE j # Len(connections) + 1
        <5>1. i \in 1..Len(connections) /\ j \in 1..Len(connections) BY <3>4, <3>7, <4>2
        <5>2. connections[i] \notin since[connections[j]] BY <3>7, <5>1 DEF Rotation
        <5> QED BY <3>4, <3>5, <3>6, <5>1, <5>2
      <4> QED BY <4>1, <4>2
    <3> QED BY <2>2, <3>2, <3>3, <3>7 DEF Rotation
  <2> QED BY <2>3, <2>4
<1> QED BY <1>1, <1>2

\* The connection that was served goes to the back; a closed one leaves the rotation.
LEMMA TrySendKeepsRotation == ASSUME TypeOK, Rotation, TrySend PROVE Rotation'
<1> DEFINE c == Head(connections)
           rest == Tail(connections)
<1>1. UNCHANGED protocol_events BY DEF TrySend, queues
<1>2. connections # <<>> /\ connections \in Seq(Conn) BY DEF TrySend, TypeOK
<1>3. /\ rest \in Seq(Conn) /\ NoDuplicates(rest) /\ Range(rest) = Range(connections) \ {c}
      /\ c \in Range(connections) /\ c \in Conn
  BY <1>2, TailOfQueue DEF Rotation
<1>4. /\ Len(rest) = Len(connections) - 1 /\ Len(connections) \in Nat
      /\ \A i \in 1..Len(rest) : rest[i] = connections[i + 1]
  BY <1>2, HeadTailProperties, LenProperties
<1>5. \A i \in 1..Len(rest) : rest[i] \in Conn /\ rest[i] # c
  <2>1. DOMAIN rest = 1..Len(rest) BY <1>3, LenProperties
  <2> QED BY <1>3, <2>1, ElementOfSeq DEF Range
<1>6. ASSUME NEW i \in 1..Len(rest), NEW j \in 1..Len(rest), i <= j
      PROVE  rest[i] \notin since[rest[j]]
  <2>1. i + 1 \in 1..Len(connections) /\ j + 1 \in 1..Len(connections) /\ i + 1 <= j + 1
    BY <1>4, <1>6
  <2>2. connections[i + 1] \notin since[connections[j + 1]] BY <2>1 DEF Rotation
  <2> QED BY <1>4, <2>2
<1>7. CASE c \in open
  <2>1. /\ connections' = Append(rest, c)
        /\ since' = [d \in Conn |-> IF d = c THEN {} ELSE since[d] \cup {c}]
    BY <1>7 DEF TrySend
  <2>2. NoDuplicates(connections') /\ Range(connections') = Range(connections)
    <3>1. c \notin Range(rest) BY <1>3
    <3>2. NoDuplicates(Append(rest, c)) /\ Range(Append(rest, c)) = Range(rest) \cup {c}
      <4> HIDE DEF rest, c
      <4> QED BY <1>3, <3>1, AppendToQueue
    <3> QED BY <1>3, <2>1, <3>2
  <2>3. /\ Len(rest) \in Nat /\ Len(connections') = Len(rest) + 1
        /\ \A i \in 1..Len(rest) : connections'[i] = rest[i]
        /\ connections'[Len(rest) + 1] = c
    BY <1>3, <2>1, AppendProperties, LenProperties
  <2>4. ASSUME NEW i \in 1..Len(connections'), NEW j \in 1..Len(connections'), i <= j
        PROVE  connections'[i] \notin since'[connections'[j]]
    <3>1. CASE j = Len(rest) + 1 BY <1>3, <2>1, <2>3, <3>1
    <3>2. CASE j # Len(rest) + 1
      <4>1. i \in 1..Len(rest) /\ j \in 1..Len(rest) BY <2>3, <2>4, <3>2
      <4>2. connections'[i] = rest[i] /\ connections'[j] = rest[j] BY <2>3, <4>1
      <4>3. since'[rest[j]] = since[rest[j]] \cup {c} BY <1>5, <2>1, <4>1
      <4> QED BY <1>5, <1>6, <2>4, <4>1, <4>2, <4>3
    <3> QED BY <3>1, <3>2
  <2> QED BY <1>1, <2>2, <2>4 DEF Rotation
<1>8. CASE c \notin open
  <2>1. connections' = rest /\ UNCHANGED since BY <1>8 DEF TrySend
  <2> QED BY <1>1, <1>3, <1>6, <2>1 DEF Rotation
<1> QED BY <1>7, <1>8

\* A new connection is not in the rotation, nor on its way to it.
LEMMA EstablishKeepsRotation == ASSUME TypeOK, Rotation, NEW c \in Conn, Establish(c) PROVE Rotation'
<1>1. UNCHANGED <<connections, since>> BY DEF Establish, manager
<1>2. c \notin Range(connections) \cup Range(protocol_events) BY DEF Establish
<1>3. NoDuplicates(protocol_events') /\ Range(protocol_events') = Range(protocol_events) \cup {c}
  BY <1>2, AppendToQueue DEF Establish, TypeOK, Rotation
<1> QED BY <1>1, <1>2, <1>3 DEF Rotation

\* Another event leaves the rotation alone.
LEMMA OtherEventKeepsRotation == ASSUME TypeOK, Rotation, OtherEvent PROVE Rotation'
<1>1. UNCHANGED <<connections, since>> BY DEF OtherEvent, manager
<1>2. Other \notin Range(connections) BY NetworkAssumption, RangeOfSeq DEF TypeOK
<1>3. NoDuplicates(protocol_events') /\ Range(protocol_events') = Range(protocol_events) \cup {Other}
  BY AppendToQueue DEF OtherEvent, TypeOK, Rotation
<1> QED BY <1>1, <1>2, <1>3 DEF Rotation

-----------------------------------------------------------------------------
\* The inductive invariant.
NetInv == TypeOK /\ Places /\ Rotation

\* Every step of the manager and its peers keeps the invariant.
LEMMA StepKeepsNetInv == NetInv /\ [Next]_netvars => NetInv'
<1> SUFFICES ASSUME TypeOK, Places, Rotation, [Next]_netvars PROVE TypeOK' /\ Places' /\ Rotation'
  BY DEF NetInv
<1>1. CASE \E r \in Request : Send(r)
  <2>1. PICK r \in Request : Send(r) BY <1>1
  <2>2. UNCHANGED <<connections, protocol_events, since>> BY <2>1 DEF Send, manager
  <2> QED BY <2>1, <2>2, SendKeepsPlaces DEF Rotation
<1>2. CASE ForwardPending
  <2>1. UNCHANGED <<connections, protocol_events, since>> BY <1>2 DEF ForwardPending, queues
  <2> QED BY <1>2, <2>1, ForwardPendingKeepsPlaces DEF Rotation
<1>3. CASE PollEvents BY <1>3, PollEventsKeepsPlaces, PollEventsKeepsRotation
<1>4. CASE PollRequests
  <2>1. UNCHANGED <<connections, protocol_events, since>> BY <1>4 DEF PollRequests
  <2> QED BY <1>4, <2>1, PollRequestsKeepsPlaces DEF Rotation
<1>5. CASE Resume
  <2>1. /\ UNCHANGED <<queues, connections, pending_requests, sending, peers, response, since>>
        /\ at' = "top"
    BY <1>5 DEF Resume
  <2>2. UNCHANGED <<peer_requests, protocol_events, open, inbox>> BY <2>1 DEF queues, peers
  <2>3. Waiting' = Waiting BY <2>1 DEF Waiting
  <2>4. TypeOK' BY <2>1, <2>2 DEF TypeOK
  <2>5. Places' BY <2>1, <2>2, <2>3 DEF Places
  <2> QED BY <2>1, <2>2, <2>4, <2>5 DEF Rotation
<1>6. CASE TrySend BY <1>6, TrySendKeepsPlaces, TrySendKeepsRotation
<1>7. CASE NoConnection
  <2>1. UNCHANGED <<connections, protocol_events, since>> BY <1>7 DEF NoConnection, queues
  <2> QED BY <1>7, <2>1, NoConnectionKeepsPlaces DEF Rotation
<1>8. CASE \E c \in Conn : Establish(c)
  BY <1>8, EstablishKeepsPlaces, EstablishKeepsRotation
<1>9. CASE \E c \in Conn : Close(c)
  <2>1. PICK c \in Conn : Close(c) BY <1>9
  <2>2. UNCHANGED <<connections, protocol_events, since>> BY <2>1 DEF Close, queues, manager
  <2> QED BY <2>1, <2>2, CloseKeepsPlaces DEF Rotation
<1>10. CASE OtherEvent BY <1>10, OtherEventKeepsPlaces, OtherEventKeepsRotation
<1>11. CASE \E c \in Conn, r \in Request, v \in Answer : Reply(c, r, v)
  <2>1. PICK c \in Conn, r \in Request, v \in Answer : Reply(c, r, v) BY <1>11
  <2>2. UNCHANGED <<connections, protocol_events, since>> BY <2>1 DEF Reply, queues, manager
  <2> QED BY <2>1, <2>2, ReplyKeepsPlaces DEF Rotation
<1>12. CASE UNCHANGED netvars
  <2>1. UNCHANGED <<protocol_events, peer_requests, connections, pending_requests, sending, at,
                    open, inbox, response, since>>
    BY <1>12 DEF netvars, queues, manager, peers
  <2>2. Waiting' = Waiting BY <2>1 DEF Waiting
  <2>3. TypeOK' BY <2>1 DEF TypeOK
  <2>4. Places' BY <2>1, <2>2 DEF Places
  <2> QED BY <2>1, <2>3, <2>4 DEF Rotation
<1> QED BY <1>1, <1>2, <1>3, <1>4, <1>5, <1>6, <1>7, <1>8, <1>9, <1>10, <1>11, <1>12
        DEF Next, Manager, Peers

(***************************************************************************)
(* In every state of the manager and its peers, each request has its place *)
(* and the rotation is in order (manager.rs:36-97).                        *)
(***************************************************************************)
THEOREM NetworkInvariant == Spec => []NetInv
<1>1. Init => NetInv BY InitPlaces, InitRotation DEF NetInv
<1> QED BY <1>1, StepKeepsNetInv, PTL DEF Spec

\* A request that waits is in exactly one place, any other in none.
LEMMA PlacesCounted == TypeOK /\ Places => RequestsAccountedFor
<1> SUFFICES ASSUME TypeOK, Places, NEW r \in Request
             PROVE  Cardinality(PlacesOf(r)) = IF response[r] = "waiting" THEN 1 ELSE 0
  BY DEF RequestsAccountedFor
<1>1. /\ DOMAIN peer_requests = 1..Len(peer_requests)
      /\ DOMAIN pending_requests = 1..Len(pending_requests)
  BY LenProperties DEF TypeOK
<1>2. \A p \in PlacesOf(r) : \/ \E i \in 1..Len(peer_requests) : peer_requests[i] = r /\ p = <<"channel", i>>
                             \/ \E i \in 1..Len(pending_requests) : pending_requests[i] = r /\ p = <<"pending", i>>
                             \/ sending = r /\ p = <<"sending", 0>>
                             \/ \E c \in open : r \in inbox[c] /\ p = <<"connection", c>>
  BY <1>1 DEF PlacesOf
<1>3. \A p, q \in PlacesOf(r) : p = q
  <2>1. open \subseteq Conn BY DEF TypeOK
  <2>2. \A i \in 1..Len(peer_requests) : peer_requests[i] \in Range(peer_requests)
    BY <1>1 DEF Range
  <2>3. \A i \in 1..Len(pending_requests) : pending_requests[i] \in Range(pending_requests)
    BY <1>1 DEF Range
  <2> QED BY <1>2, <2>1, <2>2, <2>3 DEF Places, NoDuplicates
<1>4. PlacesOf(r) # {} <=> r \in Waiting
  <2>1. ASSUME r \in Range(peer_requests) PROVE PlacesOf(r) # {} BY <2>1 DEF Range, PlacesOf
  <2>2. ASSUME r \in Range(pending_requests) PROVE PlacesOf(r) # {} BY <2>2 DEF Range, PlacesOf
  <2>3. ASSUME r = sending PROVE PlacesOf(r) # {} BY <2>3 DEF PlacesOf
  <2>4. ASSUME NEW c \in Conn, r \in inbox[c] PROVE PlacesOf(r) # {}
    <3>1. c \in open BY <2>4 DEF Places
    <3> QED BY <2>4, <3>1 DEF PlacesOf
  <2>5. r \in Waiting => PlacesOf(r) # {} BY <2>1, <2>2, <2>3, <2>4 DEF Places
  <2>6. ASSUME NEW p \in PlacesOf(r) PROVE r \in Waiting
    <3>1. open \subseteq Conn BY DEF TypeOK
    <3> QED BY <1>1, <1>2, <2>6, <3>1 DEF Places, Range
  <2> QED BY <2>5, <2>6
<1>5. CASE r \in Waiting
  <2>1. PICK p : p \in PlacesOf(r) BY <1>4, <1>5
  <2>2. PlacesOf(r) = {p} BY <1>3, <2>1
  <2>3. Cardinality(PlacesOf(r)) = 1 BY <2>2, FS_Singleton
  <2> QED BY <1>5, <2>3 DEF Waiting
<1>6. CASE r \notin Waiting
  <2>1. PlacesOf(r) = {} BY <1>4, <1>6
  <2>2. Cardinality(PlacesOf(r)) = 0 BY <2>1, FS_EmptySet
  <2> QED BY <1>6, <2>2 DEF Waiting
<1> QED BY <1>5, <1>6

(***************************************************************************)
(* A request whose caller waits is in exactly one place from where it can  *)
(* be resolved, and a resolved one is nowhere (manager.rs:45-61), however  *)
(* many connections and requests there are.                                *)
(***************************************************************************)
THEOREM RequestsNeverLost == Spec => []RequestsAccountedFor
<1>1. NetInv => RequestsAccountedFor BY PlacesCounted DEF NetInv
<1> QED BY <1>1, NetworkInvariant, PTL

(***************************************************************************)
(* The rotation of connections is fair (manager.rs:45-61): no connection   *)
(* gets a second request while another one in the rotation had none.       *)
(***************************************************************************)
THEOREM FairRotation == Spec => RotationIsFair
<1> DEFINE Fair == \A c \in Conn : inbox'[c] \ inbox[c] # {} =>
                       \A d \in Range(connections) : c \notin since[d]
<1>1. NetInv /\ [Next]_netvars => [Fair]_netvars
  <2> SUFFICES ASSUME NetInv, Next, NEW c \in Conn, inbox'[c] \ inbox[c] # {},
                      NEW d \in Range(connections)
               PROVE  c \notin since[d]
    OBVIOUS
  <2>1. TrySend
    <3>1. inbox' # inbox OBVIOUS
    <3>2. ~\E x \in Conn : Close(x) BY DEF Close, NetInv, TypeOK
    <3>3. ~\E x \in Conn, r \in Request, v \in Answer : Reply(x, r, v) BY DEF Reply, NetInv, TypeOK
    <3> QED BY <3>1, <3>2, <3>3 DEF Next, Manager, Peers, Send, ForwardPending, PollEvents, PollRequests,
               Resume, NoConnection, Establish, OtherEvent, peers
  <2>2. c = Head(connections)
    BY <2>1 DEF TrySend, NetInv, TypeOK
  <2>3. connections \in Seq(Conn) /\ connections # <<>> BY <2>1 DEF TrySend, NetInv, TypeOK
  <2>4. PICK j \in 1..Len(connections) : d = connections[j]
    BY <2>3, LenProperties DEF Range
  <2>5. 1 \in 1..Len(connections) /\ c = connections[1] BY <2>2, <2>3, <2>4
  <2> QED BY <2>4, <2>5 DEF NetInv, Rotation
<1> QED BY <1>1, NetworkInvariant, PTL DEF Spec, RotationIsFair

\* Past the first branch of poll the manager has nothing to forward, and it sleeps
\* only when the requests will wake it.
Asleep ==
    /\ at \in {"requests", "asleep"} => NothingToForward
    /\ at = "asleep" => woken \/ (peer_requests = <<>> /\ "requests" \in listening)

(***************************************************************************)
(* The manager never sleeps on a request, whatever its connections do: no  *)
(* wake-up of a request is lost (manager.rs:87-92), unlike that of a       *)
(* connection, and none waits in the queue beside a connection             *)
(* (manager.rs:69).                                                        *)
(***************************************************************************)
THEOREM RequestWakeUp == Spec => []RequestsWakeManager
<1>1. Init => Asleep BY DEF Init, Asleep
<1>2. Asleep /\ [Next]_netvars => Asleep'
  <2> SUFFICES ASSUME Asleep, [Next]_netvars PROVE Asleep' OBVIOUS
  <2> USE DEF Asleep, NothingToForward
  <2>1. CASE \E r \in Request : Send(r) BY <2>1 DEF Send, Wake, manager
  <2>2. CASE ForwardPending BY <2>2 DEF ForwardPending
  <2>3. CASE PollEvents BY <2>3 DEF PollEvents
  <2>4. CASE PollRequests BY <2>4 DEF PollRequests
  <2>5. CASE Resume BY <2>5 DEF Resume
  <2>6. CASE TrySend BY <2>6 DEF TrySend, queues, waker
  <2>7. CASE NoConnection BY <2>7 DEF NoConnection, queues, waker
  <2>8. CASE \E c \in Conn : Establish(c) BY <2>8 DEF Establish, Wake, manager
  <2>9. CASE \E c \in Conn : Close(c) BY <2>9 DEF Close, queues, manager, waker
  <2>10. CASE OtherEvent BY <2>10 DEF OtherEvent, Wake, manager
  <2>11. CASE \E c \in Conn, r \in Request, v \in Answer : Reply(c, r, v)
    BY <2>11 DEF Reply, queues, manager, waker
  <2>12. CASE UNCHANGED netvars BY <2>12 DEF netvars, queues, manager, waker
  <2> QED BY <2>1, <2>2, <2>3, <2>4, <2>5, <2>6, <2>7, <2>8, <2>9, <2>10, <2>11, <2>12
          DEF Next, Manager, Peers
<1>3. Asleep => RequestsWakeManager BY DEF Asleep, NothingToForward, RequestsWakeManager
<1> QED BY <1>1, <1>2, <1>3, PTL DEF Spec

-----------------------------------------------------------------------------
(***************************************************************************)
(* The manager under the fetch futures (futs.rs) behaves as the manager by *)
(* itself, so that what was proved above holds there too.                  *)
(***************************************************************************)
THEOREM FetchUsesManager == FetchSpec => Spec
<1>1. FetchInit => Init BY DEF FetchInit
<1>2. [FetchNext]_vars => [Next]_netvars BY DEF FetchNext, vars, Ask, OnResponse, Next
<1>3. FetchSpec => FetchInit /\ [][FetchNext]_vars BY PTL DEF FetchSpec
<1> QED BY <1>1, <1>2, <1>3, PTL DEF Spec

\* What a bytecode future has yielded has the hash that was asked for.
BytecodesAreRight == \A r \in Code : future[r] = "done" => got[r] = Right

(***************************************************************************)
(* A bytecode future yields nothing but the bytecode (futs.rs:554-575),    *)
(* whatever peers answer and however often the request is dropped.         *)
(***************************************************************************)
THEOREM OnlyRightBytecodes == FetchSpec => []BytecodesAreRight
<1> DEFINE Inv == /\ BytecodesAreRight
                  /\ future \in [Request -> {"new", "pending", "delayed", "done"}]
                  /\ got \in [Request -> Answer \cup {"unsent", "waiting", "dropped", None}]
                  /\ response \in [Request -> Answer \cup {"unsent", "waiting", "dropped"}]
<1>1. FetchInit => Inv BY FetchesAssumption DEF FetchInit, Init, BytecodesAreRight
<1>2. Inv /\ NetInv' /\ [FetchNext]_vars => Inv'
  <2> SUFFICES ASSUME Inv, NetInv', [FetchNext]_vars PROVE Inv' OBVIOUS
  <2>1. response' \in [Request -> Answer \cup {"unsent", "waiting", "dropped"}] BY DEF NetInv, TypeOK
  <2>2. CASE \E r \in Request : Ask(r)
    BY <2>1, <2>2, FetchesAssumption DEF Ask, BytecodesAreRight
  <2>3. CASE \E r \in Request : OnResponse(r)
    <3>1. PICK r \in Request : OnResponse(r) BY <2>3
    <3>2. CASE Accepted(r, response[r])
      BY <2>1, <3>1, <3>2, FetchesAssumption DEF OnResponse, Accepted, BytecodesAreRight
    <3>3. CASE ~Accepted(r, response[r])
      BY <2>1, <3>1, <3>3, FetchesAssumption DEF OnResponse, BytecodesAreRight
    <3> QED BY <3>2, <3>3
  <2>4. CASE UNCHANGED <<future, got>> BY <2>1, <2>4 DEF BytecodesAreRight
  <2> QED BY <2>2, <2>3, <2>4 DEF FetchNext, vars
<1>3. FetchSpec => FetchInit /\ [][FetchNext]_vars BY PTL DEF FetchSpec
<1> QED BY <1>1, <1>2, <1>3, FetchUsesManager, NetworkInvariant, PTL
=============================================================================
