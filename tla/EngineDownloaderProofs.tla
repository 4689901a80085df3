----------------------- MODULE EngineDownloaderProofs ------------------------
(***************************************************************************)
(* For any requests in any number: a sweep of the downloader polls every   *)
(* future exactly once although swap_remove and push reorder the vectors   *)
(* under the index, the engine does not sleep while a future is ready, and *)
(* the downloader implements Downloads.                                    *)
(*                                                                         *)
(* The sweep is complete only because a vector has no request twice, and   *)
(* outcomes come out ranked only because a sweep begins without any.       *)
(***************************************************************************)
EXTENDS EngineDownloader, SequenceTheorems, TLAPS

\* No element of s occurs twice.
NoDuplicates(s) == \A i, j \in 1..Len(s) : s[i] = s[j] => i = j

\* What can be asked for.
Id == UNION {Wanted[k] : k \in Kind}

\* The types of the vectors, the queue and the indices.
TypeOK == /\ inflight \in [Kind -> Seq(Id)]
          /\ outcomes \in Seq([kind : Kind, id : Id])
          /\ kind \in 1..4 /\ idx \in Nat
          /\ messages \in Nat
          /\ at \in {"poll", "sweep", "handler", "messages", "asleep"}

\* No vector holds two futures for the same thing.
NoRequestTwice == \A k \in Kind : NoDuplicates(inflight[k])

\* What the sweep knows of the outcomes: those of earlier kinds came first.
OutcomesRanked == at = "sweep" => /\ idx <= Len(inflight[Kinds[kind]])
                                  /\ Queue!Ranked(outcomes)
                                  /\ \A i \in 1..Len(outcomes) : RankOf(outcomes[i]) <= kind

\* A future that was polled in this round wakes the engine, or has done so.
PolledWakes == at \in {"sweep", "messages", "asleep"} =>
                   \A q \in InFlight \cap polled : woken \/ (q \in registered /\ q \notin ready)
AllPolled   == at \in {"messages", "asleep"} => InFlight \subseteq polled
NoMessage   == at = "asleep" => woken \/ messages = 0

\* The inductive invariant.
DownloaderInv == /\ TypeOK /\ NoRequestTwice /\ SweepIsComplete /\ OutcomesRanked
                 /\ PolledWakes /\ AllPolled /\ NoMessage

(***************************************************************************)
(* No wake-up is lost (engine.rs:295-320): the engine's task does not      *)
(* sleep while the outcome of a request or a message is there for it.      *)
(***************************************************************************)
SleepsOnNothing == at = "asleep" /\ ~woken => InFlight \cap ready = {} /\ messages = 0

-----------------------------------------------------------------------------
\* The four kinds, by rank.
LEMMA KindFacts ==
    /\ Kind = {"finalized", "block", "witness", "code"}
    /\ DOMAIN Kinds = 1..4
    /\ Kinds[1] = "finalized" /\ Kinds[2] = "block" /\ Kinds[3] = "witness" /\ Kinds[4] = "code"
BY DEF Kind, Kinds

\* Kinds numbers the four kinds.
LEMMA KindsDistinct == /\ \A i \in 1..4 : Kinds[i] \in Kind
                       /\ \A i, j \in 1..4 : Kinds[i] = Kinds[j] => i = j
                       /\ \A k \in Kind : \E i \in 1..4 : Kinds[i] = k
<1>1. \A i \in 1..4 : i = 1 \/ i = 2 \/ i = 3 \/ i = 4 OBVIOUS
<1> QED BY <1>1, KindFacts

\* The rank of a request is the number of its kind.
LEMMA RankOfKind == ASSUME NEW i \in 1..4, NEW id PROVE RankOf(Req(Kinds[i], id)) = i
BY KindsDistinct DEF RankOf, Req

\* What Vec::swap_remove leaves.
LEMMA SwapRemoveFacts ==
    ASSUME NEW S, NEW s \in Seq(S), NEW i \in 1..Len(s)
    PROVE  /\ SwapRemove(s, i) \in Seq(S) /\ Len(SwapRemove(s, i)) = Len(s) - 1
           /\ \A j \in 1..Len(s) - 1 : SwapRemove(s, i)[j] = IF j = i THEN s[Len(s)] ELSE s[j]
<1> DEFINE t == [s EXCEPT ![i] = s[Len(s)]]
           n == Len(s) - 1
<1>1. Len(s) \in Nat /\ Len(s) >= 1 /\ DOMAIN s = 1..Len(s) BY LenProperties
<1>2. s[Len(s)] \in S BY <1>1, ElementOfSeq
<1>3. t \in Seq(S) /\ Len(t) = Len(s) /\ \A j \in 1..Len(s) : t[j] = IF j = i THEN s[Len(s)] ELSE s[j]
  BY <1>1, <1>2, ExceptSeq
<1>4. /\ SubSeq(t, 1, n) \in Seq(S) /\ Len(SubSeq(t, 1, n)) = n
      /\ \A j \in 1..n : SubSeq(t, 1, n)[j] = t[j]
  <2> HIDE DEF t
  <2> QED BY <1>1, <1>3, SubSeqProperties
<1> QED BY <1>1, <1>3, <1>4 DEF SwapRemove

\* A vector without the future that was taken out at i.
LEMMA TakenOut ==
    ASSUME NEW S, NEW s \in Seq(S), NEW i \in 1..Len(s), NoDuplicates(s)
    PROVE  /\ NoDuplicates(SwapRemove(s, i))
           /\ Range(SwapRemove(s, i)) = Range(s) \ {s[i]}
<1> DEFINE t == SwapRemove(s, i)
<1>1. /\ t \in Seq(S) /\ Len(t) = Len(s) - 1
      /\ \A j \in 1..Len(s) - 1 : t[j] = IF j = i THEN s[Len(s)] ELSE s[j]
  BY SwapRemoveFacts
<1>2. Len(s) \in Nat /\ DOMAIN s = 1..Len(s) /\ DOMAIN t = 1..Len(s) - 1
  BY <1>1, LenProperties
<1>n. Len(s) \in Nat BY <1>2
<1> HIDE DEF t
<1>3. NoDuplicates(t) BY <1>1, <1>2 DEF NoDuplicates
<1>4. ASSUME NEW x \in Range(t) PROVE x \in Range(s) /\ x # s[i]
  <2>1. PICK j \in 1..Len(s) - 1 : x = t[j] BY <1>2, <1>4 DEF Range
  <2>2. j \in 1..Len(s) /\ Len(s) \in 1..Len(s) /\ j # Len(s) BY <1>n
  <2> QED BY <1>1, <1>2, <2>1, <2>2 DEF Range, NoDuplicates
<1>5. ASSUME NEW x \in Range(s), x # s[i] PROVE x \in Range(t)
  <2>1. PICK j \in 1..Len(s) : x = s[j] BY <1>2, <1>5 DEF Range
  <2>2. CASE j = Len(s)
    <3>1. i \in 1..Len(s) - 1 BY <1>2, <1>5, <2>1, <2>2
    <3>2. t[i] = x BY <1>1, <2>1, <2>2, <3>1
    <3> QED BY <1>2, <3>1, <3>2 DEF Range
  <2>3. CASE j # Len(s)
    <3>1. j \in 1..Len(s) - 1 BY <1>n, <2>3
    <3>2. t[j] = x BY <1>1, <1>5, <2>1, <3>1
    <3> QED BY <1>2, <3>1, <3>2 DEF Range
  <2> QED BY <2>2, <2>3
<1>6. Range(t) = Range(s) \ {s[i]} BY <1>4, <1>5
<1> QED BY <1>3, <1>6 DEF t

\* A vector whose future at i was taken out, polled and pushed back: it has changed places
\* with the last one.
LEMMA PutBack ==
    ASSUME NEW S, NEW s \in Seq(S), NEW i \in 1..Len(s), NoDuplicates(s)
    PROVE  LET t == Append(SwapRemove(s, i), s[i])
           IN  /\ t \in Seq(S) /\ Len(t) = Len(s) /\ NoDuplicates(t) /\ Range(t) = Range(s)
               /\ \A j \in 1..Len(s) : t[j] = IF j = Len(s) THEN s[i] ELSE IF j = i THEN s[Len(s)] ELSE s[j]
<1> DEFINE r == SwapRemove(s, i)
           t == Append(r, s[i])
<1>1. /\ r \in Seq(S) /\ Len(r) = Len(s) - 1
      /\ \A j \in 1..Len(s) - 1 : r[j] = IF j = i THEN s[Len(s)] ELSE s[j]
  BY SwapRemoveFacts
<1>2. Len(s) \in Nat /\ DOMAIN s = 1..Len(s) /\ s[i] \in S BY LenProperties, ElementOfSeq
<1>3. /\ t \in Seq(S) /\ Len(t) = Len(r) + 1 /\ t[Len(r) + 1] = s[i]
      /\ \A j \in 1..Len(r) : t[j] = r[j]
  <2> HIDE DEF r
  <2> QED BY <1>1, <1>2, AppendProperties
<1>4. DOMAIN t = 1..Len(s) BY <1>1, <1>2, <1>3, LenProperties
<1> HIDE DEF r, t
<1>5. \A j \in 1..Len(s) : t[j] = IF j = Len(s) THEN s[i] ELSE IF j = i THEN s[Len(s)] ELSE s[j]
  BY <1>1, <1>2, <1>3
<1>6. NoDuplicates(t)
  <2> SUFFICES ASSUME NEW j \in 1..Len(s), NEW l \in 1..Len(s), t[j] = t[l] PROVE j = l
    BY <1>1, <1>2, <1>3 DEF NoDuplicates
  <2>1. Len(s) \in 1..Len(s) BY <1>2
  <2> QED BY <1>2, <1>5, <2>1 DEF NoDuplicates
<1>7. Range(t) = Range(s)
  <2>1. ASSUME NEW x \in Range(t) PROVE x \in Range(s)
    <3>1. PICK j \in 1..Len(s) : x = t[j] BY <1>4, <2>1 DEF Range
    <3>2. Len(s) \in 1..Len(s) BY <1>2
    <3> QED BY <1>2, <1>5, <3>1, <3>2 DEF Range
  <2>2. ASSUME NEW x \in Range(s) PROVE x \in Range(t)
    <3>1. PICK j \in 1..Len(s) : x = s[j] BY <1>2, <2>2 DEF Range
    <3>2. Len(s) \in 1..Len(s) BY <1>2
    <3>3. \E l \in 1..Len(s) : t[l] = x
      <4>1. CASE j = i BY <1>5, <3>1, <3>2, <4>1
      <4>2. CASE j # i /\ j = Len(s) BY <1>5, <3>1, <4>2
      <4>3. CASE j # i /\ j # Len(s) BY <1>5, <3>1, <4>3
      <4> QED BY <4>1, <4>2, <4>3
    <3> QED BY <1>4, <3>3 DEF Range
  <2> QED BY <2>1, <2>2
<1> QED BY <1>1, <1>2, <1>3, <1>5, <1>6, <1>7 DEF r, t

\* Appending a new id to a vector.
LEMMA PushedNew ==
    ASSUME NEW S, NEW s \in Seq(S), NEW x \in S, NoDuplicates(s), x \notin Range(s)
    PROVE  /\ Append(s, x) \in Seq(S) /\ NoDuplicates(Append(s, x))
           /\ Range(Append(s, x)) = Range(s) \cup {x}
<1>1. /\ Append(s, x) \in Seq(S) /\ Len(Append(s, x)) = Len(s) + 1
      /\ \A i \in 1..Len(s) : Append(s, x)[i] = s[i]
      /\ Append(s, x)[Len(s) + 1] = x
  BY AppendProperties
<1>2. Len(s) \in Nat /\ DOMAIN s = 1..Len(s) /\ DOMAIN Append(s, x) = 1..Len(s) + 1
  BY <1>1, LenProperties
<1>3. \A i \in 1..Len(s) + 1 : i \in 1..Len(s) \/ i = Len(s) + 1 BY <1>2
<1>4. 1..Len(s) \subseteq 1..Len(s) + 1 /\ Len(s) + 1 \in 1..Len(s) + 1 BY <1>2
<1>5. Range(Append(s, x)) = Range(s) \cup {x} BY <1>1, <1>2, <1>3, <1>4 DEF Range
<1>6. \A i \in 1..Len(s) : s[i] # x BY <1>2 DEF Range
<1>7. NoDuplicates(Append(s, x)) BY <1>1, <1>2, <1>3, <1>6 DEF NoDuplicates
<1> QED BY <1>1, <1>5, <1>7

\* A request is its kind and its id.
LEMMA RequestInjective ==
    ASSUME NEW k, NEW l, NEW id, NEW x, Req(k, id) = Req(l, x) PROVE k = l /\ id = x
<1>1. Req(k, id).kind = k /\ Req(k, id).id = id BY DEF Req
<1>2. Req(l, x).kind = l /\ Req(l, x).id = x BY DEF Req
<1> QED BY <1>1, <1>2

\* The requests in the vectors f.
RequestsIn(f) == UNION {{Req(k, id) : id \in Range(f[k])} : k \in Kind}

\* A request is in flight when its id is in the vector of its kind.
LEMMA InFlightIs ==
    ASSUME NEW f, NEW k \in Kind, NEW id
    PROVE  Req(k, id) \in RequestsIn(f) <=> id \in Range(f[k])
<1>1. ASSUME id \in Range(f[k]) PROVE Req(k, id) \in RequestsIn(f) BY <1>1 DEF RequestsIn
<1>2. ASSUME Req(k, id) \in RequestsIn(f) PROVE id \in Range(f[k])
  <2>1. PICK l \in Kind : Req(k, id) \in {Req(l, x) : x \in Range(f[l])} BY <1>2 DEF RequestsIn
  <2>2. PICK x \in Range(f[l]) : Req(k, id) = Req(l, x) BY <2>1
  <2>3. k = l /\ id = x BY <2>2, RequestInjective
  <2> QED BY <2>3
<1> QED BY <1>1, <1>2

\* A request in flight is in the vector of its kind.
LEMMA InFlightHas == ASSUME NEW f, NEW q \in RequestsIn(f)
                     PROVE  \E k \in Kind : \E id \in Range(f[k]) : q = Req(k, id)
BY DEF RequestsIn

-----------------------------------------------------------------------------
\* The invariant holds of the new, empty downloader.
LEMMA InitDownloader == Init => DownloaderInv
<1> SUFFICES ASSUME Init PROVE DownloaderInv OBVIOUS
<1>1. \A k \in Kind : inflight[k] = <<>> BY DEF Init
<1>2. TypeOK BY <1>1 DEF Init, TypeOK
<1>3. NoRequestTwice BY <1>1 DEF NoRequestTwice, NoDuplicates
<1>4. at = "poll" BY DEF Init
<1> QED BY <1>2, <1>3, <1>4
        DEF DownloaderInv, SweepIsComplete, OutcomesRanked, PolledWakes, AllPolled, NoMessage

\* A handler makes a request: the vector gets it unless it has it.
LEMMA DownloadKeeps ==
    ASSUME DownloaderInv, NEW k \in Kind, NEW id \in Wanted[k], Download(k, id)
    PROVE  DownloaderInv'
<1>1. at = "handler" /\ UNCHANGED <<outcomes, kind, idx, messages, woken, at>>
  BY DEF Download, sweep
<1>2. inflight' \in [Kind -> Seq(Id)] /\ NoRequestTwice'
  <2>1. CASE id \in Range(inflight[k])
    BY <2>1 DEF Download, DownloaderInv, TypeOK, NoRequestTwice
  <2>2. CASE id \notin Range(inflight[k])
    <3>1. inflight' = [inflight EXCEPT ![k] = Append(inflight[k], id)] BY <2>2 DEF Download
    <3>2. id \in Id /\ inflight[k] \in Seq(Id) /\ NoDuplicates(inflight[k])
      BY DEF Id, DownloaderInv, TypeOK, NoRequestTwice
    <3>3. Append(inflight[k], id) \in Seq(Id) /\ NoDuplicates(Append(inflight[k], id))
      BY <2>2, <3>2, PushedNew
    <3> QED BY <3>1, <3>3 DEF DownloaderInv, TypeOK, NoRequestTwice
  <2> QED BY <2>1, <2>2
<1> QED BY <1>1, <1>2 DEF DownloaderInv, TypeOK, SweepIsComplete, OutcomesRanked, PolledWakes,
        AllPolled, NoMessage

\* An outcome is handed to the engine.
LEMMA PollOutcomeKeeps == ASSUME DownloaderInv, PollOutcome PROVE DownloaderInv'
<1>1. at' = "handler" /\ UNCHANGED <<inflight, kind, idx, messages>> BY DEF PollOutcome, sweep
<1>2. outcomes' \in Seq([kind : Kind, id : Id])
  BY HeadTailProperties DEF PollOutcome, DownloaderInv, TypeOK
<1> QED BY <1>1, <1>2 DEF DownloaderInv, TypeOK, NoRequestTwice, SweepIsComplete, OutcomesRanked,
        PolledWakes, AllPolled, NoMessage

\* The sweep begins with nothing polled and no outcome.
LEMMA BeginSweepKeeps == ASSUME DownloaderInv, BeginSweep PROVE DownloaderInv'
<1>1. /\ at' = "sweep" /\ polled' = {} /\ kind' = 1 /\ idx' = Len(inflight[Kinds[1]])
      /\ outcomes = <<>> /\ UNCHANGED <<inflight, outcomes, messages>>
  BY DEF BeginSweep, queue
<1>2. \A i \in 1..4 : /\ Len(inflight[Kinds[i]]) \in Nat
                      /\ DOMAIN inflight[Kinds[i]] = 1..Len(inflight[Kinds[i]])
  BY KindsDistinct, LenProperties DEF DownloaderInv, TypeOK
<1>3. TypeOK' BY <1>1, <1>2 DEF DownloaderInv, TypeOK
<1>4. SweepIsComplete' BY <1>1, <1>2 DEF SweepIsComplete
<1>5. OutcomesRanked'
  <2>1. DOMAIN outcomes' = {} /\ Len(outcomes') = 0 BY <1>1
  <2>2. Queue!Ranked(outcomes') BY <2>1 DEF Queue!Ranked
  <2> QED BY <1>1, <1>2, <2>1, <2>2 DEF OutcomesRanked
<1> QED BY <1>1, <1>3, <1>4, <1>5 DEF DownloaderInv, NoRequestTwice, PolledWakes, AllPolled, NoMessage

\* Where the index stands, what it points at, and how the vector changes.
LEMMA PollRequestFacts ==
    ASSUME DownloaderInv, PollRequest
    PROVE  LET k == Kinds[kind]
               s == inflight[k]
               q == Req(k, s[idx])
           IN  /\ k \in Kind /\ s \in Seq(Id) /\ NoDuplicates(s) /\ idx \in 1..Len(s)
               /\ s[idx] \in Id /\ s[idx] \in Range(s)
               /\ \/ /\ q \in ready
                     /\ inflight' = [inflight EXCEPT ![k] = SwapRemove(s, idx)]
                     /\ outcomes' = Append(outcomes, q)
                     /\ registered' = registered \ {q} /\ ready' = ready \ {q}
                  \/ /\ q \notin ready
                     /\ inflight' = [inflight EXCEPT ![k] = Append(SwapRemove(s, idx), s[idx])]
                     /\ UNCHANGED <<outcomes, ready>>
                     /\ registered' = registered \cup {q}
<1> DEFINE k == Kinds[kind]
           s == inflight[k]
           q == Req(k, s[idx])
<1>1. k \in Kind /\ s \in Seq(Id) /\ NoDuplicates(s)
  BY KindsDistinct DEF DownloaderInv, TypeOK, NoRequestTwice
<1>2. idx \in 1..Len(s)
  BY <1>1, LenProperties DEF DownloaderInv, TypeOK, OutcomesRanked, PollRequest
<1>3. s[idx] \in Id /\ s[idx] \in Range(s) BY <1>1, <1>2, ElementOfSeq, LenProperties DEF Range
<1>4. q.id = s[idx] BY DEF Req
<1>5. CASE q \in ready BY <1>1, <1>2, <1>3, <1>5 DEF PollRequest
<1>6. CASE q \notin ready BY <1>1, <1>2, <1>3, <1>4, <1>6 DEF PollRequest
<1> QED BY <1>5, <1>6

(***************************************************************************)
(* The round of the loop: at the index there is now the request that was   *)
(* the last one, which has been polled, or the polled one itself.          *)
(***************************************************************************)
LEMMA PollRequestKeepsSweep ==
    ASSUME DownloaderInv, PollRequest
    PROVE  /\ inflight' \in [Kind -> Seq(Id)] /\ NoRequestTwice' /\ SweepIsComplete'
           /\ idx' <= Len(inflight'[Kinds[kind]])
<1> DEFINE k == Kinds[kind]
           s == inflight[k]
           q == Req(k, s[idx])
           t == inflight'[k]
<1>1. /\ k \in Kind /\ s \in Seq(Id) /\ NoDuplicates(s) /\ idx \in 1..Len(s)
      /\ s[idx] \in Id
  BY PollRequestFacts
<1>2. at = "sweep" /\ at' = "sweep" /\ idx' = idx - 1 /\ polled' = polled \cup {q} /\ kind' = kind
  BY DEF PollRequest
<1>3. Len(s) \in Nat /\ DOMAIN s = 1..Len(s) /\ kind \in 1..4 /\ idx \in Nat
  BY <1>1, LenProperties DEF DownloaderInv, TypeOK
<1>4. /\ t \in Seq(Id) /\ NoDuplicates(t) /\ Len(t) \in {Len(s) - 1, Len(s)}
      /\ \A l \in Kind : l # k => inflight'[l] = inflight[l]
      /\ inflight' \in [Kind -> Seq(Id)]
      /\ \A j \in 1..Len(t) : \/ j = Len(s) /\ t[j] = s[idx]
                              \/ j # Len(s) /\ j = idx /\ t[j] = s[Len(s)]
                              \/ j # Len(s) /\ j # idx /\ t[j] = s[j]
  <2>1. CASE q \in ready
    <3>1. inflight' = [inflight EXCEPT ![k] = SwapRemove(s, idx)] BY <2>1, PollRequestFacts
    <3>2. /\ SwapRemove(s, idx) \in Seq(Id) /\ Len(SwapRemove(s, idx)) = Len(s) - 1
          /\ NoDuplicates(SwapRemove(s, idx))
          /\ \A j \in 1..Len(s) - 1 : SwapRemove(s, idx)[j] = IF j = idx THEN s[Len(s)] ELSE s[j]
      <4> HIDE DEF k, s
      <4> QED BY <1>1, SwapRemoveFacts, TakenOut
    <3>3. t = SwapRemove(s, idx) /\ \A l \in Kind : l # k => inflight'[l] = inflight[l]
      BY <1>1, <3>1 DEF DownloaderInv, TypeOK
    <3>4. inflight' \in [Kind -> Seq(Id)] BY <1>1, <3>1, <3>2 DEF DownloaderInv, TypeOK
    <3> HIDE DEF k, s, q, t
    <3>5. t \in Seq(Id) /\ NoDuplicates(t) /\ Len(t) = Len(s) - 1 BY <3>2, <3>3
    <3>6. Len(s) \in Nat BY <1>3
    <3>7. \A j \in 1..Len(t) : j \in 1..Len(s) - 1 /\ j # Len(s) BY <3>5, <3>6
    <3> QED BY <3>2, <3>3, <3>4, <3>5, <3>7
  <2>2. CASE q \notin ready
    <3>1. inflight' = [inflight EXCEPT ![k] = Append(SwapRemove(s, idx), s[idx])]
      BY <2>2, PollRequestFacts
    <3> DEFINE b == Append(SwapRemove(s, idx), s[idx])
    <3>2. /\ b \in Seq(Id) /\ Len(b) = Len(s) /\ NoDuplicates(b)
          /\ \A j \in 1..Len(s) : b[j] = IF j = Len(s) THEN s[idx] ELSE IF j = idx THEN s[Len(s)] ELSE s[j]
      <4> HIDE DEF k, s
      <4> QED BY <1>1, PutBack
    <3>3. t = b /\ \A l \in Kind : l # k => inflight'[l] = inflight[l]
      BY <1>1, <3>1 DEF DownloaderInv, TypeOK
    <3>4. inflight' \in [Kind -> Seq(Id)] BY <1>1, <3>1, <3>2 DEF DownloaderInv, TypeOK
    <3> HIDE DEF k, s, q, t, b
    <3> QED BY <1>3, <3>2, <3>3, <3>4
  <2> QED BY <2>1, <2>2
<1>5. NoRequestTwice' BY <1>4 DEF NoRequestTwice, DownloaderInv
<1>6. idx' <= Len(t) BY <1>1, <1>2, <1>3, <1>4
<1>7. \A j \in 1..Len(s) : Req(k, s[j]) \in polled <=> j > idx
  BY <1>2, <1>3 DEF DownloaderInv, SweepIsComplete
<1>8. SweepIsComplete'
  <2> SUFFICES ASSUME NEW i \in 1..4, NEW j \in DOMAIN inflight'[Kinds[i]]
               PROVE  Req(Kinds[i], inflight'[Kinds[i]][j]) \in polled'
                          <=> i < kind \/ (i = kind /\ j > idx - 1)
    BY <1>2 DEF SweepIsComplete
  <2>1. CASE i # kind
    <3>1. Kinds[i] \in Kind /\ Kinds[i] # k BY <1>3, <2>1, KindsDistinct
    <3>2. inflight'[Kinds[i]] = inflight[Kinds[i]] BY <1>4, <3>1
    <3>3. Req(Kinds[i], inflight[Kinds[i]][j]) # q BY <3>1, RequestInjective
    <3>4. Req(Kinds[i], inflight[Kinds[i]][j]) \in polled <=> i < kind
      BY <1>2, <2>1, <3>2 DEF DownloaderInv, SweepIsComplete
    <3> QED BY <1>2, <2>1, <3>2, <3>3, <3>4
  <2>2. CASE i = kind
    <3> DEFINE m == Len(s)
    <3>1. j \in 1..Len(t) /\ j \in Nat /\ j <= m /\ m \in Nat /\ m \in 1..m
      BY <1>1, <1>3, <1>4, <2>2, LenProperties
    <3>2. CASE j < idx
      <4>1. t[j] = s[j] /\ j \in 1..m BY <1>1, <1>3, <1>4, <3>1, <3>2
      <4>2. t[j] # s[idx] BY <1>1, <1>3, <3>1, <3>2, <4>1 DEF NoDuplicates
      <4>3. Req(k, t[j]) # q BY <4>2, RequestInjective
      <4>4. Req(k, t[j]) \notin polled' BY <1>2, <1>3, <1>7, <3>1, <3>2, <4>1, <4>3
      <4> QED BY <1>3, <2>2, <3>1, <3>2, <4>4
    <3>3. CASE j >= idx
      <4>1. \/ t[j] = s[idx]
            \/ \E l \in 1..m : l > idx /\ t[j] = s[l]
        BY <1>1, <1>3, <1>4, <3>1, <3>3
      <4>2. Req(k, t[j]) \in polled' BY <1>2, <1>7, <4>1
      <4> QED BY <1>3, <2>2, <3>1, <3>3, <4>2
    <3> QED BY <1>3, <3>1, <3>2, <3>3
  <2> QED BY <2>1, <2>2
<1> QED BY <1>4, <1>5, <1>6, <1>8

\* What the round does to the set of requests in flight.
LEMMA PollRequestInFlight ==
    ASSUME DownloaderInv, PollRequest
    PROVE  LET q == Req(Kinds[kind], inflight[Kinds[kind]][idx])
           IN  /\ q \in InFlight
               /\ q \in ready => InFlight' = InFlight \ {q}
               /\ q \notin ready => InFlight' = InFlight
<1> DEFINE k == Kinds[kind]
           s == inflight[k]
           q == Req(k, s[idx])
<1>1. /\ k \in Kind /\ s \in Seq(Id) /\ NoDuplicates(s) /\ idx \in 1..Len(s)
      /\ s[idx] \in Range(s)
  BY PollRequestFacts
<1>2. InFlight = RequestsIn(inflight) /\ InFlight' = RequestsIn(inflight') BY DEF InFlight, RequestsIn
<1>3. q \in InFlight BY <1>1, <1>2, InFlightIs
<1>4. ASSUME q \in ready PROVE InFlight' = InFlight \ {q}
  <2>1. inflight' = [inflight EXCEPT ![k] = SwapRemove(s, idx)] BY <1>4, PollRequestFacts
  <2>2. Range(SwapRemove(s, idx)) = Range(s) \ {s[idx]}
    <3> HIDE DEF k, s
    <3> QED BY <1>1, TakenOut
  <2>3. Range(inflight'[k]) = Range(inflight[k]) \ {s[idx]}
    BY <1>1, <2>1, <2>2 DEF DownloaderInv, TypeOK
  <2>4. \A l \in Kind : l # k => inflight'[l] = inflight[l] BY <2>1 DEF DownloaderInv, TypeOK
  <2>5. ASSUME NEW p \in InFlight' PROVE p \in InFlight /\ p # q
    <3>1. PICK l \in Kind : \E x \in Range(inflight'[l]) : p = Req(l, x) BY <1>2, <2>5, InFlightHas
    <3>2. PICK x \in Range(inflight'[l]) : p = Req(l, x) BY <3>1
    <3>3. x \in Range(inflight[l]) /\ ~(l = k /\ x = s[idx]) BY <2>3, <2>4, <3>2
    <3> QED BY <1>2, <3>2, <3>3, InFlightIs, RequestInjective
  <2>6. ASSUME NEW p \in InFlight, p # q PROVE p \in InFlight'
    <3>1. PICK l \in Kind : \E x \in Range(inflight[l]) : p = Req(l, x) BY <1>2, <2>6, InFlightHas
    <3>2. PICK x \in Range(inflight[l]) : p = Req(l, x) BY <3>1
    <3>3. x \in Range(inflight'[l]) BY <2>3, <2>4, <2>6, <3>2
    <3> QED BY <1>2, <3>2, <3>3, InFlightIs
  <2> QED BY <2>5, <2>6
<1>5. ASSUME q \notin ready PROVE InFlight' = InFlight
  <2>1. inflight' = [inflight EXCEPT ![k] = Append(SwapRemove(s, idx), s[idx])]
    BY <1>5, PollRequestFacts
  <2>2. Range(Append(SwapRemove(s, idx), s[idx])) = Range(s)
    <3> HIDE DEF k, s
    <3> QED BY <1>1, PutBack
  <2>3. \A l \in Kind : Range(inflight'[l]) = Range(inflight[l])
    BY <1>1, <2>1, <2>2 DEF DownloaderInv, TypeOK
  <2> QED BY <1>2, <2>3 DEF RequestsIn
<1> QED BY <1>3, <1>4, <1>5

\* The outcome of a request that was ready joins those of kinds that are not later.
LEMMA PollRequestKeepsRank ==
    ASSUME DownloaderInv, PollRequest
    PROVE  /\ outcomes' \in Seq([kind : Kind, id : Id])
           /\ Queue!Ranked(outcomes') /\ \A i \in 1..Len(outcomes') : RankOf(outcomes'[i]) <= kind
<1> DEFINE k == Kinds[kind]
           q == Req(k, inflight[k][idx])
<1>1. /\ Queue!Ranked(outcomes) /\ \A i \in 1..Len(outcomes) : RankOf(outcomes[i]) <= kind
      /\ outcomes \in Seq([kind : Kind, id : Id]) /\ kind \in 1..4
  BY DEF PollRequest, DownloaderInv, OutcomesRanked, TypeOK
<1>2. CASE q \notin ready
  <2>1. outcomes' = outcomes BY <1>2, PollRequestFacts
  <2> QED BY <1>1, <2>1
<1>3. CASE q \in ready
  <2>1. outcomes' = Append(outcomes, q) BY <1>3, PollRequestFacts
  <2>2. q \in [kind : Kind, id : Id] BY PollRequestFacts DEF Req
  <2>3. RankOf(q) = kind BY <1>1, RankOfKind
  <2> HIDE DEF q
  <2>4. /\ outcomes' \in Seq([kind : Kind, id : Id]) /\ Len(outcomes') = Len(outcomes) + 1
        /\ Len(outcomes) \in Nat
        /\ \A i \in 1..Len(outcomes) : outcomes'[i] = outcomes[i]
        /\ outcomes'[Len(outcomes) + 1] = q
    BY <1>1, <2>1, <2>2, AppendProperties, LenProperties
  <2>5. DOMAIN outcomes = 1..Len(outcomes) /\ DOMAIN outcomes' = 1..Len(outcomes')
    BY <1>1, <2>4, LenProperties
  <2>6. \A i \in 1..Len(outcomes') : i \in 1..Len(outcomes) \/ i = Len(outcomes) + 1 BY <2>4
  <2>7. \A i \in 1..Len(outcomes') : RankOf(outcomes'[i]) <= kind
    BY <1>1, <2>3, <2>4, <2>6
  <2>8. Queue!Ranked(outcomes')
    <3> SUFFICES ASSUME NEW i \in 1..Len(outcomes'), NEW j \in 1..Len(outcomes'), i < j
                 PROVE  RankOf(outcomes'[i]) <= RankOf(outcomes'[j])
      BY <2>5 DEF Queue!Ranked
    <3>1. CASE j = Len(outcomes) + 1 BY <2>3, <2>4, <2>7, <3>1
    <3>2. CASE j \in 1..Len(outcomes)
      <4>1. i \in 1..Len(outcomes) BY <2>4, <2>6, <3>2
      <4> QED BY <1>1, <2>4, <2>5, <3>2, <4>1 DEF Queue!Ranked
    <3> QED BY <2>6, <3>1, <3>2
  <2> QED BY <2>4, <2>7, <2>8
<1> QED BY <1>2, <1>3

\* Polling one future, with swap_remove when it is ready, keeps the invariant.
LEMMA PollRequestKeeps == ASSUME DownloaderInv, PollRequest PROVE DownloaderInv'
<1> DEFINE k == Kinds[kind]
           q == Req(k, inflight[k][idx])
<1>1. /\ at = "sweep" /\ at' = "sweep" /\ idx' = idx - 1 /\ idx > 0
      /\ polled' = polled \cup {q} /\ UNCHANGED <<kind, messages, woken>>
  BY DEF PollRequest
<1>2. TypeOK'
  BY <1>1, PollRequestKeepsSweep, PollRequestKeepsRank DEF DownloaderInv, TypeOK
<1>3. PolledWakes'
  <2>1. CASE q \in ready
    <3>1. registered' = registered \ {q} /\ ready' = ready \ {q} /\ InFlight' = InFlight \ {q}
      BY <2>1, PollRequestFacts, PollRequestInFlight
    <3> HIDE DEF q
    <3> QED BY <1>1, <3>1 DEF DownloaderInv, PolledWakes
  <2>2. CASE q \notin ready
    <3>1. registered' = registered \cup {q} /\ ready' = ready /\ InFlight' = InFlight
      BY <2>2, PollRequestFacts, PollRequestInFlight
    <3> HIDE DEF q
    <3> QED BY <1>1, <2>2, <3>1 DEF DownloaderInv, PolledWakes
  <2> QED BY <2>1, <2>2
<1>4. OutcomesRanked' BY <1>1, PollRequestKeepsSweep, PollRequestKeepsRank DEF OutcomesRanked
<1> QED BY <1>1, <1>2, <1>3, <1>4, PollRequestKeepsSweep DEF DownloaderInv, AllPolled, NoMessage

\* After the last loop every future was polled.
LEMMA EndLoopKeeps == ASSUME DownloaderInv, EndLoop PROVE DownloaderInv'
<1>1. at = "sweep" /\ idx = 0 /\ UNCHANGED <<inflight, polled, ready, registered, woken, messages>>
  BY DEF EndLoop
<1>2. \A i \in 1..4 : /\ Len(inflight[Kinds[i]]) \in Nat
                      /\ DOMAIN inflight[Kinds[i]] = 1..Len(inflight[Kinds[i]])
  BY KindsDistinct, LenProperties DEF DownloaderInv, TypeOK
<1>3. InFlight' = InFlight BY <1>1 DEF InFlight
<1>4. NoRequestTwice' BY <1>1 DEF DownloaderInv, NoRequestTwice
<1>5. CASE kind < 4
  <2>1. /\ kind' = kind + 1 /\ idx' = Len(inflight[Kinds[kind + 1]]) /\ at' = "sweep"
        /\ outcomes' = outcomes /\ kind + 1 \in 1..4 /\ kind \in 1..4
    BY <1>1, <1>5 DEF EndLoop, DownloaderInv, TypeOK
  <2>2. TypeOK' BY <1>1, <1>2, <2>1 DEF DownloaderInv, TypeOK
  <2>3. SweepIsComplete'
    <3> SUFFICES ASSUME NEW i \in 1..4, NEW j \in DOMAIN inflight[Kinds[i]]
                 PROVE  Req(Kinds[i], inflight[Kinds[i]][j]) \in polled
                            <=> i < kind + 1 \/ (i = kind + 1 /\ j > Len(inflight[Kinds[kind + 1]]))
      BY <1>1, <2>1 DEF SweepIsComplete
    <3>1. Req(Kinds[i], inflight[Kinds[i]][j]) \in polled <=> i < kind \/ (i = kind /\ j > 0)
      BY <1>1 DEF DownloaderInv, SweepIsComplete
    <3>2. j \in 1..Len(inflight[Kinds[i]]) BY <1>2
    <3> QED BY <1>2, <2>1, <3>1, <3>2
  <2>4. OutcomesRanked'
    <3>1. \A i \in 1..Len(outcomes) : RankOf(outcomes[i]) <= kind + 1
      <4>1. ASSUME NEW i \in 1..Len(outcomes) PROVE RankOf(outcomes[i]) \in 1..4
        <5>1. outcomes[i] \in [kind : Kind, id : Id] BY ElementOfSeq DEF DownloaderInv, TypeOK
        <5>2. outcomes[i].kind \in Kind BY <5>1
        <5> QED BY <5>2, KindsDistinct DEF RankOf
      <4> QED BY <1>1, <2>1, <4>1 DEF DownloaderInv, OutcomesRanked
    <3> QED BY <1>1, <1>2, <2>1, <3>1 DEF DownloaderInv, OutcomesRanked
  <2> QED BY <1>1, <1>3, <1>4, <2>1, <2>2, <2>3, <2>4 DEF DownloaderInv, PolledWakes, AllPolled, NoMessage
<1>6. CASE kind = 4 /\ outcomes # <<>>
  <2>1. at' = "handler" /\ outcomes' = Tail(outcomes) /\ UNCHANGED <<kind, idx>>
    BY <1>6 DEF EndLoop
  <2>2. outcomes' \in Seq([kind : Kind, id : Id])
    BY <1>6, <2>1, HeadTailProperties DEF DownloaderInv, TypeOK
  <2> QED BY <1>1, <1>4, <2>1, <2>2 DEF DownloaderInv, TypeOK, SweepIsComplete, OutcomesRanked,
          PolledWakes, AllPolled, NoMessage
<1>7. CASE kind = 4 /\ outcomes = <<>>
  <2>1. at' = "messages" /\ UNCHANGED <<kind, idx, outcomes>> BY <1>7 DEF EndLoop
  <2>2. InFlight \subseteq polled
    <3> SUFFICES ASSUME NEW q \in InFlight PROVE q \in polled OBVIOUS
    <3>0. PICK l \in Kind : \E x \in Range(inflight[l]) : q = Req(l, x) BY DEF InFlight
    <3>1. PICK id \in Range(inflight[l]) : q = Req(l, id) BY <3>0
    <3>2. PICK i \in 1..4 : Kinds[i] = l BY KindsDistinct
    <3>3. PICK j \in DOMAIN inflight[l] : id = inflight[l][j] BY <3>1 DEF Range
    <3>4. j \in Nat /\ j > 0 BY <1>2, <3>2, <3>3
    <3> QED BY <1>1, <1>7, <3>1, <3>2, <3>3, <3>4 DEF DownloaderInv, SweepIsComplete
  <2> QED BY <1>1, <1>3, <1>4, <2>1, <2>2 DEF DownloaderInv, TypeOK, SweepIsComplete, OutcomesRanked,
          PolledWakes, AllPolled, NoMessage
<1> QED BY <1>5, <1>6, <1>7 DEF EndLoop

\* Polling the messages of the engine keeps the invariant.
LEMMA PollMessagesKeeps == ASSUME DownloaderInv, PollMessages PROVE DownloaderInv'
<1>1. UNCHANGED <<inflight, outcomes, kind, idx, polled, ready, registered, woken>>
  BY DEF PollMessages, queue, sweep
<1>2. InFlight' = InFlight BY <1>1 DEF InFlight
<1>3. /\ at = "messages" /\ at' \in {"handler", "asleep"} /\ messages' \in Nat
      /\ at' = "asleep" => messages' = 0
  BY DEF PollMessages, DownloaderInv, TypeOK
<1> QED BY <1>1, <1>2, <1>3 DEF DownloaderInv, TypeOK, NoRequestTwice, SweepIsComplete, OutcomesRanked,
        PolledWakes, AllPolled, NoMessage

\* So do the end of a handler and the executor that runs the woken task.
LEMMA LoopKeeps == ASSUME DownloaderInv, EndHandler \/ Resume PROVE DownloaderInv'
<1>1. at' = "poll" /\ UNCHANGED <<inflight, outcomes, kind, idx, messages>>
  BY DEF EndHandler, Resume, queue, sweep
<1> QED BY <1>1 DEF DownloaderInv, TypeOK, NoRequestTwice, SweepIsComplete, OutcomesRanked,
        PolledWakes, AllPolled, NoMessage

\* A future becomes ready: if it was polled, it wakes the engine.
LEMMA BecomesReadyKeeps == ASSUME DownloaderInv, NEW q, BecomesReady(q) PROVE DownloaderInv'
<1>1. UNCHANGED <<inflight, outcomes, kind, idx, polled, at, messages>>
  BY DEF BecomesReady, queue, sweep
<1>2. InFlight' = InFlight BY <1>1 DEF InFlight
<1>3. PolledWakes'
  <2> SUFFICES ASSUME at \in {"sweep", "messages", "asleep"}, NEW p \in InFlight \cap polled
               PROVE  woken' \/ (p \in registered' /\ p \notin ready')
    BY <1>1, <1>2 DEF PolledWakes
  <2>1. woken \/ (p \in registered /\ p \notin ready) BY DEF DownloaderInv, PolledWakes
  <2> QED BY <2>1 DEF BecomesReady
<1>4. NoMessage' BY <1>1 DEF BecomesReady, DownloaderInv, NoMessage
<1> QED BY <1>1, <1>2, <1>3, <1>4 DEF DownloaderInv, TypeOK, NoRequestTwice, SweepIsComplete,
        OutcomesRanked, AllPolled

\* A message that arrives wakes the engine.
LEMMA MessageKeeps == ASSUME DownloaderInv, Message PROVE DownloaderInv'
<1>1. UNCHANGED <<inflight, outcomes, kind, idx, polled, at, ready, registered>>
  BY DEF Message, queue, sweep
<1>2. InFlight' = InFlight BY <1>1 DEF InFlight
<1>3. woken' /\ messages' \in Nat BY DEF Message
<1> QED BY <1>1, <1>2, <1>3 DEF DownloaderInv, TypeOK, NoRequestTwice, SweepIsComplete,
        OutcomesRanked, PolledWakes, AllPolled, NoMessage

\* A step that leaves the downloader alone keeps the invariant.
LEMMA StutterKeeps == ASSUME DownloaderInv, UNCHANGED downloadervars PROVE DownloaderInv'
<1>1. UNCHANGED <<inflight, outcomes, kind, idx, polled, at, ready, registered, woken, messages>>
  BY DEF downloadervars, queue, sweep
<1>2. InFlight' = InFlight BY <1>1 DEF InFlight
<1> QED BY <1>1, <1>2 DEF DownloaderInv, TypeOK, NoRequestTwice, SweepIsComplete,
        OutcomesRanked, PolledWakes, AllPolled, NoMessage

(***************************************************************************)
(* The vectors, the index and the wakers fit together in every state of    *)
(* the engine's loop (download/mod.rs:104-226, engine.rs:295-320).         *)
(***************************************************************************)
THEOREM DownloaderInvariant == Spec => []DownloaderInv
<1>1. DownloaderInv /\ [Next]_downloadervars => DownloaderInv'
  BY DownloadKeeps, PollOutcomeKeeps, BeginSweepKeeps, PollRequestKeeps, EndLoopKeeps, PollMessagesKeeps,
     LoopKeeps, BecomesReadyKeeps, MessageKeeps, StutterKeeps DEF Next, Engine
<1> QED BY <1>1, InitDownloader, PTL DEF Spec

(***************************************************************************)
(* Every sweep polls every future once (download/mod.rs:126-127), however  *)
(* many requests of each kind are in flight.                               *)
(***************************************************************************)
THEOREM SweepComplete == Spec => []SweepIsComplete
<1>1. DownloaderInv => SweepIsComplete BY DEF DownloaderInv
<1> QED BY <1>1, DownloaderInvariant, PTL

(***************************************************************************)
(* No wake-up is lost: the engine's task does not sleep while a request in *)
(* flight is ready or a message is there (engine.rs:295-320).              *)
(***************************************************************************)
THEOREM NoLostWakeUp == Spec => []SleepsOnNothing
<1>1. DownloaderInv => SleepsOnNothing
  <2> SUFFICES ASSUME DownloaderInv, at = "asleep", ~woken PROVE InFlight \cap ready = {} /\ messages = 0
    BY DEF SleepsOnNothing
  <2>1. \A q \in InFlight : q \notin ready BY DEF DownloaderInv, PolledWakes, AllPolled
  <2>2. messages = 0 BY DEF DownloaderInv, NoMessage
  <2> QED BY <2>1, <2>2
<1> QED BY <1>1, DownloaderInvariant, PTL

-----------------------------------------------------------------------------
\* A request that a handler makes: the set of requests in flight may grow.
LEMMA DownloadAsks ==
    ASSUME DownloaderInv, NEW k \in Kind, NEW id \in Wanted[k], Download(k, id)
    PROVE  Queue!Ask
<1>1. outcomes' = outcomes BY DEF Download
<1>2. \A l \in Kind : Range(inflight[l]) \subseteq Range(inflight'[l])
  <2>1. CASE id \in Range(inflight[k]) BY <2>1 DEF Download
  <2>2. CASE id \notin Range(inflight[k])
    <3>1. inflight' = [inflight EXCEPT ![k] = Append(inflight[k], id)] BY <2>2 DEF Download
    <3>2. id \in Id /\ inflight[k] \in Seq(Id) /\ NoDuplicates(inflight[k])
      BY DEF Id, DownloaderInv, TypeOK, NoRequestTwice
    <3>3. Range(Append(inflight[k], id)) = Range(inflight[k]) \cup {id} BY <2>2, <3>2, PushedNew
    <3> QED BY <3>1, <3>3 DEF DownloaderInv, TypeOK
  <2> QED BY <2>1, <2>2
<1>3. InFlight \subseteq InFlight' BY <1>2 DEF InFlight
<1> QED BY <1>1, <1>3 DEF Queue!Ask

\* A round of a loop of the sweep: one request is completed, or nothing is seen of it.
LEMMA PollRequestCompletes ==
    ASSUME DownloaderInv, PollRequest
    PROVE  Queue!Complete \/ UNCHANGED <<InFlight, outcomes>>
<1> DEFINE q == Req(Kinds[kind], inflight[Kinds[kind]][idx])
<1>1. CASE q \notin ready
  BY <1>1, PollRequestFacts, PollRequestInFlight
<1>2. CASE q \in ready
  <2>1. /\ outcomes' = Append(outcomes, q) /\ InFlight' = InFlight \ {q} /\ q \in InFlight
        /\ q \in [kind : Kind, id : Id]
    BY <1>2, PollRequestFacts, PollRequestInFlight DEF Req
  <2>2. outcomes \in Seq([kind : Kind, id : Id]) BY DEF DownloaderInv, TypeOK
  <2> HIDE DEF q
  <2> DEFINE n == Len(outcomes)
             new == SubSeq(outcomes', n + 1, Len(outcomes'))
  <2>3. /\ outcomes' \in Seq([kind : Kind, id : Id]) /\ Len(outcomes') = n + 1 /\ n \in Nat
        /\ \A i \in 1..n : outcomes'[i] = outcomes[i]
        /\ outcomes'[n + 1] = q
    BY <2>1, <2>2, AppendProperties, LenProperties
  <2>4. SubSeq(outcomes', 1, n) = outcomes
    <3>1. \A i \in 1..n : outcomes'[i] \in [kind : Kind, id : Id] BY <2>2, <2>3, ElementOfSeq
    <3>2. /\ SubSeq(outcomes', 1, n) \in Seq([kind : Kind, id : Id])
          /\ Len(SubSeq(outcomes', 1, n)) = IF 1 <= n THEN n - 1 + 1 ELSE 0
          /\ \A i \in 1..(n - 1 + 1) : SubSeq(outcomes', 1, n)[i] = outcomes'[1 + i - 1]
      <4> HIDE DEF n
      <4> QED BY <2>3, <3>1, SubSeqProperties
    <3>3. Len(SubSeq(outcomes', 1, n)) = n /\ \A i \in 1..n : SubSeq(outcomes', 1, n)[i] = outcomes[i]
      <4> HIDE DEF n
      <4> QED BY <2>3, <3>2
    <3> QED BY <2>2, <3>2, <3>3, SeqEqual
  <2>5. Len(new) = 1 /\ new[1] = q /\ DOMAIN new = {1}
    <3>1. \A i \in (n + 1)..(n + 1) : outcomes'[i] \in [kind : Kind, id : Id]
      <4>1. \A i \in (n + 1)..(n + 1) : i = n + 1 BY <2>3
      <4> QED BY <2>1, <2>3, <4>1
    <3>2. /\ SubSeq(outcomes', n + 1, n + 1) \in Seq([kind : Kind, id : Id])
          /\ Len(SubSeq(outcomes', n + 1, n + 1)) = IF n + 1 <= n + 1 THEN n + 1 - (n + 1) + 1 ELSE 0
          /\ \A i \in 1..(n + 1 - (n + 1) + 1) :
                 SubSeq(outcomes', n + 1, n + 1)[i] = outcomes'[n + 1 + i - 1]
      <4> DEFINE m == n + 1
      <4>1. m \in Int BY <2>3
      <4>2. \A i \in m..m : outcomes'[i] \in [kind : Kind, id : Id] BY <3>1
      <4> HIDE DEF m
      <4>3. /\ SubSeq(outcomes', m, m) \in Seq([kind : Kind, id : Id])
            /\ Len(SubSeq(outcomes', m, m)) = IF m <= m THEN m - m + 1 ELSE 0
            /\ \A i \in 1..(m - m + 1) : SubSeq(outcomes', m, m)[i] = outcomes'[m + i - 1]
        BY <4>1, <4>2, SubSeqProperties
      <4> QED BY <4>3 DEF m
    <3>3. new = SubSeq(outcomes', n + 1, n + 1) BY <2>3
    <3>4. n + 1 - (n + 1) + 1 = 1 /\ n + 1 <= n + 1 /\ n + 1 + 1 - 1 = n + 1 BY <2>3
    <3>5. Len(new) = 1 /\ new[1] = q /\ new \in Seq([kind : Kind, id : Id])
      <4> HIDE DEF n, new
      <4> QED BY <2>3, <3>2, <3>3, <3>4
    <3>6. DOMAIN new = 1..1 BY <3>5, LenProperties
    <3> QED BY <3>5, <3>6
  <2>6. InFlight \ InFlight' = {q} /\ InFlight' \subseteq InFlight BY <2>1
  <2>8. {new[i] : i \in DOMAIN new} = {q} BY <2>5
  <2>9. Queue!Ranked(outcomes') BY PollRequestKeepsRank
  <2>10. n <= Len(outcomes') BY <2>3
  <2>11. \A i, j \in DOMAIN new : new[i] = new[j] => i = j BY <2>5
  <2>12. {new[i] : i \in DOMAIN new} = InFlight \ InFlight' BY <2>6, <2>8
  <2>13. Queue!Complete BY ONLY <2>4, <2>6, <2>9, <2>10, <2>11, <2>12 DEF Queue!Complete
  <2> QED BY <2>13
<1> QED BY <1>1, <1>2

(***************************************************************************)
(* The downloader implements Downloads (download/mod.rs:37-226): a set of  *)
(* requests and a queue of outcomes, which is what the model of the engine *)
(* takes it for.                                                           *)
(***************************************************************************)
THEOREM DownloaderRefinesDownloads == Spec => ImplementsDownloads
<1>1. Init => Queue!Init
  <2> SUFFICES ASSUME Init PROVE InFlight = {} /\ outcomes = <<>> BY DEF Queue!Init
  <2>1. \A k \in Kind : Range(inflight[k]) = {} BY DEF Init, Range
  <2> QED BY <2>1 DEF Init, InFlight
<1>2. DownloaderInv /\ [Next]_downloadervars => [Queue!Next]_<<InFlight, outcomes>>
  <2> SUFFICES ASSUME DownloaderInv, [Next]_downloadervars
               PROVE  Queue!Next \/ UNCHANGED <<InFlight, outcomes>>
    OBVIOUS
  <2>0. UNCHANGED <<inflight, outcomes>> => UNCHANGED <<InFlight, outcomes>> BY DEF InFlight
  <2>1. CASE PollOutcome
    <3>1. inflight' = inflight /\ outcomes # <<>> /\ outcomes' = Tail(outcomes) BY <2>1 DEF PollOutcome
    <3>2. InFlight \subseteq InFlight' BY <3>1 DEF InFlight
    <3> QED BY <3>1, <3>2 DEF Queue!Handle, Queue!Next
  <2>2. CASE BeginSweep BY <2>0, <2>2 DEF BeginSweep, queue
  <2>3. CASE PollRequest BY <2>3, PollRequestCompletes DEF Queue!Next
  <2>4. CASE EndLoop
    <3>1. inflight' = inflight /\ (outcomes' = outcomes \/ (outcomes # <<>> /\ outcomes' = Tail(outcomes)))
      BY <2>4 DEF EndLoop
    <3>2. InFlight' = InFlight BY <3>1 DEF InFlight
    <3> QED BY <3>1, <3>2 DEF Queue!Handle, Queue!Next
  <2>5. CASE PollMessages BY <2>0, <2>5 DEF PollMessages, queue
  <2>6. CASE EndHandler BY <2>0, <2>6 DEF EndHandler, queue
  <2>7. CASE Resume BY <2>0, <2>7 DEF Resume, queue
  <2>8. CASE \E k \in Kind : \E id \in Wanted[k] : Download(k, id)
    BY <2>8, DownloadAsks DEF Queue!Next
  <2>9. CASE \E q : BecomesReady(q) BY <2>0, <2>9 DEF BecomesReady, queue
  <2>10. CASE Message BY <2>0, <2>10 DEF Message, queue
  <2>11. CASE UNCHANGED downloadervars BY <2>0, <2>11 DEF downloadervars, queue
  <2> QED BY <2>1, <2>2, <2>3, <2>4, <2>5, <2>6, <2>7, <2>8, <2>9, <2>10, <2>11 DEF Next, Engine
<1> QED BY <1>1, <1>2, DownloaderInvariant, PTL DEF Spec, ImplementsDownloads, Queue!Spec
=============================================================================
