-------------------------- MODULE RpcAdapterProofs ---------------------------
(***************************************************************************)
(* Proofs about RpcAdapter, for every block tree, every set of requests,   *)
(* every chain the RPC node may follow, every limit, and with or without   *)
(* calls that fail.                                                        *)
(*                                                                         *)
(* The answers are right because of what is known of a task while it runs: *)
(* TaskOK says what its i-th call asks for and what a reply to it can be.  *)
(* BufferOpsProofs is extended for its facts about the block tree; the     *)
(* buffer and its constants play no part.                                  *)
(***************************************************************************)
EXTENDS RpcAdapter, BufferOpsProofs, SequenceTheorems

-----------------------------------------------------------------------------
\* The calls to the RPC node.
CallRecord == [by : {"hash", "number"}, of : Hash \cup Nat, done : BOOLEAN,
               block : Hash \cup {None}]

\* What the i-th call of a task asks for.
AskedBy(r, i) == IF r.kind = "bodies" \/ i = 1 THEN "hash" ELSE "number"

\* The hash or the number the i-th call of a task asks for.
AskedOf(r, i) == IF r.kind = "bodies" \/ i = 1 THEN r.blocks[i]
                 ELSE IF r.kind = "witness" THEN Number[r.blocks[1]]
                 ELSE Number[r.blocks[1]] - (i - 1)

\* What a reply can be, whatever happens to the chain and to other calls.
IsReply(c) == /\ ~c.done => c.block = None
              /\ c.by = "hash" => c.block \in {None, c.of}
              /\ c.by = "number" /\ c.block # None => Number[c.block] = c.of

\* A call asks for what its place says, and has the answer of the node while the chain stands still.
CallOK(r, i, c) == /\ c \in CallRecord
                   /\ c.by = AskedBy(r, i) /\ c.of = AskedOf(r, i)
                   /\ IsReply(c)
                   /\ c.done /\ r \notin disturbed => c.block \in NodeAnswers(c)

\* The calls of a task: first those by hash, then those that follow from the start block.
CallCount(r, n) ==
    /\ r.kind # "code"
    /\ r.kind = "bodies" => n = Len(r.blocks)
    /\ r.kind = "witness" => n \in {1, 2}
    /\ r.kind = "headers" /\ n # 1 =>
           r.limit > 1 /\ n = 1 + Number[r.blocks[1]] - EndNumber(r.blocks[1], r.limit)

\* The calls of a task are right, as many as they should be, and the later ones follow the first.
TaskOK(r) ==
    /\ \A i \in DOMAIN calls[r] : CallOK(r, i, calls[r][i])
    /\ calls[r] # <<>> => CallCount(r, Len(calls[r]))
    /\ r.kind # "bodies" /\ Len(calls[r]) > 1 => Got(calls[r][1])

\* Where a request that waits is: in the stream, once, or with a task.
Kept(r) == /\ \A i \in DOMAIN request_stream : request_stream[i] = r =>
                  /\ status[r] = "waiting" /\ calls[r] = <<>>
                  /\ \A j \in DOMAIN request_stream : request_stream[j] = r => i = j
           /\ calls[r] # <<>> => status[r] = "waiting"
           /\ status[r] = "waiting" =>
                  calls[r] # <<>> \/ \E i \in DOMAIN request_stream : request_stream[i] = r

\* What the three properties say of an answer.
AnswerOK(r) ==
    /\ r.kind = "headers" /\ answer[r] # <<>> =>
        /\ answer[r][1] = r.blocks[1]
        /\ \A i \in DOMAIN answer[r] : Number[answer[r][i]] = Number[answer[r][1]] - (i - 1)
        /\ r \notin disturbed /\ answer[r][1] \in Ancestry[head] =>
               /\ \A i \in DOMAIN answer[r] : answer[r][i] \in Ancestry[answer[r][1]]
               /\ Len(answer[r]) = Min({Max({1, r.limit}), MaxHeaders + 1, Max({2, SoftLimit + 1}),
                                        Number[r.blocks[1]] + 1})
    /\ r.kind = "bodies" => \A i \in DOMAIN answer[r] : answer[r][i] = r.blocks[i]
    /\ r.kind = "witness" /\ answer[r] # <<>> =>
        /\ CodesOf[answer[r][1]] \subseteq bytecodes
        /\ r \notin disturbed /\ r.blocks[1] \in Ancestry[head] => answer[r][1] = r.blocks[1]

\* The types of the stream, the calls and the answers.
AdapterTypes == /\ workload \subseteq Request
                /\ head \in Heads
                /\ request_stream \in Seq(Request)
                /\ calls \in [Request -> Seq(CallRecord)]
                /\ status \in [Request -> {"unsent", "waiting", "answered"}]
                /\ DOMAIN answer = Request
                /\ disturbed \subseteq Request

\* The inductive invariant.
AdapterInv == AdapterTypes /\ \A r \in Request : TaskOK(r) /\ Kept(r) /\ AnswerOK(r)

-----------------------------------------------------------------------------
\* The greatest and the least element of a set of integers, when it is at hand.
LEMMA MaxIs ==
    ASSUME NEW S \in SUBSET Int, NEW m \in S, \A y \in S : m >= y PROVE Max(S) = m
<1>1. \A x \in S : (\A y \in S : x >= y) => x = m OBVIOUS
<1> QED BY <1>1 DEF Max

\* See MaxIs.
LEMMA MinIs ==
    ASSUME NEW S \in SUBSET Int, NEW m \in S, \A y \in S : m <= y PROVE Min(S) = m
<1>1. \A x \in S : (\A y \in S : x <= y) => x = m OBVIOUS
<1> QED BY <1>1 DEF Min

\* A non-empty set of numbers up to n has a greatest element.
LEMMA MaxExists ==
    ASSUME NEW n \in Nat, NEW S \in SUBSET (0..n), S # {}
    PROVE  Max(S) \in S /\ \A y \in S : y <= Max(S)
<1> DEFINE below == {n - y : y \in S}
<1>1. below \subseteq Nat /\ below # {}
  <2>1. \A y \in S : n - y \in Nat OBVIOUS
  <2> QED BY <2>1
<1>2. PICK m \in S : \A k \in below : ~ (<<k, n - m>> \in OpToRel(<, Nat))
  <2> HIDE DEF below
  <2>1. \E k \in below : \A l \in below : ~ (<<l, k>> \in OpToRel(<, Nat))
    BY <1>1, WFMin, NatLessThanWellFounded
  <2> QED BY <2>1 DEF below
<1>3. ASSUME NEW y \in S PROVE m >= y
  <2>1. y \in Nat /\ m \in Nat /\ n - y \in Nat /\ n - m \in Nat OBVIOUS
  <2>2. ~ (<<n - y, n - m>> \in OpToRel(<, Nat)) BY <1>2
  <2>3. ~ (n - y < n - m) BY <2>1, <2>2 DEF OpToRel
  <2> QED BY <2>1, <2>3
<1>4. S \subseteq Int OBVIOUS
<1>5. Max(S) = m BY <1>3, <1>4, MaxIs
<1> QED BY <1>3, <1>5

\* What the fields of a request are.
LEMMA RequestShape ==
    ASSUME NEW r \in Request
    PROVE  /\ r.kind \in {"headers", "bodies", "witness", "code"}
           /\ r.kind = "headers" => r.limit \in Nat
           /\ r.kind \in {"headers", "witness"} =>
                  Len(r.blocks) = 1 /\ DOMAIN r.blocks = {1} /\ r.blocks[1] \in Hash
           /\ r.kind # "code" => r.blocks \in Seq(Hash) /\ Len(r.blocks) >= 1 /\ r.blocks[1] \in Hash
<1>1. r \in Requests BY AdapterAssumption
<1>2. CASE r \in [kind : {"headers"}, blocks : {<<h>> : h \in Hash}, limit : Nat]
  <2>1. PICK h \in Hash : r.blocks = <<h>> BY <1>2
  <2> QED BY <1>2, <2>1
<1>3. CASE r \in [kind : {"bodies"}, blocks : Seq(Hash) \ {<<>>}]
  <2>1. r.kind = "bodies" /\ r.blocks \in Seq(Hash) /\ r.blocks # <<>> BY <1>3
  <2>2. Len(r.blocks) \in Nat /\ Len(r.blocks) # 0 BY <2>1
  <2>3. 1 \in DOMAIN r.blocks BY <2>1, <2>2
  <2> QED BY <2>1, <2>2, <2>3
<1>4. CASE r \in [kind : {"witness"}, blocks : {<<h>> : h \in Hash}]
  <2>1. PICK h \in Hash : r.blocks = <<h>> BY <1>4
  <2> QED BY <1>4, <2>1
<1>5. CASE r \in [kind : {"code"}, code : CodeHash] BY <1>5
<1> QED BY <1>1, <1>2, <1>3, <1>4, <1>5 DEF Requests

\* How many blocks on_headers_request asks for by number.
LEMMA RangeLength ==
    ASSUME NEW s \in Hash, NEW limit \in Nat, limit > 1,
           NEW k, k = Number[s] - EndNumber(s, limit)
    PROVE  /\ k \in Nat
           /\ EndNumber(s, limit) \in Nat
           /\ k <= Number[s] /\ k <= limit - 1 /\ k <= MaxHeaders
           /\ k = Number[s] \/ k = limit - 1 \/ k = MaxHeaders
<1>1. Number[s] \in Nat /\ MaxHeaders \in Nat \ {0} BY ParentAssumption, AdapterAssumption
<1> DEFINE both == {limit - 1, MaxHeaders}
           m    == Min(both)
<1>2. m \in Nat /\ m <= limit - 1 /\ m <= MaxHeaders /\ (m = limit - 1 \/ m = MaxHeaders)
  <2>1. both \subseteq Int /\ limit - 1 \in both /\ MaxHeaders \in both BY <1>1
  <2>2. CASE limit - 1 <= MaxHeaders
    <3>1. \A y \in both : limit - 1 <= y BY <1>1, <2>2
    <3> HIDE DEF both
    <3>2. m = limit - 1 BY <2>1, <3>1, MinIs
    <3> QED BY <1>1, <2>2, <3>2
  <2>3. CASE ~ (limit - 1 <= MaxHeaders)
    <3>1. \A y \in both : MaxHeaders <= y BY <1>1, <2>3
    <3> HIDE DEF both
    <3>2. m = MaxHeaders BY <2>1, <3>1, MinIs
    <3> QED BY <1>1, <2>3, <3>2
  <2> QED BY <2>2, <2>3
<1>3. EndNumber(s, limit) = Max({0, Number[s] - m}) BY DEF EndNumber
<1> HIDE DEF m
<1>4. CASE Number[s] >= m
  <2>1. {0, Number[s] - m} \subseteq Int /\ Number[s] - m \in {0, Number[s] - m} BY <1>1, <1>2
  <2>2. \A y \in {0, Number[s] - m} : Number[s] - m >= y BY <1>1, <1>2, <1>4
  <2>3. EndNumber(s, limit) = Number[s] - m BY <1>3, <2>1, <2>2, MaxIs
  <2> QED BY <1>1, <1>2, <1>4, <2>3
<1>5. CASE ~ (Number[s] >= m)
  <2>1. EndNumber(s, limit) = 0 BY <1>1, <1>2, <1>3, <1>5, MaxIs
  <2> QED BY <1>1, <1>2, <1>5, <2>1
<1> QED BY <1>4, <1>5

(***************************************************************************)
(* Taken is where the loop over the ordered calls is: the blocks so far    *)
(* are there and did not fill the response, and it can go no further.      *)
(***************************************************************************)
LEMMA TakenIs ==
    ASSUME NEW r \in Request, calls[r] \in Seq(CallRecord)
    PROVE  /\ Taken(r) \in 0..Len(calls[r])
           /\ \A i \in 1..Taken(r) : Got(calls[r][i]) /\ (i < Taken(r) => ~Full(r, i))
           /\ Taken(r) < Len(calls[r]) =>
                  ~Got(calls[r][Taken(r) + 1]) \/ (Taken(r) >= 1 /\ Full(r, Taken(r)))
<1> DEFINE S == {n \in 0..Len(calls[r]) : \A i \in 1..n : Got(calls[r][i]) /\ (i < n => ~Full(r, i))}
           t == Taken(r)
<1>1. Len(calls[r]) \in Nat OBVIOUS
<1>2. t = Max(S) BY DEF Taken
<1>3. S \subseteq 0..Len(calls[r]) /\ 0 \in S BY <1>1
<1>4. t \in S /\ \A y \in S : y <= t
  <2> HIDE DEF S
  <2> QED BY <1>1, <1>2, <1>3, MaxExists
<1>5. ASSUME t < Len(calls[r]), Got(calls[r][t + 1]), ~(t >= 1 /\ Full(r, t)) PROVE FALSE
  <2>1. t \in Nat /\ t + 1 \in 0..Len(calls[r]) BY <1>1, <1>4, <1>5
  <2>2. ASSUME NEW i \in 1..(t + 1) PROVE Got(calls[r][i]) /\ (i < t + 1 => ~Full(r, i))
    <3>1. CASE i = t + 1 BY <1>5, <2>1, <3>1
    <3>2. CASE i = t /\ i >= 1 BY <1>4, <1>5, <2>1, <3>2
    <3>3. CASE i < t BY <1>4, <2>1, <3>3
    <3> QED BY <2>1, <3>1, <3>2, <3>3
  <2>3. t + 1 \in S BY <2>1, <2>2
  <2>4. t + 1 <= t BY <1>4, <2>3
  <2> QED BY <2>1, <2>4
<1> HIDE DEF t
<1>6. t \in 0..Len(calls[r]) /\ \A i \in 1..t : Got(calls[r][i]) /\ (i < t => ~Full(r, i)) BY <1>4
<1> QED BY <1>5, <1>6 DEF t

-----------------------------------------------------------------------------
(***************************************************************************)
(* What holds of a task or of an answer goes on to hold when a step leaves *)
(* it alone, and the chain too unless the request counts as disturbed.     *)
(***************************************************************************)
LEMMA TaskFrame ==
    ASSUME NEW q \in Request, TaskOK(q), calls'[q] = calls[q],
           q \notin disturbed' => q \notin disturbed /\ head' = head
    PROVE  TaskOK(q)'
<1>1. \A i \in DOMAIN calls[q] : CallOK(q, i, calls[q][i]) BY DEF TaskOK
<1>2. ASSUME NEW i \in DOMAIN calls'[q] PROVE CallOK(q, i, calls[q][i])'
  <2>1. CallOK(q, i, calls[q][i]) BY <1>1
  <2>2. /\ (calls[q][i] \in CallRecord)'
        /\ (calls[q][i].by = AskedBy(q, i) /\ calls[q][i].of = AskedOf(q, i))'
        /\ IsReply(calls[q][i])'
    BY <2>1 DEF CallOK, CallRecord, AskedBy, AskedOf, IsReply
  <2>3. (calls[q][i].done /\ q \notin disturbed => calls[q][i].block \in NodeAnswers(calls[q][i]))'
    <3>1. CASE q \in disturbed' BY <3>1
    <3>2. CASE q \notin disturbed'
      <4>1. NodeAnswers(calls[q][i])' = NodeAnswers(calls[q][i]) BY <3>2 DEF NodeAnswers
      <4> QED BY <2>1, <3>2, <4>1 DEF CallOK
    <3> QED BY <3>1, <3>2
  <2> QED BY <2>2, <2>3 DEF CallOK
<1>3. (calls[q] # <<>> => CallCount(q, Len(calls[q])))' BY DEF TaskOK, CallCount
<1>4. (q.kind # "bodies" /\ Len(calls[q]) > 1 => Got(calls[q][1]))' BY DEF TaskOK, Got
<1> QED BY <1>2, <1>3, <1>4 DEF TaskOK

\* See TaskFrame.
LEMMA AnswerFrame ==
    ASSUME NEW q \in Request, AnswerOK(q), answer'[q] = answer[q], bytecodes \subseteq bytecodes',
           q \notin disturbed' => q \notin disturbed /\ head' = head
    PROVE  AnswerOK(q)'
BY DEF AnswerOK

\* A request that was not answered yet, or was answered with nothing.
LEMMA NoAnswer ==
    ASSUME NEW q \in Request, answer'[q] = <<>> PROVE AnswerOK(q)'
BY DEF AnswerOK

\* A request without a task.
LEMMA NoTask ==
    ASSUME NEW q \in Request, calls'[q] = <<>> PROVE TaskOK(q)'
<1>1. Len(<<>>) = 0 /\ DOMAIN <<>> = {} OBVIOUS
<1> QED BY <1>1 DEF TaskOK

\* The invariant holds before the first request.
LEMMA InitAdapter == Init => AdapterInv
<1> SUFFICES ASSUME Init PROVE AdapterInv OBVIOUS
<1>1. AdapterTypes BY DEF Init, AdapterTypes, Request
<1>2. ASSUME NEW r \in Request PROVE TaskOK(r) /\ Kept(r) /\ AnswerOK(r)
  <2>1. calls[r] = <<>> /\ answer[r] = <<>> /\ status[r] = "unsent" /\ request_stream = <<>>
    BY DEF Init
  <2>2. Len(<<>>) = 0 /\ DOMAIN <<>> = {} OBVIOUS
  <2> QED BY <2>1, <2>2 DEF TaskOK, Kept, AnswerOK
<1> QED BY <1>1, <1>2 DEF AdapterInv

\* send_request puts a request into the stream that is nowhere else.
LEMMA AskOK == ASSUME AdapterInv, NEW r \in Request, Ask(r) PROVE AdapterInv'
<1>1. AdapterTypes /\ Kept(r) BY DEF AdapterInv
<1>2. AdapterTypes'
  BY <1>1 DEF AdapterTypes, Ask
<1>3. ASSUME NEW q \in Request PROVE TaskOK(q)'
  <2>1. CASE q = r
    <3>1. calls'[q] = <<>> BY <1>1, <2>1 DEF Ask, Kept
    <3> QED BY <3>1, NoTask
  <2>2. CASE q # r
    <3>1. TaskOK(q) /\ calls'[q] = calls[q] /\ head' = head BY <2>2 DEF AdapterInv, Ask
    <3>2. q \notin disturbed' => q \notin disturbed BY <2>2 DEF Ask
    <3> QED BY <3>1, <3>2, TaskFrame
  <2> QED BY <2>1, <2>2
<1>4. ASSUME NEW q \in Request PROVE AnswerOK(q)'
  <2>1. CASE q = r
    <3>1. answer'[q] = <<>> BY <1>1, <2>1 DEF Ask, AdapterTypes
    <3> QED BY <3>1, NoAnswer
  <2>2. CASE q # r
    <3>1. AnswerOK(q) /\ answer'[q] = answer[q] /\ head' = head /\ bytecodes' = bytecodes
      BY <2>2 DEF AdapterInv, Ask
    <3>2. q \notin disturbed' => q \notin disturbed BY <2>2 DEF Ask
    <3> QED BY <3>1, <3>2, AnswerFrame
  <2> QED BY <2>1, <2>2
<1>5. ASSUME NEW q \in Request PROVE Kept(q)'
  <2> DEFINE n == Len(request_stream)
  <2>1. n \in Nat /\ DOMAIN request_stream = 1..n BY <1>1 DEF AdapterTypes
  <2>2. /\ DOMAIN request_stream' = 1..(n + 1)
        /\ request_stream'[n + 1] = r
        /\ \A i \in 1..n : request_stream'[i] = request_stream[i]
    BY <1>1 DEF AdapterTypes, Ask
  <2>3. \A i \in 1..n : request_stream[i] # r BY <1>1, <2>1 DEF Kept, Ask
  <2>4. calls' = calls /\ calls[r] = <<>> /\ status'[r] = "waiting" /\ \A p \in Request : p # r => status'[p] = status[p]
    BY <1>1 DEF Ask, AdapterTypes, Kept
  <2>5. Kept(q) BY DEF AdapterInv
  <2> HIDE DEF n
  <2>6. CASE q = r
    <3>1. \A i \in 1..(n + 1) : request_stream'[i] = q => i = n + 1 BY <2>1, <2>2, <2>3, <2>6
    <3>2. n + 1 \in DOMAIN request_stream' BY <2>1, <2>2
    <3> QED BY <2>2, <2>4, <2>6, <3>1, <3>2 DEF Kept
  <2>7. CASE q # r
    <3>1. \A i \in 1..(n + 1) : request_stream'[i] = q => i \in 1..n /\ request_stream[i] = q
      BY <2>1, <2>2, <2>7
    <3>2. status'[q] = status[q] BY <2>4, <2>7
    <3>3. \A i \in 1..n : i \in 1..(n + 1) BY <2>1
    <3>4. \A i \in DOMAIN request_stream' : request_stream'[i] = q =>
              /\ status'[q] = "waiting" /\ calls'[q] = <<>>
              /\ \A j \in DOMAIN request_stream' : request_stream'[j] = q => i = j
      BY <2>1, <2>2, <2>4, <2>5, <3>1, <3>2 DEF Kept
    <3>5. calls'[q] # <<>> => status'[q] = "waiting" BY <2>4, <2>5, <3>2 DEF Kept
    <3>6. status'[q] = "waiting" =>
              calls'[q] # <<>> \/ \E i \in DOMAIN request_stream' : request_stream'[i] = q
      BY <2>1, <2>2, <2>4, <2>5, <3>2, <3>3 DEF Kept
    <3> QED BY <3>4, <3>5, <3>6 DEF Kept
  <2> QED BY <2>6, <2>7
<1> QED BY <1>2, <1>3, <1>4, <1>5 DEF AdapterInv

\* The chain changes: nothing conditional is known of any request any more.
LEMMA ReorgOK == ASSUME AdapterInv, NEW h \in Heads, Reorg(h) PROVE AdapterInv'
<1>1. AdapterTypes' BY DEF AdapterInv, AdapterTypes, Reorg
<1>2. ASSUME NEW q \in Request PROVE TaskOK(q)' /\ Kept(q)' /\ AnswerOK(q)'
  <2>1. TaskOK(q) /\ Kept(q) /\ AnswerOK(q) BY DEF AdapterInv
  <2>2. /\ calls' = calls /\ answer' = answer /\ bytecodes' = bytecodes /\ q \in disturbed'
        /\ status' = status /\ request_stream' = request_stream
    BY DEF Reorg
  <2>3. Kept(q)' BY <2>1, <2>2 DEF Kept
  <2> QED BY <2>1, <2>2, <2>3, TaskFrame, AnswerFrame
<1> QED BY <1>1, <1>2 DEF AdapterInv

\* A step that moves no request between the stream and the tasks.
LEMMA KeptFrame ==
    ASSUME NEW q \in Request, Kept(q), request_stream' = request_stream, status'[q] = status[q],
           (calls'[q] = <<>>) <=> (calls[q] = <<>>)
    PROVE  Kept(q)'
BY DEF Kept

\* run takes a request out of the stream, and answers it or spawns its task.
LEMMA ReceiveOK == ASSUME AdapterInv, Receive PROVE AdapterInv'
<1>0. PICK r : r = Head(request_stream) OBVIOUS
<1> DEFINE n == Len(request_stream)
           first == [i \in 1..Len(r.blocks) |-> Call("hash", r.blocks[i])]
<1>1. AdapterTypes BY DEF AdapterInv
<1>2. n \in Nat /\ n >= 1 /\ DOMAIN request_stream = 1..n /\ r = request_stream[1] /\ r \in Request
  BY <1>0, <1>1 DEF AdapterTypes, Receive
<1>3. /\ request_stream' \in Seq(Request)
      /\ DOMAIN request_stream' = 1..(n - 1)
      /\ \A i \in 1..(n - 1) : request_stream'[i] = request_stream[i + 1]
  BY <1>1, <1>2 DEF AdapterTypes, Receive
<1>4. Kept(r) /\ status[r] = "waiting" /\ calls[r] = <<>> BY <1>2 DEF AdapterInv, Kept
<1>5. \A i \in 1..(n - 1) : request_stream'[i] # r
  <2> SUFFICES ASSUME NEW i \in 1..(n - 1), request_stream'[i] = r PROVE FALSE OBVIOUS
  <2>1. i + 1 \in 1..n /\ 1 \in 1..n /\ request_stream[i + 1] = r BY <1>2, <1>3
  <2>2. i + 1 = 1 BY <1>2, <1>4, <2>1 DEF Kept
  <2> QED BY <1>2, <2>2
<1>6. \/ /\ r.kind = "code"
         /\ \E a : answer' = [answer EXCEPT ![r] = a]
         /\ status' = [status EXCEPT ![r] = "answered"]
         /\ calls' = calls
      \/ /\ r.kind # "code"
         /\ calls' = [calls EXCEPT ![r] = first]
         /\ status' = status /\ answer' = answer
  BY <1>0 DEF Receive, Answers
<1>7. workload' = workload /\ head' = head /\ disturbed' = disturbed /\ bytecodes' = bytecodes
  BY DEF Receive, node
<1>8. r.kind # "code" => /\ r.blocks \in Seq(Hash) /\ Len(r.blocks) \in Nat /\ Len(r.blocks) >= 1
                         /\ \A i \in 1..Len(r.blocks) : r.blocks[i] \in Hash
  BY <1>2, RequestShape
<1>9. r.kind # "code" => first \in Seq(CallRecord) /\ Len(first) = Len(r.blocks) /\ first # <<>>
  <2> SUFFICES ASSUME r.kind # "code"
               PROVE  first \in Seq(CallRecord) /\ Len(first) = Len(r.blocks) /\ first # <<>>
    OBVIOUS
  <2>1. \A i \in 1..Len(r.blocks) : Call("hash", r.blocks[i]) \in CallRecord
    BY <1>8 DEF Call, CallRecord
  <2>2. first \in [1..Len(r.blocks) -> CallRecord] BY <2>1
  <2>3. first \in Seq(CallRecord) /\ Len(first) = Len(r.blocks) BY <1>8, <2>2
  <2>4. Len(<<>>) = 0 OBVIOUS
  <2> QED BY <1>8, <2>3, <2>4
<1> HIDE DEF n, first
<1>10. AdapterTypes'
  BY <1>1, <1>2, <1>3, <1>6, <1>7, <1>9 DEF AdapterTypes
<1>11. ASSUME NEW q \in Request PROVE TaskOK(q)'
  <2>0. TaskOK(q) BY DEF AdapterInv
  <2>1. CASE calls'[q] = calls[q] BY <1>7, <2>0, <2>1, TaskFrame
  <2>2. CASE calls'[q] # calls[q]
    <3>1. q = r /\ r.kind # "code" /\ calls'[q] = first BY <1>1, <1>2, <1>6, <2>2 DEF AdapterTypes
    <3>2. Len(first) = Len(r.blocks) /\ DOMAIN first = 1..Len(r.blocks) BY <1>9, <3>1 DEF first
    <3>3. r.kind \in {"headers", "bodies", "witness"} /\ (r.kind # "bodies" => Len(r.blocks) = 1)
      BY <1>2, <3>1, RequestShape
    <3>4. ASSUME NEW i \in 1..Len(r.blocks) PROVE CallOK(r, i, calls[r][i])'
      <4>1. calls'[r][i] = [by |-> "hash", of |-> r.blocks[i], done |-> FALSE, block |-> None]
        BY <3>1 DEF first, Call
      <4>2. r.kind = "bodies" \/ i = 1
        <5>1. CASE r.kind = "bodies" BY <5>1
        <5>2. CASE r.kind # "bodies"
          <6>1. Len(r.blocks) = 1 BY <3>3, <5>2
          <6>2. i \in 1..1 BY <6>1
          <6> QED BY <6>2
        <5> QED BY <5>1, <5>2
      <4>3. r.blocks[i] \in Hash BY <1>8, <3>1
      <4>4. (calls[r][i])' \in CallRecord BY <4>1, <4>3 DEF CallRecord
      <4> QED BY <4>1, <4>2, <4>4 DEF CallOK, AskedBy, AskedOf, IsReply, CallRecord
    <3>5. CallCount(r, Len(calls[r]))' BY <3>1, <3>2, <3>3 DEF CallCount
    <3>6. (r.kind # "bodies" /\ Len(calls[r]) > 1 => Got(calls[r][1]))'
      <4>1. r.kind # "bodies" => Len(calls'[r]) = 1 BY <3>1, <3>2, <3>3
      <4>2. Len(calls'[r]) = 1 => ~ (Len(calls'[r]) > 1) OBVIOUS
      <4> QED BY <4>1, <4>2
    <3> QED BY <3>1, <3>2, <3>4, <3>5, <3>6 DEF TaskOK
  <2> QED BY <2>1, <2>2
<1>12. ASSUME NEW q \in Request PROVE AnswerOK(q)'
  <2>0. AnswerOK(q) BY DEF AdapterInv
  <2>1. CASE answer'[q] = answer[q] BY <1>7, <2>0, <2>1, AnswerFrame
  <2>2. CASE answer'[q] # answer[q]
    <3>1. q = r /\ r.kind = "code" BY <1>1, <1>2, <1>6, <2>2 DEF AdapterTypes
    <3> QED BY <3>1 DEF AnswerOK
  <2> QED BY <2>1, <2>2
<1>13. ASSUME NEW q \in Request PROVE Kept(q)'
  <2>0. Kept(q) BY DEF AdapterInv
  <2>1. CASE q = r
    <3>1. \A i \in DOMAIN request_stream' : request_stream'[i] # q BY <1>3, <1>5, <2>1
    <3>2. \/ status'[q] = "answered" /\ calls'[q] = <<>>
          \/ status'[q] = "waiting" /\ calls'[q] # <<>>
      BY <1>1, <1>2, <1>4, <1>6, <1>9, <2>1 DEF AdapterTypes
    <3> QED BY <3>1, <3>2 DEF Kept
  <2>2. CASE q # r
    <3>1. status'[q] = status[q] /\ calls'[q] = calls[q] BY <1>1, <1>2, <1>6, <2>2 DEF AdapterTypes
    <3>2. \A i \in 1..(n - 1) : i + 1 \in 1..n BY <1>2
    <3>3. \A i \in 1..n : request_stream[i] = q => i - 1 \in 1..(n - 1) /\ request_stream'[i - 1] = q
      <4> SUFFICES ASSUME NEW i \in 1..n, request_stream[i] = q
                   PROVE  i - 1 \in 1..(n - 1) /\ request_stream'[i - 1] = q
        OBVIOUS
      <4>1. i # 1 BY <1>2, <2>2
      <4>2. i - 1 \in 1..(n - 1) /\ (i - 1) + 1 = i BY <1>2, <4>1
      <4> QED BY <1>3, <4>2
    <3>4. ASSUME NEW i \in 1..(n - 1), request_stream'[i] = q
          PROVE  /\ status'[q] = "waiting" /\ calls'[q] = <<>>
                 /\ \A j \in 1..(n - 1) : request_stream'[j] = q => i = j
      <4>1. i + 1 \in 1..n /\ request_stream[i + 1] = q BY <1>3, <3>2, <3>4
      <4>2. status[q] = "waiting" /\ calls[q] = <<>> BY <1>2, <2>0, <4>1 DEF Kept
      <4>3. ASSUME NEW j \in 1..(n - 1), request_stream'[j] = q PROVE i = j
        <5>1. j + 1 \in 1..n /\ request_stream[j + 1] = q BY <1>3, <3>2, <4>3
        <5>2. i + 1 = j + 1 BY <1>2, <2>0, <4>1, <5>1 DEF Kept
        <5> QED BY <5>2
      <4> QED BY <3>1, <4>2, <4>3
    <3>5. calls'[q] # <<>> => status'[q] = "waiting" BY <2>0, <3>1 DEF Kept
    <3>6. status'[q] = "waiting" =>
              calls'[q] # <<>> \/ \E i \in DOMAIN request_stream' : request_stream'[i] = q
      BY <1>2, <1>3, <2>0, <3>1, <3>3 DEF Kept
    <3> QED BY <1>3, <3>4, <3>5, <3>6 DEF Kept
  <2> QED BY <2>1, <2>2
<1> QED BY <1>10, <1>11, <1>12, <1>13 DEF AdapterInv

(***************************************************************************)
(* A call completes: the reply is what the node answers with the chain it  *)
(* follows then, or there is none and the request counts as disturbed.     *)
(***************************************************************************)
LEMMA CompleteIs ==
    ASSUME AdapterTypes, NEW r \in Request, TaskOK(r), NEW i \in DOMAIN calls[r], Complete(r, i)
    PROVE  \E c \in CallRecord :
              /\ c.by = calls[r][i].by /\ c.of = calls[r][i].of /\ c.done
              /\ \/ c.block \in NodeAnswers(calls[r][i]) /\ disturbed' = disturbed
                 \/ c.block = None /\ disturbed' = disturbed \cup {r}
              /\ calls' = [calls EXCEPT ![r] = [calls[r] EXCEPT ![i] = c]]
<1> DEFINE old == calls[r][i]
<1>1. calls[r] \in Seq(CallRecord) /\ old \in CallRecord /\ CallOK(r, i, old) /\ old.block = None
  <2>1. calls[r] \in Seq(CallRecord) /\ old \in CallRecord /\ CallOK(r, i, old)
    BY DEF AdapterTypes, TaskOK
  <2> QED BY <2>1 DEF CallOK, IsReply, Complete
<1>2. CASE \E b \in NodeAnswers(old) :
              /\ calls' = [calls EXCEPT ![r][i].done = TRUE, ![r][i].block = b]
              /\ UNCHANGED disturbed
  <2>1. PICK b \in NodeAnswers(old) :
              /\ calls' = [calls EXCEPT ![r][i].done = TRUE, ![r][i].block = b]
              /\ UNCHANGED disturbed
    BY <1>2
  <2>2. b \in Hash \cup {None}
    <3>1. CASE old.by = "hash"
      <4>1. b \in {old.of, None} BY <3>1 DEF NodeAnswers
      <4>2. r.kind = "bodies" \/ i = 1 BY <1>1, <3>1 DEF CallOK, AskedBy
      <4>3. calls[r] # <<>> /\ CallCount(r, Len(calls[r])) BY DEF TaskOK
      <4>4. i \in 1..Len(calls[r]) /\ (r.kind = "bodies" => i \in 1..Len(r.blocks))
        BY <1>1, <4>3 DEF CallCount
      <4>5. r.blocks[i] \in Hash
        BY <4>2, <4>3, <4>4, RequestShape DEF CallCount
      <4> QED BY <1>1, <4>1, <4>2, <4>5 DEF CallOK, AskedOf
    <3>2. CASE old.by # "hash"
      <4>1. b = AncestorAt(head, old.of) /\ head \in Hash
        BY <3>2, AdapterAssumption DEF NodeAnswers, AdapterTypes
      <4>2. b # None => b \in Ancestry[head] BY <4>1, AncestorAtIs
      <4>3. Ancestry[head] \subseteq Hash BY <4>1, AncestryContains
      <4> QED BY <4>2, <4>3
    <3> QED BY <3>1, <3>2
  <2> DEFINE c == [[old EXCEPT !.done = TRUE] EXCEPT !.block = b]
  <2>3. c \in CallRecord /\ c.by = old.by /\ c.of = old.of /\ c.done /\ c.block = b
    BY <1>1, <2>2 DEF CallRecord
  <2>4. calls' = [calls EXCEPT ![r] = [calls[r] EXCEPT ![i] = c]]
    BY <1>1, <2>1 DEF AdapterTypes
  <2> HIDE DEF c
  <2> QED BY <2>1, <2>3, <2>4
<1>3. CASE calls' = [calls EXCEPT ![r][i].done = TRUE] /\ disturbed' = disturbed \cup {r}
  <2> DEFINE c == [old EXCEPT !.done = TRUE]
  <2>1. c \in CallRecord /\ c.by = old.by /\ c.of = old.of /\ c.done /\ c.block = None
    BY <1>1 DEF CallRecord
  <2>2. calls' = [calls EXCEPT ![r] = [calls[r] EXCEPT ![i] = c]]
    BY <1>1, <1>3 DEF AdapterTypes
  <2> HIDE DEF c
  <2> QED BY <1>3, <2>1, <2>2
<1> QED BY <1>2, <1>3 DEF Complete

\* What is known of a call that a step leaves alone.
LEMMA CallFrame ==
    ASSUME NEW q \in Request, NEW i, CallOK(q, i, calls[q][i]), calls'[q][i] = calls[q][i],
           q \notin disturbed' => q \notin disturbed, head' = head
    PROVE  CallOK(q, i, calls[q][i])'
<1>1. /\ (calls[q][i] \in CallRecord)'
      /\ (calls[q][i].by = AskedBy(q, i) /\ calls[q][i].of = AskedOf(q, i))'
      /\ IsReply(calls[q][i])'
  BY DEF CallOK, CallRecord, AskedBy, AskedOf, IsReply
<1>2. NodeAnswers(calls[q][i])' = NodeAnswers(calls[q][i]) BY DEF NodeAnswers
<1> QED BY <1>1, <1>2 DEF CallOK

\* A call that completes or fails keeps the invariant.
LEMMA CompleteOK ==
    ASSUME AdapterInv, NEW r \in Request, NEW i \in DOMAIN calls[r], Complete(r, i)
    PROVE  AdapterInv'
<1>1. AdapterTypes /\ TaskOK(r) BY DEF AdapterInv
<1>2. PICK c \in CallRecord :
          /\ c.by = calls[r][i].by /\ c.of = calls[r][i].of /\ c.done
          /\ \/ c.block \in NodeAnswers(calls[r][i]) /\ disturbed' = disturbed
             \/ c.block = None /\ disturbed' = disturbed \cup {r}
          /\ calls' = [calls EXCEPT ![r] = [calls[r] EXCEPT ![i] = c]]
  BY <1>1, CompleteIs
<1>3. /\ workload' = workload /\ head' = head /\ bytecodes' = bytecodes
      /\ request_stream' = request_stream /\ status' = status /\ answer' = answer
  BY DEF Complete
<1>4. disturbed \subseteq disturbed' /\ disturbed' \subseteq Request BY <1>1, <1>2 DEF AdapterTypes
<1>5. /\ calls'[r] \in Seq(CallRecord) /\ Len(calls'[r]) = Len(calls[r])
      /\ DOMAIN calls'[r] = DOMAIN calls[r] /\ calls[r] # <<>> /\ calls'[r] # <<>>
      /\ calls'[r][i] = c /\ \A j \in DOMAIN calls[r] : j # i => calls'[r][j] = calls[r][j]
      /\ \A q \in Request : q # r => calls'[q] = calls[q]
  <2>1. calls[r] \in Seq(CallRecord) /\ calls \in [Request -> Seq(CallRecord)]
    BY <1>1 DEF AdapterTypes
  <2>2. calls'[r] = [calls[r] EXCEPT ![i] = c] /\ \A q \in Request : q # r => calls'[q] = calls[q]
    BY <1>2, <2>1
  <2>3. DOMAIN <<>> = {} OBVIOUS
  <2> QED BY <2>1, <2>2, <2>3
<1>6. calls' \in [Request -> Seq(CallRecord)] BY <1>1, <1>2, <1>5 DEF AdapterTypes
<1>7. AdapterTypes' BY <1>1, <1>3, <1>4, <1>6 DEF AdapterTypes
<1>8. CallOK(r, i, calls[r][i])'
  <2>1. CallOK(r, i, calls[r][i]) BY <1>1 DEF TaskOK
  <2>2. NodeAnswers(calls[r][i])' = NodeAnswers(calls[r][i]) BY <1>2, <1>3, <1>5 DEF NodeAnswers
  <2>3. head \in Hash BY <1>1, AdapterAssumption DEF AdapterTypes
  <2>4. c.block # None => c.block \in NodeAnswers(calls[r][i]) BY <1>2
  <2>5. c.by = "hash" => c.block \in {None, c.of} BY <1>2, <2>4 DEF NodeAnswers
  <2>6. c.by = "number" /\ c.block # None => Number[c.block] = c.of
    <3> SUFFICES ASSUME c.by = "number", c.block # None PROVE Number[c.block] = c.of OBVIOUS
    <3>1. c.block = AncestorAt(head, c.of) BY <1>2, <2>4 DEF NodeAnswers
    <3> QED BY <2>3, <3>1, AncestorAtIs
  <2>7. IsReply(calls[r][i])' BY <1>2, <1>5, <2>5, <2>6 DEF IsReply
  <2>8. /\ (calls[r][i] \in CallRecord)'
        /\ (calls[r][i].by = AskedBy(r, i) /\ calls[r][i].of = AskedOf(r, i))'
    BY <1>2, <1>5, <2>1 DEF CallOK, CallRecord, AskedBy, AskedOf
  <2>9. r \notin disturbed' => (calls[r][i].block \in NodeAnswers(calls[r][i]))'
    BY <1>2, <1>5, <2>2
  <2> QED BY <2>7, <2>8, <2>9 DEF CallOK
<1>9. ASSUME NEW q \in Request PROVE TaskOK(q)'
  <2>0. TaskOK(q) BY DEF AdapterInv
  <2>1. CASE q # r BY <1>3, <1>4, <1>5, <2>0, <2>1, TaskFrame
  <2>2. CASE q = r
    <3>1. ASSUME NEW j \in DOMAIN calls[r] PROVE CallOK(r, j, calls[r][j])'
      <4>1. CASE j = i BY <1>8, <4>1
      <4>2. CASE j # i
        <5>1. CallOK(r, j, calls[r][j]) BY <1>1 DEF TaskOK
        <5> QED BY <1>3, <1>4, <1>5, <4>2, <5>1, CallFrame
      <4> QED BY <4>1, <4>2
    <3>2. CallCount(r, Len(calls[r]))' BY <1>1, <1>5 DEF TaskOK, CallCount
    <3>3. (r.kind # "bodies" /\ Len(calls[r]) > 1 => Got(calls[r][1]))'
      <4> SUFFICES ASSUME r.kind # "bodies", Len(calls'[r]) > 1 PROVE Got(calls[r][1])' OBVIOUS
      <4>1. Got(calls[r][1]) BY <1>1, <1>5 DEF TaskOK
      <4>2. i # 1 BY <4>1 DEF Got, Complete
      <4>3. calls[r] \in Seq(CallRecord) BY <1>1 DEF AdapterTypes
      <4>4. 1 \in DOMAIN calls[r] BY <1>5, <4>3
      <4> QED BY <1>5, <4>1, <4>2, <4>4 DEF Got
    <3> QED BY <1>5, <2>2, <3>1, <3>2, <3>3 DEF TaskOK
  <2> QED BY <2>1, <2>2
<1>10. ASSUME NEW q \in Request PROVE AnswerOK(q)' /\ Kept(q)'
  <2>1. AnswerOK(q) /\ Kept(q) BY DEF AdapterInv
  <2>2. (calls'[q] = <<>>) <=> (calls[q] = <<>>) BY <1>5
  <2> QED BY <1>3, <1>4, <2>1, <2>2, AnswerFrame, KeptFrame
<1> QED BY <1>7, <1>9, <1>10 DEF AdapterInv

\* A sequence of one element with others behind it.
LEMMA FirstThen ==
    ASSUME NEW s \in Seq(CallRecord), Len(s) = 1, NEW t \in Seq(CallRecord)
    PROVE  /\ s \o t \in Seq(CallRecord) /\ Len(t) \in Nat /\ Len(s \o t) = 1 + Len(t)
           /\ (s \o t)[1] = s[1]
           /\ \A k \in 1..Len(t) : (s \o t)[1 + k] = t[k]
<1>1. Len(t) \in Nat OBVIOUS
<1>2. /\ s \o t \in Seq(CallRecord) /\ Len(s \o t) = 1 + Len(t)
      /\ \A i \in 1..(1 + Len(t)) : (s \o t)[i] = IF i <= 1 THEN s[i] ELSE t[i - 1]
  <2>1. /\ s \o t \in Seq(CallRecord) /\ Len(s \o t) = Len(s) + Len(t)
        /\ \A i \in 1..(Len(s) + Len(t)) :
              (s \o t)[i] = IF i <= Len(s) THEN s[i] ELSE t[i - Len(s)]
    BY ConcatProperties
  <2> QED BY <2>1
<1>3. 1 \in 1..(1 + Len(t)) BY <1>1
<1>4. ASSUME NEW k \in 1..Len(t) PROVE (s \o t)[1 + k] = t[k]
  <2>1. 1 + k \in 1..(1 + Len(t)) /\ ~(1 + k <= 1) /\ (1 + k) - 1 = k BY <1>1
  <2> QED BY <1>2, <2>1
<1> QED BY <1>1, <1>2, <1>3, <1>4

\* The calls that follow from the start block, appended to the first one.
LEMMA MoreCallsAre ==
    ASSUME AdapterTypes, NEW r \in Request, TaskOK(r), HasStart(r), MoreCalls(r) # <<>>
    PROVE  /\ MoreCalls(r) \in Seq(CallRecord)
           /\ CallCount(r, 1 + Len(MoreCalls(r)))
           /\ \A k \in 1..Len(MoreCalls(r)) :
                  MoreCalls(r)[k] = Call("number", AskedOf(r, 1 + k))
<1> DEFINE s == r.blocks[1]
<1>1. r.kind \in {"headers", "witness"} /\ s \in Hash /\ Number[s] \in Nat
      /\ (r.kind = "headers" => r.limit \in Nat)
  BY RequestShape, ParentAssumption DEF HasStart
<1>2. calls[r][1].block = s
  <2>1. calls[r] \in Seq(CallRecord) /\ Len(calls[r]) = 1 BY DEF AdapterTypes, HasStart
  <2>2. 1 \in DOMAIN calls[r] BY <2>1
  <2>3. CallOK(r, 1, calls[r][1]) /\ Got(calls[r][1]) BY <2>2 DEF TaskOK, HasStart
  <2> QED BY <2>3 DEF CallOK, AskedBy, AskedOf, IsReply, Got
<1>3. CASE r.kind = "witness"
  <2>1. MoreCalls(r) = <<Call("number", Number[s])>> BY <1>2, <1>3 DEF MoreCalls
  <2>2. Call("number", Number[s]) \in CallRecord BY <1>1 DEF Call, CallRecord
  <2>3. MoreCalls(r) \in Seq(CallRecord) /\ Len(MoreCalls(r)) = 1
        /\ MoreCalls(r)[1] = Call("number", Number[s])
    BY <2>1, <2>2
  <2>4. AskedOf(r, 1 + 1) = Number[s] BY <1>3 DEF AskedOf
  <2> QED BY <1>3, <2>3, <2>4 DEF CallCount
<1>4. CASE r.kind = "headers"
  <2>1. MoreCalls(r) = RangeCalls(s, r.limit) /\ r.limit > 1 BY <1>2, <1>4 DEF MoreCalls
  <2> DEFINE k == Number[s] - EndNumber(s, r.limit)
  <2>2. k \in Nat /\ k <= Number[s] /\ EndNumber(s, r.limit) \in Nat
    <3> HIDE DEF s
    <3> QED BY <1>1, <1>4, <2>1, RangeLength
  <2>3. MoreCalls(r) = [j \in 1..k |-> Call("number", Number[s] - j)] BY <2>1 DEF RangeCalls
  <2>4. CallCount(r, 1 + k) BY <1>1, <1>4, <2>1, <2>2 DEF CallCount
  <2> HIDE DEF s, k
  <2>5. ASSUME NEW j \in 1..k
        PROVE  /\ Call("number", Number[s] - j) \in CallRecord
               /\ AskedOf(r, 1 + j) = Number[s] - j
    <3>1. Number[s] - j \in Nat /\ 1 + j # 1 /\ (1 + j) - 1 = j BY <1>1, <2>2
    <3>2. Call("number", Number[s] - j) \in CallRecord BY <3>1 DEF Call, CallRecord
    <3>3. AskedOf(r, 1 + j) = Number[s] - ((1 + j) - 1) BY <1>4, <3>1 DEF AskedOf, s
    <3> QED BY <3>1, <3>2, <3>3
  <2>6. MoreCalls(r) \in [1..k -> CallRecord] BY <2>3, <2>5
  <2>7. MoreCalls(r) \in Seq(CallRecord) /\ Len(MoreCalls(r)) = k BY <2>2, <2>6
  <2> QED BY <2>3, <2>4, <2>5, <2>7
<1> QED BY <1>1, <1>3, <1>4

\* A task that makes its further calls keeps the invariant.
LEMMA ExtendOK == ASSUME AdapterInv, NEW r \in Request, Extend(r) PROVE AdapterInv'
<1>1. AdapterTypes /\ TaskOK(r) /\ HasStart(r) /\ MoreCalls(r) # <<>> BY DEF AdapterInv, Extend
<1>2. PICK more : more = MoreCalls(r) OBVIOUS
<1>3. /\ more \in Seq(CallRecord) /\ CallCount(r, 1 + Len(more))
      /\ \A k \in 1..Len(more) : more[k] = Call("number", AskedOf(r, 1 + k))
  BY <1>1, <1>2, MoreCallsAre
<1>4. /\ workload' = workload /\ head' = head /\ bytecodes' = bytecodes /\ disturbed' = disturbed
      /\ request_stream' = request_stream /\ status' = status /\ answer' = answer
      /\ calls' = [calls EXCEPT ![r] = calls[r] \o more]
  BY <1>2 DEF Extend, node
<1>5. calls[r] \in Seq(CallRecord) /\ Len(calls[r]) = 1 /\ Got(calls[r][1]) /\ r.kind # "bodies"
  BY <1>1 DEF AdapterTypes, HasStart
<1>6. /\ calls'[r] \in Seq(CallRecord) /\ Len(calls'[r]) = 1 + Len(more)
      /\ calls'[r][1] = calls[r][1] /\ \A k \in 1..Len(more) : calls'[r][1 + k] = more[k]
      /\ \A q \in Request : q # r => calls'[q] = calls[q]
      /\ Len(more) \in Nat
  <2>1. calls'[r] = calls[r] \o more /\ \A q \in Request : q # r => calls'[q] = calls[q]
    BY <1>1, <1>4 DEF AdapterTypes
  <2>2. PICK both : both = calls[r] \o more OBVIOUS
  <2>3. /\ both \in Seq(CallRecord) /\ Len(more) \in Nat /\ Len(both) = 1 + Len(more)
        /\ both[1] = calls[r][1] /\ \A k \in 1..Len(more) : both[1 + k] = more[k]
    <3>1. calls[r] \in Seq(CallRecord) /\ Len(calls[r]) = 1 /\ more \in Seq(CallRecord) BY <1>3, <1>5
    <3> QED BY ONLY <2>2, <3>1, FirstThen
  <2> QED BY <2>1, <2>2, <2>3
<1>7. AdapterTypes' BY <1>1, <1>3, <1>4, <1>5 DEF AdapterTypes
<1>8. ASSUME NEW i \in DOMAIN calls'[r] PROVE CallOK(r, i, calls[r][i])'
  <2>1. i \in 1..(1 + Len(more)) BY <1>6
  <2>2. CASE i = 1
    <3>1. CallOK(r, 1, calls[r][1]) BY <1>1, <1>5 DEF TaskOK
    <3> QED BY <1>4, <1>6, <2>2, <3>1, CallFrame
  <2>3. CASE i # 1
    <3>1. i - 1 \in 1..Len(more) /\ 1 + (i - 1) = i
      <4>1. Len(more) \in Nat BY <1>6
      <4> QED BY <2>1, <2>3, <4>1
    <3>2. calls'[r][i] = Call("number", AskedOf(r, i)) BY <1>3, <1>6, <3>1
    <3>3. (calls[r][i] \in CallRecord)' BY <1>6
    <3>4. calls'[r][i] = [by |-> "number", of |-> AskedOf(r, i), done |-> FALSE, block |-> None]
      BY <3>2 DEF Call
    <3>5. (calls[r][i].by = AskedBy(r, i) /\ calls[r][i].of = AskedOf(r, i))'
      BY <1>5, <2>3, <3>4 DEF AskedBy, AskedOf
    <3> QED BY <3>3, <3>4, <3>5 DEF CallOK, IsReply
  <2> QED BY <2>2, <2>3
<1>9. ASSUME NEW q \in Request PROVE TaskOK(q)'
  <2>0. TaskOK(q) BY DEF AdapterInv
  <2>1. CASE q # r BY <1>4, <1>6, <2>0, <2>1, TaskFrame
  <2>2. CASE q = r
    <3>1. CallCount(r, Len(calls[r]))' BY <1>3, <1>6 DEF CallCount
    <3>2. Got(calls[r][1])' BY <1>5, <1>6 DEF Got
    <3> QED BY <1>8, <2>2, <3>1, <3>2 DEF TaskOK
  <2> QED BY <2>1, <2>2
<1>10. ASSUME NEW q \in Request PROVE AnswerOK(q)' /\ Kept(q)'
  <2>1. AnswerOK(q) /\ Kept(q) BY DEF AdapterInv
  <2>2. calls'[r] # <<>> /\ calls[r] # <<>> BY <1>5, <1>6
  <2>3. (calls'[q] = <<>>) <=> (calls[q] = <<>>) BY <1>6, <2>2
  <2> QED BY <1>4, <2>1, <2>3, AnswerFrame, KeptFrame
<1> QED BY <1>7, <1>9, <1>10 DEF AdapterInv

-----------------------------------------------------------------------------
\* A task ends: what is left to show is that its answer is right.
LEMMA ServedOK ==
    ASSUME AdapterInv, NEW r \in Request, NEW a, calls[r] # <<>>,
           calls' = [calls EXCEPT ![r] = <<>>], Answers(r, a),
           UNCHANGED <<workload, node, request_stream>>, bytecodes \subseteq bytecodes',
           AnswerOK(r)'
    PROVE  AdapterInv'
<1>1. AdapterTypes BY DEF AdapterInv
<1>2. workload' = workload /\ head' = head /\ disturbed' = disturbed /\ request_stream' = request_stream
  BY DEF node
<1>3. status' = [status EXCEPT ![r] = "answered"] /\ answer' = [answer EXCEPT ![r] = a] BY DEF Answers
<1>4. AdapterTypes' BY <1>1, <1>2, <1>3 DEF AdapterTypes
<1>5. ASSUME NEW q \in Request PROVE TaskOK(q)' /\ Kept(q)' /\ AnswerOK(q)'
  <2>0. TaskOK(q) /\ Kept(q) /\ AnswerOK(q) BY DEF AdapterInv
  <2>1. CASE q = r
    <3>1. calls'[q] = <<>> /\ status'[q] = "answered" BY <1>1, <1>3, <2>1 DEF AdapterTypes
    <3>2. TaskOK(q)' BY <3>1, NoTask
    <3>3. \A i \in DOMAIN request_stream : request_stream[i] # q BY <2>0, <2>1 DEF Kept
    <3>4. Kept(q)' BY <1>2, <3>1, <3>3 DEF Kept
    <3> QED BY <2>1, <3>2, <3>4
  <2>2. CASE q # r
    <3>1. calls'[q] = calls[q] /\ status'[q] = status[q] /\ answer'[q] = answer[q]
      BY <1>1, <1>3, <2>2 DEF AdapterTypes
    <3>2. TaskOK(q)' BY <1>2, <2>0, <3>1, TaskFrame
    <3>3. Kept(q)' BY <1>2, <2>0, <3>1, KeptFrame
    <3>4. AnswerOK(q)' BY <1>2, <2>0, <3>1, AnswerFrame
    <3> QED BY <3>2, <3>3, <3>4
  <2> QED BY <2>1, <2>2
<1> QED BY <1>4, <1>5 DEF AdapterInv

\* The blocks that are served were replies, one for each call of a prefix of the calls.
LEMMA ServedBlocks ==
    ASSUME AdapterTypes, NEW r \in Request, TaskOK(r)
    PROVE  /\ Taken(r) \in Nat /\ Taken(r) <= Len(calls[r])
           /\ Blocks(r) \in Seq(Hash) /\ Len(Blocks(r)) = Taken(r) /\ DOMAIN Blocks(r) = 1..Taken(r)
           /\ \A i \in 1..Taken(r) :
                  /\ i \in DOMAIN calls[r] /\ CallOK(r, i, calls[r][i])
                  /\ Blocks(r)[i] = calls[r][i].block /\ Got(calls[r][i])
<1> DEFINE t == Taken(r)
<1>1. calls[r] \in Seq(CallRecord) BY DEF AdapterTypes
<1>2. t \in 0..Len(calls[r]) /\ \A i \in 1..t : Got(calls[r][i]) BY <1>1, TakenIs
<1>3. Len(calls[r]) \in Nat /\ DOMAIN calls[r] = 1..Len(calls[r]) BY <1>1
<1>4. t \in Nat /\ t <= Len(calls[r]) /\ \A i \in 1..t : i \in DOMAIN calls[r] BY <1>2, <1>3
<1>5. ASSUME NEW i \in 1..t PROVE CallOK(r, i, calls[r][i]) /\ calls[r][i].block \in Hash
  <2>1. CallOK(r, i, calls[r][i]) BY <1>4 DEF TaskOK
  <2>2. calls[r][i] \in CallRecord /\ calls[r][i].block # None BY <1>2, <2>1 DEF CallOK, Got
  <2> QED BY <2>1, <2>2 DEF CallRecord
<1>6. Blocks(r) = [i \in 1..t |-> calls[r][i].block] BY DEF Blocks
<1> HIDE DEF t
<1>7. Blocks(r) \in [1..t -> Hash] BY <1>5, <1>6
<1>8. Blocks(r) \in Seq(Hash) /\ Len(Blocks(r)) = t /\ DOMAIN Blocks(r) = 1..t BY <1>4, <1>7
<1>9. \A i \in 1..t : Blocks(r)[i] = calls[r][i].block BY <1>6
<1> QED BY <1>2, <1>4, <1>5, <1>8, <1>9 DEF t

\* on_block_bodies_request: call i asks for hash i, and the reply is that block.
LEMMA BodiesServed ==
    ASSUME AdapterTypes, NEW r \in Request, TaskOK(r), r.kind = "bodies"
    PROVE  \A i \in DOMAIN Blocks(r) : Blocks(r)[i] = r.blocks[i]
<1> SUFFICES ASSUME NEW i \in 1..Taken(r) PROVE Blocks(r)[i] = r.blocks[i] BY ServedBlocks
<1>1. CallOK(r, i, calls[r][i]) /\ Blocks(r)[i] = calls[r][i].block /\ Got(calls[r][i]) BY ServedBlocks
<1> QED BY <1>1 DEF CallOK, AskedBy, AskedOf, IsReply, Got

\* on_headers_request: the start block, and then a block of each lower number.
LEMMA HeadersServed ==
    ASSUME AdapterTypes, NEW r \in Request, TaskOK(r), r.kind = "headers", Blocks(r) # <<>>
    PROVE  /\ Taken(r) >= 1
           /\ Blocks(r)[1] = r.blocks[1]
           /\ \A i \in DOMAIN Blocks(r) : Number[Blocks(r)[i]] = Number[Blocks(r)[1]] - (i - 1)
<1>1. Taken(r) \in Nat /\ Taken(r) # 0
  <2>1. Taken(r) \in Nat /\ Blocks(r) \in Seq(Hash) /\ Len(Blocks(r)) = Taken(r) BY ServedBlocks
  <2>2. Len(Blocks(r)) # 0 BY <2>1
  <2> QED BY <2>1, <2>2
<1>2. Taken(r) >= 1 /\ 1 \in 1..Taken(r) BY <1>1
<1>3. ASSUME NEW i \in 1..Taken(r)
      PROVE  CallOK(r, i, calls[r][i]) /\ Blocks(r)[i] = calls[r][i].block /\ calls[r][i].block # None
  BY ServedBlocks DEF Got
<1>4. Blocks(r)[1] = r.blocks[1] BY <1>2, <1>3 DEF CallOK, AskedBy, AskedOf, IsReply
<1>5. r.blocks[1] \in Hash /\ Number[r.blocks[1]] \in Nat BY RequestShape, ParentAssumption
<1>6. ASSUME NEW i \in 1..Taken(r) PROVE Number[Blocks(r)[i]] = Number[Blocks(r)[1]] - (i - 1)
  <2>1. CASE i = 1 BY <1>4, <1>5, <2>1
  <2>2. CASE i # 1
    <3>1. calls[r][i].by = "number" /\ calls[r][i].of = Number[r.blocks[1]] - (i - 1)
      BY <1>3, <2>2 DEF CallOK, AskedBy, AskedOf
    <3>2. Number[calls[r][i].block] = calls[r][i].of BY <1>3, <3>1 DEF CallOK, IsReply
    <3> QED BY <1>3, <1>4, <3>1, <3>2
  <2> QED BY <2>1, <2>2
<1>7. DOMAIN Blocks(r) = 1..Taken(r) BY ServedBlocks
<1> QED BY <1>2, <1>4, <1>6, <1>7

(***************************************************************************)
(* While the chain stands still and the start block is canonical, every    *)
(* call of a headers task that completed has the ancestor it asks for.     *)
(***************************************************************************)
LEMMA StillRepliesAre ==
    ASSUME AdapterTypes, NEW r \in Request, TaskOK(r), r.kind = "headers",
           r \notin disturbed, r.blocks[1] \in Ancestry[head],
           NEW i \in DOMAIN calls[r], calls[r][i].done
    PROVE  Got(calls[r][i]) /\ calls[r][i].block \in Ancestry[r.blocks[1]]
<1> DEFINE s == r.blocks[1]
           c == calls[r][i]
<1>1. head \in Hash /\ Genesis \in Ancestry[head] BY AdapterAssumption DEF AdapterTypes
<1>2. s \in Hash /\ s \in Ancestry[s] /\ Number[s] \in Nat /\ r.limit \in Nat
  BY RequestShape, AncestryContains, ParentAssumption
<1>3. calls[r] \in Seq(CallRecord) /\ i \in 1..Len(calls[r]) BY DEF AdapterTypes
<1>4. CallOK(r, i, c) /\ CallCount(r, Len(calls[r])) BY <1>3 DEF TaskOK
<1>5. c.block \in NodeAnswers(c) BY <1>4 DEF CallOK
<1>6. CASE i = 1
  <2>1. c.by = "hash" /\ c.of = s BY <1>4, <1>6 DEF CallOK, AskedBy, AskedOf
  <2>2. c.block = s BY <1>5, <2>1 DEF NodeAnswers
  <2>3. s # None BY <1>2, HashAssumption
  <2> QED BY <1>2, <2>2, <2>3 DEF Got
<1>7. CASE i # 1
  <2>1. c.by = "number" /\ c.of = Number[s] - (i - 1) BY <1>4, <1>7 DEF CallOK, AskedBy, AskedOf
  <2>2. Len(calls[r]) \in Nat /\ Len(calls[r]) # 1 BY <1>3, <1>7
  <2>3. PICK k : k = Number[s] - EndNumber(s, r.limit) OBVIOUS
  <2>4. r.limit > 1 /\ Len(calls[r]) = 1 + Number[s] - EndNumber(s, r.limit)
    BY <1>4, <2>2 DEF CallCount
  <2>5. k \in Nat /\ k <= Number[s] /\ EndNumber(s, r.limit) \in Nat
    <3> HIDE DEF s
    <3> QED BY <1>2, <2>3, <2>4, RangeLength
  <2> HIDE DEF s, c
  <2>6. Len(calls[r]) = 1 + k BY <1>2, <2>3, <2>4, <2>5
  <2>7. PICK n \in Nat : n = c.of /\ n <= Number[s]
    <3>1. Number[s] - (i - 1) \in Nat /\ Number[s] - (i - 1) <= Number[s] BY <1>2, <1>3, <2>5, <2>6
    <3> QED BY <2>1, <3>1
  <2>8. Genesis \in Ancestry[s] /\ Number[Genesis] = 0
    <3>1. Genesis \in Hash /\ Number[Genesis] = 0 BY HashAssumption, ParentAssumption
    <3>2. Number[Genesis] <= Number[s] BY <1>2, <3>1
    <3>3. s \in Ancestry[head] BY DEF s
    <3> QED BY <1>1, <3>1, <3>2, <3>3, AncestryLinear
  <2>9. PICK x \in Ancestry[s] : Number[x] = n
    <3>1. Number[Genesis] <= n BY <2>7, <2>8
    <3> QED BY <1>2, <2>7, <2>8, <3>1, AncestryContiguous
  <2>10. x \in Ancestry[head] /\ x \in Hash
    <3>1. s \in Ancestry[head] BY DEF s
    <3>2. Ancestry[s] \subseteq Ancestry[head] BY <1>1, <3>1, AncestryTrans
    <3> QED BY <1>2, <2>9, <3>2, AncestryContains
  <2>11. AncestorAt(head, n) = x BY <1>1, <2>9, <2>10, AncestorAtNumber
  <2>12. c.block = x BY <1>5, <2>1, <2>7, <2>11 DEF NodeAnswers
  <2>13. x # None BY <2>10, HashAssumption
  <2> QED BY <2>9, <2>12, <2>13 DEF Got, s, c
<1> QED BY <1>6, <1>7

\* The length of a headers response, and a characterization of it.
Shortest(l, h, soft, n) == Min({Max({1, l}), h + 1, Max({2, soft + 1}), n + 1})

\* t headers are as many as the limits l, h, soft and the number n of the start block allow.
Reaches(t, l, h, soft, n) ==
    /\ {l, h, soft, n, t} \subseteq Nat /\ t >= 1
    /\ l <= 1 => t = 1
    /\ l > 1 => t <= l
    /\ t <= h + 1 /\ (t <= 2 \/ t <= soft + 1) /\ t <= n + 1
    /\ \/ l <= 1 \/ t = l \/ t = h + 1 \/ t = n + 1
       \/ t >= 2 /\ t >= soft + 1

\* What bounds the length, and is reached, is the least of the four bounds.
LEMMA LeastOfFour ==
    ASSUME NEW t, NEW l, NEW h, NEW soft, NEW n, Reaches(t, l, h, soft, n)
    PROVE  t = Shortest(l, h, soft, n)
<1>0. l \in Nat /\ h \in Nat /\ soft \in Nat /\ n \in Nat /\ t \in Nat BY DEF Reaches
<1> DEFINE A == {1, l}
           B == {2, soft + 1}
<1>1. PICK a \in Nat : a = Max(A) /\ a >= l /\ a >= 1 /\ (a = l \/ a = 1)
  <2>1. A \subseteq Int /\ l \in A /\ 1 \in A BY <1>0
  <2>2. CASE l >= 1
    <3>1. \A y \in A : l >= y BY <1>0, <2>2
    <3> HIDE DEF A
    <3> QED BY <1>0, <2>1, <2>2, <3>1, MaxIs
  <2>3. CASE ~(l >= 1)
    <3>1. \A y \in A : 1 >= y BY <1>0, <2>3
    <3> HIDE DEF A
    <3> QED BY <1>0, <2>1, <2>3, <3>1, MaxIs
  <2> QED BY <1>0, <2>2, <2>3
<1>2. PICK b \in Nat : b = Max(B) /\ b >= 2 /\ b >= soft + 1 /\ (b = 2 \/ b = soft + 1)
  <2>1. B \subseteq Int /\ 2 \in B /\ soft + 1 \in B BY <1>0
  <2>2. CASE soft + 1 >= 2
    <3>1. \A y \in B : soft + 1 >= y BY <1>0, <2>2
    <3> HIDE DEF B
    <3>2. Max(B) = soft + 1 BY <2>1, <3>1, MaxIs
    <3> QED BY <1>0, <2>2, <3>2
  <2>3. CASE ~(soft + 1 >= 2)
    <3>1. \A y \in B : 2 >= y BY <1>0, <2>3
    <3> HIDE DEF B
    <3>2. Max(B) = 2 BY <2>1, <3>1, MaxIs
    <3> QED BY <1>0, <2>3, <3>2
  <2> QED BY <2>2, <2>3
<1> HIDE DEF A, B
<1> DEFINE S == {a, h + 1, b, n + 1}
<1>3. S \subseteq Int BY <1>0
<1>4. \A y \in S : t <= y BY <1>0, <1>1, <1>2 DEF Reaches
<1>5. t \in S
  <2>1. t = a \/ t = h + 1 \/ t = b \/ t = n + 1 BY <1>0, <1>1, <1>2 DEF Reaches
  <2> QED BY <2>1
<1> HIDE DEF S
<1>6. Min(S) = t BY <1>3, <1>4, <1>5, MinIs
<1> QED BY <1>1, <1>2, <1>6 DEF S, A, B, Shortest

\* How long a headers response is while the chain stands still.
LEMMA HeadersLength ==
    ASSUME AdapterTypes, NEW r \in Request, TaskOK(r), r.kind = "headers", calls[r] # <<>>,
           r \notin disturbed, r.blocks[1] \in Ancestry[head], Ended(r), Taken(r) >= 1
    PROVE  Taken(r) = Min({Max({1, r.limit}), MaxHeaders + 1, Max({2, SoftLimit + 1}),
                           Number[r.blocks[1]] + 1})
<1> DEFINE s == r.blocks[1]
           t == Taken(r)
           len == Len(calls[r])
<1>1. s \in Hash /\ Number[s] \in Nat /\ r.limit \in Nat BY RequestShape, ParentAssumption
<1>2. MaxHeaders \in Nat /\ MaxHeaders >= 1 /\ SoftLimit \in Nat BY AdapterAssumption
<1>3. calls[r] \in Seq(CallRecord) /\ len \in Nat /\ DOMAIN calls[r] = 1..len BY DEF AdapterTypes
<1>4. /\ t \in Nat /\ t <= len
      /\ \A i \in 1..t : Got(calls[r][i]) /\ (i < t => ~Full(r, i))
      /\ t < len => ~Got(calls[r][t + 1]) \/ (t >= 1 /\ Full(r, t))
  BY <1>3, TakenIs
<1>5. CallCount(r, len) BY DEF TaskOK
<1>6. PICK k : k = Number[s] - EndNumber(s, r.limit) OBVIOUS
<1>7. r.limit > 1 => /\ k \in Nat /\ EndNumber(s, r.limit) \in Nat
                     /\ k <= Number[s] /\ k <= r.limit - 1 /\ k <= MaxHeaders
                     /\ k = Number[s] \/ k = r.limit - 1 \/ k = MaxHeaders
  <2> HIDE DEF s
  <2> QED BY <1>1, <1>6, RangeLength
<1>8. len = 1 \/ (r.limit > 1 /\ len = 1 + k)
  <2>1. len = 1 \/ (r.limit > 1 /\ len = 1 + Number[s] - EndNumber(s, r.limit)) BY <1>5 DEF CallCount
  <2> HIDE DEF s, len
  <2> QED BY <1>1, <1>6, <1>7, <2>1
<1>9. \A n \in Nat : Full(r, n) <=> n > 1 /\ n > SoftLimit BY DEF Full
<1>10. t <= 2 \/ t <= SoftLimit + 1
  <2> SUFFICES ASSUME t > 2, t > SoftLimit + 1 PROVE FALSE BY <1>2, <1>4
  <2> HIDE DEF t
  <2>1. t - 1 \in 1..t /\ t - 1 < t /\ t - 1 \in Nat /\ t - 1 > 1 /\ t - 1 > SoftLimit BY <1>2, <1>4
  <2> QED BY <1>4, <1>9, <2>1
<1>11. Full(r, t) \/ (t = len /\ ~(HasStart(r) /\ MoreCalls(r) # <<>>))
  <2> SUFFICES ASSUME ~Full(r, t), t # len PROVE FALSE BY DEF Ended
  <2>1. calls[r][t + 1].done BY DEF Ended
  <2>2. t + 1 \in DOMAIN calls[r] BY <1>3, <1>4
  <2>3. Got(calls[r][t + 1]) BY <2>1, <2>2, StillRepliesAre
  <2>4. t < len BY <1>3, <1>4
  <2> QED BY <1>4, <2>3, <2>4
<1>12. t = 1 /\ len = 1 /\ ~Full(r, t) => r.limit <= 1 \/ k = 0
  <2> SUFFICES ASSUME t = 1, len = 1, ~Full(r, t), r.limit > 1 PROVE k = 0 BY <1>1
  <2>1. 1 \in 1..t BY <1>4
  <2>2. HasStart(r) BY <1>4, <2>1 DEF HasStart
  <2>3. MoreCalls(r) = <<>> BY <1>11, <2>2
  <2>4. calls[r][1].block = s
    <3>1. CallOK(r, 1, calls[r][1]) BY <1>3 DEF TaskOK
    <3>2. Got(calls[r][1]) BY <1>4, <2>1
    <3> QED BY <3>1, <3>2 DEF CallOK, AskedBy, AskedOf, IsReply, Got
  <2>5. MoreCalls(r) = [j \in 1..k |-> Call("number", Number[s] - j)]
    BY <1>6, <2>4 DEF MoreCalls, RangeCalls
  <2>6. DOMAIN MoreCalls(r) = 1..k BY <2>5
  <2>7. 1..k = {} BY <2>3, <2>6
  <2>8. k \in Nat BY <1>7
  <2>9. k # 0 => 1 \in 1..k BY <2>8
  <2> QED BY <2>7, <2>9
<1> HIDE DEF s, t, len
<1>13. t >= 1 BY DEF t
<1>14. /\ r.limit <= 1 => t = 1
       /\ r.limit > 1 => t <= r.limit
       /\ t <= MaxHeaders + 1 /\ t <= Number[s] + 1
  BY <1>1, <1>2, <1>3, <1>4, <1>7, <1>8, <1>13
<1>15. \/ r.limit <= 1 \/ t = r.limit \/ t = MaxHeaders + 1 \/ t = Number[s] + 1
       \/ t >= 2 /\ t >= SoftLimit + 1
  <2>1. CASE Full(r, t) BY <1>2, <1>4, <1>9, <2>1
  <2>2. CASE ~Full(r, t) /\ t = len /\ len = 1
    <3>1. r.limit <= 1 \/ k = 0 BY <1>12, <2>2
    <3> QED BY <1>1, <1>2, <1>7, <2>2, <3>1
  <2>3. CASE ~Full(r, t) /\ t = len /\ len # 1
    <3>1. r.limit > 1 /\ t = 1 + k BY <1>8, <2>3
    <3> QED BY <1>1, <1>2, <1>7, <3>1
  <2> QED BY <1>11, <2>1, <2>2, <2>3
<1>16. t = Min({Max({1, r.limit}), MaxHeaders + 1, Max({2, SoftLimit + 1}), Number[s] + 1})
  <2>1. Reaches(t, r.limit, MaxHeaders, SoftLimit, Number[s])
    BY <1>1, <1>2, <1>4, <1>10, <1>13, <1>14, <1>15 DEF Reaches
  <2> QED BY <2>1, LeastOfFour DEF Shortest
<1> QED BY <1>16 DEF s, t

\* The response of on_headers_request or on_block_bodies_request is right.
LEMMA ServeBlocksOK == ASSUME AdapterInv, NEW r \in Request, ServeBlocks(r) PROVE AdapterInv'
<1>1. AdapterTypes /\ TaskOK(r) BY DEF AdapterInv
<1>2. /\ r.kind \in {"headers", "bodies"} /\ calls[r] # <<>> /\ Ended(r) /\ Answers(r, Blocks(r))
      /\ calls' = [calls EXCEPT ![r] = <<>>]
      /\ UNCHANGED <<workload, node, request_stream>> /\ bytecodes' = bytecodes
  BY DEF ServeBlocks
<1>3. answer'[r] = Blocks(r) /\ head' = head /\ disturbed' = disturbed
  BY <1>1, <1>2 DEF Answers, AdapterTypes, node
<1>4. CASE r.kind = "bodies"
  <2>1. \A i \in DOMAIN answer'[r] : answer'[r][i] = r.blocks[i] BY <1>1, <1>3, <1>4, BodiesServed
  <2>2. AnswerOK(r)' BY <1>4, <2>1 DEF AnswerOK
  <2> QED BY <1>2, <2>2, ServedOK
<1>5. CASE r.kind = "headers"
  <2>1. CASE Blocks(r) = <<>>
    <3>1. AnswerOK(r)' BY <1>3, <2>1, NoAnswer
    <3> QED BY <1>2, <3>1, ServedOK
  <2>2. CASE Blocks(r) # <<>>
    <3>1. /\ Taken(r) >= 1 /\ Blocks(r)[1] = r.blocks[1]
          /\ \A i \in DOMAIN Blocks(r) : Number[Blocks(r)[i]] = Number[Blocks(r)[1]] - (i - 1)
      BY <1>1, <1>5, <2>2, HeadersServed
    <3>2. DOMAIN Blocks(r) = 1..Taken(r) /\ Len(Blocks(r)) = Taken(r) BY <1>1, ServedBlocks
    <3>3. ASSUME r \notin disturbed, r.blocks[1] \in Ancestry[head]
          PROVE  /\ \A i \in DOMAIN Blocks(r) : Blocks(r)[i] \in Ancestry[r.blocks[1]]
                 /\ Len(Blocks(r)) = Min({Max({1, r.limit}), MaxHeaders + 1, Max({2, SoftLimit + 1}),
                                          Number[r.blocks[1]] + 1})
      <4>1. ASSUME NEW i \in 1..Taken(r) PROVE Blocks(r)[i] \in Ancestry[r.blocks[1]]
        <5>1. i \in DOMAIN calls[r] /\ Blocks(r)[i] = calls[r][i].block /\ Got(calls[r][i])
          BY <1>1, ServedBlocks
        <5>2. calls[r][i].done BY <5>1 DEF Got
        <5>3. calls[r][i].block \in Ancestry[r.blocks[1]]
          BY <1>1, <1>5, <3>3, <5>1, <5>2, StillRepliesAre
        <5> QED BY <5>1, <5>3
      <4>2. Taken(r) = Min({Max({1, r.limit}), MaxHeaders + 1, Max({2, SoftLimit + 1}),
                            Number[r.blocks[1]] + 1})
        BY <1>1, <1>2, <1>5, <3>1, <3>3, HeadersLength
      <4> QED BY <3>2, <4>1, <4>2
    <3>4. AnswerOK(r)' BY <1>3, <1>5, <3>1, <3>3 DEF AnswerOK
    <3> QED BY <1>2, <3>4, ServedOK
  <2> QED BY <2>1, <2>2
<1> QED BY <1>2, <1>4, <1>5

\* A witness that is answered comes from the second call, which asks for it by number.
LEMMA WitnessServed ==
    ASSUME AdapterTypes, NEW r \in Request, TaskOK(r), r.kind = "witness", calls[r] # <<>>, Ended(r),
           NEW w, w = calls[r][Len(calls[r])].block, w # None,
           r \notin disturbed, r.blocks[1] \in Ancestry[head]
    PROVE  w = r.blocks[1]
<1>1. calls[r] \in Seq(CallRecord) /\ CallCount(r, Len(calls[r])) BY DEF AdapterTypes, TaskOK
<1>2. Len(calls[r]) \in {1, 2} BY <1>1 DEF CallCount
<1>3. r.blocks[1] \in Hash /\ head \in Hash BY RequestShape, AdapterAssumption DEF AdapterTypes
<1>4. CASE Len(calls[r]) = 1
  <2>1. 1 \in DOMAIN calls[r] /\ CallOK(r, 1, calls[r][1]) BY <1>1, <1>4 DEF TaskOK
  <2>2. Got(calls[r][1]) BY <1>4, <2>1 DEF CallOK, IsReply, Got
  <2>3. HasStart(r) BY <1>4, <2>2 DEF HasStart
  <2>4. MoreCalls(r) # <<>>
    <3>1. MoreCalls(r) = <<Call("number", Number[calls[r][1].block])>> BY DEF MoreCalls
    <3> QED BY <3>1
  <2>5. \A n : ~Full(r, n) BY DEF Full
  <2>6. Taken(r) \in 0..1 /\ (Taken(r) < 1 => ~Got(calls[r][Taken(r) + 1]))
    BY <1>1, <1>4, <2>5, TakenIs
  <2>7. Taken(r) = 1
    <3> SUFFICES ASSUME Taken(r) = 0 PROVE FALSE BY <2>6
    <3>1. ~Got(calls[r][0 + 1]) /\ 0 + 1 = 1 BY <2>6
    <3> QED BY <2>2, <3>1
  <2> QED BY <1>4, <2>3, <2>4, <2>5, <2>7 DEF Ended
<1>5. CASE Len(calls[r]) = 2
  <2>1. 2 \in DOMAIN calls[r] /\ CallOK(r, 2, calls[r][2]) /\ w = calls[r][2].block
    BY <1>1, <1>5 DEF TaskOK
  <2>2. calls[r][2].done BY <2>1 DEF CallOK, IsReply
  <2>3. calls[r][2].by = "number" /\ calls[r][2].of = Number[r.blocks[1]]
    BY <2>1 DEF CallOK, AskedBy, AskedOf
  <2>4. w \in NodeAnswers(calls[r][2]) BY <2>1, <2>2 DEF CallOK
  <2>5. w = AncestorAt(head, Number[r.blocks[1]]) BY <2>3, <2>4 DEF NodeAnswers
  <2> QED BY <1>3, <2>5, AncestorAtNumber
<1> QED BY <1>2, <1>4, <1>5

\* An answered witness keeps the invariant: its bytecodes were cached before.
LEMMA ServeWitnessOK == ASSUME AdapterInv, NEW r \in Request, ServeWitness(r) PROVE AdapterInv'
<1>1. AdapterTypes /\ TaskOK(r) BY DEF AdapterInv
<1>2. PICK w : w = calls[r][Len(calls[r])].block OBVIOUS
<1>3. PICK a : a = IF w # None THEN <<w>> ELSE <<>> OBVIOUS
<1>4. /\ r.kind = "witness" /\ calls[r] # <<>> /\ Ended(r) /\ Answers(r, a)
      /\ calls' = [calls EXCEPT ![r] = <<>>]
      /\ UNCHANGED <<workload, node, request_stream>>
      /\ bytecodes' = IF w # None THEN bytecodes \cup CodesOf[w] ELSE bytecodes
  BY <1>2, <1>3 DEF ServeWitness
<1>5. answer'[r] = a /\ head' = head /\ disturbed' = disturbed /\ bytecodes \subseteq bytecodes'
  BY <1>1, <1>4 DEF Answers, AdapterTypes, node
<1>6. CASE w = None
  <2>1. answer'[r] = <<>> BY <1>3, <1>5, <1>6
  <2>2. AnswerOK(r)' BY <2>1, NoAnswer
  <2> QED BY <1>4, <1>5, <2>2, ServedOK
<1>7. CASE w # None
  <2>1. answer'[r] = <<w>> BY <1>3, <1>5, <1>7
  <2>2. answer'[r][1] = w BY <2>1
  <2>3. CodesOf[w] \subseteq bytecodes' BY <1>4, <1>7
  <2>4. r \notin disturbed /\ r.blocks[1] \in Ancestry[head] => w = r.blocks[1]
    BY <1>1, <1>2, <1>4, <1>7, WitnessServed
  <2>5. AnswerOK(r)' BY <1>4, <1>5, <2>2, <2>3, <2>4 DEF AnswerOK
  <2> QED BY <1>4, <1>5, <2>5, ServedOK
<1> QED BY <1>6, <1>7

-----------------------------------------------------------------------------
\* A step that changes nothing.
LEMMA AdapterStutters == ASSUME AdapterInv, UNCHANGED vars PROVE AdapterInv'
<1>1. /\ workload' = workload /\ head' = head /\ bytecodes' = bytecodes /\ calls' = calls
      /\ request_stream' = request_stream /\ status' = status /\ answer' = answer
      /\ disturbed' = disturbed
  BY DEF vars, node
<1>2. AdapterTypes' BY <1>1 DEF AdapterInv, AdapterTypes
<1>3. ASSUME NEW q \in Request PROVE TaskOK(q)' /\ Kept(q)' /\ AnswerOK(q)'
  <2>1. TaskOK(q) /\ Kept(q) /\ AnswerOK(q) BY DEF AdapterInv
  <2> QED BY <1>1, <2>1, TaskFrame, KeptFrame, AnswerFrame
<1> QED BY <1>2, <1>3 DEF AdapterInv

(***************************************************************************)
(* The inductive invariant of the adapter: what is known of every call of  *)
(* every task, that a request that waits is in the stream once or with one *)
(* task, and that the answers are right.                                   *)
(***************************************************************************)
THEOREM AdapterInvariant == Spec => []AdapterInv
<1>1. Init => AdapterInv BY InitAdapter
<1>2. AdapterInv /\ [Next]_vars => AdapterInv'
  <2> SUFFICES ASSUME AdapterInv, [Next]_vars PROVE AdapterInv' OBVIOUS
  <2>1. CASE UNCHANGED vars BY <2>1, AdapterStutters
  <2>2. ASSUME NEW r \in Request, Ask(r) PROVE AdapterInv' BY <2>2, AskOK
  <2>3. ASSUME NEW r \in Request, Extend(r) PROVE AdapterInv' BY <2>3, ExtendOK
  <2>4. ASSUME NEW r \in Request, ServeBlocks(r) PROVE AdapterInv' BY <2>4, ServeBlocksOK
  <2>5. ASSUME NEW r \in Request, ServeWitness(r) PROVE AdapterInv' BY <2>5, ServeWitnessOK
  <2>6. ASSUME NEW r \in Request, NEW i \in DOMAIN calls[r], Complete(r, i) PROVE AdapterInv'
    BY <2>6, CompleteOK
  <2>7. CASE Receive BY <2>7, ReceiveOK
  <2>8. ASSUME NEW h \in Heads, Reorg(h) PROVE AdapterInv' BY <2>8, ReorgOK
  <2> QED BY <2>1, <2>2, <2>3, <2>4, <2>5, <2>6, <2>7, <2>8 DEF Next
<1> QED BY <1>1, <1>2, PTL DEF Spec

(***************************************************************************)
(* The headers of a response have no gap whatever fails, and while the     *)
(* chain stands still they are the chain of the start block, as many as    *)
(* the request and the limits allow (rpc_adapter.rs:54-93).                *)
(***************************************************************************)
THEOREM AdapterHeaders == Spec => []HeadersHaveNoGap
<1>1. AdapterInv => HeadersHaveNoGap BY DEF AdapterInv, AnswerOK, HeadersHaveNoGap
<1> QED BY <1>1, AdapterInvariant, PTL

\* The bodies of a response are those of a prefix of the hashes (rpc_adapter.rs:95-122).
THEOREM AdapterBodies == Spec => []BodiesArePrefix
<1>1. AdapterInv => BodiesArePrefix BY DEF AdapterInv, AnswerOK, BodiesArePrefix
<1> QED BY <1>1, AdapterInvariant, PTL

\* A witness that was answered is usable: its bytecodes are cached (rpc_adapter.rs:154-186).
THEOREM AdapterWitnesses == Spec => []WitnessIsUsable
<1>1. AdapterInv => WitnessIsUsable BY DEF AdapterInv, AnswerOK, WitnessIsUsable
<1> QED BY <1>1, AdapterInvariant, PTL
=============================================================================
