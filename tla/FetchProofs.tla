----------------------------- MODULE FetchProofs -----------------------------
(***************************************************************************)
(* Proofs about the download futures, for every set of headers and bodies, *)
(* every request and every bound on the length of a response.  The peers   *)
(* answer what they like, in any order.                                    *)
(***************************************************************************)
EXTENDS DownloadFutures, FiniteSetTheorems, SequenceTheorems, TLAPS

futvars == <<fetchvars, rangevars>>

-----------------------------------------------------------------------------
(***************************************************************************)
(* FetchFullBlockFuture and FetchFullBlockWithAncestorsFuture.  A header   *)
(* that was accepted is the right one and is not asked for any more; while *)
(* header or body is asked for nothing was yielded; and the ancestors are  *)
(* only asked for when the block is there.                                 *)
(***************************************************************************)
BlockInv ==
    /\ block_hash \in Targets /\ ancestor_count \in Counts
    /\ header \in {None, block_hash}
    /\ header # None => pending_header_request = "none"
    /\ pending_header_request # "none" \/ pending_body_request # "none" =>
           ancestors_request = "none" /\ got = None
    /\ ancestors_request # "none" =>
           /\ block = [header |-> block_hash, body |-> BodyOf[block_hash]]
           /\ ancestor_count # None /\ got = None

\* A step of the future: it yields nothing, or once, the right thing.
YieldsRight == \/ UNCHANGED <<block_hash, ancestor_count, got>>
               \/ /\ got = None /\ UNCHANGED <<block_hash, ancestor_count>>
                  /\ got' \in RightBlocks[<<block_hash, ancestor_count>>]

\* The future is started with both requests under way.
LEMMA InitBlock == Init => BlockInv
BY DEF Init, BlockInv

\* A block that was put together without ancestors is what was asked for.
LEMMA BlockAlone ==
    ASSUME block_hash \in Targets, ancestor_count \in Counts, ancestor_count = None
    PROVE  Yielded(block_hash, BodyOf[block_hash], <<>>) \in RightBlocks[<<block_hash, ancestor_count>>]
<1> DEFINE q == <<block_hash, ancestor_count>>
           y == Yielded(block_hash, BodyOf[block_hash], <<>>)
<1>1. q \in Targets \X Counts /\ q[1] = block_hash /\ q[2] = None OBVIOUS
<1>2. <<>> \in Seq(Header) OBVIOUS
<1>3. y \in [header : {q[1]}, body : {BodyOf[q[1]]}, ancestors : Seq(Header)] /\ y.ancestors = <<>>
  BY <1>1, <1>2 DEF Yielded
<1> HIDE DEF q, y
<1> QED BY <1>1, <1>3 DEF RightBlocks, q, y

\* A block with the headers of a response that passed the checks of on_response.
LEMMA BlockWithAncestors ==
    ASSUME block_hash \in Targets, ancestor_count \in Counts, ancestor_count # None,
           NEW hs \in HeadersAnswers, AcceptHeaders(hs, Parent[block_hash], ancestor_count)
    PROVE  Yielded(block_hash, BodyOf[block_hash], hs) \in RightBlocks[<<block_hash, ancestor_count>>]
<1> DEFINE q == <<block_hash, ancestor_count>>
           y == Yielded(block_hash, BodyOf[block_hash], hs)
<1>1. q \in Targets \X Counts /\ q[1] = block_hash /\ q[2] = ancestor_count OBVIOUS
<1>2. PICK n \in 0..MaxAnswer : hs \in [1..n -> Header] BY DEF HeadersAnswers, AcceptHeaders
<1>3. hs \in Seq(Header) BY <1>2, FetchBlockAssumption
<1>4. IsLine(hs, Parent[block_hash])
  <2> SUFFICES ASSUME NEW i \in DOMAIN hs
               PROVE  hs[i] = IF i = 1 THEN Parent[block_hash] ELSE Parent[hs[i - 1]]
    BY DEF IsLine
  <2>1. CASE i = 1 BY <2>1 DEF AcceptHeaders
  <2>2. CASE i # 1
    <3>1. i > 1 BY <1>3, <2>2
    <3> QED BY <2>2, <3>1 DEF AcceptHeaders, ValidHeaderRange
  <2> QED BY <2>1, <2>2
<1>5. Len(hs) >= ancestor_count BY DEF AcceptHeaders
<1>6. /\ y \in [header : {q[1]}, body : {BodyOf[q[1]]}, ancestors : Seq(Header)]
      /\ y.ancestors = hs
  BY <1>1, <1>3 DEF Yielded
<1> HIDE DEF q, y
<1> QED BY <1>1, <1>4, <1>5, <1>6 DEF RightBlocks, q, y

(***************************************************************************)
(* The last part of poll, when a request was answered and the header, if   *)
(* there is one, is the right one.                                         *)
(***************************************************************************)
LEMMA SettleOK ==
    ASSUME BlockInv, NEW h \in {None, block_hash}, NEW b, NEW request, Settle(h, b, request),
           got = None, ancestors_request = "none",
           UNCHANGED <<block_hash, ancestor_count>>,
           h # None => pending_header_request' = "none"
    PROVE  BlockInv' /\ YieldsRight
<1>1. block_hash \in Targets /\ ancestor_count \in Counts BY DEF BlockInv
<1>2. CASE UNCHANGED <<block, ancestors_request, got>> /\ header' = h
  BY <1>1, <1>2 DEF BlockInv, YieldsRight
<1>3. CASE /\ h # None /\ b # None /\ ValidBody(b, h)
           /\ header' = None /\ block' = [header |-> h, body |-> b]
           /\ pending_body_request' = "none"
           /\ IF ancestor_count # None
                THEN ancestors_request' = "sent" /\ UNCHANGED got
                ELSE got' = Yielded(h, b, <<>>) /\ UNCHANGED ancestors_request
  <2>1. h = block_hash /\ b = BodyOf[block_hash] /\ pending_header_request' = "none"
    BY <1>3 DEF ValidBody
  <2>2. CASE ancestor_count # None BY <1>1, <1>3, <2>1, <2>2 DEF BlockInv, YieldsRight
  <2>3. CASE ancestor_count = None
    <3>1. got' \in RightBlocks[<<block_hash, ancestor_count>>] BY <1>1, <1>3, <2>1, <2>3, BlockAlone
    <3>2. BlockInv' BY <1>1, <1>3, <2>1, <2>3 DEF BlockInv
    <3> QED BY <3>1, <3>2 DEF YieldsRight
  <2> QED BY <2>2, <2>3
<1> QED BY <1>2, <1>3 DEF Settle

\* Every step of the block futures keeps BlockInv and yields the right thing, once.
LEMMA BlockStep == ASSUME BlockInv, Next PROVE BlockInv' /\ YieldsRight
<1>1. ASSUME NEW answer \in Header \cup {None, Failed}, OnHeaderResponse(answer)
      PROVE  BlockInv' /\ YieldsRight
  <2>1. PICK h : h = IF answer = block_hash THEN answer ELSE None OBVIOUS
  <2>2. h \in {None, block_hash} BY <2>1
  <2>3. Settle(h, body, pending_body_request) /\ UNCHANGED <<block_hash, ancestor_count>>
    BY <1>1, <2>1 DEF OnHeaderResponse
  <2>4. pending_header_request = "sent" /\ (h # None => pending_header_request' = "none")
    BY <1>1, <2>1 DEF OnHeaderResponse
  <2>5. got = None /\ ancestors_request = "none" BY <2>4 DEF BlockInv
  <2> QED BY <2>2, <2>3, <2>4, <2>5, SettleOK
<1>2. ASSUME NEW answer \in Body \cup {None, Failed}, OnBodyResponse(answer)
      PROVE  BlockInv' /\ YieldsRight
  <2>1. PICK b : b = IF answer = Failed THEN None ELSE answer OBVIOUS
  <2>2. PICK h : h = header OBVIOUS
  <2>3. PICK req : req = IF b = None THEN "delayed" ELSE "none" OBVIOUS
  <2>4. Settle(h, b, req) /\ UNCHANGED <<block_hash, ancestor_count>>
    BY <1>2, <2>1, <2>2, <2>3 DEF OnBodyResponse
  <2>5. h \in {None, block_hash} BY <2>2 DEF BlockInv
  <2>6. pending_body_request = "sent" /\ pending_header_request' = pending_header_request
    BY <1>2 DEF OnBodyResponse
  <2>7. got = None /\ ancestors_request = "none" /\ (h # None => pending_header_request' = "none")
    BY <2>2, <2>6 DEF BlockInv
  <2> QED BY <2>4, <2>5, <2>7, SettleOK
<1>3. ASSUME NEW hs \in HeadersAnswers, OnAncestorsResponse(hs) PROVE BlockInv' /\ YieldsRight
  <2>1. /\ block.header = block_hash /\ block.body = BodyOf[block_hash]
        /\ ancestor_count # None /\ got = None /\ block_hash \in Targets /\ ancestor_count \in Counts
    BY <1>3 DEF OnAncestorsResponse, BlockInv
  <2>2. pending_header_request = "none" /\ pending_body_request = "none"
    BY <1>3 DEF OnAncestorsResponse, BlockInv
  <2>3. CASE AcceptHeaders(hs, Parent[block.header], ancestor_count)
    <3>1. got' = Yielded(block_hash, BodyOf[block_hash], hs) BY <1>3, <2>1, <2>3 DEF OnAncestorsResponse
    <3>2. got' \in RightBlocks[<<block_hash, ancestor_count>>]
      BY <2>1, <2>3, <3>1, BlockWithAncestors
    <3>3. BlockInv' BY <1>3, <2>2, <2>3 DEF OnAncestorsResponse, BlockInv
    <3> QED BY <1>3, <2>1, <3>2, <3>3 DEF OnAncestorsResponse, YieldsRight
  <2>4. CASE ~AcceptHeaders(hs, Parent[block.header], ancestor_count)
    BY <1>3, <2>2, <2>4 DEF OnAncestorsResponse, BlockInv, YieldsRight
  <2> QED BY <2>3, <2>4
<1>4. CASE Retry BY <1>4 DEF Retry, BlockInv, YieldsRight
<1> QED BY <1>1, <1>2, <1>3, <1>4 DEF Next

\* The invariant of the block futures, with the range future beside them.
THEOREM FetchBlockInvariant == FuturesSpec => []BlockInv
<1>1. FuturesInit => BlockInv BY InitBlock DEF FuturesInit
<1>2. BlockInv /\ [FuturesNext]_futvars => BlockInv'
  <2> SUFFICES ASSUME BlockInv, [FuturesNext]_futvars PROVE BlockInv' OBVIOUS
  <2>1. CASE UNCHANGED fetchvars BY <2>1 DEF fetchvars, requests, BlockInv
  <2>2. CASE Next BY <2>2, BlockStep
  <2> QED BY <2>1, <2>2 DEF FuturesNext, futvars
<1> QED BY <1>1, <1>2, PTL DEF FuturesSpec, futvars

(***************************************************************************)
(* "A future that downloads full block and the headers of its ancestors"   *)
(* (futs.rs:281): whatever peers answer and in whatever order, it yields   *)
(* at most once, the block that was asked for with its own body and an     *)
(* unbroken line of as many ancestors as asked for.                        *)
(***************************************************************************)
THEOREM FuturesRefineFetch == FuturesSpec => ImplementsFetch
<1>1. FuturesInit => Once!Init
  <2> SUFFICES ASSUME FuturesInit PROVE Once!Init OBVIOUS
  <2>1. <<block_hash, ancestor_count>> \in Targets \X Counts /\ got = None
    BY DEF FuturesInit, Init
  <2> QED BY <2>1 DEF Once!Init, RightBlocks
<1>2. BlockInv /\ [FuturesNext]_futvars => [Once!Yield]_<<<<block_hash, ancestor_count>>, got>>
  <2> SUFFICES ASSUME BlockInv, [FuturesNext]_futvars
               PROVE  [Once!Yield]_<<<<block_hash, ancestor_count>>, got>>
    OBVIOUS
  <2>1. CASE UNCHANGED fetchvars BY <2>1 DEF fetchvars
  <2>2. CASE Next
    <3>1. YieldsRight BY <2>2, BlockStep
    <3> QED BY <3>1 DEF YieldsRight, Once!Yield
  <2> QED BY <2>1, <2>2 DEF FuturesNext, futvars
<1> QED BY <1>1, <1>2, FetchBlockInvariant, PTL DEF FuturesSpec, futvars, ImplementsFetch, Once!Spec

-----------------------------------------------------------------------------
(***************************************************************************)
(* FetchFullBlockRangeFuture.  As long as no response had a body that was  *)
(* not asked for, the bodies are those of the first headers, and what is   *)
(* asked for are the headers beyond them, in order.                        *)
(***************************************************************************)
BodiesInPlace ==
    /\ bodies \in Seq(Body) /\ Len(bodies) <= Len(headers)
    /\ \A i \in 1..Len(bodies) : bodies[i] = BodyOf[headers[i]]

\* The bodies asked for are those of the headers that lack one, in order.
AskedIsMissing ==
    /\ DOMAIN asked = 1..(Len(headers) - Len(bodies))
    /\ \A i \in 1..(Len(headers) - Len(bodies)) : asked[i] = headers[Len(bodies) + i]

\* The inductive invariant of the range future.
RangeInv ==
    /\ start_hash \in Starts /\ limit \in Limits
    /\ headers = <<>> => bodies = <<>>
    /\ headers # <<>> => headers \in Seq(Header) /\ Len(headers) >= limit /\ IsLine(headers, start_hash)
    /\ headers # <<>> /\ honest => BodiesInPlace /\ AskedIsMissing
    /\ blocks # None => pending = "none"
    /\ Blocks!RangeIsRight

\* The future is started without headers.
LEMMA InitRange == Blocks!Init => RangeInv
BY DEF Blocks!Init, RangeInv, Blocks!RangeIsRight

\* The operator of FiniteSets, as it is named in an instance of FetchRange.
LEMMA SameCardinality == \A S : Blocks!Cardinality(S) = Cardinality(S)
BY DEF Blocks!Cardinality, Cardinality

\* Among the indices up to n, the k-th is k.
LEMMA NthIs ==
    ASSUME NEW n \in Nat
    PROVE  Cardinality(1..n) = n /\ \A k \in 1..n : Blocks!Nth(1..n, k) = k
<1>1. \A m \in Nat : Cardinality(1..m) = m
  <2> SUFFICES ASSUME NEW m \in Nat PROVE Cardinality(1..m) = m OBVIOUS
  <2>1. 1 \in Int /\ m \in Int OBVIOUS
  <2>2. Cardinality(1..m) = IF 1 > m THEN 0 ELSE m - 1 + 1 BY <2>1, FS_Interval
  <2> QED BY <2>2
<1>2. ASSUME NEW k \in 1..n PROVE Blocks!Nth(1..n, k) = k
  <2>1. ASSUME NEW i \in 1..n PROVE Cardinality({j \in 1..n : j <= i}) = i
    <3>1. {j \in 1..n : j <= i} = 1..i OBVIOUS
    <3>2. Cardinality(1..i) = i BY <1>1
    <3> QED BY <3>1, <3>2
  <2>2. \A i \in 1..n : Cardinality({j \in 1..n : j <= i}) = k <=> i = k BY <2>1
  <2>3. Blocks!Nth(1..n, k) = CHOOSE i \in 1..n : Cardinality({j \in 1..n : j <= i}) = k
    BY SameCardinality DEF Blocks!Nth
  <2> QED BY <2>2, <2>3
<1> QED BY <1>1, <1>2

\* The headers beyond the first m of them.
LEMMA MissingIs ==
    ASSUME headers \in Seq(Header), NEW m \in Nat, m <= Len(headers)
    PROVE  /\ DOMAIN Blocks!Missing(m) = 1..(Len(headers) - m)
           /\ \A i \in 1..(Len(headers) - m) : Blocks!Missing(m)[i] = headers[m + i]
<1>1. Len(headers) \in Nat /\ m + 1 \in 1..(Len(headers) + 1) BY DEF Blocks!Missing
<1>2. /\ SubSeq(headers, m + 1, Len(headers)) \in Seq(Header)
      /\ Len(SubSeq(headers, m + 1, Len(headers))) = Len(headers) - m
      /\ \A i \in 1..(Len(headers) - m) : SubSeq(headers, m + 1, Len(headers))[i] = headers[m + i]
  BY <1>1
<1> QED BY <1>1, <1>2 DEF Blocks!Missing

(***************************************************************************)
(* The for loop over a response without a body that was not asked for      *)
(* takes the bodies as they come.                                          *)
(***************************************************************************)
LEMMA AcceptedAre ==
    ASSUME headers \in Seq(Header), BodiesInPlace, AskedIsMissing,
           NEW response \in Seq(Body),
           \A i \in DOMAIN response \cap DOMAIN asked : ValidBody(response[i], asked[i])
    PROVE  \E n \in Nat :
              /\ n <= Len(headers) - Len(bodies) /\ n <= Len(response)
              /\ Blocks!AcceptedBodies(response) = [k \in 1..n |-> response[k]]
              /\ \A k \in 1..n : response[k] = BodyOf[headers[Len(bodies) + k]]
<1> DEFINE missing == Blocks!Missing(Len(bodies))
           valid   == {i \in DOMAIN missing \cap DOMAIN response : ValidBody(response[i], missing[i])}
           room    == Len(headers) - Len(bodies)
<1>1. Len(headers) \in Nat /\ Len(bodies) \in Nat /\ room \in Nat /\ Len(response) \in Nat
  BY DEF BodiesInPlace
<1>2. DOMAIN missing = 1..room /\ \A i \in 1..room : missing[i] = headers[Len(bodies) + i]
  BY <1>1, MissingIs DEF BodiesInPlace
<1>3. DOMAIN asked = 1..room /\ \A i \in 1..room : asked[i] = missing[i]
  BY <1>2 DEF AskedIsMissing
<1>4. DOMAIN response = 1..Len(response) OBVIOUS
<1>5. Blocks!AcceptedBodies(response) = [k \in 1..Cardinality(valid) |-> response[Blocks!Nth(valid, k)]]
  BY SameCardinality DEF Blocks!AcceptedBodies, Blocks!ValidBody, ValidBody
<1>6. PICK n \in Nat : n <= room /\ n <= Len(response) /\ (n = room \/ n = Len(response))
  <2> HIDE DEF room
  <2>1. CASE room <= Len(response) BY <1>1, <2>1
  <2>2. CASE ~(room <= Len(response)) BY <1>1, <2>2
  <2> QED BY <2>1, <2>2
<1> HIDE DEF room, missing
<1>7. (1..room) \cap (1..Len(response)) = 1..n BY <1>1, <1>6
<1>8. valid = 1..n
  <2>1. \A i \in DOMAIN missing \cap DOMAIN response : ValidBody(response[i], missing[i])
    BY <1>2, <1>3, <1>4
  <2>2. DOMAIN missing \cap DOMAIN response = 1..n BY <1>2, <1>4, <1>7
  <2> QED BY <2>1, <2>2
<1> HIDE DEF valid
<1>9. Blocks!AcceptedBodies(response) = [k \in 1..n |-> response[k]]
  <2>1. Cardinality(valid) = n /\ \A k \in 1..n : Blocks!Nth(valid, k) = k BY <1>6, <1>8, NthIs
  <2> QED BY <1>5, <2>1
<1>10. ASSUME NEW k \in 1..n PROVE response[k] = BodyOf[headers[Len(bodies) + k]]
  <2>1. k \in 1..room /\ k \in DOMAIN response
    <3>1. k \in (1..room) \cap (1..Len(response)) BY <1>7
    <3> QED BY <1>4, <3>1
  <2>2. ValidBody(response[k], asked[k]) BY <1>3, <2>1
  <2> QED BY <1>2, <1>3, <2>1, <2>2 DEF ValidBody
<1> QED BY <1>6, <1>9, <1>10 DEF room

\* FetchHeadersRangeFuture is done, or tries again.
LEMMA OnHeadersOK ==
    ASSUME RangeInv, NEW response \in Blocks!Sequences(Header) \cup {Failed}, Blocks!OnHeaders(response)
    PROVE  RangeInv'
<1>1. /\ headers = <<>> /\ pending = "sent" /\ bodies = <<>> /\ blocks = None
      /\ start_hash \in Starts /\ limit \in Limits /\ limit \in Nat /\ limit >= 1
  BY FetchRangeAssumption DEF RangeInv, Blocks!OnHeaders
<1>2. /\ start_hash' = start_hash /\ limit' = limit /\ bodies' = bodies /\ blocks' = blocks
      /\ honest' = honest
  BY DEF Blocks!OnHeaders, Blocks!request
<1>3. (Blocks!RangeIsRight)' BY <1>1, <1>2 DEF Blocks!RangeIsRight
<1>4. CASE Blocks!AcceptHeaders(response, start_hash, limit)
  <2>1. headers' = response /\ asked' = response /\ pending' = pending
    BY <1>4 DEF Blocks!OnHeaders
  <2>2. PICK n \in 0..MaxAnswer : response \in [1..n -> Header]
    BY <1>4 DEF Blocks!AcceptHeaders, Blocks!Sequences
  <2>3. response \in Seq(Header) /\ Len(response) \in Nat /\ DOMAIN response = 1..Len(response)
    BY <2>2, FetchBlockAssumption
  <2>4. Len(response) >= limit /\ response # <<>> BY <1>1, <1>4, <2>3 DEF Blocks!AcceptHeaders
  <2>5. IsLine(response, start_hash)
    <3> SUFFICES ASSUME NEW i \in DOMAIN response
                 PROVE  response[i] = IF i = 1 THEN start_hash ELSE Parent[response[i - 1]]
      BY DEF IsLine
    <3>1. CASE i = 1 BY <1>4, <3>1 DEF Blocks!AcceptHeaders
    <3>2. CASE i # 1
      <4>1. i > 1 BY <2>3, <3>2
      <4> QED BY <1>4, <3>2, <4>1 DEF Blocks!AcceptHeaders, Blocks!ValidHeaderRange
    <3> QED BY <3>1, <3>2
  <2>6. Len(bodies') = 0 /\ bodies' \in Seq(Body) BY <1>1, <1>2
  <2>7. BodiesInPlace' BY <2>1, <2>3, <2>6 DEF BodiesInPlace
  <2>8. AskedIsMissing'
    <3>1. Len(headers') - Len(bodies') = Len(response) BY <2>1, <2>3, <2>6
    <3>2. \A i \in 1..Len(response) : Len(bodies') + i = i BY <2>3, <2>6
    <3> QED BY <2>1, <2>3, <3>1, <3>2 DEF AskedIsMissing
  <2>9. headers' \in Seq(Header) /\ Len(headers') >= limit' /\ IsLine(headers, start_hash)'
    BY <1>2, <2>1, <2>3, <2>4, <2>5 DEF IsLine
  <2> QED BY <1>1, <1>2, <1>3, <2>1, <2>4, <2>7, <2>8, <2>9 DEF RangeInv
<1>5. CASE ~Blocks!AcceptHeaders(response, start_hash, limit)
  <2>1. headers' = <<>> BY <1>1, <1>5 DEF Blocks!OnHeaders
  <2> QED BY <1>1, <1>2, <1>3, <2>1 DEF RangeInv
<1> QED BY <1>4, <1>5

\* take_blocks puts headers and bodies side by side; with all bodies in place the range is right.
LEMMA TakenIsRight ==
    ASSUME headers \in Seq(Header), Len(headers) >= limit, limit \in Nat, IsLine(headers, start_hash),
           NEW bs, \A i \in 1..Len(headers) : bs[i] = BodyOf[headers[i]],
           NEW range, range = Blocks!Blocks(bs)
    PROVE  /\ Len(range) >= limit
           /\ IsLine([i \in DOMAIN range |-> range[i].header], start_hash)
           /\ \A i \in DOMAIN range : ValidBody(range[i].body, range[i].header)
<1>1. Len(headers) \in Nat /\ DOMAIN headers = 1..Len(headers) OBVIOUS
<1>2. range = [i \in 1..Len(headers) |-> [header |-> headers[i], body |-> bs[i]]]
  BY <1>1 DEF Blocks!Blocks
<1>3. DOMAIN range = 1..Len(headers)
      /\ \A i \in 1..Len(headers) : range[i].header = headers[i] /\ range[i].body = bs[i]
  BY <1>2
<1>4. Len(range) = Len(headers)
  <2>1. PICK S : S = {range[i] : i \in 1..Len(headers)} OBVIOUS
  <2>2. range \in [1..Len(headers) -> S] BY <1>2, <2>1
  <2>3. range \in Seq(S) BY <1>1, <2>2
  <2> QED BY <1>1, <1>3, <2>3
<1>5. [i \in DOMAIN range |-> range[i].header] = headers BY <1>1, <1>3
<1>6. \A i \in DOMAIN range : ValidBody(range[i].body, range[i].header) BY <1>3 DEF ValidBody
<1> QED BY <1>4, <1>5, <1>6

\* A response with bodies.
LEMMA OnBodiesOK ==
    ASSUME RangeInv, NEW response \in Blocks!Sequences(Body) \cup {Failed}, Blocks!OnBodies(response)
    PROVE  RangeInv'
<1>1. /\ headers # <<>> /\ pending = "sent" /\ blocks = None
      /\ start_hash \in Starts /\ limit \in Limits /\ limit \in Nat
      /\ headers \in Seq(Header) /\ Len(headers) >= limit /\ IsLine(headers, start_hash)
  BY FetchRangeAssumption DEF RangeInv, Blocks!OnBodies
<1>2. start_hash' = start_hash /\ limit' = limit /\ headers' = headers
  BY DEF Blocks!OnBodies, Blocks!request
<1>3. IsLine(headers, start_hash)' BY <1>1, <1>2 DEF IsLine
<1>4. CASE response \in {Failed, <<>>} /\ pending' = "delayed"
           /\ asked' = Blocks!Missing(Len(bodies)) /\ UNCHANGED <<bodies, blocks, honest>>
  <2>1. (Blocks!RangeIsRight)' BY <1>1, <1>4 DEF Blocks!RangeIsRight
  <2>2. honest => BodiesInPlace' BY <1>1, <1>2, <1>4 DEF RangeInv, BodiesInPlace
  <2>3. honest => AskedIsMissing'
    <3> SUFFICES ASSUME honest PROVE AskedIsMissing' OBVIOUS
    <3>1. BodiesInPlace BY <1>1 DEF RangeInv
    <3>2. Len(bodies) \in Nat /\ Len(bodies) <= Len(headers) BY <3>1 DEF BodiesInPlace
    <3> QED BY <1>1, <1>2, <1>4, <3>2, MissingIs DEF AskedIsMissing
  <2> QED BY <1>1, <1>2, <1>3, <1>4, <2>1, <2>2, <2>3 DEF RangeInv
<1>5. CASE response \notin {Failed, <<>>}
  <2>1. PICK bs : bs = bodies \o Blocks!AcceptedBodies(response) OBVIOUS
  <2>2. /\ bodies' = bs /\ asked' = Blocks!Missing(Len(bs))
        /\ honest' = (honest /\ \A i \in DOMAIN response \cap DOMAIN asked :
                                    ValidBody(response[i], asked[i]))
        /\ IF Len(bs) < Len(headers) THEN UNCHANGED <<pending, blocks>>
                                     ELSE pending' = "none" /\ blocks' = Blocks!Blocks(bs)
    BY <1>5, <2>1 DEF Blocks!OnBodies, Blocks!ValidBody, ValidBody
  <2>3. ASSUME honest'
        PROVE  /\ bs \in Seq(Body) /\ Len(bs) \in Nat /\ Len(bs) <= Len(headers)
               /\ \A i \in 1..Len(bs) : bs[i] = BodyOf[headers[i]]
    <3>1. /\ BodiesInPlace /\ AskedIsMissing
          /\ \A i \in DOMAIN response \cap DOMAIN asked : ValidBody(response[i], asked[i])
      BY <1>1, <2>2, <2>3 DEF RangeInv
    <3>2. PICK m \in 0..MaxAnswer : response \in [1..m -> Body] BY <1>5 DEF Blocks!Sequences
    <3>3. response \in Seq(Body) BY <3>2, FetchBlockAssumption
    <3>4. PICK n \in Nat :
              /\ n <= Len(headers) - Len(bodies) /\ n <= Len(response)
              /\ Blocks!AcceptedBodies(response) = [k \in 1..n |-> response[k]]
              /\ \A k \in 1..n : response[k] = BodyOf[headers[Len(bodies) + k]]
      BY <1>1, <3>1, <3>3, AcceptedAre
    <3>5. PICK acc : acc = [k \in 1..n |-> response[k]] OBVIOUS
    <3>6. acc \in Seq(Body) /\ Len(acc) = n /\ \A k \in 1..n : acc[k] = BodyOf[headers[Len(bodies) + k]]
      <4>1. \A k \in 1..n : k \in 1..Len(response) BY <3>3, <3>4
      <4>2. \A k \in 1..n : response[k] \in Body BY <3>3, <4>1
      <4>3. acc \in [1..n -> Body] BY <3>5, <4>2
      <4> QED BY <3>4, <3>5, <4>3
    <3>7. bodies \in Seq(Body) /\ Len(bodies) \in Nat /\ Len(headers) \in Nat /\ Len(bodies) <= Len(headers)
          /\ \A i \in 1..Len(bodies) : bodies[i] = BodyOf[headers[i]]
      BY <1>1, <3>1 DEF BodiesInPlace
    <3>8. /\ bs \in Seq(Body) /\ Len(bs) = Len(bodies) + n
          /\ \A i \in 1..(Len(bodies) + n) :
                 bs[i] = IF i <= Len(bodies) THEN bodies[i] ELSE acc[i - Len(bodies)]
      <4>1. bs = bodies \o acc BY <2>1, <3>4, <3>5
      <4>2. /\ bodies \o acc \in Seq(Body) /\ Len(bodies \o acc) = Len(bodies) + Len(acc)
            /\ \A i \in 1..(Len(bodies) + Len(acc)) :
                 (bodies \o acc)[i] = IF i <= Len(bodies) THEN bodies[i] ELSE acc[i - Len(bodies)]
        BY <3>6, <3>7, ConcatProperties
      <4> QED BY <3>6, <4>1, <4>2
    <3>9. ASSUME NEW i \in 1..Len(bs) PROVE bs[i] = BodyOf[headers[i]]
      <4>1. CASE i <= Len(bodies)
        <5>1. i \in 1..Len(bodies) /\ i \in 1..(Len(bodies) + n) BY <3>4, <3>7, <3>8, <4>1
        <5> QED BY <3>7, <3>8, <4>1, <5>1
      <4>2. CASE ~(i <= Len(bodies))
        <5>1. i - Len(bodies) \in 1..n /\ Len(bodies) + (i - Len(bodies)) = i
              /\ i \in 1..(Len(bodies) + n)
          BY <3>4, <3>7, <3>8, <4>2
        <5> QED BY <3>6, <3>8, <4>2, <5>1
      <4> QED BY <4>1, <4>2
    <3> QED BY <3>4, <3>7, <3>8, <3>9
  <2>4. honest' => BodiesInPlace' BY <1>2, <2>2, <2>3 DEF BodiesInPlace
  <2>5. honest' => AskedIsMissing'
    <3> SUFFICES ASSUME honest' PROVE AskedIsMissing' OBVIOUS
    <3> QED BY <1>1, <1>2, <2>2, <2>3, MissingIs DEF AskedIsMissing
  <2>6. (Blocks!RangeIsRight)' /\ (blocks' # None => pending' = "none")
    <3>1. CASE Len(bs) < Len(headers)
      <4>1. blocks' = None BY <1>1, <2>2, <3>1
      <4> QED BY <4>1 DEF Blocks!RangeIsRight
    <3>2. CASE ~(Len(bs) < Len(headers))
      <4>1. pending' = "none" /\ blocks' = Blocks!Blocks(bs) BY <2>2, <3>2
      <4>2. ASSUME honest'
            PROVE  /\ Len(blocks') >= limit
                   /\ IsLine([i \in DOMAIN blocks' |-> blocks'[i].header], start_hash)
                   /\ \A i \in DOMAIN blocks' : ValidBody(blocks'[i].body, blocks'[i].header)
        <5>1. Len(bs) = Len(headers) BY <1>1, <2>3, <3>2, <4>2
        <5>2. \A i \in 1..Len(headers) : bs[i] = BodyOf[headers[i]] BY <2>3, <4>2, <5>1
        <5>3. PICK range : range = Blocks!Blocks(bs) OBVIOUS
        <5>4. /\ Len(range) >= limit
              /\ IsLine([i \in DOMAIN range |-> range[i].header], start_hash)
              /\ \A i \in DOMAIN range : ValidBody(range[i].body, range[i].header)
          BY <1>1, <5>2, <5>3, TakenIsRight
        <5> QED BY <4>1, <5>3, <5>4
      <4> QED BY <1>2, <4>1, <4>2 DEF Blocks!RangeIsRight, Blocks!IsLine, Blocks!ValidBody, IsLine, ValidBody
    <3> QED BY <3>1, <3>2
  <2> QED BY <1>1, <1>2, <1>3, <2>4, <2>5, <2>6 DEF RangeInv
<1> QED BY <1>4, <1>5 DEF Blocks!OnBodies

\* The invariant of the range future, with the block future beside it.
THEOREM FetchRangeInvariant == FuturesSpec => []RangeInv
<1>1. FuturesInit => RangeInv BY InitRange DEF FuturesInit
<1>2. RangeInv /\ [FuturesNext]_futvars => RangeInv'
  <2> SUFFICES ASSUME RangeInv, [FuturesNext]_futvars PROVE RangeInv' OBVIOUS
  <2>1. CASE UNCHANGED rangevars
    <3>1. (Blocks!RangeIsRight)'
      BY <2>1 DEF rangevars, RangeInv, Blocks!RangeIsRight, Blocks!IsLine, Blocks!ValidBody
    <3> QED BY <2>1, <3>1 DEF rangevars, RangeInv, BodiesInPlace, AskedIsMissing, IsLine
  <2>2. CASE Blocks!Retry
    <3>1. /\ pending = "delayed" /\ start_hash' = start_hash /\ limit' = limit /\ headers' = headers
          /\ bodies' = bodies /\ asked' = asked /\ blocks' = blocks /\ honest' = honest
      BY <2>2 DEF Blocks!Retry, Blocks!request
    <3>2. blocks = None BY <3>1 DEF RangeInv
    <3>3. (Blocks!RangeIsRight)' BY <3>1, <3>2 DEF Blocks!RangeIsRight
    <3> QED BY <3>1, <3>2, <3>3 DEF RangeInv, BodiesInPlace, AskedIsMissing, IsLine
  <2>3. CASE Blocks!Next BY <2>2, <2>3, OnHeadersOK, OnBodiesOK DEF Blocks!Next
  <2> QED BY <2>1, <2>3 DEF FuturesNext, futvars
<1> QED BY <1>1, <1>2, PTL DEF FuturesSpec, futvars

(***************************************************************************)
(* "A future that downloads full block range" (futs.rs:370): if no peer    *)
(* sent a body that was not asked for, the range is the one asked for and  *)
(* every header has its own body, however the bodies were cut into         *)
(* responses.                                                              *)
(***************************************************************************)
THEOREM FuturesRange == FuturesSpec => []RangeIsRight
<1>1. RangeInv => RangeIsRight BY DEF RangeInv, RangeIsRight
<1> QED BY <1>1, FetchRangeInvariant, PTL
=============================================================================
