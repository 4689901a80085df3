----------------------------- MODULE FetchRange ------------------------------
(***************************************************************************)
(* FetchFullBlockRangeFuture of crates/engine/src/download/futs.rs: first  *)
(* the headers, then their bodies, as many as a response has at a time.    *)
(***************************************************************************)
EXTENDS FetchOps

CONSTANTS
    Starts,         \* the start_hash a future may be created with
    Limits,         \* the limit of its request
    MaxAnswer       \* bound on the length of a response

VARIABLES
    start_hash, limit,      \* request
    headers,                \* <<>> in the Headers state
    bodies,                 \* the bodies that were accepted
    asked,                  \* the hashes the pending bodies request names
    pending,                \* "delayed" by retry_delay, "sent", "none" at the end
    blocks,                 \* the blocks that were yielded
    honest                  \* history: no response had a body that was not asked for

request   == <<start_hash, limit>>
rangevars == <<request, headers, bodies, asked, pending, blocks, honest>>

Init == /\ start_hash \in Starts /\ limit \in Limits
        /\ headers = <<>> /\ bodies = <<>> /\ asked = <<>>
        /\ pending = "sent"
        /\ blocks = None
        /\ honest = TRUE

-----------------------------------------------------------------------------
\* The Headers state: FetchHeadersRangeFuture, then the first bodies request.
OnHeaders(response) ==
    /\ headers = <<>> /\ pending = "sent"
    /\ IF AcceptHeaders(response, start_hash, limit)
         THEN headers' = response /\ asked' = response /\ UNCHANGED pending
         ELSE pending' = "delayed" /\ UNCHANGED <<headers, asked>>
    /\ UNCHANGED <<request, bodies, blocks, honest>>

\* The hashes of the headers beyond the accepted bodies.
Missing(n) == SubSeq(headers, n + 1, Len(headers))

\* The k-th smallest index of a set of them.
Nth(S, k) == CHOOSE i \in S : Cardinality({j \in S : j <= i}) = k

(***************************************************************************)
(* The for loop over the headers that have no body yet: the n-th of them   *)
(* is compared with the n-th body of the response.  The `continue` after a *)
(* body that is not valid is the one of this loop, and goes on with the    *)
(* next header.                                                            *)
(***************************************************************************)
AcceptedBodies(response) ==
    LET missing == Missing(Len(bodies))
        valid   == {i \in DOMAIN missing \cap DOMAIN response : ValidBody(response[i], missing[i])}
    IN  [k \in 1..Cardinality(valid) |-> response[Nth(valid, k)]]

\* take_blocks: headers and bodies side by side.
Blocks(bs) == [i \in DOMAIN headers |-> [header |-> headers[i], body |-> bs[i]]]

\* Mutant: the accepted bodies are not kept between two responses.
OnBodiesForgets(response) ==
    LET bs == AcceptedBodies(response)
    IN  /\ headers # <<>> /\ pending = "sent"
        /\ response \notin {Failed, <<>>}
        /\ UNCHANGED <<bodies, honest>>
        /\ asked' = Missing(Len(bs))
        /\ IF Len(bs) < Len(headers) THEN UNCHANGED <<pending, blocks>>
                                     ELSE pending' = "none" /\ blocks' = Blocks(bs)
        /\ UNCHANGED <<request, headers>>

(***************************************************************************)
(* The Bodies state.  After an error or an empty response the request is   *)
(* made again after retry_delay; what is missing after the loop is asked   *)
(* for at once.                                                            *)
(***************************************************************************)
OnBodies(response) ==
    LET bs == bodies \o AcceptedBodies(response)
    IN  /\ headers # <<>> /\ pending = "sent"
        /\ \/ /\ response \in {Failed, <<>>}
              /\ pending' = "delayed"
              /\ asked' = Missing(Len(bodies))
              /\ UNCHANGED <<bodies, blocks, honest>>
           \/ /\ response \notin {Failed, <<>>}
              /\ bodies' = bs
              /\ asked' = Missing(Len(bs))
              /\ honest' = (honest /\ \A i \in DOMAIN response \cap DOMAIN asked :
                                          ValidBody(response[i], asked[i]))
              /\ IF Len(bs) < Len(headers)
                   THEN UNCHANGED <<pending, blocks>>
                   ELSE pending' = "none" /\ blocks' = Blocks(bs)
        /\ UNCHANGED <<request, headers>>

Retry == /\ pending = "delayed"
         /\ pending' = "sent"
         /\ UNCHANGED <<request, headers, bodies, asked, blocks, honest>>

-----------------------------------------------------------------------------
Sequences(S) == UNION {[1..n -> S] : n \in 0..MaxAnswer}

\* The first bodies of those a peer is asked for.
RightBodies(n) == [i \in 1..n |-> BodyOf[asked[i]]]

Next == \/ \E response \in Sequences(Header) \cup {Failed} : OnHeaders(response)
        \/ \E response \in Sequences(Body) \cup {Failed} : OnBodies(response)
        \/ Retry

\* As for FetchBlock; a peer that has the bodies sends at least one of them.
Fairness == /\ WF_rangevars(Retry)
            /\ SF_rangevars(OnHeaders(FirstFalling(start_hash, limit)))
            /\ SF_rangevars(\E n \in 1..Len(asked) : OnBodies(RightBodies(n)))

-----------------------------------------------------------------------------
(***************************************************************************)
(* "A future that downloads full block range" (futs.rs:370): the range it  *)
(* yields is the one that was asked for, every header with its own body,   *)
(* however the responses cut the list of bodies into pieces, as long as    *)
(* peers send nothing but bodies that were asked for.  After a body that   *)
(* is not valid (futs.rs:486) the next ones go to the wrong headers.       *)
(***************************************************************************)
RangeIsRight ==
    blocks # None /\ honest =>
        /\ Len(blocks) >= limit
        /\ IsLine([i \in DOMAIN blocks |-> blocks[i].header], start_hash)
        /\ \A i \in DOMAIN blocks : ValidBody(blocks[i].body, blocks[i].header)

(***************************************************************************)
(* The future ends when peers that have the range keep answering, for a    *)
(* range that exists, whatever other peers send (futs.rs:449-507).         *)
(***************************************************************************)
RangeCompletes == Len(Falling[start_hash]) >= limit => <>(blocks # None)
=============================================================================
