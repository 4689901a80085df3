----------------------------- MODULE FetchBlock ------------------------------
(***************************************************************************)
(* FetchFullBlockFuture and FetchFullBlockWithAncestorsFuture of           *)
(* crates/engine/src/download/futs.rs, with the FetchHeadersRangeFuture    *)
(* the second one starts when the first is done.                           *)
(*                                                                         *)
(* The header and the body are requested at the same time, and their       *)
(* answers come in any order.  An answer may be wrong, empty or an error;  *)
(* the request is then made again after retry_delay.                       *)
(***************************************************************************)
EXTENDS FetchOps

CONSTANTS
    Targets,        \* the blocks a future may be started for
    Counts,         \* ancestor_count (256 in the engine), None for FetchFullBlockFuture
    MaxAnswer       \* bound on the length of a headers response

ASSUME FetchBlockAssumption == /\ Targets \subseteq Header
                               /\ Counts \subseteq (Nat \ {0}) \cup {None}
                               /\ MaxAnswer \in Nat

VARIABLES
    block_hash,             \* what the future was started for
    ancestor_count,
    header,                 \* the header that was accepted
    body,                   \* a body that waits for the header
    block,                  \* the full block, once both are there
    pending_header_request, \* "none", "delayed" by retry_delay or "sent"
    pending_body_request,
    ancestors_request,      \* `pending` of the headers range future
    got                     \* what the future yielded

requests == <<pending_header_request, pending_body_request, ancestors_request>>
fetchvars == <<block_hash, ancestor_count, header, body, block, requests, got>>

Init == /\ block_hash \in Targets /\ ancestor_count \in Counts
        /\ header = None /\ body = None /\ block = None
        /\ pending_header_request = "sent"
        /\ pending_body_request = "sent"
        /\ ancestors_request = "none"
        /\ got = None

-----------------------------------------------------------------------------
\* What the futures yield.
Yielded(h, b, ancestors) == [header |-> h, body |-> b, ancestors |-> ancestors]

(***************************************************************************)
(* The last part of poll: the header and the body are taken; a body that   *)
(* does not belong to the header is asked for again and the header kept.   *)
(* The block is yielded, or the download of the ancestors starts.          *)
(***************************************************************************)
Settle(h, b, request) ==
    \/ /\ h = None \/ b = None
       /\ header' = h /\ body' = b
       /\ pending_body_request' = request
       /\ UNCHANGED <<block, ancestors_request, got>>
    \/ /\ h # None /\ b # None
       /\ ~ValidBody(b, h)
       /\ header' = h /\ body' = None
       /\ pending_body_request' = "delayed"
       /\ UNCHANGED <<block, ancestors_request, got>>
    \/ /\ h # None /\ b # None
       /\ ValidBody(b, h)
       /\ header' = None /\ body' = None
       /\ block' = [header |-> h, body |-> b]
       /\ pending_body_request' = "none"
       /\ IF ancestor_count # None
            THEN ancestors_request' = "sent" /\ UNCHANGED got
            ELSE got' = Yielded(h, b, <<>>) /\ UNCHANGED ancestors_request

\* The header of a response, None when it is empty, of another block or an error.
OnHeaderResponse(answer) ==
    LET h == IF answer = block_hash THEN answer ELSE None
    IN  /\ pending_header_request = "sent"
        /\ pending_header_request' = IF h = None THEN "delayed" ELSE "none"
        /\ Settle(h, body, pending_body_request)
        /\ UNCHANGED <<block_hash, ancestor_count>>

\* The first body of a response, None when it is empty or an error.
OnBodyResponse(answer) ==
    LET b == IF answer = Failed THEN None ELSE answer
    IN  /\ pending_body_request = "sent"
        /\ Settle(header, b, IF b = None THEN "delayed" ELSE "none")
        /\ UNCHANGED <<block_hash, ancestor_count, pending_header_request>>

\* The headers range future, from the parent of the block.
OnAncestorsResponse(headers) ==
    /\ ancestors_request = "sent"
    /\ IF AcceptHeaders(headers, Parent[block.header], ancestor_count)
         THEN /\ got' = Yielded(block.header, block.body, headers)
              /\ ancestors_request' = "none"
         ELSE /\ ancestors_request' = "delayed"
              /\ UNCHANGED got
    /\ UNCHANGED <<block_hash, ancestor_count, header, body, block, pending_header_request,
                   pending_body_request>>

\* retry_delay is over: the request goes to the network again.
Retry == /\ \/ /\ pending_header_request = "delayed" /\ pending_header_request' = "sent"
               /\ UNCHANGED <<pending_body_request, ancestors_request>>
            \/ /\ pending_body_request = "delayed" /\ pending_body_request' = "sent"
               /\ UNCHANGED <<pending_header_request, ancestors_request>>
            \/ /\ ancestors_request = "delayed" /\ ancestors_request' = "sent"
               /\ UNCHANGED <<pending_header_request, pending_body_request>>
         /\ UNCHANGED <<block_hash, ancestor_count, header, body, block, got>>

-----------------------------------------------------------------------------
HeadersAnswers == {Failed} \cup UNION {[1..n -> Header] : n \in 0..MaxAnswer}

Next == \/ \E answer \in Header \cup {None, Failed} : OnHeaderResponse(answer)
        \/ \E answer \in Body \cup {None, Failed} : OnBodyResponse(answer)
        \/ \E headers \in HeadersAnswers : OnAncestorsResponse(headers)
        \/ Retry

(***************************************************************************)
(* The timer of a retry fires, and a request that is made again and again  *)
(* reaches a peer that has the data again and again (NetworkFetch shows    *)
(* when the rotation of connections brings that about).                    *)
(***************************************************************************)
Fairness ==
    /\ WF_fetchvars(Retry)
    /\ SF_fetchvars(OnHeaderResponse(block_hash))
    /\ SF_fetchvars(OnBodyResponse(BodyOf[block_hash]))
    /\ SF_fetchvars(OnAncestorsResponse(FirstFalling(Parent[block_hash], ancestor_count)))

-----------------------------------------------------------------------------
(***************************************************************************)
(* "A future that downloads full block and the headers of its ancestors"   *)
(* (futs.rs:281): it yields once, the block with its own body and an       *)
(* unbroken line of at least ancestor_count ancestors, nearest first, or,  *)
(* for FetchFullBlockFuture, the block.                                    *)
(***************************************************************************)
RightBlocks ==
    [q \in Targets \X Counts |->
        {y \in [header : {q[1]}, body : {BodyOf[q[1]]}, ancestors : Seq(Header)] :
            IF q[2] = None THEN y.ancestors = <<>>
            ELSE Len(y.ancestors) >= q[2] /\ IsLine(y.ancestors, Parent[q[1]])}]

Once == INSTANCE Fetch WITH Right <- RightBlocks, asked <- <<block_hash, ancestor_count>>
ImplementsFetch == Once!Spec

(***************************************************************************)
(* The future ends when peers that have the data keep answering            *)
(* (futs.rs:23-24 and 281), for a block with enough ancestors.             *)
(***************************************************************************)
Line(h) == IF Parent[h] \in Header THEN Falling[Parent[h]] ELSE <<>>

FetchCompletes == (ancestor_count = None \/ Len(Line(block_hash)) >= ancestor_count) => <>(got # None)
=============================================================================
