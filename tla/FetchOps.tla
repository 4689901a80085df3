------------------------------ MODULE FetchOps -------------------------------
(***************************************************************************)
(* The checks the download futures (crates/engine/src/download/futs.rs)    *)
(* make on what peers answer.  A header is known by its hash; a body       *)
(* belongs to a header when the roots in the header commit to it, so that  *)
(* two blocks may have the same body.                                      *)
(***************************************************************************)
EXTENDS Naturals, Sequences, FiniteSetsExt

CONSTANTS
    Header,     \* headers, by hash
    Parent,     \* header.parent_hash
    Body,       \* block bodies
    BodyOf,     \* the body a header commits to
    None,       \* an absent Option
    Failed      \* a request that ends in a PeerRequestError

ASSUME FetchAssumption == /\ \A h \in Header : Parent[h] # h
                          /\ BodyOf \in [Header -> Body]
                          /\ {None, Failed} \cap (Header \cup Body) = {}

\* The header and its ancestors, the order of a headers response.
Falling[h \in Header] == IF Parent[h] \in Header THEN <<h>> \o Falling[Parent[h]] ELSE <<h>>

FirstFalling(start, n) ==
    IF start \in Header THEN SubSeq(Falling[start], 1, Min({n, Len(Falling[start])})) ELSE <<>>

\* consensus.validate_header_range on the reversed response: every header
\* is validated against the one before it.  External.
ValidHeaderRange(headers) ==
    \A i \in DOMAIN headers : i > 1 => headers[i] = Parent[headers[i - 1]]

\* The start and its ancestors one after the other, as far as the headers go.
IsLine(headers, start) ==
    \A i \in DOMAIN headers : headers[i] = IF i = 1 THEN start ELSE Parent[headers[i - 1]]

\* Mutant: a response that is too short is accepted.
AcceptShortHeaders(headers, start, limit) ==
    /\ headers # Failed
    /\ headers # <<>> /\ headers[1] = start
    /\ ValidHeaderRange(headers)

\* Mutant: the first header is not compared with the one that was asked for.
AcceptAnyStart(headers, start, limit) ==
    /\ headers # Failed
    /\ Len(headers) >= limit
    /\ ValidHeaderRange(headers)

\* FetchHeadersRangeFuture::on_response
AcceptHeaders(headers, start, limit) ==
    /\ headers # Failed
    /\ Len(headers) >= limit
    /\ headers[1] = start
    /\ ValidHeaderRange(headers)

\* consensus.validate_body_against_header.  External.
ValidBody(body, header) == body = BodyOf[header]
=============================================================================
