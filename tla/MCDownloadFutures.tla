-------------------------- MODULE MCDownloadFutures --------------------------
(* The futures for TLC: a chain h0 .. h3 and a fork x3 on h2. *)
EXTENDS DownloadFutures

CONSTANTS h0, h1, h2, h3, x3, zero, plain, empty

MCHeader == {h0, h1, h2, h3, x3}

MCParent == [h \in MCHeader |-> CASE h = h0 -> zero [] h = h1 -> h0 [] h = h2 -> h1
                                  [] h \in {h3, x3} -> h2]

\* Blocks without transactions have the same body.
MCBodyOf == [h \in MCHeader |-> IF h \in {h1, h3} THEN plain ELSE empty]
=============================================================================
