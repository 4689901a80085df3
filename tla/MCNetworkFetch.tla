--------------------------- MODULE MCNetworkFetch ----------------------------
(* Instances of NetworkFetch for TLC. *)
EXTENDS NetworkFetch

CONSTANTS honest, stale, right, wrong, empty

\* One peer has the data, the other one has not, or has other data.
OneHonest == [c \in Conn |-> IF c = honest THEN {right} ELSE {wrong, empty}]
=============================================================================
