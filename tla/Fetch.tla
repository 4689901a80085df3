-------------------------------- MODULE Fetch --------------------------------
(***************************************************************************)
(* What the engine relies on when it starts one of the futures of          *)
(* crates/engine/src/download/futs.rs: whatever the peers answer, the      *)
(* future yields at most once, and what it yields is the data it was       *)
(* started for.                                                            *)
(***************************************************************************)
CONSTANTS Right,    \* for each request the results that are what it asks for
          None

VARIABLES asked,    \* what the future was started for
          got       \* what it has yielded, None before that

Init == asked \in DOMAIN Right /\ got = None

Yield == got = None /\ got' \in Right[asked] /\ UNCHANGED asked

Spec == Init /\ [][Yield]_<<asked, got>>
=============================================================================
