---------------------------- MODULE MCBlockBuffer ----------------------------
(***************************************************************************)
(* A small block tree for the block buffer: a chain b0 - b1 - b2 with a    *)
(* fork block f2 on b1, so that blocks share a number and a parent, and a  *)
(* chain of three blocks can wait in the buffer.                           *)
(***************************************************************************)
EXTENDS BufferWalk

CONSTANTS b0, b1, b2, f2

MCHash == {b0, b1, b2, f2}

MCParent == [h \in MCHash |-> CASE h = b0 -> Zero [] h = b1 -> b0 [] h \in {b2, f2} -> b1]

MCNumber == [h \in MCHash |-> CASE h = b0 -> 0 [] h = b1 -> 1 [] h \in {b2, f2} -> 2]
=============================================================================
