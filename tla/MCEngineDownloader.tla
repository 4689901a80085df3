------------------------- MODULE MCEngineDownloader --------------------------
(* An instance of EngineDownloader for TLC. *)
EXTENDS EngineDownloader

\* Three requests of a kind, so that the vector is reordered under the index.
ThreeBlocks == [k \in Kind |-> CASE k = "block" -> 1..3 [] k = "witness" -> {1} [] OTHER -> {}]
=============================================================================
