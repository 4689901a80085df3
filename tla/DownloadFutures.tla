--------------------------- MODULE DownloadFutures ---------------------------
(***************************************************************************)
(* The futures of crates/engine/src/download/futs.rs that fetch blocks,    *)
(* polled side by side: one for a block, with or without its ancestors     *)
(* (FetchBlock), and one for a range of blocks (FetchRange).  They share   *)
(* no state, and the answers to the two come in any order.                 *)
(***************************************************************************)
EXTENDS FetchBlock

CONSTANTS Starts, Limits    \* of FetchRange

ASSUME FetchRangeAssumption == /\ Starts \subseteq Header
                               /\ Limits \subseteq Nat \ {0}

VARIABLES start_hash, limit, headers, bodies, asked, pending, blocks, honest

rangevars == <<start_hash, limit, headers, bodies, asked, pending, blocks, honest>>

Blocks == INSTANCE FetchRange

FuturesInit == Init /\ Blocks!Init

FuturesNext == \/ Next /\ UNCHANGED rangevars
               \/ Blocks!Next /\ UNCHANGED fetchvars

FuturesSpec == /\ FuturesInit /\ [][FuturesNext]_<<fetchvars, rangevars>>
               /\ Fairness /\ Blocks!Fairness

-----------------------------------------------------------------------------
\* The range it yields is the one asked for, if no peer sent a wrong body (futs.rs:370).
RangeIsRight == Blocks!RangeIsRight

(***************************************************************************)
(* Both futures end when peers that have the data keep answering, whatever *)
(* other peers send and in whatever order header, bodies and ancestors     *)
(* come in: no path through the polls drops a part without asking for it   *)
(* again (futs.rs:138, 149, 163, 449-507).                                 *)
(***************************************************************************)
FuturesComplete == FetchCompletes /\ Blocks!RangeCompletes
=============================================================================
