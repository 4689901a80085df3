----------------------------- MODULE MCStateRoot -----------------------------
(* An instance of StateRoot for TLC: two accounts with any contents. *)
EXTENDS StateRoot

CONSTANTS a1, a2

TwoAccounts == {a1, a2}
=============================================================================
