-------------------------- MODULE MCConsensusEngine --------------------------
(***************************************************************************)
(* Small instances of the consensus engine.  A cfg picks a block tree (a   *)
(* chain b0 - b1 - b2 - b3 - b4 cut short, with a fork block f2 on b1, a   *)
(* branch g1 - g2 on b0, or neither), the verdicts, the bytecodes and the  *)
(* forkchoice states.                                                      *)
(***************************************************************************)
EXTENDS ConsensusEngine

CONSTANTS b0, b1, b2, b3, b4, f2, g1, g2, k1

Chain2        == {b0, b1, b2}
ChainAndFork2 == Chain2 \cup {f2}
ChainAndFork3 == Chain2 \cup {b3, f2}
TwoBranches   == Chain2 \cup {b3, b4, g1, g2}

MCParent == [h \in Hash |-> CASE h = b0 -> Zero [] h \in {b1, g1} -> b0 [] h \in {b2, f2} -> b1
                              [] h = b3 -> b2 [] h = b4 -> b3 [] h = g2 -> g1]

MCNumber == [h \in Hash |-> CASE h = b0 -> 0 [] h \in {b1, g1} -> 1 [] h \in {b2, f2, g2} -> 2
                              [] h = b3 -> 3 [] h = b4 -> 4]

AllGood       == [h \in Hash |-> "valid"]
BadHeaderFork == [AllGood EXCEPT ![b3] = "header", ![f2] = "sender"]
BadBranches   == [AllGood EXCEPT ![b2] = "exec", ![b3] = "block", ![f2] = "sender"]

\* Witnesses with and without a leaf that names k1, and nodes that do not make a trie.
Revealing(codes) == [state |-> "full", codes |-> codes]
Plain            == {Revealing({})}
Honest           == {Revealing({}), Revealing({k1})}
HonestOrNot      == Honest \cup {[state |-> "corrupt", codes |-> {}]}

NoCodes   == [h \in Hash |-> {}]
CodeIn12  == [h \in Hash |-> IF h \in {b1, b2} THEN {k1} ELSE {}]

FCU(head, safe, finalized) == [head |-> head, safe |-> safe, finalized |-> finalized]

Head2            == {FCU(b2, Zero, Zero)}
Head3OrZero      == {FCU(b3, Zero, Zero), FCU(Zero, Zero, Zero)}
Head3OrFinalFork == {FCU(b3, Zero, Zero), FCU(f2, Zero, f2)}
HeadOrFinal      == {FCU(h, Zero, Zero) : h \in {b0, g2}} \cup {FCU(b3, b2, b2), FCU(b4, Zero, b4)}

\* Every instance has a consensus client that keeps its side.
ASSUME TrustedInstance == TrustedForkchoice
=============================================================================
