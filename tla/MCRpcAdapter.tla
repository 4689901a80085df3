---------------------------- MODULE MCRpcAdapter -----------------------------
(* Instances of RpcAdapter for TLC: a chain b0 .. b3 and a fork f2 on b1. *)
EXTENDS RpcAdapter

CONSTANTS b0, b1, b2, b3, f2, k1, k2

MCHash   == {b0, b1, b2, b3, f2}
MCParent == [h \in MCHash |-> CASE h = b0 -> Zero [] h = b1 -> b0 [] h \in {b2, f2} -> b1
                                [] h = b3 -> b2]
MCNumber == [h \in MCHash |-> CASE h = b0 -> 0 [] h = b1 -> 1 [] h \in {b2, f2} -> 2
                                [] h = b3 -> 3]
MCCodes  == [h \in MCHash |-> CASE h = b2 -> {k1} [] h = f2 -> {k2} [] OTHER -> {}]

Headers(start, n) == [kind |-> "headers", blocks |-> <<start>>, limit |-> n]
Bodies(hashes)    == [kind |-> "bodies", blocks |-> hashes]
Bytecode(k)       == [kind |-> "code", code |-> k]
WitnessOf(h)      == [kind |-> "witness", blocks |-> <<h>>]

\* Requests that are under way at the same time.
MCWorkloads == {{Headers(b3, 5), WitnessOf(f2)}, {Headers(b3, 5), Bodies(<<b2, f2, b1>>)},
                {WitnessOf(f2), Bytecode(k1), Bytecode(k2)}}
=============================================================================
