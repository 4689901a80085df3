------------------------------ MODULE Downloads ------------------------------
(***************************************************************************)
(* What the engine sees of its downloader: a set of requests in flight and *)
(* a queue of outcomes.  A request that is made while it is in flight is   *)
(* not made twice, a request leaves the set when its outcome is queued,    *)
(* and the outcomes are queued kind by kind and handled one at a time.     *)
(***************************************************************************)
EXTENDS Naturals, Sequences

CONSTANT Rank(_)    \* the order in which the kinds are polled

VARIABLES inflight, outcomes

Init == inflight = {} /\ outcomes = <<>>

Ask == inflight \subseteq inflight' /\ UNCHANGED outcomes

Ranked(s) == \A i, j \in DOMAIN s : i < j => Rank(s[i]) <= Rank(s[j])

Complete ==
    LET done == inflight \ inflight'
        new  == SubSeq(outcomes', Len(outcomes) + 1, Len(outcomes'))
    IN  /\ inflight' \subseteq inflight
        /\ Len(outcomes) <= Len(outcomes')
        /\ SubSeq(outcomes', 1, Len(outcomes)) = outcomes
        /\ {new[i] : i \in DOMAIN new} = done
        /\ \A i, j \in DOMAIN new : new[i] = new[j] => i = j
        /\ Ranked(outcomes')

\* The handler of an outcome may make requests.
Handle == outcomes # <<>> /\ outcomes' = Tail(outcomes) /\ inflight \subseteq inflight'

Next == Ask \/ Complete \/ Handle

Spec == Init /\ [][Next]_<<inflight, outcomes>>
=============================================================================
