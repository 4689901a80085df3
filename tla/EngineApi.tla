------------------------------ MODULE EngineApi ------------------------------
(***************************************************************************)
(* What the consensus client may rely on when it drives the node: calls    *)
(* are answered one at a time and once, blocks become valid one by one on  *)
(* top of a valid parent or as a finalized block, the head is always a     *)
(* valid block, and the answers say the truth about the block they name.   *)
(* After a restart the node knows the genesis block only.                  *)
(***************************************************************************)
CONSTANTS Hash, Genesis, None, Parent,
          GoodBlocks    \* the blocks that are valid with all their ancestors

VARIABLES valid,        \* blocks the node holds as valid
          head,
          waiting,      \* block of the newPayload call that is not answered yet
          reply         \* the answer of the last step, status "none" if it gave none

Silent == reply.status = "none"

Init == valid = {Genesis} /\ head = Genesis /\ waiting = None /\ Silent

\* How the block tree may change in one step.
Execute == \E h \in GoodBlocks : /\ Parent[h] \in valid
                                 /\ valid' = valid \cup {h}
                                 /\ head' \in {head, h}

Install == \E h \in GoodBlocks : valid' = valid \cup {h} /\ head' = h

MoveHead == /\ head' \in valid'
            /\ valid' \subseteq valid

\* The calls: no answer, a call that has to wait, the answer of a call.
NoAnswer == Silent' /\ waiting' = waiting

Call == Silent' /\ waiting = None /\ waiting' \in Hash

AnswerCall == /\ ~Silent'
              /\ waiting' = None
              /\ waiting = None \/ (reply'.call = "newPayload" /\ reply'.hash = waiting)
              /\ reply'.status = "VALID" => reply'.hash \in valid' \cap GoodBlocks
              /\ reply'.status = "INVALID" /\ reply'.call = "newPayload" =>
                     reply'.hash \notin GoodBlocks

Restart == /\ valid' = {Genesis} /\ head' = Genesis
           /\ waiting' = None /\ Silent'

Next == \/ (Execute \/ Install \/ MoveHead) /\ (NoAnswer \/ Call \/ AnswerCall)
        \/ Restart

Spec == Init /\ [][Next]_<<valid, head, waiting, reply>>
=============================================================================
