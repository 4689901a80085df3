---------------------------- MODULE NetworkFetch -----------------------------
(***************************************************************************)
(* FetchBytecodeFuture and FetchWitnessFuture of                           *)
(* crates/engine/src/download/futs.rs on top of the network manager: a     *)
(* future has one request under way, and makes it again after retry_delay  *)
(* when the answer is an error or is not accepted.                         *)
(***************************************************************************)
EXTENDS NetworkManager

CONSTANTS
    Code,       \* the requests of bytecode futures; the others are for witnesses
    Right,      \* the answer of a peer that has the data
    Empty       \* an answer without data; other answers are wrong data

ASSUME FetchesAssumption == Code \subseteq Request /\ Right # Empty /\ {Right, Empty} \subseteq Answer

VARIABLES
    future,     \* "new", "pending", "delayed" or "done"
    got         \* what each future yielded

vars == <<netvars, future, got>>

FetchInit == /\ Init
             /\ future = [r \in Request |-> "new"]
             /\ got = [r \in Request |-> None]

\* The future is created, or its delay is over: the request is made.
Ask(r) == /\ future[r] \in {"new", "delayed"}
          /\ Send(r)
          /\ future' = [future EXCEPT ![r] = "pending"]
          /\ UNCHANGED got

(***************************************************************************)
(* A bytecode has to have the hash that was asked for; a witness only has  *)
(* to be there, its entries are not checked yet ("TODO").                  *)
(***************************************************************************)
Accepted(r, answer) == IF r \in Code THEN answer = Right
                                     ELSE answer \notin {"dropped", Empty}

\* The poll of the future finds the answer, or the error of a dropped request.
OnResponse(r) ==
    /\ future[r] = "pending" /\ response[r] # "waiting"
    /\ IF Accepted(r, response[r])
         THEN /\ future' = [future EXCEPT ![r] = "done"]
              /\ got' = [got EXCEPT ![r] = response[r]]
         ELSE future' = [future EXCEPT ![r] = "delayed"] /\ UNCHANGED got
    /\ UNCHANGED netvars

FetchNext == \/ \E r \in Request : Ask(r) \/ OnResponse(r)
             \/ (Manager \/ Peers) /\ UNCHANGED <<future, got>>

(***************************************************************************)
(* Weak fairness only: the executor polls what was woken, timers fire, and *)
(* peers answer with what they have.  That a request which is made again   *)
(* reaches a peer that can answer it is left to the rotation.              *)
(***************************************************************************)
FetchSpec ==
    /\ FetchInit /\ [][FetchNext]_vars
    /\ WF_vars(Manager /\ UNCHANGED <<future, got>>)
    /\ \A r \in Request : /\ WF_vars(future[r] = "delayed" /\ Ask(r))
                          /\ WF_vars(OnResponse(r))
    /\ \A c \in Conn, r \in Request :
           WF_vars((\E v \in Answer : Reply(c, r, v)) /\ UNCHANGED <<future, got>>)

-----------------------------------------------------------------------------
(***************************************************************************)
(* Every future that was started ends, although some peers only answer     *)
(* with what is not accepted and connections come and go, as long as one   *)
(* connection to a peer that has the data stays open: the rotation of      *)
(* on_peer_request (manager.rs:45-61) and the retries (futs.rs:575 and     *)
(* 660) bring each request there.  A bytecode future ends with the data    *)
(* that has the hash asked for, which on_download_outcome stores without   *)
(* looking again.  This is for a manager that is told of new connections   *)
(* and of nothing else.                                                    *)
(***************************************************************************)
ServedForever == \E c \in Conn : Serves[c] = {Right} /\ <>[](c \in open)

FetchesComplete ==
    ServedForever /\ [](Other \notin Range(protocol_events)) =>
        \A r \in Request : future[r] # "new" ~> future[r] = "done" /\ (r \in Code => got[r] = Right)

(***************************************************************************)
(* "Network manager for forwarding requests to peer connections."          *)
(* (manager.rs:21), whatever events the protocol reports: a request that   *)
(* waits is forwarded to the connection that stays open.                   *)
(***************************************************************************)
RequestsAreForwarded ==
    ServedForever =>
        \A r \in Request : r \in Range(pending_requests) ~> r \notin Range(pending_requests)
=============================================================================
