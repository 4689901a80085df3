------------------------------ MODULE StateRoot ------------------------------
(***************************************************************************)
(* crates/engine/src/tree/root.rs: the state root after a block, computed  *)
(* from the part of the state that a witness revealed and the changes of   *)
(* the block.  Storage tries are updated by parallel tasks, which send     *)
(* their results through a channel; then the accounts are updated.         *)
(*                                                                         *)
(* A root stands for what it commits to: the storage root of an account is *)
(* its storage, the state root the accounts.  The witness holds what the   *)
(* block reads; an operation on a storage trie or on the account trie may  *)
(* need other nodes (to remove a leaf, for instance) and fail, and so may  *)
(* the decoding of an account.                                             *)
(***************************************************************************)
EXTENDS Naturals, Sequences, FiniteSets

CONSTANTS
    Address, Slot, Value,
    None,
    Faults          \* "blinded": a trie operation or a decoding may fail

Storage == [Slot -> Value]
EMPTY_ROOT_HASH == [s \in Slot |-> 0]

\* An account's balance, nonce and code are one value, 0 for an empty account.
Account == [info : Value, storage : Storage]
Leaf(account) == IF account.info = 0 /\ account.storage = EMPTY_ROOT_HASH THEN None ELSE account

(***************************************************************************)
(* External: HashedPostState::from_bundle_state.  An account that was      *)
(* touched has its new info, or None when it is gone, and the new values   *)
(* of the slots that were written; `wiped` says it was destroyed first.    *)
(***************************************************************************)
Change == [info  : Value \cup {None},
           wiped : BOOLEAN,
           slots : [Slot -> Value \cup {None}]]

ASSUME StateAssumption == /\ Value \subseteq Nat /\ 0 \in Value
                          /\ IsFiniteSet(Address)
                          /\ None \notin Value \cup Storage \cup Account \cup Change
                          /\ Faults \subseteq {"blinded"}

Written(c) == {s \in Slot : c.slots[s] # None}
HasStorage(c) == c.wiped \/ Written(c) # {}

\* What an account is after the block.
Post(account, c) ==
    [info    |-> IF c.info = None THEN 0 ELSE c.info,
     storage |-> [s \in Slot |-> CASE s \in Written(c)              -> c.slots[s]
                                   [] s \notin Written(c) /\ c.wiped -> 0
                                   [] OTHER                          -> account.storage[s]]]

VARIABLES
    pre,            \* the state before the block
    state,          \* the changes of the block, None for an account that was not touched
    storage_tries,  \* the storage tries in the sparse trie, None if not there
    leaves,         \* the account leaves of the sparse trie
    tasks,          \* what has become of the storages: "queued", "taken", "sent"
    held,           \* the storage trie a task holds
    channel,        \* storage_tx to storage_rx
    accounts,       \* the accounts still to be updated
    phase           \* "storages", "results", "accounts", "done", "failed"

input == <<pre, state>>
vars == <<input, storage_tries, leaves, tasks, held, channel, accounts, phase>>

Touched  == {a \in Address : state[a] # None}
Storages == {a \in Touched : HasStorage(state[a])}
Stored   == {a \in Address : pre[a].storage # EMPTY_ROOT_HASH}

(***************************************************************************)
(* A complete witness reveals every storage with contents that the block   *)
(* reads or writes, and perhaps others; the storage of an account that was *)
(* destroyed need not be read.                                             *)
(***************************************************************************)
Init ==
    /\ pre \in [Address -> Account]
    /\ state \in [Address -> Change \cup {None}]
    /\ \A a \in Touched : state[a].info = None =>
           /\ state[a].wiped \/ a \notin Stored
           /\ \A s \in Written(state[a]) : state[a].slots[s] = 0
    /\ \E revealed \in SUBSET Stored :
           /\ {a \in Storages \cap Stored : ~state[a].wiped} \subseteq revealed
           /\ storage_tries = [a \in Address |-> IF a \in revealed THEN pre[a].storage ELSE None]
    /\ leaves = [a \in Address |-> Leaf(pre[a])]
    /\ tasks = [a \in Storages |-> "queued"]
    /\ held = [a \in Storages |-> EMPTY_ROOT_HASH]
    /\ channel = <<>>
    /\ accounts = Touched
    /\ phase = "storages"

-----------------------------------------------------------------------------
\* A worker gets the next storage, with its trie: take_storage_trie or an empty one.
Take(a) ==
    /\ phase = "storages"
    /\ tasks[a] = "queued"
    /\ tasks' = [tasks EXCEPT ![a] = "taken"]
    /\ held' = [held EXCEPT ![a] = IF storage_tries[a] = None THEN @ ELSE storage_tries[a]]
    /\ storage_tries' = [storage_tries EXCEPT ![a] = None]
    /\ UNCHANGED <<input, leaves, channel, accounts, phase>>

\* wipe, then remove_leaf for zero and update_leaf for other values.
UpdatedStorage(trie, c) ==
    LET wiped == IF c.wiped THEN EMPTY_ROOT_HASH ELSE trie
    IN  [s \in Slot |-> IF s \in Written(c) THEN c.slots[s] ELSE wiped[s]]

\* The task updates the trie and sends it, or sends the error of a trie operation.
Send(a) ==
    /\ phase = "storages"
    /\ tasks[a] = "taken"
    /\ tasks' = [tasks EXCEPT ![a] = "sent"]
    /\ \/ channel' = Append(channel, [address |-> a, trie |-> UpdatedStorage(held[a], state[a])])
       \/ /\ "blinded" \in Faults
          /\ channel' = Append(channel, [address |-> a, trie |-> None])
    /\ UNCHANGED <<input, storage_tries, leaves, held, accounts, phase>>

\* for_each_init returns when every task has sent; storage_tx is dropped.
Join ==
    /\ phase = "storages"
    /\ \A a \in Storages : tasks[a] = "sent"
    /\ phase' = "results"
    /\ UNCHANGED <<input, storage_tries, leaves, tasks, held, channel, accounts>>

\* Mutant: storage_tx is not dropped, and the loop waits for more.
ReceiveWaits ==
    /\ phase = "results"
    /\ channel # <<>> /\ Head(channel).trie # None
    /\ storage_tries' = [storage_tries EXCEPT ![Head(channel).address] = Head(channel).trie]
    /\ channel' = Tail(channel)
    /\ UNCHANGED <<input, leaves, tasks, held, accounts, phase>>

\* The loop over storage_rx: an error ends the function, an empty channel the loop.
Receive ==
    /\ phase = "results"
    /\ \/ /\ channel # <<>> /\ Head(channel).trie # None
          /\ storage_tries' = [storage_tries EXCEPT ![Head(channel).address] = Head(channel).trie]
          /\ channel' = Tail(channel)
          /\ UNCHANGED phase
       \/ /\ channel # <<>> /\ Head(channel).trie = None
          /\ phase' = "failed"
          /\ UNCHANGED <<storage_tries, channel>>
       \/ /\ channel = <<>>
          /\ phase' = "accounts"
          /\ UNCHANGED <<storage_tries, channel>>
    /\ UNCHANGED <<input, leaves, tasks, held, accounts>>

\* Mutant: a storage that is not revealed is taken to be empty.
StorageRootRevealed(a) == IF storage_tries[a] # None THEN storage_tries[a] ELSE EMPTY_ROOT_HASH

StorageRoot(a) == IF storage_tries[a] # None THEN storage_tries[a]
                  ELSE IF leaves[a] # None THEN leaves[a].storage
                  ELSE EMPTY_ROOT_HASH

(***************************************************************************)
(* One round of the loop over the accounts, whose order is that of their   *)
(* hashes.  The old leaf that does not decode, and remove_account_leaf or  *)
(* update_account_leaf that meets a blinded node, end the function.        *)
(***************************************************************************)
UpdateAccount(a) ==
    LET info == IF state[a].info = None THEN 0 ELSE state[a].info
    IN  /\ phase = "accounts"
        /\ a \in accounts
        /\ \/ /\ leaves' = [leaves EXCEPT ![a] =
                                IF info = 0 /\ StorageRoot(a) = EMPTY_ROOT_HASH
                                  THEN None
                                  ELSE [info |-> info, storage |-> StorageRoot(a)]]
              /\ accounts' = accounts \ {a}
              /\ UNCHANGED phase
           \/ /\ "blinded" \in Faults
              /\ phase' = "failed"
              /\ UNCHANGED <<leaves, accounts>>
        /\ UNCHANGED <<input, storage_tries, tasks, held, channel>>

\* trie.root(), or its error
Root ==
    /\ phase = "accounts" /\ accounts = {}
    /\ \/ phase' = "done"
       \/ "blinded" \in Faults /\ phase' = "failed"
    /\ UNCHANGED <<input, storage_tries, leaves, tasks, held, channel, accounts>>

Next == \/ \E a \in Storages : Take(a) \/ Send(a)
        \/ Join \/ Receive
        \/ \E a \in Touched : UpdateAccount(a)
        \/ Root

Spec == Init /\ [][Next]_vars

\* Fairness: the thread that executes the block and the workers of rayon run.
FairSpec == Spec /\ WF_vars(Next)

-----------------------------------------------------------------------------
(***************************************************************************)
(* The root is right (root.rs:12-82): whichever tries the witness reveals  *)
(* beyond what is needed, in whatever order the tasks take the tries and   *)
(* their results arrive, the accounts committed to are those of the state  *)
(* after the block: an emptied account is gone, a destroyed one has lost   *)
(* its storage, and one whose storage nobody touched still has it.         *)
(***************************************************************************)
StateRootIsRight ==
    phase = "done" =>
        leaves = [a \in Address |-> IF a \in Touched THEN Leaf(Post(pre[a], state[a]))
                                                     ELSE Leaf(pre[a])]

(***************************************************************************)
(* The function returns, with a root or an error (root.rs:50-81): the loop *)
(* over storage_rx does not wait for more results than the tasks send,     *)
(* and once a task has sent an error, wherever it stands among the other   *)
(* results, the function ends with an error and not with a root.           *)
(***************************************************************************)
RootComputed ==
    /\ <>(phase \in {"done", "failed"})
    /\ (\E i \in DOMAIN channel : channel[i].trie = None) ~> phase = "failed"
=============================================================================
