--------------------------- MODULE StateRootProofs ---------------------------
(***************************************************************************)
(* The state root is right for every set of accounts, slots and values,    *)
(* for every change of the block and every choice of revealed tries, and   *)
(* in whatever order the parallel tasks take and return the storage tries. *)
(*                                                                         *)
(* RootInv says where the trie of every touched storage is: still in the   *)
(* sparse trie, in the hands of a task, in the channel, or back and        *)
(* updated; and that the leaves are those of the accounts done so far.     *)
(***************************************************************************)
EXTENDS StateRoot, SequenceTheorems, TLAPS

\* The storage of a after the block.
NewStorage(a) == UpdatedStorage(pre[a].storage, state[a])

\* The trie that a task will find for a storage that it did not take yet.
QueuedOK(a) == /\ held[a] = EMPTY_ROOT_HASH
               /\ storage_tries[a] \in {None, pre[a].storage}
               /\ state[a].wiped \/ storage_tries[a] = pre[a].storage \/ pre[a].storage = EMPTY_ROOT_HASH

\* The trie that a task has taken out and updates.
TakenOK(a) == /\ storage_tries[a] = None
              /\ state[a].wiped \/ held[a] = pre[a].storage

\* The result of the task is back, or in the channel.
SentOK(a) == storage_tries[a] = NewStorage(a) \/ \E i \in 1..Len(channel) : channel[i].address = a

\* The leaves of the account trie: updated where the account was handled.
Leaves == [a \in Address |-> IF a \in Touched \ accounts THEN Leaf(Post(pre[a], state[a]))
                                                         ELSE Leaf(pre[a])]

\* What the tasks send back.
Message == [address : Address, trie : Storage \cup {None}]

\* The types of the tries, the tasks and the channel.
RootTypeOK == /\ pre \in [Address -> Account]
              /\ state \in [Address -> Change \cup {None}]
              /\ storage_tries \in [Address -> Storage \cup {None}]
              /\ tasks \in [Storages -> {"queued", "taken", "sent"}]
              /\ held \in [Storages -> Storage]
              /\ channel \in Seq(Message)
              /\ accounts \subseteq Touched
              /\ phase \in {"storages", "results", "accounts", "done", "failed"}

\* The inductive invariant.
RootInv ==
    /\ RootTypeOK
    /\ \A a \in Address \ Storages : storage_tries[a] \in {None, pre[a].storage}
    /\ \A a \in Storages : /\ tasks[a] = "queued" => QueuedOK(a)
                           /\ tasks[a] = "taken" => TakenOK(a)
                           /\ tasks[a] = "sent" => SentOK(a)
    /\ \A i \in 1..Len(channel) : /\ channel[i].address \in Storages
                                  /\ channel[i].trie \in {None, NewStorage(channel[i].address)}
    /\ phase # "storages" => \A a \in Storages : tasks[a] = "sent"
    /\ phase \in {"accounts", "done"} => \A a \in Storages : storage_tries[a] = NewStorage(a)
    /\ leaves = Leaves
    /\ phase = "done" => accounts = {}

-----------------------------------------------------------------------------
\* The empty storage is a storage, and no storage is an absent trie.
LEMMA StorageFacts == EMPTY_ROOT_HASH \in Storage /\ None \notin Storage
BY StateAssumption DEF EMPTY_ROOT_HASH, Storage

\* Updating a storage trie gives a storage.
LEMMA UpdatedStorageType ==
    ASSUME NEW trie \in Storage, NEW c \in Change PROVE UpdatedStorage(trie, c) \in Storage
<1>1. \A s \in Written(c) : c.slots[s] \in Value BY DEF Written, Change
<1> QED BY <1>1, StorageFacts DEF UpdatedStorage, Storage

\* The wipe and the leaf updates give the storage after the block.
LEMMA UpdatedStorageIsPost ==
    ASSUME NEW account \in Account, NEW c \in Change
    PROVE  UpdatedStorage(account.storage, c) = Post(account, c).storage
<1>1. \A s \in Slot : EMPTY_ROOT_HASH[s] = 0 BY DEF EMPTY_ROOT_HASH
<1>2. Post(account, c).storage =
         [s \in Slot |-> IF s \in Written(c) THEN c.slots[s]
                         ELSE IF c.wiped THEN 0 ELSE account.storage[s]]
  BY DEF Post
<1> QED BY <1>1, <1>2 DEF UpdatedStorage

\* Only the trie of a storage that is not wiped matters to the update.
LEMMA UpdatedStorageWiped ==
    ASSUME NEW c \in Change, c.wiped, NEW t, NEW u
    PROVE  UpdatedStorage(t, c) = UpdatedStorage(u, c)
BY DEF UpdatedStorage

\* An account whose storage the block did not touch keeps it.
LEMMA UntouchedStorage ==
    ASSUME NEW account \in Account, NEW c \in Change, ~HasStorage(c)
    PROVE  Post(account, c).storage = account.storage
<1>1. ~c.wiped /\ Written(c) = {} BY DEF HasStorage
<1>2. Post(account, c).storage = [s \in Slot |-> account.storage[s]] BY <1>1 DEF Post
<1> QED BY <1>2 DEF Account, Storage

\* One round of the loop over the accounts writes the leaf of the account after the block.
LEMMA AccountLeaf ==
    ASSUME RootInv, NEW a \in accounts, phase = "accounts"
    PROVE  LET info == IF state[a].info = None THEN 0 ELSE state[a].info
           IN  (IF info = 0 /\ StorageRoot(a) = EMPTY_ROOT_HASH
                  THEN None ELSE [info |-> info, storage |-> StorageRoot(a)])
                   = Leaf(Post(pre[a], state[a]))
<1> DEFINE info == IF state[a].info = None THEN 0 ELSE state[a].info
<1>1. /\ a \in Touched /\ a \in Address /\ pre[a] \in Account /\ state[a] \in Change
      /\ leaves[a] = Leaf(pre[a])
  BY DEF RootInv, RootTypeOK, Touched, Leaves
<1>2. StorageRoot(a) = Post(pre[a], state[a]).storage
  <2>1. CASE a \in Storages
    <3>1. storage_tries[a] = NewStorage(a) BY <2>1 DEF RootInv
    <3>2. NewStorage(a) \in Storage BY <1>1, UpdatedStorageType DEF NewStorage, Account
    <3>3. StorageRoot(a) = NewStorage(a) BY <3>1, <3>2, StorageFacts DEF StorageRoot
    <3> QED BY <3>3, <1>1, UpdatedStorageIsPost DEF NewStorage
  <2>2. CASE a \notin Storages
    <3>1. ~HasStorage(state[a]) BY <1>1, <2>2 DEF Storages
    <3>2. Post(pre[a], state[a]).storage = pre[a].storage BY <1>1, <3>1, UntouchedStorage
    <3>3. storage_tries[a] \in {None, pre[a].storage} BY <1>1, <2>2 DEF RootInv
    <3>4. pre[a] # None BY <1>1, StateAssumption
    <3>5. leaves[a] = None => pre[a].storage = EMPTY_ROOT_HASH BY <1>1, <3>4 DEF Leaf
    <3>6. leaves[a] # None => leaves[a].storage = pre[a].storage BY <1>1 DEF Leaf
    <3> QED BY <3>2, <3>3, <3>5, <3>6 DEF StorageRoot
  <2> QED BY <2>1, <2>2
<1>3. Post(pre[a], state[a]) = [info |-> info, storage |-> StorageRoot(a)]
  <2>1. Post(pre[a], state[a]) = [info |-> info, storage |-> Post(pre[a], state[a]).storage]
    BY DEF Post
  <2> QED BY <2>1, <1>2
<1>4. Post(pre[a], state[a]).info = info /\ Post(pre[a], state[a]).storage = StorageRoot(a)
  BY <1>3
<1> QED BY <1>3, <1>4 DEF Leaf

-----------------------------------------------------------------------------
\* The invariant holds before the tasks start.
LEMMA InitRootInv == Init => RootInv
<1> SUFFICES ASSUME Init PROVE RootInv OBVIOUS
<1>1. PICK revealed \in SUBSET Stored :
        /\ {a \in Storages \cap Stored : ~state[a].wiped} \subseteq revealed
        /\ storage_tries = [a \in Address |-> IF a \in revealed THEN pre[a].storage ELSE None]
  BY DEF Init
<1>2. \A a \in Address : pre[a].storage \in Storage BY DEF Init, Account
<1>3. Storages \subseteq Address BY DEF Storages, Touched
<1>4. RootTypeOK
  BY <1>1, <1>2, <1>3, StorageFacts DEF Init, RootTypeOK
<1>5. \A a \in Address : storage_tries[a] \in {None, pre[a].storage} BY <1>1
<1>6. \A a \in Storages : QueuedOK(a)
  <2> SUFFICES ASSUME NEW a \in Storages PROVE QueuedOK(a) OBVIOUS
  <2>1. held[a] = EMPTY_ROOT_HASH BY DEF Init
  <2>2. CASE a \in Stored BY <1>1, <1>3, <1>5, <2>1, <2>2 DEF QueuedOK
  <2>3. CASE a \notin Stored BY <1>3, <1>5, <2>1, <2>3 DEF QueuedOK, Stored
  <2> QED BY <2>2, <2>3
<1>7. \A a \in Storages : tasks[a] = "queued" BY DEF Init
<1>8. leaves = Leaves BY DEF Init, Leaves
<1>9. Len(channel) = 0 BY DEF Init
<1> QED BY <1>4, <1>5, <1>6, <1>7, <1>8, <1>9 DEF Init, RootInv

\* The steps leave the input alone, and with it what is derived from it.
LEMMA InputStays ==
    ASSUME UNCHANGED input
    PROVE  /\ Touched' = Touched /\ Storages' = Storages
           /\ \A a : NewStorage(a)' = NewStorage(a)
BY DEF input, Touched, Storages, NewStorage

\* A task that takes its trie keeps the invariant.
LEMMA TakeKeeps == ASSUME RootInv, NEW a \in Storages, Take(a) PROVE RootInv'
<1>1. /\ Touched' = Touched /\ Storages' = Storages /\ pre' = pre /\ state' = state
      /\ \A x : NewStorage(x)' = NewStorage(x)
  BY InputStays DEF Take, input
<1>2. a \in Address /\ pre[a].storage \in Storage /\ Storages \subseteq Address
  BY DEF Storages, Touched, RootInv, RootTypeOK, Account
<1>3. RootTypeOK' BY <1>1, <1>2 DEF RootInv, RootTypeOK, Take
<1>4. \A x \in Address \ Storages : storage_tries'[x] = storage_tries[x]
  BY <1>2 DEF Take, RootInv, RootTypeOK
<1>5. \A x \in Storages : x # a => /\ storage_tries'[x] = storage_tries[x]
                                   /\ held'[x] = held[x] /\ tasks'[x] = tasks[x]
  BY <1>2 DEF Take, RootInv, RootTypeOK
<1>6. TakenOK(a)' /\ tasks'[a] = "taken"
  <2>1. tasks'[a] = "taken" /\ storage_tries'[a] = None
    BY <1>2 DEF Take, RootInv, RootTypeOK
  <2>2. held'[a] = IF storage_tries[a] = None THEN held[a] ELSE storage_tries[a]
    BY DEF Take, RootInv, RootTypeOK
  <2>3. QueuedOK(a) BY DEF Take, RootInv
  <2> QED BY <1>1, <1>2, <2>1, <2>2, <2>3, StorageFacts DEF QueuedOK, TakenOK
<1>7. \A x \in Storages : /\ tasks'[x] = "queued" => QueuedOK(x)'
                          /\ tasks'[x] = "taken" => TakenOK(x)'
                          /\ tasks'[x] = "sent" => SentOK(x)'
  <2> SUFFICES ASSUME NEW x \in Storages, x # a
               PROVE  /\ tasks'[x] = "queued" => QueuedOK(x)'
                      /\ tasks'[x] = "taken" => TakenOK(x)'
                      /\ tasks'[x] = "sent" => SentOK(x)'
    BY <1>6
  <2> QED BY <1>1, <1>5 DEF RootInv, Take, QueuedOK, TakenOK, SentOK
<1>8. Leaves' = Leaves BY <1>1 DEF Leaves, Take
<1> QED BY <1>1, <1>3, <1>4, <1>7, <1>8 DEF RootInv, Take

\* A task that sends its result, or an error, keeps the invariant.
LEMMA SendKeeps == ASSUME RootInv, NEW a \in Storages, Send(a) PROVE RootInv'
<1>1. /\ Touched' = Touched /\ Storages' = Storages /\ pre' = pre /\ state' = state
      /\ \A x : NewStorage(x)' = NewStorage(x)
  BY InputStays DEF Send, input
<1>2. /\ a \in Address /\ pre[a].storage \in Storage /\ state[a] \in Change
      /\ Storages \subseteq Address
  BY DEF Storages, Touched, RootInv, RootTypeOK, Account
<1>3. UpdatedStorage(held[a], state[a]) = NewStorage(a)
  <2>1. TakenOK(a) BY DEF Send, RootInv
  <2> QED BY <2>1, <1>2, UpdatedStorageWiped DEF TakenOK, NewStorage
<1>4. NewStorage(a) \in Storage BY <1>2, UpdatedStorageType DEF NewStorage
<1>5. PICK m \in Message : /\ channel' = Append(channel, m)
                           /\ m.address = a /\ m.trie \in {None, NewStorage(a)}
  BY <1>2, <1>3, <1>4 DEF Send, Message
<1>6. /\ channel' \in Seq(Message) /\ Len(channel') = Len(channel) + 1
      /\ Len(channel) \in Nat
      /\ \A i \in 1..Len(channel) : channel'[i] = channel[i]
      /\ channel'[Len(channel) + 1] = m
  BY <1>5, AppendProperties DEF RootInv, RootTypeOK
<1>7. RootTypeOK' BY <1>1, <1>6 DEF RootInv, RootTypeOK, Send
<1>8. \A i \in 1..Len(channel') : /\ channel'[i].address \in Storages
                                  /\ channel'[i].trie \in {None, NewStorage(channel'[i].address)}
  BY <1>5, <1>6 DEF RootInv
<1>9. \A x \in Storages : SentOK(x) \/ x = a => SentOK(x)'
  <2>1. SentOK(a)' BY <1>5, <1>6 DEF SentOK
  <2>2. ASSUME NEW x \in Storages, SentOK(x) PROVE SentOK(x)'
    BY <1>1, <1>6, <2>2 DEF SentOK, Send
  <2> QED BY <2>1, <2>2
<1>10. \A x \in Storages : /\ tasks'[x] = "queued" => QueuedOK(x)'
                           /\ tasks'[x] = "taken" => TakenOK(x)'
                           /\ tasks'[x] = "sent" => SentOK(x)'
  <2>1. \A x \in Storages : tasks'[x] = IF x = a THEN "sent" ELSE tasks[x]
    BY DEF Send, RootInv, RootTypeOK
  <2> QED BY <1>1, <1>9, <2>1 DEF Send, RootInv, QueuedOK, TakenOK
<1>11. Leaves' = Leaves BY <1>1 DEF Leaves, Send
<1> QED BY <1>1, <1>7, <1>8, <1>10, <1>11 DEF RootInv, Send

\* The end of the parallel part keeps the invariant.
LEMMA JoinKeeps == ASSUME RootInv, Join PROVE RootInv'
<1>1. /\ Touched' = Touched /\ Storages' = Storages /\ pre' = pre /\ state' = state
      /\ \A x : NewStorage(x)' = NewStorage(x)
  BY InputStays DEF Join, input
<1>2. Leaves' = Leaves BY <1>1 DEF Leaves, Join
<1>3. \A x \in Storages : QueuedOK(x)' = QueuedOK(x) /\ TakenOK(x)' = TakenOK(x)
                          /\ SentOK(x)' = SentOK(x)
  BY <1>1 DEF Join, QueuedOK, TakenOK, SentOK
<1> QED BY <1>1, <1>2, <1>3 DEF RootInv, RootTypeOK, Join

\* Putting a result back in the trie keeps the invariant.
LEMMA ReceiveKeeps == ASSUME RootInv, Receive PROVE RootInv'
<1>1. /\ Touched' = Touched /\ Storages' = Storages /\ pre' = pre /\ state' = state
      /\ \A x : NewStorage(x)' = NewStorage(x)
  BY InputStays DEF Receive, input
<1>2. Leaves' = Leaves BY <1>1 DEF Leaves, Receive
<1>3. \A x \in Storages : tasks[x] = "sent" /\ SentOK(x) BY DEF RootInv, Receive
<1>4. CASE channel # <<>> /\ Head(channel).trie # None
  <2> DEFINE m == Head(channel)
  <2>1. /\ channel' \in Seq(Message) /\ Len(channel') = Len(channel) - 1
        /\ \A i \in 1..Len(channel') : channel'[i] = channel[i + 1]
        /\ Len(channel) \in Nat /\ Len(channel) >= 1
        /\ m = channel[1] /\ m \in Message
        /\ phase' = phase
        /\ storage_tries' = [storage_tries EXCEPT ![m.address] = m.trie]
    <3>1. channel \in Seq(Message) BY DEF RootInv, RootTypeOK
    <3>2. channel' = Tail(channel) /\ phase' = phase
          /\ storage_tries' = [storage_tries EXCEPT ![m.address] = m.trie]
      BY <1>4 DEF Receive
    <3>3. /\ Tail(channel) \in Seq(Message) /\ Len(Tail(channel)) = Len(channel) - 1
          /\ \A i \in 1..Len(Tail(channel)) : Tail(channel)[i] = channel[i + 1]
          /\ m \in Message
      BY <1>4, <3>1, HeadTailProperties
    <3>4. Len(channel) \in Nat /\ Len(channel) >= 1 /\ m = channel[1]
      BY <1>4, <3>1, EmptySeq
    <3> QED BY <3>2, <3>3, <3>4
  <2>2. m.address \in Storages /\ m.trie = NewStorage(m.address)
    BY <1>4, <2>1 DEF RootInv
  <2>3. m.address \in Address BY <2>1 DEF Message
  <2>4. \A x \in Address : storage_tries'[x] = IF x = m.address THEN NewStorage(x) ELSE storage_tries[x]
    BY <2>1, <2>2, <2>3 DEF RootInv, RootTypeOK
  <2>5. RootTypeOK' BY <1>1, <2>1, <2>3 DEF RootInv, RootTypeOK, Receive, Message
  <2>6. \A x \in Storages : SentOK(x)'
    <3> SUFFICES ASSUME NEW x \in Storages, x # m.address PROVE SentOK(x)'
      BY <1>1, <2>2, <2>3, <2>4 DEF SentOK
    <3>1. x \in Address BY DEF Storages, Touched
    <3>2. CASE storage_tries[x] = NewStorage(x) BY <1>1, <2>4, <3>1, <3>2 DEF SentOK
    <3>3. CASE \E i \in 1..Len(channel) : channel[i].address = x
      <4>1. PICK i \in 1..Len(channel) : channel[i].address = x BY <3>3
      <4>2. i # 1 BY <2>1, <4>1
      <4>3. i - 1 \in 1..Len(channel') /\ channel'[i - 1] = channel[i] BY <2>1, <4>2
      <4> QED BY <4>1, <4>3 DEF SentOK
    <3> QED BY <1>3, <3>2, <3>3 DEF SentOK
  <2>7. \A i \in 1..Len(channel') : /\ channel'[i].address \in Storages
                                    /\ channel'[i].trie \in {None, NewStorage(channel'[i].address)}
    <3> SUFFICES ASSUME NEW i \in 1..Len(channel')
                 PROVE  /\ channel'[i].address \in Storages
                        /\ channel'[i].trie \in {None, NewStorage(channel'[i].address)}
      OBVIOUS
    <3>1. i + 1 \in 1..Len(channel) /\ channel'[i] = channel[i + 1] BY <2>1
    <3> QED BY <3>1 DEF RootInv
  <2>8. \A x \in Address \ Storages : storage_tries'[x] \in {None, pre[x].storage}
    BY <2>2, <2>4 DEF RootInv
  <2>9. \A x \in Storages : tasks'[x] = "sent" BY <1>3 DEF Receive
  <2>10. phase' = "results" BY <2>1 DEF Receive
  <2> QED BY <1>1, <1>2, <2>5, <2>6, <2>7, <2>8, <2>9, <2>10 DEF RootInv, Receive
<1>5. CASE (channel # <<>> /\ Head(channel).trie = None) \/ channel = <<>>
  <2>1. UNCHANGED <<storage_tries, channel, tasks, held, leaves, accounts>> BY <1>5 DEF Receive
  <2>2. \A x \in Storages : QueuedOK(x)' = QueuedOK(x) /\ TakenOK(x)' = TakenOK(x)
                            /\ SentOK(x)' = SentOK(x)
    BY <1>1, <2>1 DEF QueuedOK, TakenOK, SentOK
  <2>3. phase' = "accounts" => \A x \in Storages : storage_tries[x] = NewStorage(x)
    <3> SUFFICES ASSUME channel = <<>> PROVE \A x \in Storages : storage_tries[x] = NewStorage(x)
      BY <1>5 DEF Receive
    <3>1. Len(channel) = 0 BY EmptySeq
    <3> QED BY <1>3, <3>1 DEF SentOK
  <2>4. phase' \in {"accounts", "failed"} BY <1>5 DEF Receive
  <2> QED BY <1>1, <1>2, <1>3, <2>1, <2>2, <2>3, <2>4 DEF RootInv, RootTypeOK
<1> QED BY <1>4, <1>5

\* Updating one account keeps the invariant.
LEMMA UpdateAccountKeeps == ASSUME RootInv, NEW a \in Touched, UpdateAccount(a) PROVE RootInv'
<1>1. /\ Touched' = Touched /\ Storages' = Storages /\ pre' = pre /\ state' = state
      /\ \A x : NewStorage(x)' = NewStorage(x)
  BY InputStays DEF UpdateAccount, input
<1>2. phase = "accounts" /\ a \in accounts /\ a \in Address BY DEF UpdateAccount, Touched
<1>3. leaves' = Leaves'
  <2>1. CASE phase' = "failed"
    <3>1. leaves = Leaves BY DEF RootInv
    <3>2. CASE UNCHANGED <<leaves, accounts>> BY <1>1, <3>1, <3>2 DEF Leaves
    <3>3. CASE phase' = phase BY <1>2, <2>1, <3>3
    <3> QED BY <3>2, <3>3 DEF UpdateAccount
  <2>2. CASE phase' # "failed"
    <3>1. leaves' = [leaves EXCEPT ![a] = Leaf(Post(pre[a], state[a]))]
      BY <1>2, <2>2, AccountLeaf DEF UpdateAccount
    <3>2. leaves = Leaves /\ accounts' = accounts \ {a} BY <2>2 DEF RootInv, UpdateAccount
    <3> QED BY <1>1, <1>2, <3>1, <3>2 DEF Leaves
  <2> QED BY <2>1, <2>2
<1>4. \A x \in Storages : QueuedOK(x)' = QueuedOK(x) /\ TakenOK(x)' = TakenOK(x)
                          /\ SentOK(x)' = SentOK(x)
  BY <1>1 DEF UpdateAccount, QueuedOK, TakenOK, SentOK
<1>5. phase' \in {"accounts", "failed"} /\ accounts' \subseteq accounts
  BY <1>2 DEF UpdateAccount
<1> QED BY <1>1, <1>2, <1>3, <1>4, <1>5 DEF RootInv, RootTypeOK, UpdateAccount

\* Computing the root keeps the invariant.
LEMMA RootKeeps == ASSUME RootInv, Root PROVE RootInv'
<1>1. /\ Touched' = Touched /\ Storages' = Storages /\ pre' = pre /\ state' = state
      /\ \A x : NewStorage(x)' = NewStorage(x)
  BY InputStays DEF Root, input
<1>2. Leaves' = Leaves BY <1>1 DEF Leaves, Root
<1>3. \A x \in Storages : QueuedOK(x)' = QueuedOK(x) /\ TakenOK(x)' = TakenOK(x)
                          /\ SentOK(x)' = SentOK(x)
  BY <1>1 DEF Root, QueuedOK, TakenOK, SentOK
<1> QED BY <1>1, <1>2, <1>3 DEF RootInv, RootTypeOK, Root

\* A step that changes nothing keeps the invariant.
LEMMA StutterKeeps == ASSUME RootInv, UNCHANGED vars PROVE RootInv'
<1>1. /\ Touched' = Touched /\ Storages' = Storages /\ pre' = pre /\ state' = state
      /\ \A x : NewStorage(x)' = NewStorage(x)
  BY InputStays DEF vars, input
<1>2. Leaves' = Leaves BY <1>1 DEF Leaves, vars
<1>3. \A x \in Storages : QueuedOK(x)' = QueuedOK(x) /\ TakenOK(x)' = TakenOK(x)
                          /\ SentOK(x)' = SentOK(x)
  BY <1>1 DEF vars, QueuedOK, TakenOK, SentOK
<1> QED BY <1>1, <1>2, <1>3 DEF RootInv, RootTypeOK, vars

(***************************************************************************)
(* Where the storage tries are, and which accounts are done, in every      *)
(* state of the computation (root.rs:19-79): RootInv is invariant.         *)
(***************************************************************************)
THEOREM StateRootInv == Spec => []RootInv
<1>1. RootInv /\ [Next]_vars => RootInv'
  BY TakeKeeps, SendKeeps, JoinKeeps, ReceiveKeeps, UpdateAccountKeeps, RootKeeps, StutterKeeps
     DEF Next
<1> QED BY <1>1, InitRootInv, PTL DEF Spec

(***************************************************************************)
(* The state root commits to the state after the block (root.rs:12-82),    *)
(* whatever the accounts, the changes, the revealed tries and the order of *)
(* the parallel tasks.                                                     *)
(***************************************************************************)
THEOREM StateRootRight == Spec => []StateRootIsRight
<1>1. RootInv => StateRootIsRight BY DEF RootInv, StateRootIsRight, Leaves
<1> QED BY <1>1, StateRootInv, PTL
=============================================================================
