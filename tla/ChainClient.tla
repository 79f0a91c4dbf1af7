---------------------------- MODULE ChainClient ----------------------------
(***************************************************************************)
(* The chain client of the scheduler (pkg/chain): one object shared by all *)
(* the goroutines of the node.                                             *)
(*                                                                         *)
(*  - Every method first runs IsChainClientOk, which probes the RPC        *)
(*    connection c.api and replaces it when the probe fails, then stores   *)
(*    the verdict in c.chainState.  Neither is protected by c.lock in the  *)
(*    queries, so the steps of two methods interleave on c.api.            *)
(*  - The five extrinsic methods hold c.lock from their first statement to *)
(*    their return.  Each reads the account's nonce, signs, submits, and   *)
(*    watches the extrinsic until it is in a block or a timer fires.       *)
(*                                                                         *)
(* The chain itself (its pool, its blocks, its events) is external and is  *)
(* modelled by what the client relies on: the account's extrinsics execute *)
(* in nonce order, the pool refuses an outdated nonce, and it refuses a    *)
(* second extrinsic for a nonce it holds with "Priority is too low".       *)
(***************************************************************************)
EXTENDS Integers, Sequences, FiniteSets

CONSTANTS
    Callers,      \* the goroutines of the node that use the client
    NoCaller,     \* the lock is free
    TxKinds,      \* the extrinsic methods of this instance
    MaxResubmit,  \* resubmissions after "Priority is too low" (20 in the code)
    Foreign,      \* the events other accounts may add to a block
    MaxTx         \* bound: no extrinsic is started once MaxTx are in the pool
                  \* or on the chain

AllTxKinds == {"register", "update", "file", "filler", "proof"}

\* The event of a successful extrinsic has the name of its method, and
\* "segmentbook" is SegmentBook_VerifyProof.
EventKinds == AllTxKinds \cup {"segmentbook"}

ASSUME CallersAssumption == NoCaller \notin Callers
ASSUME TxKindsAssumption ==
    TxKinds \subseteq AllTxKinds /\ Foreign \subseteq EventKinds
ASSUME BoundsAssumption == MaxResubmit \in Nat \ {0} /\ MaxTx \in Nat

VARIABLES
    api,         \* c.api: "nil" or "conn"
    chainState,  \* c.chainState
    lock,        \* c.lock: its holder, or NoCaller
    pc,          \* where each goroutine is in the method it called
    op,          \* the method it called
    nonce,       \* accountInfo.Nonce as it read it
    tries,       \* tryCount
    sub,         \* the nonce of the extrinsic it watches (-1: none)
    ret,         \* what the method returned: [hash, err]
    pool,        \* external: accepted extrinsics not yet in a block
    chain,       \* external: the account's executed extrinsics, in nonce order
    placed       \* history: how many extrinsics of its last call are in either

client == <<api, chainState>>
caller == <<pc, op, nonce, tries, sub, ret>>
ledger == <<pool, chain, placed>>
vars == <<api, chainState, lock, pc, op, nonce, tries, sub, ret, pool, chain,
          placed>>

Ops == TxKinds \cup {"query", "sync"}

\* The program points.  "call" is the point after SetChainState.
Critical == {"health", "probe", "reconnect", "down", "up", "call", "submit",
             "resubmit", "watch", "events"}

\* What a method can return as its error.  "other" stands for the errors no
\* caller tells apart: ERR_RPC_CONNECTION, ERR_RPC_TIMEOUT and the wrapped ones.
Errors == {"none", "nil", "other", "failed", "panic"}

NoReturn == [hash |-> FALSE, err |-> "none"]

-----------------------------------------------------------------------------
(* The chain, external to the repository.                                  *)

\* The nonce the chain's state holds for the account.
AccNonce == Len(chain)

PoolNonces == {t.nonce : t \in pool}

TxAt(n) == CHOOSE t \in pool : t.nonce = n

Outdated(n) == n < AccNonce

Occupied(n) == n \in PoolNonces

(***************************************************************************)
(* A block takes the extrinsics of the account that are ready, in nonce    *)
(* order.  Each executes with success or failure; the block's events hold  *)
(* the event of each that succeeded, and those of other accounts.          *)
(***************************************************************************)
ProduceBlock ==
    \E m \in 1..Cardinality(pool) :
        /\ \A n \in AccNonce..(AccNonce + m - 1) : Occupied(n)
        /\ \E good \in SUBSET (AccNonce..(AccNonce + m - 1)),
              foreign \in SUBSET Foreign :
             LET evs == foreign \cup {TxAt(n).kind : n \in good}
             IN  chain' = chain \o
                    [i \in 1..m |-> [kind   |-> TxAt(AccNonce + i - 1).kind,
                                     ok     |-> AccNonce + i - 1 \in good,
                                     events |-> evs]]
        /\ pool' = {t \in pool : t.nonce >= AccNonce + m}
    /\ UNCHANGED <<client, lock, caller, placed>>

-----------------------------------------------------------------------------
(* Calling and returning.                                                  *)

\* Mutated forms, used to show that the properties can fail.
ReleasedUnlessFailed(c, e) ==
    IF lock = c /\ e # "failed" THEN NoCaller ELSE lock
ResubmitNonceSkips(base, t) == base + 2
EventSeenFiller(k, evs) == "filler" \in evs

\* defer c.lock.Unlock(): the lock is released however the method ends,
\* a panic included.
Released(c, e) == IF lock = c THEN NoCaller ELSE lock

\* Return (hash, e) to the calling goroutine; the locals die.  sub is kept as
\* history when the return names a block.
Return(c, hash, e) ==
    /\ pc' = [pc EXCEPT ![c] = "idle"]
    /\ ret' = [ret EXCEPT ![c] = [hash |-> hash, err |-> e]]
    /\ lock' = Released(c, e)
    /\ nonce' = [nonce EXCEPT ![c] = 0]
    /\ tries' = [tries EXCEPT ![c] = 0]
    /\ sub' = [sub EXCEPT ![c] = IF hash THEN @ ELSE -1]

\* A goroutine enters a method.
Enter(c, k, at) ==
    /\ pc[c] = "idle"
    /\ pc' = [pc EXCEPT ![c] = at]
    /\ op' = [op EXCEPT ![c] = k]
    /\ ret' = [ret EXCEPT ![c] = NoReturn]
    /\ sub' = [sub EXCEPT ![c] = -1]
    /\ placed' = [placed EXCEPT ![c] = 0]
    /\ UNCHANGED <<client, lock, nonce, tries, pool, chain>>

StartTx(c, k) ==
    /\ k \in TxKinds
    /\ AccNonce + Cardinality(pool) < MaxTx
    /\ Enter(c, k, "lock")

(***************************************************************************)
(* The five extrinsic methods.  They run the same steps, below; a method   *)
(* is told apart by the event it looks for in the block, and               *)
(* SubmitProofResults by never resubmitting.                               *)
(***************************************************************************)
Register(c) == StartTx(c, "register")
Update(c) == StartTx(c, "update")
SubmitFileMeta(c) == StartTx(c, "file")
SubmitFillerMeta(c) == StartTx(c, "filler")
SubmitProofResults(c) == StartTx(c, "proof")

\* GetStorageMinerInfo, GetAllStorageMiner, GetFileMetaInfo,
\* GetAllSchedulerInfo, GetProofs and GetAccountInfo: the same steps, without
\* c.lock.
Query(c) == Enter(c, "query", "health")

\* GetSyncStatus: probes and asks, and leaves c.chainState alone.
GetSyncStatus(c) == Enter(c, "sync", "health")

LockFree == lock = NoCaller

\* c.lock.Lock()
Lock(c) ==
    /\ pc[c] = "lock"
    /\ LockFree
    /\ lock' = c
    /\ pc' = [pc EXCEPT ![c] = "health"]
    /\ UNCHANGED <<client, op, nonce, tries, sub, ret, ledger>>

-----------------------------------------------------------------------------
(* IsChainClientOk and SetChainState.                                      *)

(***************************************************************************)
(* healthchek(c.api) with a nil c.api: the dereference panics, the panic   *)
(* is recovered, and the function returns its zero error, "healthy".       *)
(***************************************************************************)
HealthCheck(c) ==
    /\ pc[c] = "health"
    /\ pc' = [pc EXCEPT ![c] = IF api = "nil" THEN "up" ELSE "probe"]
    /\ UNCHANGED <<client, lock, op, nonce, tries, sub, ret, ledger>>

\* The Health RPC of the connection that was read returns; on an error
\* c.api is set to nil before the reconnection is tried.
Probe(c) ==
    /\ pc[c] = "probe"
    /\ \/ pc' = [pc EXCEPT ![c] = "up"] /\ UNCHANGED api
       \/ pc' = [pc EXCEPT ![c] = "reconnect"] /\ api' = "nil"
    /\ UNCHANGED <<chainState, lock, op, nonce, tries, sub, ret, ledger>>

\* reconnectChainClient: on an error c.api stays as it is.
Reconnect(c) ==
    /\ pc[c] = "reconnect"
    /\ \/ pc' = [pc EXCEPT ![c] = "up"] /\ api' = "conn"
       \/ pc' = [pc EXCEPT ![c] = "down"] /\ UNCHANGED api
    /\ UNCHANGED <<chainState, lock, op, nonce, tries, sub, ret, ledger>>

StateAfter(c, state) == IF op[c] = "sync" THEN chainState ELSE state

\* !IsChainClientOk(): SetChainState(false), return ERR_RPC_CONNECTION.
Down(c) ==
    /\ pc[c] = "down"
    /\ chainState' = StateAfter(c, FALSE)
    /\ Return(c, FALSE, "other")
    /\ UNCHANGED <<api, op, ledger>>

\* The method goes on with its next call.
Goto(c, at) ==
    /\ pc' = [pc EXCEPT ![c] = at]
    /\ UNCHANGED <<ret, lock>>

\* SetChainState(true), then the checks and encodings that touch no shared
\* state and may fail (an account, a file id, a storage key).
Up(c) ==
    /\ pc[c] = "up"
    /\ chainState' = StateAfter(c, TRUE)
    /\ \/ Goto(c, "call") /\ UNCHANGED <<nonce, tries, sub>>
       \/ op[c] # "sync" /\ Return(c, FALSE, "other")
    /\ UNCHANGED <<api, op, ledger>>

\* A use of c.api.RPC while c.api is nil panics; the goroutine leaves the
\* method through its deferred calls.
Panic(c) == api = "nil" /\ Return(c, FALSE, "panic")

-----------------------------------------------------------------------------
(* The body of a query.                                                    *)

\* GetStorageLatest (Health in GetSyncStatus): a value, or an error (nothing
\* stored under the key is one).
Fetch(c) ==
    /\ pc[c] = "call"
    /\ op[c] \in {"query", "sync"}
    /\ \/ Panic(c)
       \/ api = "conn" /\ \E e \in {"nil", "other"} : Return(c, FALSE, e)
    /\ UNCHANGED <<client, op, ledger>>

-----------------------------------------------------------------------------
(* The body of an extrinsic method.                                        *)

\* GetStorageLatest of the account (an error, or no account), then Sign.
ReadNonce(c) ==
    /\ pc[c] = "call"
    /\ op[c] \in TxKinds
    /\ \/ Panic(c)
       \/ api = "conn" /\ Return(c, FALSE, "other")
       \/ /\ api = "conn"
          /\ nonce' = [nonce EXCEPT ![c] = AccNonce]
          /\ Goto(c, "submit")
          /\ UNCHANGED <<tries, sub>>
    /\ UNCHANGED <<client, op, ledger>>

\* The pool takes the extrinsic of caller c.
PoolAccepts(c, n) ==
    /\ ~ Outdated(n)
    /\ ~ Occupied(n)
    /\ pool' = pool \cup {[nonce |-> n, kind |-> op[c]]}
    /\ placed' = [placed EXCEPT ![c] = @ + 1]

\* SubmitAndWatchExtrinsic succeeds: the subscription is watched.
Accepted(c, n) ==
    /\ api = "conn"
    /\ PoolAccepts(c, n)
    /\ sub' = [sub EXCEPT ![c] = n]
    /\ Goto(c, "watch")
    /\ UNCHANGED <<nonce, tries>>

\* SubmitAndWatchExtrinsic fails: the pool refused the extrinsic, the request
\* was lost, or the answer was lost after the pool took the extrinsic.
SubmitFails(c, n) ==
    /\ api = "conn"
    /\ PoolAccepts(c, n) \/ UNCHANGED <<pool, placed>>

\* Every method but SubmitProofResults handles "Priority is too low".
Resubmits(k) == k # "proof"

Submit(c) ==
    /\ pc[c] = "submit"
    /\ \/ Panic(c) /\ UNCHANGED <<pool, placed>>
       \/ Accepted(c, nonce[c])
       \/ SubmitFails(c, nonce[c]) /\ Return(c, FALSE, "other")
       \/ /\ api = "conn" /\ Occupied(nonce[c]) /\ Resubmits(op[c])
          /\ Goto(c, "resubmit")
          /\ UNCHANGED <<pool, placed, nonce, tries, sub>>
    /\ UNCHANGED <<client, op, chain>>

\* o.Nonce in the resubmission loop: accountInfo.Nonce + 1 in every round.
ResubmitNonce(base, t) == base + 1

LastTryNever(t) == FALSE

\* tryCount < 20: the loop ends after MaxResubmit tries.
LastTry(t) == t + 1 = MaxResubmit

(***************************************************************************)
(* One round of the resubmission loop.  Any error counts a try; after the  *)
(* last one the method returns it.  A failing Sign returns at once.        *)
(***************************************************************************)
Resubmit(c) ==
    /\ pc[c] = "resubmit"
    /\ LET n == ResubmitNonce(nonce[c], tries[c])
       IN  \/ Panic(c) /\ UNCHANGED <<pool, placed>>
           \/ Accepted(c, n)
           \/ /\ SubmitFails(c, n)
              /\ ~ LastTry(tries[c])
              /\ tries' = [tries EXCEPT ![c] = @ + 1]
              /\ UNCHANGED <<pc, ret, lock, nonce, sub>>
           \/ /\ SubmitFails(c, n)
              /\ LastTry(tries[c])
              /\ Return(c, FALSE, "other")
           \/ Return(c, FALSE, "other") /\ UNCHANGED <<pool, placed>>
    /\ UNCHANGED <<client, op, chain>>

Included(n) == n < AccNonce

\* The select loop: an in-block status, or a subscription error or the timer.
Watch(c) ==
    /\ pc[c] = "watch"
    /\ \/ Included(sub[c]) /\ Goto(c, "events") /\ UNCHANGED <<nonce, tries, sub>>
       \/ Return(c, FALSE, "other")
    /\ UNCHANGED <<client, op, ledger>>

\* The event a method looks for: its own, except that SubmitProofResults, which
\* calls Audit.verify_proof, looks for an event of the SegmentBook pallet.
Sought == [k \in TxKinds |-> IF k = "proof" THEN "segmentbook" ELSE k]

\* len(events.X) > 0, X the event the method looks for.
EventSeen(k, evs) == Sought[k] \in evs

(***************************************************************************)
(* txhash is set; the events decoded decide between nil and ERR_Failed.    *)
(* DecodeEventRecords stops at the first event it does not know and its    *)
(* error is discarded: any part of the block's events may be all there is. *)
(***************************************************************************)
ReadEvents(c) ==
    /\ pc[c] = "events"
    /\ \/ Panic(c)
       \/ api = "conn" /\ Return(c, TRUE, "other")
       \/ /\ api = "conn"
          /\ \E decoded \in SUBSET chain[sub[c] + 1].events :
                Return(c, TRUE, IF EventSeen(op[c], decoded)
                                THEN "nil" ELSE "failed")
    /\ UNCHANGED <<client, op, ledger>>

-----------------------------------------------------------------------------
\* NewChainClient: connected, chainState true.
Init ==
    /\ api = "conn"
    /\ chainState = TRUE
    /\ lock = NoCaller
    /\ pc = [c \in Callers |-> "idle"]
    /\ op = [c \in Callers |-> "sync"]
    /\ nonce = [c \in Callers |-> 0]
    /\ tries = [c \in Callers |-> 0]
    /\ sub = [c \in Callers |-> -1]
    /\ ret = [c \in Callers |-> NoReturn]
    /\ pool = {}
    /\ chain = <<>>
    /\ placed = [c \in Callers |-> 0]

\* The steps a goroutine takes once it is in a method.
Step(c) ==
    \/ HealthCheck(c)
    \/ Probe(c)
    \/ Reconnect(c)
    \/ Down(c)
    \/ Up(c)
    \/ Fetch(c)
    \/ ReadNonce(c)
    \/ Submit(c)
    \/ Resubmit(c)
    \/ Watch(c)
    \/ ReadEvents(c)

Start(c) ==
    \/ Register(c)
    \/ Update(c)
    \/ SubmitFileMeta(c)
    \/ SubmitFillerMeta(c)
    \/ SubmitProofResults(c)
    \/ Query(c)
    \/ GetSyncStatus(c)

Next ==
    \/ \E c \in Callers : Start(c) \/ Lock(c) \/ Step(c)
    \/ ProduceBlock

(***************************************************************************)
(* Every RPC returns or fails and every timer fires; a waiting sync.Mutex  *)
(* is handed over in order (starvation mode), hence strong fairness of     *)
(* Lock; the chain keeps producing blocks.  No method has to be called.    *)
(***************************************************************************)
Fairness ==
    /\ \A c \in Callers : WF_vars(Step(c)) /\ SF_vars(Lock(c))
    /\ WF_vars(ProduceBlock)

Spec == Init /\ [][Next]_vars /\ Fairness

-----------------------------------------------------------------------------
(* Properties.                                                             *)

Txs == [nonce : Nat, kind : TxKinds]
Executed == [kind : TxKinds, ok : BOOLEAN, events : SUBSET EventKinds]

\* Every variable keeps its type.
TypeOK ==
    /\ api \in {"nil", "conn"}
    /\ chainState \in BOOLEAN
    /\ lock \in Callers \cup {NoCaller}
    /\ pc \in [Callers -> Critical \cup {"idle", "lock"}]
    /\ op \in [Callers -> Ops]
    /\ nonce \in [Callers -> Nat]
    /\ tries \in [Callers -> 0..(MaxResubmit - 1)]
    /\ sub \in [Callers -> Nat \cup {-1}]
    /\ ret \in [Callers -> [hash : BOOLEAN, err : Errors]]
    /\ pool \subseteq Txs /\ IsFiniteSet(pool)
    /\ chain \in Seq(Executed)
    /\ placed \in [Callers -> Nat]

(***************************************************************************)
(* c.lock serialises the extrinsic methods from the nonce they read to the *)
(* outcome they return, and no way out of a method (an error, a timeout, a *)
(* panic on a nil c.api) leaves it locked.                                 *)
(***************************************************************************)
TxExclusive ==
    /\ \A c \in Callers :
          pc[c] \in Critical /\ op[c] \in TxKinds => lock = c
    /\ lock # NoCaller => pc[lock] \in Critical /\ op[lock] \in TxKinds

\* How the methods use c.lock: see Mutex.
ClientLock == INSTANCE Mutex WITH
    Users <- Callers,
    Careless <- {},
    state <- IF lock = NoCaller THEN "free" ELSE "held",
    inside <- {c \in Callers : pc[c] \in Critical /\ op[c] \in TxKinds}

(***************************************************************************)
(* The extrinsic methods take c.lock before they probe the connection and  *)
(* unlock it once, when they return: an error, a timeout, a panic on a     *)
(* connection another goroutine has dropped.  The queries leave it alone.  *)
(***************************************************************************)
LockKept == ClientLock!Spec

(***************************************************************************)
(* The extrinsics the node has left in the pool, those of methods that     *)
(* gave up on them included, carry the account's next nonce, or its next   *)
(* two: one per nonce, no gap below them, so that each can be executed.    *)
(***************************************************************************)
PoolReady ==
    /\ PoolNonces \subseteq {AccNonce, AccNonce + 1}
    /\ Occupied(AccNonce + 1) => Occupied(AccNonce)
    /\ \A t, u \in pool : t.nonce = u.nonce => t = u

(***************************************************************************)
(* A call places one extrinsic at most, though it resubmits after answers  *)
(* that may have been lost on their way: an extrinsic that the pool took   *)
(* all the same keeps every later round of the loop out.                   *)
(***************************************************************************)
AtMostOnce == \A c \in Callers : placed[c] <= 1

(***************************************************************************)
(* What a method reports is true of its own extrinsic, as far as it goes:  *)
(* with a block hash, the extrinsic is in a block, and with no error, the  *)
(* block holds an event the method looks for.  ERR_Failed says no more     *)
(* than the hash: with the block's events decoded in part, the extrinsic   *)
(* may have succeeded.                                                     *)
(***************************************************************************)
ReportHonest ==
    \A c \in Callers :
        ret[c].hash =>
            /\ sub[c] \in 0..(AccNonce - 1)
            /\ LET x == chain[sub[c] + 1]
               IN  /\ x.kind = op[c]
                   /\ ret[c].err = "nil" => Sought[op[c]] \in x.events

\* The kind of the account's extrinsic with nonce n, executed or not.
KindAt(n) == IF n < AccNonce THEN chain[n + 1].kind ELSE TxAt(n).kind

Queue == [n \in 0..(AccNonce - 1) \cup PoolNonces |-> KindAt(n)]

Calling == [c \in Callers |-> pc[c] # "idle"]

\* What the callers and the chain see is an account: see Account.
Promise == INSTANCE Account WITH
    Kinds <- TxKinds,
    Event <- Sought,
    calling <- Calling,
    watched <- sub,
    queue <- Queue,
    executed <- chain

(***************************************************************************)
(* Lost answers, timeouts, resubmissions, callers that give up and others  *)
(* that come next: the nonces are handed out one after the other, none of  *)
(* them twice and one at most to a call, and what a call returns with a    *)
(* block hash is about the extrinsic it placed itself.                     *)
(***************************************************************************)
ImplementsAccount == Promise!Spec

\* Every method a goroutine calls returns, whatever the RPCs answer and
\* whoever holds c.lock.
CallReturns == \A c \in Callers : pc[c] # "idle" ~> pc[c] = "idle"

\* An extrinsic the pool took is executed, also when its caller has timed out:
\* the nonces chosen by the resubmission loop never strand one.
Lands == \A n \in 0..(MaxTx + Cardinality(Callers)) :
            Occupied(n) ~> n < AccNonce

(***************************************************************************)
(* "Do the transfer and track the actual status" (transaction.go:248): a   *)
(* method that returns no error has had its own extrinsic succeed.  The    *)
(* code looks for any event of the kind in the block.                      *)
(***************************************************************************)
SuccessIsOwn ==
    \A c \in Callers :
        ret[c].hash /\ ret[c].err = "nil" => chain[sub[c] + 1].ok
=============================================================================
