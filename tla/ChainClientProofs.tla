------------------------- MODULE ChainClientProofs -------------------------
(***************************************************************************)
(* Proofs about ChainClient, for any set of goroutines, any number of      *)
(* resubmissions and any number of extrinsics.                             *)
(***************************************************************************)
EXTENDS ChainClient, FiniteSetTheorems, TLAPS

-----------------------------------------------------------------------------
(* The chain.                                                              *)

\* What TxAt picks, for a nonce the pool holds.
LEMMA TxAtPicks ==
    ASSUME NEW n, Occupied(n)
    PROVE  TxAt(n) \in pool /\ TxAt(n).nonce = n
BY DEF Occupied, PoolNonces, TxAt

\* Concatenation, index by index.
LEMMA ConcatFacts ==
    ASSUME NEW S, NEW s \in Seq(S), NEW t \in Seq(S)
    PROVE  /\ s \o t \in Seq(S)
           /\ Len(s \o t) = Len(s) + Len(t)
           /\ \A i \in 1..Len(s) : (s \o t)[i] = s[i]
           /\ \A i \in 1..Len(t) : (s \o t)[Len(s) + i] = t[i]
<1>1. s \o t \in Seq(S) /\ Len(s \o t) = Len(s) + Len(t)
  OBVIOUS
<1>2. \A i \in 1..Len(s) : (s \o t)[i] = s[i]
  OBVIOUS
<1>3. \A i \in 1..Len(t) : (s \o t)[Len(s) + i] = t[i]
  OBVIOUS
<1> QED
  BY <1>1, <1>2, <1>3

\* A block appends m >= 1 records, one for each of the m next nonces, and takes
\* exactly these extrinsics out of the pool.
LEMMA BlockStep ==
    ASSUME TypeOK, ProduceBlock
    PROVE  \E m \in Nat \ {0} :
              /\ \A n \in Len(chain)..(Len(chain) + m - 1) : Occupied(n)
              /\ pool' = {t \in pool : t.nonce >= Len(chain) + m}
              /\ chain' \in Seq(Executed)
              /\ Len(chain') = Len(chain) + m
              /\ \A i \in 1..Len(chain) : chain'[i] = chain[i]
              /\ \A i \in 1..m :
                    chain'[Len(chain) + i].kind = TxAt(Len(chain) + i - 1).kind
<1>1. Cardinality(pool) \in Nat
  BY FS_CardinalityType DEF TypeOK
<1>2. PICK m \in 1..Cardinality(pool) :
        /\ \A n \in AccNonce..(AccNonce + m - 1) : Occupied(n)
        /\ \E good \in SUBSET (AccNonce..(AccNonce + m - 1)),
              foreign \in SUBSET Foreign :
             LET evs == foreign \cup {TxAt(n).kind : n \in good}
             IN  chain' = chain \o
                    [i \in 1..m |-> [kind   |-> TxAt(AccNonce + i - 1).kind,
                                     ok     |-> AccNonce + i - 1 \in good,
                                     events |-> evs]]
        /\ pool' = {t \in pool : t.nonce >= AccNonce + m}
  BY DEF ProduceBlock
<1>3. PICK good \in SUBSET (AccNonce..(AccNonce + m - 1)),
           foreign \in SUBSET Foreign :
             LET evs == foreign \cup {TxAt(n).kind : n \in good}
             IN  chain' = chain \o
                    [i \in 1..m |-> [kind   |-> TxAt(AccNonce + i - 1).kind,
                                     ok     |-> AccNonce + i - 1 \in good,
                                     events |-> evs]]
  BY <1>2
<1> DEFINE evs == foreign \cup {TxAt(n).kind : n \in good}
           rec(i) == [kind   |-> TxAt(AccNonce + i - 1).kind,
                      ok     |-> AccNonce + i - 1 \in good,
                      events |-> evs]
           blk == [i \in 1..m |-> rec(i)]
<1>4. m \in Nat \ {0} /\ AccNonce \in Nat /\ chain \in Seq(Executed)
  BY <1>1 DEF TypeOK, AccNonce
<1>5. \A n \in AccNonce..(AccNonce + m - 1) : TxAt(n).kind \in TxKinds
  BY <1>2, TxAtPicks DEF TypeOK, Txs
<1>6. evs \subseteq EventKinds
  BY <1>5, TxKindsAssumption DEF EventKinds
<1>7. ASSUME NEW i \in 1..m
      PROVE  rec(i) \in Executed
  <2>1. AccNonce + i - 1 \in AccNonce..(AccNonce + m - 1)
    BY <1>4
  <2>2. TxAt(AccNonce + i - 1).kind \in TxKinds
    BY <1>5, <2>1
  <2>3. (AccNonce + i - 1 \in good) \in BOOLEAN
    OBVIOUS
  <2>4. evs \in SUBSET EventKinds
    BY <1>6
  <2> QED
    BY ONLY <2>2, <2>3, <2>4, Zenon DEF Executed
<1>8. blk \in Seq(Executed) /\ Len(blk) = m
  <2>1. blk \in [1..m -> Executed]
    BY <1>7
  <2> HIDE DEF blk
  <2> QED
    BY <2>1, <1>4
<1>9. chain' = chain \o blk
  BY <1>3
<1>10. ASSUME NEW i \in 1..m
       PROVE  blk[i] = rec(i)
  OBVIOUS
<1> HIDE DEF blk, rec, evs
<1>12. /\ chain' \in Seq(Executed)
       /\ Len(chain') = Len(chain) + m
       /\ \A i \in 1..Len(chain) : chain'[i] = chain[i]
       /\ \A i \in 1..m : chain'[Len(chain) + i] = blk[i]
  <2>1. /\ chain \o blk \in Seq(Executed)
        /\ Len(chain \o blk) = Len(chain) + Len(blk)
        /\ \A i \in 1..Len(chain) : (chain \o blk)[i] = chain[i]
        /\ \A i \in 1..Len(blk) : (chain \o blk)[Len(chain) + i] = blk[i]
    <3>1. chain \in Seq(Executed) /\ blk \in Seq(Executed)
      BY <1>4, <1>8
    <3> QED
      BY ONLY <3>1, ConcatFacts
  <2> QED
    BY ONLY <2>1, <1>8, <1>9, Zenon
<1>13. ASSUME NEW i \in 1..m
       PROVE  chain'[Len(chain) + i].kind = TxAt(Len(chain) + i - 1).kind
  <2>1. chain'[Len(chain) + i] = rec(i)
    BY <1>10, <1>12
  <2>2. rec(i).kind = TxAt(Len(chain) + i - 1).kind
    BY DEF rec, AccNonce
  <2> QED
    BY <2>1, <2>2
<1> QED
  BY <1>2, <1>4, <1>12, <1>13 DEF AccNonce

-----------------------------------------------------------------------------
(* Types.                                                                  *)

\* A submission leaves a well-typed, finite pool, and counts.
LEMMA PoolTyped ==
    ASSUME TypeOK, NEW c \in Callers, op[c] \in TxKinds, NEW n \in Nat,
           PoolAccepts(c, n) \/ UNCHANGED <<pool, placed>>
    PROVE  /\ pool' \subseteq Txs /\ IsFiniteSet(pool')
           /\ placed' \in [Callers -> Nat]
<1>1. CASE UNCHANGED <<pool, placed>>
  BY <1>1 DEF TypeOK
<1>2. CASE PoolAccepts(c, n)
  <2>1. pool' = pool \cup {[nonce |-> n, kind |-> op[c]]}
    BY <1>2 DEF PoolAccepts
  <2>2. pool' \subseteq Txs
    BY <2>1 DEF TypeOK, Txs
  <2>3. IsFiniteSet(pool')
    BY <2>1, FS_AddElement DEF TypeOK
  <2>4. placed' \in [Callers -> Nat]
    BY <1>2 DEF PoolAccepts, TypeOK
  <2> QED
    BY <2>2, <2>3, <2>4
<1> QED
  BY <1>1, <1>2

\* A caller past the queries' branch is in an extrinsic method.
TxPoints ==
    \A c \in Callers :
        pc[c] \in {"lock", "submit", "resubmit", "watch", "events"}
            => op[c] \in TxKinds

\* A watcher watches an extrinsic.
SubPoints == \A c \in Callers : pc[c] \in {"watch", "events"} => sub[c] \in Nat

\* The part of the type invariant about the variables Return leaves alone.
SharedTyped ==
    /\ api \in {"nil", "conn"}
    /\ chainState \in BOOLEAN
    /\ pool \subseteq Txs /\ IsFiniteSet(pool)
    /\ chain \in Seq(Executed)
    /\ placed \in [Callers -> Nat]

TypeInv == TypeOK /\ TxPoints /\ SubPoints

\* A method returns.
LEMMA ReturnTyped ==
    ASSUME TypeInv, SharedTyped', UNCHANGED op, NEW c \in Callers,
           NEW h \in BOOLEAN, NEW e \in Errors, Return(c, h, e)
    PROVE  TypeInv'
<1> USE DEF Return, Released, TypeInv, TypeOK, SharedTyped
<1>1. /\ pc' \in [Callers -> Critical \cup {"idle", "lock"}]
      /\ lock' \in Callers \cup {NoCaller}
      /\ nonce' \in [Callers -> Nat]
      /\ tries' \in [Callers -> 0..(MaxResubmit - 1)]
  BY BoundsAssumption
<1>2. sub' \in [Callers -> Nat \cup {-1}]
  OBVIOUS
<1>3. ret' \in [Callers -> [hash : BOOLEAN, err : Errors]]
  OBVIOUS
<1>4. TypeOK'
  BY <1>1, <1>2, <1>3
<1>5. TxPoints'
  BY DEF TxPoints
<1>6. SubPoints'
  BY DEF SubPoints
<1> QED
  BY <1>4, <1>5, <1>6

\* A method goes on, having changed its nonce, its tries or its subscription.
LEMMA GotoTyped ==
    ASSUME TypeInv, SharedTyped', UNCHANGED op, NEW c \in Callers,
           NEW at \in Critical, Goto(c, at),
           at \in {"submit", "resubmit", "watch", "events"} => op[c] \in TxKinds,
           at \in {"watch", "events"} => sub'[c] \in Nat,
           \A d \in Callers \ {c} : sub'[d] = sub[d],
           nonce' \in [Callers -> Nat],
           tries' \in [Callers -> 0..(MaxResubmit - 1)],
           sub' \in [Callers -> Nat \cup {-1}]
    PROVE  TypeInv'
<1> USE DEF Goto, TypeInv, TypeOK, SharedTyped
<1>1. pc' \in [Callers -> Critical \cup {"idle", "lock"}]
  OBVIOUS
<1>2. TypeOK'
  BY <1>1
<1>3. TxPoints'
  BY DEF TxPoints, Critical
<1>4. SubPoints'
  BY DEF SubPoints
<1> QED
  BY <1>2, <1>3, <1>4

LEMMA TypeStep ==
    ASSUME TypeInv, [Next]_vars
    PROVE  TypeInv'
<1>1. CASE UNCHANGED vars
  BY <1>1 DEF vars, TypeInv, TypeOK, TxPoints, SubPoints
<1>2. ASSUME NEW c \in Callers, Start(c)
      PROVE  TypeInv'
  <2>1. PICK k \in Ops, at \in {"lock", "health"} :
            Enter(c, k, at) /\ (at = "lock" => k \in TxKinds)
    BY <1>2 DEF Start, Register, Update, SubmitFileMeta, SubmitFillerMeta,
       SubmitProofResults, Query, GetSyncStatus, StartTx, Ops
  <2>2. ret' \in [Callers -> [hash : BOOLEAN, err : Errors]]
    BY <2>1 DEF Enter, NoReturn, Errors, TypeInv, TypeOK
  <2>3. TypeOK'
    BY <2>1, <2>2 DEF Enter, client, ledger, TypeInv, TypeOK, Critical
  <2>4. TxPoints' /\ SubPoints'
    BY <2>1 DEF Enter, TypeInv, TypeOK, TxPoints, SubPoints, Critical
  <2> QED
    BY <2>3, <2>4 DEF TypeInv
<1>3. ASSUME NEW c \in Callers, Lock(c)
      PROVE  TypeInv'
  BY <1>3 DEF Lock, client, ledger, TypeInv, TypeOK, TxPoints, SubPoints,
     Critical
<1>4. ASSUME NEW c \in Callers, Step(c)
      PROVE  TypeInv'
  <2> DEFINE Returns == \E h \in BOOLEAN, e \in Errors : Return(c, h, e)
  <2>a. Panic(c) => Returns
    BY DEF Panic, Errors
  <2>b. \A h \in BOOLEAN, e \in {"nil", "other", "failed"} :
            Return(c, h, e) => Returns
    BY DEF Errors
  <2>c. ASSUME UNCHANGED op, SharedTyped', Returns
        PROVE  TypeInv'
    BY <2>c, ReturnTyped
  <2>d. TypeInv => SharedTyped
    BY DEF TypeInv, TypeOK, SharedTyped
  <2>e. /\ nonce \in [Callers -> Nat]
        /\ tries \in [Callers -> 0..(MaxResubmit - 1)]
        /\ sub \in [Callers -> Nat \cup {-1}]
        /\ \A d \in Callers :
              pc[d] \in {"watch", "events"} => sub[d] \in Nat
        /\ \A d \in Callers :
              pc[d] \in {"lock", "submit", "resubmit", "watch", "events"}
                  => op[d] \in TxKinds
    BY DEF TypeInv, TypeOK, TxPoints, SubPoints
  <2> HIDE DEF Returns
  <2>1. CASE HealthCheck(c)
    BY <2>1 DEF HealthCheck, client, ledger, TypeInv, TypeOK, TxPoints,
       SubPoints, Critical
  <2>2. CASE Probe(c)
    BY <2>2 DEF Probe, client, ledger, TypeInv, TypeOK, TxPoints, SubPoints,
       Critical
  <2>3. CASE Reconnect(c)
    BY <2>3 DEF Reconnect, client, ledger, TypeInv, TypeOK, TxPoints,
       SubPoints, Critical
  <2>4. CASE Down(c)
    <3>1. SharedTyped'
      BY <2>4, <2>d DEF Down, StateAfter, ledger, SharedTyped
    <3> QED
      BY <2>4, <2>b, <2>c, <3>1 DEF Down
  <2>5. CASE Up(c)
    <3>1. SharedTyped'
      BY <2>5, <2>d DEF Up, StateAfter, ledger, SharedTyped
    <3>2. CASE Goto(c, "call") /\ UNCHANGED <<nonce, tries, sub>>
      BY <2>5, <2>e, <3>1, <3>2, GotoTyped DEF Up, Critical
    <3> QED
      BY <2>5, <2>b, <2>c, <3>1, <3>2 DEF Up
  <2>6. CASE Fetch(c)
    <3>1. SharedTyped'
      BY <2>6, <2>d DEF Fetch, client, ledger, SharedTyped
    <3> QED
      BY <2>6, <2>a, <2>b, <2>c, <3>1 DEF Fetch
  <2>7. CASE ReadNonce(c)
    <3>1. SharedTyped'
      BY <2>7, <2>d DEF ReadNonce, client, ledger, SharedTyped
    <3>2. CASE /\ nonce' = [nonce EXCEPT ![c] = AccNonce]
               /\ Goto(c, "submit")
               /\ UNCHANGED <<tries, sub>>
      <4>1. nonce' \in [Callers -> Nat]
        BY <2>e, <3>2 DEF AccNonce, TypeInv, TypeOK
      <4> QED
        BY <2>7, <2>e, <3>1, <3>2, <4>1, GotoTyped DEF ReadNonce, Critical
    <3> QED
      BY <2>7, <2>a, <2>b, <2>c, <3>1, <3>2 DEF ReadNonce
  <2>8. CASE Submit(c)
    <3>1. op[c] \in TxKinds /\ nonce[c] \in Nat
      BY <2>8, <2>e DEF Submit
    <3>2. PoolAccepts(c, nonce[c]) \/ UNCHANGED <<pool, placed>>
      BY <2>8 DEF Submit, Accepted, SubmitFails
    <3>3. SharedTyped'
      BY <2>8, <3>1, <3>2, <2>d, PoolTyped
         DEF Submit, client, SharedTyped, TypeInv
    <3>4. CASE Accepted(c, nonce[c])
      <4>1. sub' = [sub EXCEPT ![c] = nonce[c]] /\ Goto(c, "watch")
            /\ UNCHANGED <<nonce, tries>>
        BY <3>4 DEF Accepted
      <4>2. /\ sub' \in [Callers -> Nat \cup {-1}]
            /\ sub'[c] \in Nat
            /\ \A d \in Callers \ {c} : sub'[d] = sub[d]
        BY <4>1, <3>1, <2>e
      <4> QED
        BY <2>8, <2>e, <3>1, <3>3, <4>1, <4>2, GotoTyped DEF Submit, Critical
    <3>5. CASE Goto(c, "resubmit") /\ UNCHANGED <<nonce, tries, sub>>
      BY <2>8, <2>e, <3>1, <3>3, <3>5, GotoTyped DEF Submit, Critical
    <3> QED
      BY <2>8, <2>a, <2>b, <2>c, <3>3, <3>4, <3>5 DEF Submit
  <2>9. CASE Resubmit(c)
    <3> DEFINE n == ResubmitNonce(nonce[c], tries[c])
    <3>1. op[c] \in TxKinds /\ n \in Nat
      BY <2>9, <2>e DEF Resubmit, ResubmitNonce
    <3>2. PoolAccepts(c, n) \/ UNCHANGED <<pool, placed>>
      BY <2>9 DEF Resubmit, Accepted, SubmitFails
    <3> HIDE DEF n
    <3>3. SharedTyped'
      BY <2>9, <3>1, <3>2, <2>d, PoolTyped
         DEF Resubmit, client, SharedTyped, TypeInv
    <3>4. CASE Accepted(c, n)
      <4>1. sub' = [sub EXCEPT ![c] = n] /\ Goto(c, "watch")
            /\ UNCHANGED <<nonce, tries>>
        BY <3>4 DEF Accepted
      <4>2. /\ sub' \in [Callers -> Nat \cup {-1}]
            /\ sub'[c] \in Nat
            /\ \A d \in Callers \ {c} : sub'[d] = sub[d]
        BY <4>1, <3>1, <2>e
      <4> QED
        BY <2>9, <2>e, <3>1, <3>3, <4>1, <4>2, GotoTyped DEF Resubmit, Critical
    <3>5. CASE /\ ~ LastTry(tries[c])
               /\ tries' = [tries EXCEPT ![c] = @ + 1]
               /\ UNCHANGED <<pc, ret, lock, nonce, sub>>
      <4>1. tries' \in [Callers -> 0..(MaxResubmit - 1)]
        BY <2>e, <3>5, BoundsAssumption DEF LastTry
      <4> QED
        BY <2>9, <3>3, <3>5, <4>1 DEF Resubmit, TypeInv, TypeOK, TxPoints,
           SubPoints, SharedTyped
    <3> QED
      BY <2>9, <2>a, <2>b, <2>c, <3>3, <3>4, <3>5 DEF Resubmit, n
  <2>10. CASE Watch(c)
    <3>1. SharedTyped'
      BY <2>10, <2>d DEF Watch, client, ledger, SharedTyped
    <3>2. CASE Goto(c, "events") /\ UNCHANGED <<nonce, tries, sub>>
      BY <2>10, <2>e, <3>1, <3>2, GotoTyped DEF Watch, Critical
    <3> QED
      BY <2>10, <2>b, <2>c, <3>1, <3>2 DEF Watch
  <2>11. CASE ReadEvents(c)
    <3>1. SharedTyped'
      BY <2>11, <2>d DEF ReadEvents, client, ledger, SharedTyped
    <3> QED
      BY <2>11, <2>a, <2>b, <2>c, <3>1 DEF ReadEvents
  <2> QED
    BY <1>4, <2>1, <2>2, <2>3, <2>4, <2>5, <2>6, <2>7, <2>8, <2>9, <2>10,
       <2>11 DEF Step
<1>5. CASE ProduceBlock
  <2>1. chain' \in Seq(Executed) /\ pool' \subseteq pool
    BY <1>5, BlockStep DEF TypeInv
  <2>2. IsFiniteSet(pool')
    BY <2>1, FS_Subset DEF TypeInv, TypeOK
  <2> QED
    BY <1>5, <2>1, <2>2 DEF ProduceBlock, client, caller, TypeInv, TypeOK,
       TxPoints, SubPoints
<1> QED
  BY <1>1, <1>2, <1>3, <1>4, <1>5 DEF Next

LEMMA TypeInit == Init => TypeInv
BY FS_EmptySet, BoundsAssumption DEF Init, TypeInv, TypeOK, TxPoints, SubPoints,
   Ops, Critical, NoReturn, Errors, Executed

\* Every variable keeps its type: the nonces read are naturals, tryCount stays
\* within the resubmission bound, what is watched is an extrinsic.
THEOREM TypeCorrect == Spec => []TypeOK
<1>1. Init => TypeInv
  BY TypeInit
<1>2. TypeInv /\ [Next]_vars => TypeInv'
  BY TypeStep
<1>3. TypeInv => TypeOK
  BY DEF TypeInv
<1> QED
  BY <1>1, <1>2, <1>3, PTL DEF Spec

-----------------------------------------------------------------------------
(* The lock.                                                               *)

\* Only Lock takes the lock, and every other way between Critical and the rest
\* is a Return.
LEMMA ExclusiveStep ==
    ASSUME TypeInv, TxExclusive, [Next]_vars
    PROVE  TxExclusive'
<1> USE CallersAssumption DEF TypeInv, TypeOK, TxExclusive
<1>1. CASE UNCHANGED vars
  BY <1>1 DEF vars
<1>2. ASSUME NEW c \in Callers, Start(c)
      PROVE  TxExclusive'
  <2>1. PICK k \in Ops, at \in {"lock", "health"} :
            Enter(c, k, at) /\ (at = "health" => k \notin TxKinds)
    BY <1>2, TxKindsAssumption DEF Start, Register, Update, SubmitFileMeta,
       SubmitFillerMeta, SubmitProofResults, Query, GetSyncStatus, StartTx, Ops,
       AllTxKinds
  <2> QED
    BY <2>1 DEF Enter, Critical
<1>3. ASSUME NEW c \in Callers, Lock(c)
      PROVE  TxExclusive'
  BY <1>3 DEF Lock, LockFree, TxPoints, Critical
<1>4. ASSUME NEW c \in Callers, Step(c)
      PROVE  TxExclusive'
  <2>1. op' = op /\ pc[c] \in Critical
    BY <1>4 DEF Step, HealthCheck, Probe, Reconnect, Down, Up, Fetch, ReadNonce,
       Submit, Resubmit, Watch, ReadEvents, client, ledger, Critical
  <2>2. \/ \E h \in BOOLEAN, e \in Errors : Return(c, h, e)
        \/ /\ \E at \in Critical : pc' = [pc EXCEPT ![c] = at]
           /\ UNCHANGED lock
        \/ UNCHANGED <<pc, lock>>
    BY <1>4 DEF Step, HealthCheck, Probe, Reconnect, Down, Up, Fetch, ReadNonce,
       Submit, Resubmit, Watch, ReadEvents, Accepted, Goto, Panic, Critical,
       Errors
  <2>3. CASE \E h \in BOOLEAN, e \in Errors : Return(c, h, e)
    BY <2>1, <2>3 DEF Return, Released, Critical
  <2>4. CASE /\ \E at \in Critical : pc' = [pc EXCEPT ![c] = at]
             /\ UNCHANGED lock
    BY <2>1, <2>4
  <2>5. CASE UNCHANGED <<pc, lock>>
    BY <2>1, <2>5
  <2> QED
    BY <2>2, <2>3, <2>4, <2>5
<1>5. CASE ProduceBlock
  BY <1>5 DEF ProduceBlock, caller
<1> QED
  BY <1>1, <1>2, <1>3, <1>4, <1>5 DEF Next

\* c.lock: the extrinsic methods are mutually exclusive from the probe to the
\* return, and every return, a panic's included, releases the lock.
THEOREM LockCorrect == Spec => []TxExclusive
<1> DEFINE Inv == TypeInv /\ TxExclusive
<1>1. Init => Inv
  BY TypeInit DEF Init, TxExclusive, Critical
<1>2. Inv /\ [Next]_vars => Inv'
  BY TypeStep, ExclusiveStep
<1>3. Inv => TxExclusive
  OBVIOUS
<1> HIDE DEF Inv
<1> QED
  BY <1>1, <1>2, <1>3, PTL DEF Spec

\* A step keeps the lock, takes it when it is free, or releases it.
LEMMA LockMoves ==
    ASSUME [Next]_vars
    PROVE  \/ UNCHANGED lock
           \/ lock = NoCaller /\ lock' \in Callers
           \/ lock' = NoCaller
<1>1. ASSUME NEW c \in Callers, Start(c)
      PROVE  UNCHANGED lock
  BY <1>1 DEF Start, Register, Update, SubmitFileMeta, SubmitFillerMeta,
     SubmitProofResults, Query, GetSyncStatus, StartTx, Enter
<1>2. ASSUME NEW c \in Callers, Lock(c)
      PROVE  lock = NoCaller /\ lock' \in Callers
  BY <1>2 DEF Lock, LockFree
<1>3. ASSUME NEW c \in Callers, Step(c)
      PROVE  UNCHANGED lock \/ lock' = NoCaller
  <2>1. (\E h \in BOOLEAN, e \in Errors : Return(c, h, e)) \/ UNCHANGED lock
    BY <1>3 DEF Step, HealthCheck, Probe, Reconnect, Down, Up, Fetch, ReadNonce,
       Submit, Resubmit, Watch, ReadEvents, Accepted, Goto, Panic, Errors
  <2> QED
    BY <2>1 DEF Return, Released
<1>4. ProduceBlock => UNCHANGED lock
  BY DEF ProduceBlock, caller
<1> QED
  BY <1>1, <1>2, <1>3, <1>4 DEF Next, vars

LEMMA MutexStep ==
    ASSUME TypeInv, TypeInv', TxExclusive, TxExclusive', [Next]_vars
    PROVE  [ClientLock!Next]_(ClientLock!mutexVars)
<1> DEFINE lockState == IF lock = NoCaller THEN "free" ELSE "held"
<1> DEFINE inside == {c \in Callers : pc[c] \in Critical /\ op[c] \in TxKinds}
<1>1. lock \in Callers \cup {NoCaller} /\ lock' \in Callers \cup {NoCaller}
  BY DEF TypeInv, TypeOK
<1>2. inside = IF lock = NoCaller THEN {} ELSE {lock}
  BY <1>1, CallersAssumption DEF TxExclusive
<1>3. inside' = IF lock' = NoCaller THEN {} ELSE {lock'}
  BY <1>1, CallersAssumption DEF TxExclusive
<1>4. CASE UNCHANGED lock
  BY <1>2, <1>3, <1>4 DEF ClientLock!mutexVars
<1>5. CASE lock = NoCaller /\ lock' \in Callers
  <2>1. PICK c \in Callers : lock' = c
    BY <1>5
  <2>2. ClientLock!Lock(c)
    BY <1>2, <1>3, <1>5, <2>1, CallersAssumption DEF ClientLock!Lock
  <2> QED
    BY <2>2 DEF ClientLock!Next
<1>6. CASE lock # NoCaller /\ lock' = NoCaller
  <2>1. PICK c \in Callers : lock = c
    BY <1>1, <1>6
  <2>2. ClientLock!Unlock(c)
    BY <1>2, <1>3, <1>6, <2>1, CallersAssumption DEF ClientLock!Unlock
  <2> QED
    BY <2>2 DEF ClientLock!Next
<1> QED
  BY <1>4, <1>5, <1>6, LockMoves

\* Each extrinsic method unlocks c.lock once, when it returns, and no query does.
THEOREM ClientLockCorrect == Spec => LockKept
<1> DEFINE Inv == TypeInv /\ TxExclusive
<1>1. Init => Inv /\ ClientLock!Init
  BY TypeInit DEF Init, TxExclusive, Critical, ClientLock!Init
<1>2. Inv /\ [Next]_vars => Inv'
  BY TypeStep, ExclusiveStep
<1>3. Inv /\ [Next]_vars => [ClientLock!Next]_(ClientLock!mutexVars)
  BY <1>2, MutexStep
<1> HIDE DEF Inv
<1> QED
  BY <1>1, <1>2, <1>3, PTL DEF Spec, LockKept, ClientLock!Spec

-----------------------------------------------------------------------------
(* The nonces in the pool.                                                 *)

(***************************************************************************)
(* PoolReady is not inductive: what keeps the pool free of gaps is that a  *)
(* method submits a nonce it read from the chain, and resubmits only after *)
(* that nonce was refused as occupied; since then it can only have been    *)
(* executed.                                                               *)
(***************************************************************************)
NonceFresh ==
    \A c \in Callers :
        /\ pc[c] \in {"submit", "resubmit"} => nonce[c] <= AccNonce
        /\ pc[c] = "resubmit" => nonce[c] < AccNonce \/ Occupied(nonce[c])

LEMMA AcceptReady ==
    ASSUME TypeInv, PoolReady, NEW c \in Callers, NEW n \in Nat,
           n <= AccNonce + 1,
           n = AccNonce + 1 => Occupied(AccNonce),
           PoolAccepts(c, n) \/ UNCHANGED pool, UNCHANGED chain
    PROVE  PoolReady' /\ \A k : Occupied(k) => Occupied(k)'
<1> AccNonce \in Nat /\ AccNonce' = AccNonce
  BY DEF AccNonce, TypeInv, TypeOK
<1>1. CASE UNCHANGED pool
  BY <1>1 DEF PoolReady, Occupied, PoolNonces
<1>2. CASE PoolAccepts(c, n)
  <2> DEFINE x == [nonce |-> n, kind |-> op[c]]
  <2>1. /\ pool' = pool \cup {x}
        /\ x.nonce = n
        /\ n >= AccNonce
        /\ n \notin PoolNonces
    BY <1>2 DEF PoolAccepts, Outdated, Occupied
  <2> HIDE DEF x
  <2>2. PoolNonces' = PoolNonces \cup {n}
    BY <2>1 DEF PoolNonces
  <2>3. \A t, u \in pool' : t.nonce = u.nonce => t = u
    BY <2>1 DEF PoolReady, PoolNonces
  <2> QED
    BY <2>1, <2>2, <2>3 DEF PoolReady, Occupied
<1> QED
  BY <1>1, <1>2

LEMMA PoolStep ==
    ASSUME TypeInv, PoolReady, NonceFresh, [Next]_vars
    PROVE  PoolReady' /\ NonceFresh'
<1> DEFINE Kept == UNCHANGED <<pool, chain>>
<1>0. Kept => PoolReady' /\ AccNonce' = AccNonce /\ PoolNonces' = PoolNonces
  BY DEF PoolReady, AccNonce, Occupied, PoolNonces
<1>a. AccNonce \in Nat /\ pc \in [Callers -> Critical \cup {"idle", "lock"}]
      /\ nonce \in [Callers -> Nat]
  BY DEF AccNonce, TypeInv, TypeOK
<1>1. CASE UNCHANGED vars
  BY <1>0, <1>1 DEF vars, NonceFresh, Occupied
<1>2. ASSUME NEW c \in Callers, Start(c)
      PROVE  PoolReady' /\ NonceFresh'
  BY <1>0, <1>2, <1>a DEF Start, Register, Update, SubmitFileMeta,
     SubmitFillerMeta, SubmitProofResults, Query, GetSyncStatus, StartTx, Enter,
     ledger, NonceFresh, Occupied
<1>3. ASSUME NEW c \in Callers, Lock(c)
      PROVE  PoolReady' /\ NonceFresh'
  BY <1>0, <1>3, <1>a DEF Lock, ledger, NonceFresh, Occupied
<1>4. ASSUME NEW c \in Callers, Step(c)
      PROVE  PoolReady' /\ NonceFresh'
  <2> DEFINE Leaves == /\ \E at : at \notin {"submit", "resubmit"}
                                /\ pc' = [pc EXCEPT ![c] = at]
                       /\ \A d \in Callers \ {c} : nonce'[d] = nonce[d]
  <2>a. \A h, e : Return(c, h, e) => Leaves
    BY <1>a DEF Return
  <2>b. Panic(c) => Leaves
    BY <2>a DEF Panic
  <2>c. ASSUME Leaves, Kept
        PROVE  PoolReady' /\ NonceFresh'
    BY <1>0, <1>a, <2>c DEF NonceFresh, Occupied
  <2>1. CASE HealthCheck(c) \/ Probe(c) \/ Reconnect(c) \/ Down(c) \/ Up(c)
             \/ Fetch(c) \/ Watch(c) \/ ReadEvents(c)
    <3>1. Kept
      BY <2>1 DEF HealthCheck, Probe, Reconnect, Down, Up, Fetch, Watch,
         ReadEvents, ledger
    <3>2. Leaves
      <4> HIDE DEF Leaves
      <4>1. \/ \E h, e : Return(c, h, e)
            \/ /\ \E at \in {"up", "probe", "reconnect", "down", "call", "events"} :
                     pc' = [pc EXCEPT ![c] = at]
               /\ UNCHANGED nonce
        BY <2>1 DEF HealthCheck, Probe, Reconnect, Down, Up, Fetch, Watch,
           ReadEvents, Panic, Goto
      <4> QED
        BY <2>a, <4>1 DEF Leaves
    <3> QED
      BY <3>1, <3>2, <2>c
  <2>2. CASE ReadNonce(c)
    <3>1. Kept
      BY <2>2 DEF ReadNonce, ledger
    <3>2. CASE nonce' = [nonce EXCEPT ![c] = AccNonce] /\ Goto(c, "submit")
      BY <1>0, <1>a, <3>1, <3>2 DEF Goto, NonceFresh, Occupied
    <3> HIDE DEF Leaves
    <3> QED
      BY <2>2, <2>a, <2>b, <2>c, <3>1, <3>2 DEF ReadNonce
  <2>d. ASSUME NEW n \in Nat, n <= AccNonce + 1,
               n = AccNonce + 1 => Occupied(AccNonce),
               PoolAccepts(c, n) \/ UNCHANGED pool, UNCHANGED chain,
               Leaves \/ UNCHANGED <<pc, nonce>>
        PROVE  PoolReady' /\ NonceFresh'
    <3>1. PoolReady' /\ \A k : Occupied(k) => Occupied(k)'
      BY <2>d, AcceptReady
    <3>2. AccNonce' = AccNonce
      BY <2>d DEF AccNonce
    <3> QED
      BY <1>a, <2>d, <3>1, <3>2 DEF NonceFresh
  <2>e. \A n : Accepted(c, n) => Leaves /\ PoolAccepts(c, n)
    BY DEF Accepted, Goto
  <2>f. \A n : SubmitFails(c, n) => PoolAccepts(c, n) \/ UNCHANGED pool
    BY DEF SubmitFails
  <2> HIDE DEF Leaves
  <2>3. CASE Submit(c)
    <3>1. UNCHANGED chain /\ nonce[c] \in Nat /\ nonce[c] <= AccNonce
      BY <1>a, <2>3 DEF Submit, NonceFresh
    <3>2. CASE /\ Occupied(nonce[c])
               /\ Goto(c, "resubmit")
               /\ UNCHANGED <<pool, placed, nonce, tries, sub>>
      BY <1>0, <1>a, <3>1, <3>2 DEF Goto, NonceFresh, Occupied
    <3>3. CASE Leaves /\ (PoolAccepts(c, nonce[c]) \/ UNCHANGED pool)
      BY <1>a, <2>d, <3>1, <3>3
    <3> QED
      BY <2>3, <2>a, <2>b, <2>e, <2>f, <3>2, <3>3 DEF Submit
  <2>4. CASE Resubmit(c)
    <3> DEFINE n == ResubmitNonce(nonce[c], tries[c])
    <3>1. /\ UNCHANGED chain
          /\ n \in Nat
          /\ n <= AccNonce + 1
          /\ n = AccNonce + 1 => Occupied(AccNonce)
      BY <1>a, <2>4 DEF Resubmit, ResubmitNonce, NonceFresh
    <3> HIDE DEF n
    <3>2. PoolAccepts(c, n) \/ UNCHANGED pool
      BY <2>4, <2>e, <2>f DEF Resubmit, n
    <3>3. Leaves \/ UNCHANGED <<pc, nonce>>
      BY <2>4, <2>a, <2>b, <2>e DEF Resubmit, n
    <3> QED
      BY <2>d, <3>1, <3>2, <3>3
  <2> QED
    BY <1>4, <2>1, <2>2, <2>3, <2>4 DEF Step
<1>5. CASE ProduceBlock
  <2>1. PICK m \in Nat \ {0} :
              /\ \A n \in Len(chain)..(Len(chain) + m - 1) : Occupied(n)
              /\ pool' = {t \in pool : t.nonce >= Len(chain) + m}
              /\ Len(chain') = Len(chain) + m
    <3>1. TypeOK
      BY DEF TypeInv
    <3> QED
      BY ONLY <1>5, <3>1, BlockStep, Zenon
  <2>2. AccNonce' = AccNonce + m
    BY <2>1 DEF AccNonce
  <2>3. \A t \in pool : t.nonce \in Nat
    BY DEF TypeInv, TypeOK, Txs
  <2>4. PoolNonces' = {n \in PoolNonces : n >= AccNonce + m}
    BY <2>1, <2>3 DEF PoolNonces, AccNonce
  <2>5. PoolReady'
    <3>1. PoolNonces' \subseteq {AccNonce'}
      <4>1. PoolNonces \subseteq {AccNonce, AccNonce + 1}
        BY DEF PoolReady
      <4>2. ASSUME NEW n \in PoolNonces, n >= AccNonce + m
            PROVE  n = AccNonce + m
        <5>1. n = AccNonce \/ n = AccNonce + 1
          BY <4>1
        <5> QED
          BY <1>a, <4>2, <5>1
      <4> QED
        BY <2>2, <2>4, <4>2, Zenon
    <3>2. \A t, u \in pool' : t.nonce = u.nonce => t = u
      BY <2>1 DEF PoolReady
    <3>3. AccNonce' + 1 # AccNonce'
      BY <1>a, <2>2
    <3> QED
      BY <3>1, <3>2, <3>3, Zenon DEF PoolReady, Occupied
  <2>6. UNCHANGED <<pc, nonce>>
    BY <1>5 DEF ProduceBlock, caller
  <2>7. NonceFresh'
    BY <1>a, <2>2, <2>4, <2>6 DEF NonceFresh, Occupied
  <2> QED
    BY <2>5, <2>7
<1> QED
  BY <1>1, <1>2, <1>3, <1>4, <1>5 DEF Next

\* The retry with nonce + 1 keeps the pool executable: whatever methods have
\* given up on, at most two extrinsics wait, on the next nonces, without a gap.
THEOREM PoolCorrect == Spec => []PoolReady
<1> DEFINE Inv == TypeInv /\ PoolReady /\ NonceFresh
<1>1. Init => Inv
  BY TypeInit DEF Init, PoolReady, NonceFresh, Occupied, PoolNonces
<1>2. Inv /\ [Next]_vars => Inv'
  BY TypeStep, PoolStep
<1>3. Inv => PoolReady
  OBVIOUS
<1> HIDE DEF Inv
<1> QED
  BY <1>1, <1>2, <1>3, PTL DEF Spec

-----------------------------------------------------------------------------
(* What is reported.                                                       *)

\* The extrinsic a method watches is where it looks for it.
Tracked ==
    \A c \in Callers : pc[c] \in {"watch", "events"} =>
        \/ sub[c] < AccNonce /\ chain[sub[c] + 1].kind = op[c]
        \/ pc[c] = "watch" /\ [nonce |-> sub[c], kind |-> op[c]] \in pool

HonestInv ==
    /\ Tracked
    /\ \A c \in Callers : ret[c].hash => pc[c] = "idle"
    /\ ReportHonest

\* The event that makes a method return no error is one of its block's, also
\* when only some of them were decoded.
LEMMA ReadOutcome ==
    ASSUME NEW c \in Callers, ReadEvents(c)
    PROVE  \/ Panic(c)
           \/ Return(c, TRUE, "other")
           \/ Return(c, TRUE, "failed")
           \/ /\ Return(c, TRUE, "nil")
              /\ Sought[op[c]] \in chain[sub[c] + 1].events
<1> SUFFICES ASSUME NEW decoded \in SUBSET chain[sub[c] + 1].events,
                    Return(c, TRUE, IF EventSeen(op[c], decoded)
                                    THEN "nil" ELSE "failed")
             PROVE  \/ Return(c, TRUE, "failed")
                    \/ /\ Return(c, TRUE, "nil")
                       /\ Sought[op[c]] \in chain[sub[c] + 1].events
  BY DEF ReadEvents
<1>1. CASE EventSeen(op[c], decoded)
  BY <1>1 DEF EventSeen
<1>2. CASE ~ EventSeen(op[c], decoded)
  BY <1>2
<1> QED
  BY <1>1, <1>2

LEMMA HonestStep ==
    ASSUME TypeInv, PoolReady, HonestInv, [Next]_vars
    PROVE  HonestInv'
<1>a. /\ AccNonce \in Nat
      /\ pc \in [Callers -> Critical \cup {"idle", "lock"}]
      /\ op \in [Callers -> Ops]
      /\ sub \in [Callers -> Nat \cup {-1}]
      /\ ret \in [Callers -> [hash : BOOLEAN, err : Errors]]
  BY DEF AccNonce, TypeInv, TypeOK
<1>c. \A t \in pool : t.nonce >= AccNonce
  <2>1. \A t \in pool : t.nonce \in {AccNonce, AccNonce + 1}
    BY Zenon DEF PoolReady, PoolNonces
  <2>2. \A n \in {AccNonce, AccNonce + 1} : n >= AccNonce
    BY <1>a
  <2> QED
    BY <2>1, <2>2
<1>b. UNCHANGED chain => AccNonce' = AccNonce
  BY DEF AccNonce
<1>1. CASE UNCHANGED vars
  BY <1>1 DEF vars, HonestInv, Tracked, ReportHonest, AccNonce
<1>2. ASSUME NEW c \in Callers, Start(c)
      PROVE  HonestInv'
  <2>1. PICK k \in Ops, at \in {"lock", "health"} : Enter(c, k, at)
    BY <1>2 DEF Start, Register, Update, SubmitFileMeta, SubmitFillerMeta,
       SubmitProofResults, Query, GetSyncStatus, StartTx, Ops
  <2> QED
    BY <1>a, <1>b, <2>1 DEF Enter, NoReturn, ledger, HonestInv, Tracked,
       ReportHonest
<1>3. ASSUME NEW c \in Callers, Lock(c)
      PROVE  HonestInv'
  BY <1>a, <1>b, <1>3 DEF Lock, ledger, HonestInv, Tracked, ReportHonest
<1>4. ASSUME NEW c \in Callers, Step(c)
      PROVE  HonestInv'
  <2>1. UNCHANGED <<chain, op>> /\ pool \subseteq pool'
    BY <1>4 DEF Step, HealthCheck, Probe, Reconnect, Down, Up, Fetch, ReadNonce,
       Submit, Resubmit, Watch, ReadEvents, Accepted, SubmitFails, PoolAccepts,
       client, ledger
  <2>2. pc[c] \in Critical
    BY <1>4 DEF Step, HealthCheck, Probe, Reconnect, Down, Up, Fetch, ReadNonce,
       Submit, Resubmit, Watch, ReadEvents, Critical
  <2>3. AccNonce' = AccNonce
    BY <1>b, <2>1
  <2>4. ASSUME NEW e \in Errors, Return(c, FALSE, e)
        PROVE  HonestInv'
    BY <1>a, <2>1, <2>3, <2>4 DEF Return, HonestInv, Tracked, ReportHonest
  <2>5. Panic(c) => HonestInv'
    BY <2>4 DEF Panic, Errors
  <2>6. ASSUME NEW at \in Critical \ {"watch", "events"},
               pc' = [pc EXCEPT ![c] = at], UNCHANGED <<ret, sub>>
        PROVE  HonestInv'
    BY <1>a, <2>1, <2>2, <2>3, <2>6 DEF HonestInv, Tracked, ReportHonest,
       Critical
  <2>7. CASE HealthCheck(c) \/ Probe(c) \/ Reconnect(c) \/ Down(c) \/ Up(c)
             \/ Fetch(c) \/ ReadNonce(c)
    <3>1. \/ \E e \in Errors : Return(c, FALSE, e)
          \/ \E at \in Critical \ {"watch", "events"} :
                pc' = [pc EXCEPT ![c] = at] /\ UNCHANGED <<ret, sub>>
      BY <2>7 DEF HealthCheck, Probe, Reconnect, Down, Up, Fetch, ReadNonce,
         Panic, Goto, Critical, Errors
    <3> QED
      BY <2>4, <2>6, <3>1
  <2>8. ASSUME NEW n \in Nat, Accepted(c, n), pc[c] \in {"submit", "resubmit"}
        PROVE  HonestInv'
    <3>1. /\ pool' = pool \cup {[nonce |-> n, kind |-> op[c]]}
          /\ sub' = [sub EXCEPT ![c] = n]
          /\ pc' = [pc EXCEPT ![c] = "watch"]
          /\ UNCHANGED ret
      BY <2>8 DEF Accepted, PoolAccepts, Goto
    <3>2. [nonce |-> sub'[c], kind |-> op'[c]] \in pool'
      BY <1>a, <2>1, <3>1
    <3>3. Tracked'
      BY <1>a, <2>1, <2>3, <3>1, <3>2 DEF HonestInv, Tracked
    <3> QED
      BY <1>a, <2>1, <2>3, <2>8, <3>1, <3>3 DEF HonestInv, ReportHonest
  <2>9. CASE Submit(c) \/ Resubmit(c)
    <3>1. nonce[c] \in Nat /\ ResubmitNonce(nonce[c], tries[c]) \in Nat
      BY DEF ResubmitNonce, TypeInv, TypeOK
    <3>2. pc[c] \in {"submit", "resubmit"}
      BY <2>9 DEF Submit, Resubmit
    <3>3. CASE UNCHANGED <<pc, ret, lock, nonce, sub>>
      BY <1>a, <2>1, <2>3, <3>3 DEF HonestInv, Tracked, ReportHonest
    <3>4. \/ Panic(c)
          \/ Return(c, FALSE, "other")
          \/ \E n \in Nat : Accepted(c, n)
          \/ Goto(c, "resubmit") /\ UNCHANGED sub
          \/ UNCHANGED <<pc, ret, lock, nonce, sub>>
      BY <2>9, <3>1 DEF Submit, Resubmit
    <3>5. CASE Goto(c, "resubmit") /\ UNCHANGED sub
      BY <2>6, <3>5 DEF Goto, Critical
    <3> QED
      BY <2>4, <2>5, <2>8, <3>2, <3>3, <3>4, <3>5 DEF Errors
  <2>10. CASE Watch(c)
    <3>1. CASE Included(sub[c]) /\ Goto(c, "events") /\ UNCHANGED sub
      <4>1. sub[c] \in Nat /\ sub[c] < AccNonce /\ pc[c] = "watch"
        BY <2>10, <3>1 DEF Watch, Included, TypeInv, SubPoints
      <4>2. chain[sub[c] + 1].kind = op[c]
        <5>2. [nonce |-> sub[c], kind |-> op[c]] \notin pool
          BY <1>a, <1>c, <4>1
        <5> QED
          BY <4>1, <5>2 DEF HonestInv, Tracked
      <4>3. Tracked'
        BY <1>a, <2>1, <2>3, <3>1, <4>1, <4>2 DEF Goto, HonestInv, Tracked
      <4> QED
        BY <1>a, <2>1, <2>3, <3>1, <4>1, <4>3 DEF Goto, HonestInv, ReportHonest
    <3> QED
      BY <2>4, <2>10, <3>1 DEF Watch, Errors
  <2>11. CASE ReadEvents(c)
    <3>1. ASSUME NEW e \in Errors, Return(c, TRUE, e),
                 e = "nil" => Sought[op[c]] \in chain[sub[c] + 1].events
          PROVE  HonestInv'
      <4>1. /\ sub[c] \in Nat
            /\ sub[c] < AccNonce
            /\ chain[sub[c] + 1].kind = op[c]
        BY <2>11 DEF ReadEvents, HonestInv, Tracked, TypeInv, SubPoints
      <4>4. /\ pc' = [pc EXCEPT ![c] = "idle"]
            /\ ret' = [ret EXCEPT ![c] = [hash |-> TRUE, err |-> e]]
            /\ sub' = sub
        BY <1>a, <3>1 DEF Return
      <4>5. Tracked'
        BY <1>a, <2>1, <2>3, <4>4 DEF HonestInv, Tracked
      <4>6. ReportHonest'
        BY <1>a, <2>1, <2>3, <3>1, <4>1, <4>4 DEF HonestInv, ReportHonest
      <4> QED
        BY <1>a, <2>3, <4>4, <4>5, <4>6 DEF HonestInv
    <3> QED
      BY <2>5, <2>11, <3>1, ReadOutcome DEF Errors
  <2> QED
    BY <1>4, <2>7, <2>9, <2>10, <2>11 DEF Step
<1>5. CASE ProduceBlock
  <2>1. PICK m \in Nat \ {0} :
              /\ \A n \in Len(chain)..(Len(chain) + m - 1) : Occupied(n)
              /\ pool' = {t \in pool : t.nonce >= Len(chain) + m}
              /\ Len(chain') = Len(chain) + m
              /\ \A i \in 1..Len(chain) : chain'[i] = chain[i]
              /\ \A i \in 1..m :
                    chain'[Len(chain) + i].kind = TxAt(Len(chain) + i - 1).kind
    <3>1. TypeOK
      BY DEF TypeInv
    <3> QED
      BY ONLY <1>5, <3>1, BlockStep, Zenon
  <2>2. UNCHANGED <<pc, op, sub, ret>>
    BY <1>5 DEF ProduceBlock, caller
  <2>3. Len(chain) = AccNonce /\ AccNonce' = AccNonce + m
    BY <2>1 DEF AccNonce
  <2>5. ASSUME NEW n \in Nat, n < AccNonce
        PROVE  chain'[n + 1] = chain[n + 1]
    BY <1>a, <2>1, <2>3, <2>5
  <2>6. ASSUME NEW t \in pool
        PROVE  \/ t \in pool'
               \/ t.nonce < AccNonce' /\ chain'[t.nonce + 1].kind = t.kind
    <3>1. t.nonce \in Nat /\ t.nonce >= AccNonce
      BY <1>c DEF TypeInv, TypeOK, Txs
    <3>2. CASE t.nonce >= AccNonce + m
      BY <2>1, <2>3, <3>2
    <3>3. CASE t.nonce < AccNonce + m
      <4> DEFINE i == t.nonce - AccNonce + 1
      <4>1. /\ i \in 1..m
            /\ Len(chain) + i = t.nonce + 1
            /\ Len(chain) + i - 1 = t.nonce
        BY <1>a, <2>3, <3>1, <3>3
      <4>2. TxAt(t.nonce) = t
        <5>1. Occupied(t.nonce)
          BY DEF Occupied, PoolNonces
        <5> QED
          BY <5>1, TxAtPicks DEF PoolReady
      <4> HIDE DEF i
      <4>3. chain'[t.nonce + 1].kind = t.kind
        BY <2>1, <4>1, <4>2
      <4> QED
        BY <2>3, <3>3, <4>3
    <3> QED
      BY <1>a, <3>1, <3>2, <3>3
  <2>7. Tracked'
    <3> SUFFICES ASSUME NEW c \in Callers, pc[c] \in {"watch", "events"}
                 PROVE  \/ /\ sub[c] < AccNonce'
                           /\ chain'[sub[c] + 1].kind = op[c]
                        \/ /\ pc[c] = "watch"
                           /\ [nonce |-> sub[c], kind |-> op[c]] \in pool'
      BY <2>2 DEF Tracked
    <3>1. sub[c] \in Nat
      BY DEF TypeInv, SubPoints
    <3>2. CASE sub[c] < AccNonce /\ chain[sub[c] + 1].kind = op[c]
      BY <1>a, <2>3, <2>5, <3>1, <3>2
    <3>3. CASE pc[c] = "watch" /\ [nonce |-> sub[c], kind |-> op[c]] \in pool
      BY <2>6, <3>3
    <3> QED
      BY <3>2, <3>3 DEF HonestInv, Tracked
  <2>8. ReportHonest'
    <3> SUFFICES ASSUME NEW c \in Callers, ret[c].hash
                 PROVE  /\ sub[c] \in 0..(AccNonce' - 1)
                        /\ chain'[sub[c] + 1] = chain[sub[c] + 1]
      BY <2>2 DEF HonestInv, ReportHonest
    <3>1. sub[c] \in 0..(AccNonce - 1)
      BY DEF HonestInv, ReportHonest
    <3> QED
      BY <1>a, <2>3, <2>5, <3>1
  <2> QED
    BY <2>2, <2>7, <2>8 DEF HonestInv
<1> QED
  BY <1>1, <1>2, <1>3, <1>4, <1>5 DEF Next

\* The block hash an extrinsic method returns names a block that holds the
\* extrinsic it submitted, and a nil error an event it looks for in that block.
THEOREM ReportCorrect == Spec => []ReportHonest
<1> DEFINE Inv == TypeInv /\ PoolReady /\ NonceFresh /\ HonestInv
<1>1. Init => Inv
  BY TypeInit DEF Init, PoolReady, NonceFresh, Occupied, PoolNonces, HonestInv,
     Tracked, ReportHonest, NoReturn
<1>2. Inv /\ [Next]_vars => Inv'
  BY TypeStep, PoolStep, HonestStep
<1>3. Inv => ReportHonest
  BY DEF HonestInv
<1> HIDE DEF Inv
<1> QED
  BY <1>1, <1>2, <1>3, PTL DEF Spec
-----------------------------------------------------------------------------
(* Resubmissions.                                                          *)

\* The nonce is used up: the pool refuses another extrinsic for it.
Taken(n) == Outdated(n) \/ Occupied(n)

(***************************************************************************)
(* AtMostOnce is not inductive: what keeps a later round of the loop from  *)
(* placing a second extrinsic is that every round asks for the same nonce, *)
(* which stays taken once the pool took the first.                         *)
(***************************************************************************)
OnceInv ==
    /\ AtMostOnce
    /\ \A c \in Callers :
          /\ pc[c] \in {"lock", "health", "probe", "reconnect", "down", "up",
                        "call", "submit"}
                => placed[c] = 0
          /\ pc[c] = "resubmit" => placed[c] = 0 \/ Taken(nonce[c] + 1)

\* A nonce once taken stays so: a block outdates what it takes from the pool.
LEMMA TakenStays ==
    ASSUME TypeInv, [Next]_vars, NEW n \in Nat, Taken(n)
    PROVE  Taken(n)'
<1>1. CASE UNCHANGED chain /\ pool \subseteq pool'
  BY <1>1 DEF Taken, Outdated, Occupied, PoolNonces, AccNonce
<1>2. CASE ProduceBlock
  <2>1. PICK m \in Nat \ {0} :
              /\ pool' = {t \in pool : t.nonce >= Len(chain) + m}
              /\ Len(chain') = Len(chain) + m
    <3>1. TypeOK
      BY DEF TypeInv
    <3> QED
      BY ONLY <1>2, <3>1, BlockStep, Zenon
  <2>2. Len(chain) \in Nat
    BY DEF TypeInv, TypeOK
  <2>3. CASE Outdated(n)
    BY <2>1, <2>2, <2>3 DEF Taken, Outdated, AccNonce
  <2>4. CASE Occupied(n)
    <3>1. PICK t \in pool : t.nonce = n
      BY <2>4 DEF Occupied, PoolNonces
    <3>2. CASE n >= Len(chain) + m
      BY <2>1, <3>1, <3>2 DEF Taken, Occupied, PoolNonces
    <3>3. CASE n < Len(chain) + m
      BY <2>1, <3>3 DEF Taken, Outdated, AccNonce
    <3> QED
      BY <2>1, <2>2, <3>2, <3>3
  <2> QED
    BY <2>3, <2>4 DEF Taken
<1>3. ASSUME NEW c \in Callers, Start(c) \/ Lock(c)
      PROVE  UNCHANGED chain /\ pool \subseteq pool'
  BY <1>3 DEF Start, Register, Update, SubmitFileMeta, SubmitFillerMeta,
     SubmitProofResults, Query, GetSyncStatus, StartTx, Enter, Lock, ledger
<1>4. ASSUME NEW c \in Callers, Step(c)
      PROVE  UNCHANGED chain /\ pool \subseteq pool'
  BY <1>4 DEF Step, HealthCheck, Probe, Reconnect, Down, Up, Fetch, ReadNonce,
     Submit, Resubmit, Watch, ReadEvents, Accepted, SubmitFails, PoolAccepts,
     client, ledger
<1> QED
  BY <1>1, <1>2, <1>3, <1>4 DEF Next, vars

LEMMA OnceStep ==
    ASSUME TypeInv, OnceInv, [Next]_vars
    PROVE  OnceInv'
<1>a. /\ pc \in [Callers -> Critical \cup {"idle", "lock"}]
      /\ nonce \in [Callers -> Nat]
      /\ placed \in [Callers -> Nat]
  BY DEF TypeInv, TypeOK
<1>b. \A n \in Nat : Taken(n) => Taken(n)'
  BY TakenStays
<1>c. \A d \in Callers : Taken(nonce[d] + 1) /\ nonce'[d] = nonce[d]
                            => Taken(nonce[d] + 1)'
  BY <1>a, <1>b DEF Taken, Outdated, Occupied
<1>1. CASE UNCHANGED <<pc, nonce, placed>>
  BY <1>1, <1>c DEF OnceInv, AtMostOnce
<1>2. ASSUME NEW c \in Callers, Start(c)
      PROVE  OnceInv'
  <2>1. PICK k \in Ops, at \in {"lock", "health"} : Enter(c, k, at)
    BY <1>2 DEF Start, Register, Update, SubmitFileMeta, SubmitFillerMeta,
       SubmitProofResults, Query, GetSyncStatus, StartTx, Ops
  <2> QED
    BY <1>a, <1>c, <2>1 DEF Enter, OnceInv, AtMostOnce
<1>3. ASSUME NEW c \in Callers, Lock(c)
      PROVE  OnceInv'
  BY <1>a, <1>c, <1>3 DEF Lock, ledger, OnceInv, AtMostOnce
<1>4. ASSUME NEW c \in Callers, Step(c)
      PROVE  OnceInv'
  \* c leaves for a point where nothing is placed any more.
  <2> DEFINE Ends == /\ \E at \in {"idle", "watch", "events"} :
                           pc' = [pc EXCEPT ![c] = at]
                     /\ \A d \in Callers \ {c} : nonce'[d] = nonce[d]
  \* c goes on, before its first submission.
  <2> DEFINE Before ==
               /\ \E at \in {"probe", "reconnect", "down", "up", "call",
                             "submit"} :
                     pc' = [pc EXCEPT ![c] = at]
               /\ \A d \in Callers \ {c} : nonce'[d] = nonce[d]
               /\ pc[c] \in {"health", "probe", "reconnect", "up", "call"}
  <2>a. \A h, e : Return(c, h, e) => Ends
    BY <1>a DEF Return
  <2>b. Panic(c) => Ends
    BY <2>a DEF Panic
  <2>c. ASSUME Ends, UNCHANGED placed
        PROVE  OnceInv'
    BY <1>a, <1>c, <2>c DEF OnceInv, AtMostOnce
  <2>d. ASSUME Before, UNCHANGED placed
        PROVE  OnceInv'
    BY <1>a, <1>c, <2>d DEF OnceInv, AtMostOnce
  <2>1. CASE HealthCheck(c) \/ Probe(c) \/ Reconnect(c) \/ Down(c) \/ Up(c)
             \/ Fetch(c) \/ ReadNonce(c) \/ Watch(c) \/ ReadEvents(c)
    <3>1. UNCHANGED placed
      BY <2>1 DEF HealthCheck, Probe, Reconnect, Down, Up, Fetch, ReadNonce,
         Watch, ReadEvents, ledger
    <3> HIDE DEF Ends
    <3>2. Goto(c, "events") /\ UNCHANGED nonce => Ends
      BY DEF Goto, Ends
    <3>3. Ends \/ Before
      BY <1>a, <2>1, <2>a, <2>b, <3>2 DEF HealthCheck, Probe, Reconnect, Down,
         Up, Fetch, ReadNonce, Watch, ReadEvents, Goto
    <3> QED
      BY <2>c, <2>d, <3>1, <3>3
  \* The pool takes an extrinsic of c, its first.
  <2>e. ASSUME NEW n \in Nat, PoolAccepts(c, n),
               pc[c] = "resubmit" => n = nonce[c] + 1,
               pc[c] \in {"submit", "resubmit"}
        PROVE  /\ placed[c] = 0
               /\ placed' = [placed EXCEPT ![c] = 1]
               /\ Taken(n)'
    <3>1. placed[c] = 0
      BY <2>e DEF PoolAccepts, Taken, OnceInv
    <3>2. placed' = [placed EXCEPT ![c] = 1]
      BY <1>a, <2>e, <3>1 DEF PoolAccepts
    <3>3. Taken(n)'
      <4> DEFINE x == [nonce |-> n, kind |-> op[c]]
      <4>1. x \in pool' /\ x.nonce = n
        BY <2>e DEF PoolAccepts
      <4> HIDE DEF x
      <4>2. n \in {t.nonce : t \in pool'}
        BY <4>1
      <4> QED
        BY <4>2 DEF Taken, Occupied, PoolNonces
    <3> QED
      BY <3>1, <3>2, <3>3
  <2>f. ASSUME NEW n \in Nat, Ends,
               PoolAccepts(c, n) \/ UNCHANGED placed,
               pc[c] = "resubmit" => n = nonce[c] + 1,
               pc[c] \in {"submit", "resubmit"}
        PROVE  OnceInv'
    <3>1. CASE PoolAccepts(c, n)
      BY <1>a, <1>c, <2>e, <2>f, <3>1 DEF OnceInv, AtMostOnce
    <3> QED
      BY <2>c, <2>f, <3>1
  <2>g. \A n : Accepted(c, n) => Ends /\ PoolAccepts(c, n)
    BY DEF Accepted, Goto
  <2>h. \A n : SubmitFails(c, n) => PoolAccepts(c, n) \/ UNCHANGED placed
    BY DEF SubmitFails
  <2> HIDE DEF Ends, Before
  <2>2. CASE Submit(c)
    <3>1. nonce[c] \in Nat /\ pc[c] = "submit"
      BY <1>a, <2>2 DEF Submit
    <3>2. CASE Goto(c, "resubmit") /\ UNCHANGED <<placed, nonce>>
      BY <1>a, <1>c, <3>1, <3>2 DEF Goto, OnceInv, AtMostOnce
    <3>3. CASE Ends /\ (PoolAccepts(c, nonce[c]) \/ UNCHANGED placed)
      BY <2>f, <3>1, <3>3
    <3> QED
      BY <2>2, <2>a, <2>b, <2>g, <2>h, <3>2, <3>3 DEF Submit
  <2>3. CASE Resubmit(c)
    <3>1. PICK n \in Nat : n = ResubmitNonce(nonce[c], tries[c])
      BY <1>a DEF ResubmitNonce
    <3>a. pc[c] = "resubmit" /\ n = nonce[c] + 1
      BY <2>3, <3>1 DEF Resubmit, ResubmitNonce
    <3>2. CASE SubmitFails(c, n) /\ UNCHANGED <<pc, nonce>>
      <4>1. CASE PoolAccepts(c, n)
        <5>1. /\ placed' = [placed EXCEPT ![c] = 1]
              /\ Taken(n)'
          BY <2>e, <3>a, <4>1
        <5>2. Taken(nonce[c] + 1)'
          BY <3>a, <3>2, <5>1 DEF Taken, Outdated, Occupied
        <5> QED
          <6>1. \A d \in Callers : placed'[d] <= 1
            BY <1>a, <5>1 DEF OnceInv, AtMostOnce
          <6>2. \A d \in Callers \ {c} : placed'[d] = placed[d]
            BY <1>a, <5>1
          <6>3. \A d \in Callers :
                   pc[d] = "resubmit" => placed'[d] = 0 \/ Taken(nonce[d] + 1)'
            BY <1>c, <3>2, <5>2, <6>2 DEF OnceInv
          <6> QED
            BY <3>2, <3>a, <6>1, <6>2, <6>3 DEF OnceInv, AtMostOnce
      <4>2. CASE UNCHANGED placed
        BY <1>1, <3>2, <4>2
      <4> QED
        BY <2>h, <3>2, <4>1, <4>2
    <3>3. CASE Ends /\ (PoolAccepts(c, n) \/ UNCHANGED placed)
      BY <2>f, <3>a, <3>3
    <3> QED
      BY <2>3, <2>a, <2>b, <2>g, <2>h, <3>1, <3>2, <3>3 DEF Resubmit
  <2> QED
    BY <1>4, <2>1, <2>2, <2>3 DEF Step
<1>5. CASE ProduceBlock
  BY <1>1, <1>5 DEF ProduceBlock, caller
<1>6. CASE UNCHANGED vars
  BY <1>1, <1>6 DEF vars
<1> QED
  BY <1>2, <1>3, <1>4, <1>5, <1>6 DEF Next

\* However many answers are lost, the rounds of a call's resubmission loop
\* place one extrinsic of it at most, in the pool or on the chain.
THEOREM OnceCorrect == Spec => []AtMostOnce
<1> DEFINE Inv == TypeInv /\ OnceInv
<1>1. Init => Inv
  BY TypeInit DEF Init, OnceInv, AtMostOnce
<1>2. Inv /\ [Next]_vars => Inv'
  BY TypeStep, OnceStep
<1>3. Inv => AtMostOnce
  BY DEF OnceInv
<1> HIDE DEF Inv
<1> QED
  BY <1>1, <1>2, <1>3, PTL DEF Spec

-----------------------------------------------------------------------------
(* The account.                                                            *)

LEMMA QueueKept ==
    ASSUME UNCHANGED <<pool, chain>>
    PROVE  Queue' = Queue
BY DEF Queue, KindAt, TxAt, AccNonce, PoolNonces

\* Where one extrinsic per nonce is held, TxAt is that one.
LEMMA TxAtIs ==
    ASSUME PoolReady, NEW t \in pool
    PROVE  TxAt(t.nonce) = t
<1>1. Occupied(t.nonce)
  BY DEF Occupied, PoolNonces
<1> QED
  BY <1>1, TxAtPicks DEF PoolReady

\* The pool takes an extrinsic for the next free nonce: no gap, no other moved.
LEMMA QueueGrows ==
    ASSUME TypeInv, PoolReady, PoolReady', NEW c \in Callers, NEW n \in Nat,
           PoolAccepts(c, n), UNCHANGED chain
    PROVE  /\ DOMAIN Queue = 0..(n - 1)
           /\ Queue' = [i \in 0..n |-> IF i = n THEN op[c] ELSE Queue[i]]
<1> DEFINE x == [nonce |-> n, kind |-> op[c]]
<1>1. AccNonce \in Nat /\ AccNonce' = AccNonce
  BY DEF AccNonce, TypeInv, TypeOK
<1>2. /\ pool' = pool \cup {x}
      /\ x.nonce = n /\ x.kind = op[c]
      /\ n >= AccNonce
      /\ n \notin PoolNonces
  BY <1>1 DEF PoolAccepts, Outdated, Occupied
<1> HIDE DEF x
<1>3. PoolNonces' = PoolNonces \cup {n}
  BY <1>2 DEF PoolNonces
<1>4. \/ n = AccNonce /\ PoolNonces = {}
      \/ n = AccNonce + 1 /\ PoolNonces = {AccNonce}
  <2>1. PoolNonces \subseteq {AccNonce, AccNonce + 1}
    BY DEF PoolReady
  <2>2. AccNonce + 1 \in PoolNonces => AccNonce \in PoolNonces
    BY DEF PoolReady, Occupied
  <2>3. n \in {AccNonce, AccNonce + 1}
    BY <1>1, <1>3 DEF PoolReady
  <2>4. n = AccNonce + 1 => AccNonce \in PoolNonces
    <3>1. n = AccNonce + 1 => AccNonce \in PoolNonces'
      BY <1>1, <1>3 DEF PoolReady, Occupied
    <3> QED
      BY <1>1, <1>3, <3>1
  <2> QED
    BY <1>1, <1>2, <2>1, <2>2, <2>3, <2>4
<1>5. 0..(AccNonce - 1) \cup PoolNonces = 0..(n - 1)
  BY <1>1, <1>4
<1>6. 0..(AccNonce - 1) \cup PoolNonces' = 0..n
  BY <1>1, <1>3, <1>4
<1>7. ASSUME NEW i \in 0..(n - 1)
      PROVE  KindAt(i)' = KindAt(i)
  <2>1. CASE i < AccNonce
    BY <1>1, <2>1 DEF KindAt
  <2>2. CASE ~ (i < AccNonce)
    <3>1. i \in PoolNonces
      BY <1>1, <1>4, <2>2
    <3>2. PICK t \in pool : t.nonce = i
      BY <3>1 DEF PoolNonces
    <3>3. TxAt(i) = t
      BY <3>2, TxAtIs
    <3>4. TxAt(i)' = t
      <4>1. \A u \in pool' : u.nonce = i => u = t
        BY <1>2, <3>2 DEF PoolReady
      <4> QED
        BY <1>2, <3>2, <4>1 DEF TxAt
    <3> QED
      BY <1>1, <2>2, <3>3, <3>4 DEF KindAt
  <2> QED
    BY <2>1, <2>2
<1>8. KindAt(n)' = op[c]
  <2>1. \A u \in pool' : u.nonce = n => u = x
    BY <1>2 DEF PoolReady
  <2>2. TxAt(n)' = x
    BY <1>2, <2>1 DEF TxAt
  <2> QED
    BY <1>1, <1>2, <2>2 DEF KindAt
<1>9. Queue = [i \in 0..(n - 1) |-> KindAt(i)]
  BY <1>5 DEF Queue
<1>10. Queue' = [i \in 0..n |-> KindAt(i)']
  BY <1>1, <1>6 DEF Queue
<1>11. ASSUME NEW i \in 0..n
       PROVE  KindAt(i)' = IF i = n THEN op[c] ELSE Queue[i]
  <2>1. CASE i = n
    BY <1>8, <2>1
  <2>2. CASE i # n
    <3>1. i \in 0..(n - 1)
      BY <2>2
    <3> QED
      BY <1>7, <1>9, <2>2, <3>1
  <2> QED
    BY <2>1, <2>2
<1> QED
  BY <1>9, <1>10, <1>11

\* What the pool takes is put at the end of the account's queue.
LEMMA PutStep ==
    ASSUME TypeInv, PoolReady, PoolReady', NEW c \in Callers, NEW n \in Nat,
           PoolAccepts(c, n), UNCHANGED chain,
           pc[c] # "idle", op[c] \in TxKinds, placed[c] = 0
    PROVE  Promise!Put(c, n) /\ n \in DOMAIN Queue'
<1>1. DOMAIN Queue = 0..(n - 1)
  BY QueueGrows
<1>2. Queue' = [i \in 0..n |-> IF i = n THEN op[c] ELSE Queue[i]]
  BY QueueGrows
<1>3. placed' = [placed EXCEPT ![c] = 1]
  BY DEF PoolAccepts, TypeInv, TypeOK
<1>4. Calling[c]
  BY DEF Calling
<1> QED
  BY <1>1, <1>2, <1>3, <1>4 DEF Promise!Put

\* A block moves records from the pool to the chain, and keeps their places.
LEMMA QueueStays ==
    ASSUME TypeInv, PoolReady, ProduceBlock
    PROVE  Queue' = Queue
<1>1. PICK m \in Nat \ {0} :
            /\ \A n \in Len(chain)..(Len(chain) + m - 1) : Occupied(n)
            /\ pool' = {t \in pool : t.nonce >= Len(chain) + m}
            /\ Len(chain') = Len(chain) + m
            /\ \A i \in 1..Len(chain) : chain'[i] = chain[i]
            /\ \A i \in 1..m :
                  chain'[Len(chain) + i].kind = TxAt(Len(chain) + i - 1).kind
  <2>1. TypeOK /\ ProduceBlock
    BY DEF TypeInv
  <2> QED
    BY ONLY <2>1, BlockStep, Zenon
<1>2. AccNonce \in Nat /\ Len(chain) = AccNonce /\ AccNonce' = AccNonce + m
  BY <1>1 DEF AccNonce, TypeInv, TypeOK
<1>3. PoolNonces \subseteq Nat
  BY DEF PoolNonces, TypeInv, TypeOK, Txs
<1>4. PoolNonces' = {n \in PoolNonces : n >= AccNonce + m}
  BY <1>1, <1>2, <1>3 DEF PoolNonces
<1>5. \A n \in AccNonce..(AccNonce + m - 1) : n \in PoolNonces
  BY <1>1, <1>2 DEF Occupied
<1> DEFINE dom == 0..(AccNonce - 1) \cup PoolNonces
<1>6. 0..(AccNonce' - 1) \cup PoolNonces' = dom
  <2>1. ASSUME NEW n \in 0..(AccNonce' - 1) \cup PoolNonces'
        PROVE  n \in dom
    BY <1>2, <1>4, <1>5
  <2>2. ASSUME NEW n \in dom
        PROVE  n \in 0..(AccNonce' - 1) \cup PoolNonces'
    BY <1>2, <1>3, <1>4
  <2> QED
    BY <2>1, <2>2
<1>7. ASSUME NEW n \in dom
      PROVE  KindAt(n)' = KindAt(n)
  <2>1. CASE n < AccNonce
    <3>1. n \in Nat /\ n + 1 \in 1..Len(chain) /\ n < AccNonce'
      BY <1>2, <1>3, <2>1
    <3> QED
      BY <1>1, <2>1, <3>1 DEF KindAt
  <2>2. CASE ~ (n < AccNonce) /\ n < AccNonce + m
    <3> DEFINE i == n - AccNonce + 1
    <3>1. i \in 1..m /\ Len(chain) + i = n + 1 /\ Len(chain) + i - 1 = n
      BY <1>2, <1>3, <2>2
    <3> HIDE DEF i
    <3>2. chain'[n + 1].kind = TxAt(n).kind
      BY <1>1, <3>1
    <3> QED
      BY <1>2, <2>2, <3>2 DEF KindAt
  <2>3. CASE ~ (n < AccNonce + m)
    <3>1. n \in PoolNonces /\ n \in Nat /\ n >= AccNonce + m /\ ~ (n < AccNonce)
      BY <1>2, <1>3, <2>3
    <3>2. PICK t \in pool : t.nonce = n
      BY <3>1 DEF PoolNonces
    <3>3. TxAt(n) = t
      BY <3>2, TxAtIs
    <3>4. t \in pool' /\ \A u \in pool' : u.nonce = n => u = t
      BY <1>1, <1>2, <3>1, <3>2 DEF PoolReady
    <3>5. TxAt(n)' = t
      BY <3>2, <3>4 DEF TxAt
    <3> QED
      BY <1>2, <2>3, <3>1, <3>3, <3>5 DEF KindAt
  <2> QED
    BY <2>1, <2>2, <2>3
<1>8. Queue = [n \in dom |-> KindAt(n)]
  BY DEF Queue
<1>9. Queue' = [n \in dom |-> KindAt(n)']
  BY <1>6 DEF Queue
<1> HIDE DEF dom
<1> QED
  BY <1>7, <1>8, <1>9

\* A block executes the first of the queue.
LEMMA ExecuteStep ==
    ASSUME TypeInv, PoolReady, ProduceBlock
    PROVE  Promise!Execute
<1>1. PICK m \in Nat \ {0} :
            /\ \A n \in Len(chain)..(Len(chain) + m - 1) : Occupied(n)
            /\ Len(chain') = Len(chain) + m
            /\ \A i \in 1..Len(chain) : chain'[i] = chain[i]
            /\ \A i \in 1..m :
                  chain'[Len(chain) + i].kind = TxAt(Len(chain) + i - 1).kind
  <2>1. TypeOK /\ ProduceBlock
    BY DEF TypeInv
  <2> QED
    BY ONLY <2>1, BlockStep, Zenon
<1>2. AccNonce \in Nat /\ Len(chain) = AccNonce
  BY DEF AccNonce, TypeInv, TypeOK
<1>3. ASSUME NEW n \in (Len(chain) + 1)..Len(chain')
      PROVE  n - 1 \in DOMAIN Queue /\ chain'[n].kind = Queue[n - 1]
  <2> DEFINE i == n - Len(chain)
  <2>1. /\ i \in 1..m
        /\ Len(chain) + i = n
        /\ Len(chain) + i - 1 = n - 1
        /\ n - 1 \in Len(chain)..(Len(chain) + m - 1)
        /\ ~ (n - 1 < AccNonce)
    BY <1>1, <1>2
  <2> HIDE DEF i
  <2>2. n - 1 \in PoolNonces
    BY <1>1, <2>1 DEF Occupied
  <2>3. Queue[n - 1] = TxAt(n - 1).kind /\ n - 1 \in DOMAIN Queue
    BY <2>1, <2>2 DEF Queue, KindAt
  <2>4. chain'[n].kind = TxAt(n - 1).kind
    BY <1>1, <2>1
  <2> QED
    BY <2>3, <2>4
<1>4. Len(chain') > Len(chain)
  BY <1>1, <1>2
<1>5. UNCHANGED <<Calling, op, placed, sub, ret, Queue>>
  BY QueueStays DEF ProduceBlock, caller, Calling
<1> QED
  BY <1>1, <1>3, <1>4, <1>5 DEF Promise!Execute

\* A return without a block hash, whatever became of the extrinsic.
LEMMA GiveUpStep ==
    ASSUME TypeInv, NEW c \in Callers, NEW e, Return(c, FALSE, e),
           pc[c] # "idle", UNCHANGED <<op, chain>>,
           \/ \E n \in DOMAIN Queue' : Promise!Put(c, n)
           \/ UNCHANGED <<Queue, placed>>
    PROVE  Promise!GiveUp(c)
<1>1. /\ pc' = [pc EXCEPT ![c] = "idle"]
      /\ ret' = [ret EXCEPT ![c] = [hash |-> FALSE, err |-> e]]
      /\ sub' = [sub EXCEPT ![c] = -1]
  BY DEF Return
<1>2. ret'[c].err = e
  BY <1>1 DEF TypeInv, TypeOK
<1>3. Calling[c] /\ Calling' = [Calling EXCEPT ![c] = FALSE]
  BY <1>1 DEF Calling, TypeInv, TypeOK
<1> QED
  BY <1>1, <1>2, <1>3 DEF Promise!GiveUp, Promise!Return

\* A return with a block hash.
LEMMA ReportStep ==
    ASSUME TypeInv, HonestInv, NEW c \in Callers, ReadEvents(c),
           NEW e \in Errors, Return(c, TRUE, e),
           \/ e = "other"
           \/ e = "failed"
           \/ e = "nil" /\ Sought[op[c]] \in chain[sub[c] + 1].events
    PROVE  Promise!Report(c)
<1>1. /\ pc' = [pc EXCEPT ![c] = "idle"]
      /\ ret' = [ret EXCEPT ![c] = [hash |-> TRUE, err |-> e]]
      /\ UNCHANGED <<op, sub, pool, chain, placed>>
  BY DEF Return, ReadEvents, ledger, TypeInv, TypeOK
<1>2. pc[c] = "events"
  BY DEF ReadEvents
<1>3. /\ sub[c] \in 0..(Len(chain) - 1)
      /\ chain[sub[c] + 1].kind = op[c]
  <2>1. sub[c] < Len(chain) /\ chain[sub[c] + 1].kind = op[c]
    BY <1>2 DEF HonestInv, Tracked, AccNonce
  <2>2. sub[c] \in Nat
    BY <1>2 DEF TypeInv, SubPoints
  <2>3. Len(chain) \in Nat
    BY DEF TypeInv, TypeOK
  <2> QED
    BY <2>1, <2>2, <2>3
<1>5. Calling[c] /\ Calling' = [Calling EXCEPT ![c] = FALSE]
  BY <1>1, <1>2 DEF Calling, TypeInv, TypeOK
<1>6. Promise!Return(c, TRUE, e)
  BY <1>1, <1>5 DEF Promise!Return
<1>7. UNCHANGED <<sub, Queue, placed>>
  BY <1>1, QueueKept
<1>8. \/ Promise!Return(c, TRUE, "other")
      \/ Promise!Return(c, TRUE, "failed")
      \/ /\ Promise!Return(c, TRUE, "nil")
         /\ Sought[op[c]] \in chain[sub[c] + 1].events
  BY <1>6
<1> QED
  BY <1>3, <1>7, <1>8 DEF Promise!Report

LEMMA AccountStep ==
    ASSUME TypeInv, PoolReady, PoolReady', OnceInv, HonestInv, [Next]_vars
    PROVE  [Promise!Next]_(Promise!accountVars)
<1> USE DEF Promise!Next
<1>a. pc \in [Callers -> Critical \cup {"idle", "lock"}]
  BY DEF TypeInv, TypeOK
\* A goroutine goes on, and nothing is seen of it.
<1>b. ASSUME NEW c \in Callers, NEW at, pc[c] # "idle", at # "idle",
             pc' = [pc EXCEPT ![c] = at],
             UNCHANGED <<op, placed, sub, ret, pool, chain>>
      PROVE  UNCHANGED Promise!accountVars
  <2>1. UNCHANGED Calling
    BY <1>a, <1>b DEF Calling
  <2> QED
    BY <1>b, <2>1, QueueKept DEF Promise!accountVars
<1>1. CASE UNCHANGED vars
  <2>1. UNCHANGED Calling
    BY <1>1 DEF Calling, vars
  <2>2. UNCHANGED <<op, placed, sub, ret, pool, chain>>
    BY <1>1 DEF vars
  <2> QED
    BY <2>1, <2>2, QueueKept DEF Promise!accountVars
<1>2. ASSUME NEW c \in Callers, Start(c)
      PROVE  Promise!Call(c)
  <2>1. PICK k \in Ops, at \in {"lock", "health"} : Enter(c, k, at)
    BY <1>2 DEF Start, Register, Update, SubmitFileMeta, SubmitFillerMeta,
       SubmitProofResults, Query, GetSyncStatus, StartTx, Ops
  <2>2. /\ pc[c] = "idle"
        /\ pc' = [pc EXCEPT ![c] = at]
        /\ op' = [op EXCEPT ![c] = k]
        /\ ret' = [ret EXCEPT ![c] = [hash |-> FALSE, err |-> "none"]]
        /\ sub' = [sub EXCEPT ![c] = -1]
        /\ placed' = [placed EXCEPT ![c] = 0]
        /\ UNCHANGED <<pool, chain>>
    BY <2>1 DEF Enter, NoReturn
  <2>3. ~ Calling[c] /\ Calling' = [Calling EXCEPT ![c] = TRUE]
    BY <1>a, <2>2 DEF Calling
  <2>4. op' = [op EXCEPT ![c] = op'[c]]
    BY <2>2 DEF TypeInv, TypeOK
  <2>5. UNCHANGED <<Queue, chain>>
    BY <2>2, QueueKept
  <2> QED
    BY <2>2, <2>3, <2>4, <2>5 DEF Promise!Call
<1>3. ASSUME NEW c \in Callers, Lock(c)
      PROVE  UNCHANGED Promise!accountVars
  BY <1>3, <1>b DEF Lock, ledger
<1>4. ASSUME NEW c \in Callers, Step(c)
      PROVE  [Promise!Next]_(Promise!accountVars)
  <2>1. pc[c] # "idle" /\ UNCHANGED op
    BY <1>4 DEF Step, HealthCheck, Probe, Reconnect, Down, Up, Fetch, ReadNonce,
       Submit, Resubmit, Watch, ReadEvents, client, ledger
  <2>2. ASSUME NEW e \in Errors, Return(c, FALSE, e),
               UNCHANGED <<pool, chain, placed>>
        PROVE  Promise!GiveUp(c)
    BY <2>1, <2>2, QueueKept, GiveUpStep
  <2>3. CASE HealthCheck(c) \/ Probe(c) \/ Reconnect(c) \/ Down(c) \/ Up(c)
             \/ Fetch(c) \/ ReadNonce(c) \/ Watch(c)
    <3>1. /\ UNCHANGED <<pool, chain, placed>>
          /\ \/ \E e \in Errors : Return(c, FALSE, e)
             \/ /\ \E at \in Critical : pc' = [pc EXCEPT ![c] = at]
                /\ UNCHANGED <<ret, sub>>
      BY <2>3 DEF HealthCheck, Probe, Reconnect, Down, Up, Fetch, ReadNonce,
         Watch, Panic, Goto, Critical, Errors, ledger
    <3>2. "idle" \notin Critical
      BY DEF Critical
    <3> QED
      BY <1>b, <2>1, <2>2, <3>1, <3>2
  <2>4. ASSUME NEW n \in Nat, PoolAccepts(c, n), UNCHANGED chain,
               pc[c] \in {"submit", "resubmit"},
               pc[c] = "resubmit" => n = nonce[c] + 1
        PROVE  Promise!Put(c, n) /\ n \in DOMAIN Queue'
    <3>1. op[c] \in TxKinds
      BY <2>4 DEF TypeInv, TxPoints
    <3>2. placed[c] = 0
      BY <2>4 DEF PoolAccepts, OnceInv, Taken
    <3> QED
      BY <2>1, <2>4, <3>1, <3>2, PutStep
  <2>5. ASSUME NEW n \in Nat, Accepted(c, n), UNCHANGED chain,
               pc[c] \in {"submit", "resubmit"},
               pc[c] = "resubmit" => n = nonce[c] + 1
        PROVE  Promise!Place(c)
    <3>1. /\ PoolAccepts(c, n)
          /\ sub' = [sub EXCEPT ![c] = n]
          /\ pc' = [pc EXCEPT ![c] = "watch"]
          /\ UNCHANGED ret
      BY <2>5 DEF Accepted, Goto
    <3>2. UNCHANGED Calling
      BY <1>a, <2>1, <3>1 DEF Calling
    <3>3. Promise!Put(c, n) /\ n \in DOMAIN Queue'
      BY <2>4, <2>5, <3>1
    <3> QED
      BY <2>1, <2>5, <3>1, <3>2, <3>3 DEF Promise!Place
  <2>6. ASSUME NEW n \in Nat, PoolAccepts(c, n) \/ UNCHANGED <<pool, placed>>,
               NEW e, Return(c, FALSE, e), UNCHANGED chain,
               pc[c] \in {"submit", "resubmit"},
               pc[c] = "resubmit" => n = nonce[c] + 1
        PROVE  Promise!GiveUp(c)
    <3>1. \/ \E k \in DOMAIN Queue' : Promise!Put(c, k)
          \/ UNCHANGED <<Queue, placed>>
      BY <2>4, <2>6, QueueKept
    <3> QED
      BY <2>1, <2>6, <3>1, GiveUpStep
  <2>7. CASE Submit(c)
    <3>1. UNCHANGED chain /\ nonce[c] \in Nat /\ pc[c] = "submit"
      BY <2>7 DEF Submit, TypeInv, TypeOK
    <3>2. CASE Goto(c, "resubmit") /\ UNCHANGED <<pool, placed, sub>>
      BY <1>b, <2>1, <3>1, <3>2 DEF Goto
    <3> QED
      BY <2>7, <2>2, <2>5, <2>6, <3>1, <3>2 DEF Submit, SubmitFails, Panic, Errors
  <2>8. CASE Resubmit(c)
    <3>1. PICK n \in Nat : n = ResubmitNonce(nonce[c], tries[c])
      BY DEF ResubmitNonce, TypeInv, TypeOK
    <3>2. UNCHANGED chain /\ pc[c] = "resubmit" /\ n = nonce[c] + 1
      BY <2>8, <3>1 DEF Resubmit, ResubmitNonce
    <3>3. CASE SubmitFails(c, n) /\ UNCHANGED <<pc, ret, lock, nonce, sub>>
      <4>1. UNCHANGED Calling
        BY <3>3 DEF Calling
      <4>2. CASE PoolAccepts(c, n)
        <5>1. Promise!Put(c, n) /\ n \in DOMAIN Queue'
          BY <2>4, <3>2, <4>2
        <5> QED
          BY <2>1, <3>2, <3>3, <4>1, <5>1 DEF Promise!Place
      <4>3. CASE UNCHANGED <<pool, placed>>
        BY <2>1, <3>2, <3>3, <4>1, <4>3, QueueKept DEF Promise!accountVars
      <4> QED
        BY <3>3, <4>2, <4>3 DEF SubmitFails
    <3> QED
      BY <2>8, <2>2, <2>5, <2>6, <3>1, <3>2, <3>3
         DEF Resubmit, SubmitFails, Panic, Errors
  <2>9. CASE ReadEvents(c)
    <3>2. CASE Panic(c)
      BY <2>2, <2>9, <3>2 DEF ReadEvents, Panic, Errors, ledger
    <3>3. "other" \in Errors /\ "nil" \in Errors /\ "failed" \in Errors
      BY DEF Errors
    <3> QED
      BY <2>9, <3>2, <3>3, ReadOutcome, ReportStep
  <2> QED
    BY <1>4, <2>3, <2>7, <2>8, <2>9 DEF Step
<1>5. CASE ProduceBlock
  BY <1>5, ExecuteStep
<1> QED
  BY <1>1, <1>2, <1>3, <1>4, <1>5 DEF Next

LEMMA AccountInit == Init => Promise!Init
<1> SUFFICES ASSUME Init
             PROVE  Promise!Init
  OBVIOUS
<1>1. Calling = [c \in Callers |-> FALSE]
  BY DEF Init, Calling
<1>2. DOMAIN Queue = {}
  BY DEF Init, Queue, AccNonce, PoolNonces
<1>3. \A c \in Callers : op[c] \notin TxKinds
  BY TxKindsAssumption DEF Init, AllTxKinds
<1> QED
  BY <1>1, <1>2, <1>3 DEF Init, NoReturn, Promise!Init

\* To its callers and to the chain the client is a queue of extrinsics: each
\* call puts one in it at most, with the next nonce, and returns what is true.
THEOREM AccountCorrect == Spec => ImplementsAccount
<1> DEFINE Inv == TypeInv /\ PoolReady /\ NonceFresh /\ OnceInv /\ HonestInv
<1>1. Init => Inv /\ Promise!Init
  BY TypeInit, AccountInit DEF Init, PoolReady, NonceFresh, Occupied, PoolNonces,
     OnceInv, AtMostOnce, HonestInv, Tracked, ReportHonest, NoReturn
<1>2. Inv /\ [Next]_vars => Inv'
  BY TypeStep, PoolStep, OnceStep, HonestStep
<1>3. Inv /\ [Next]_vars => [Promise!Next]_(Promise!accountVars)
  BY <1>2, AccountStep
<1> HIDE DEF Inv
<1> QED
  BY <1>1, <1>2, <1>3, PTL DEF Spec, ImplementsAccount, Promise!Spec
=============================================================================
