----------------------- MODULE ProofValidationProofs -----------------------
(***************************************************************************)
(* Proofs about ProofValidation, for any set of proofs, of any kinds, any  *)
(* size of batches and any number of tries; and that it implements         *)
(* ProofAudit.                                                             *)
(***************************************************************************)
EXTENDS ProofValidation, FiniteSetTheorems, TLAPS

-----------------------------------------------------------------------------
(* Sequences.                                                              *)

\* A sequence has no more elements than places.
LEMMA ToSetSize ==
    ASSUME NEW S, NEW s \in Seq(S)
    PROVE  /\ ToSet(s) \subseteq S
           /\ IsFiniteSet(ToSet(s))
           /\ Cardinality(ToSet(s)) <= Len(s)
<1> DEFINE f == [k \in 1..Len(s) |-> s[k]]
<1>1. Len(s) \in Nat /\ DOMAIN s = 1..Len(s)
  OBVIOUS
<1>2. ToSet(s) \subseteq S
  BY <1>1 DEF ToSet
<1>3. f \in Surjection(1..Len(s), ToSet(s))
  BY <1>1 DEF ToSet, Surjection
<1>4. IsFiniteSet(1..Len(s)) /\ Cardinality(1..Len(s)) = Len(s)
  <2>1. 0 \in Int /\ 1 \in Int /\ Len(s) \in Int
    BY <1>1
  <2>2. IsFiniteSet(1..Len(s)) /\
        Cardinality(1..Len(s)) = IF 1 > Len(s) THEN 0 ELSE Len(s) - 1 + 1
    BY <2>1, FS_Interval
  <2> QED
    BY <1>1, <2>2
<1> QED
  BY <1>2, <1>3, <1>4, FS_Surjection

\* Concatenation, place by place.
LEMMA Concat ==
    ASSUME NEW S, NEW s \in Seq(S), NEW t \in Seq(S)
    PROVE  /\ s \o t \in Seq(S)
           /\ Len(s \o t) = Len(s) + Len(t)
           /\ \A k \in 1..Len(s) : (s \o t)[k] = s[k]
           /\ \A k \in 1..Len(t) : (s \o t)[Len(s) + k] = t[k]
<1>1. s \o t \in Seq(S) /\ Len(s \o t) = Len(s) + Len(t)
  OBVIOUS
<1>2. \A k \in 1..Len(s) : (s \o t)[k] = s[k]
  OBVIOUS
<1>3. \A k \in 1..Len(t) : (s \o t)[Len(s) + k] = t[k]
  OBVIOUS
<1> QED
  BY <1>1, <1>2, <1>3

\* A list GetProofs may return is a sequence of the set's elements.
LEMMA ListTyped ==
    ASSUME NEW S, IsFiniteSet(S), NEW s \in SetToSeqs(S)
    PROVE  s \in Seq(S)
<1>1. Cardinality(S) \in Nat
  BY FS_CardinalityType
<1>2. s \in [1..Cardinality(S) -> S]
  BY DEF SetToSeqs
<1> QED
  BY <1>1, <1>2

-----------------------------------------------------------------------------
(* The invariant.                                                          *)

(***************************************************************************)
(* The results gathered, and those of the extrinsics in the pool, are what *)
(* verifyProof says of the proofs, and no batch is too large: Verify       *)
(* appends only while the batch is not full, and whatever is submitted is  *)
(* dropped afterwards.                                                     *)
(***************************************************************************)
Right(r) == r.result = VerifyProof(kind[r.proof])

BatchesRight ==
    /\ Len(verifyResults) <= MaxResults
    /\ \A k \in 1..Len(verifyResults) : Right(verifyResults[k])
    /\ \A b \in pending :
          /\ IsFiniteSet(b) /\ Cardinality(b) <= MaxResults
          /\ \A r \in b : Right(r)

\* The first n results of s are of the first n proofs of the list.
FirstOf(s, n) ==
    /\ Len(s) = n
    /\ \A k \in 1..n : s[k].proof = proofs[k]

(***************************************************************************)
(* How far the round is: verifyResults goes on where sent ends, and is     *)
(* empty outside of a round; a task that starts has no list yet.           *)
(***************************************************************************)
Progress ==
    /\ pc \notin {"loop", "submit"} => verifyResults = <<>>
    /\ pc \in {"key", "ended"} => proofs = <<>>
    /\ pc = "lock" => sent = <<>> /\ i = 0
    /\ pc = "loop" =>
          /\ FirstOf(sent, Len(sent))
          /\ i = Len(sent) + Len(verifyResults)
          /\ \A k \in 1..Len(verifyResults) :
                verifyResults[k].proof = proofs[Len(sent) + k]
    /\ pc = "submit" => FirstOf(sent, i)
    /\ pc = "get" /\ proofs # <<>> => FirstOf(sent, Len(proofs))

TypeInv == TypeOK /\ IsFiniteSet(unverified)

-----------------------------------------------------------------------------
(* Types.                                                                  *)

\* Executing a batch of the right type leaves a well-typed ledger.
LEMMA ExecuteTyped ==
    ASSUME TypeInv, NEW b \in SUBSET Results, Execute(b)
    PROVE  /\ unverified' \subseteq Proofs /\ IsFiniteSet(unverified')
           /\ verdict' \in [Proofs -> {"none", "accepted", "rejected"}]
<1>1. unverified' \subseteq unverified
  BY DEF Execute
<1>2. IsFiniteSet(unverified')
  BY <1>1, FS_Subset DEF TypeInv
<1>3. verdict' \in [Proofs -> {"none", "accepted", "rejected"}]
  BY DEF Execute, Verdict, TypeInv, TypeOK
<1> QED
  BY <1>1, <1>2, <1>3 DEF TypeInv, TypeOK

\* What SubmitProofResults sends is a set of results.
LEMMA BatchTyped ==
    ASSUME TypeOK
    PROVE  Batch \in SUBSET Results
BY ToSetSize DEF Batch, TypeOK

LEMMA TypeStep ==
    ASSUME TypeInv, [Next]_vars
    PROVE  TypeInv'
<1> USE DEF task, ledger
<1>1. CASE UNCHANGED vars
  BY <1>1 DEF vars, TypeInv, TypeOK
<1>2. CASE GetKey \/ Lock \/ KeyStored \/ OtherLock \/ OtherUnlock
  BY <1>2 DEF GetKey, Lock, KeyStored, OtherLock, OtherUnlock, TypeInv, TypeOK
<1>3. CASE GetProofs
  <2>1. proofs' \in Seq(unverified) /\ unverified \subseteq Proofs
    BY <1>3, ListTyped DEF GetProofs, TypeInv, TypeOK
  <2>2. proofs' \in Seq(Proofs)
    BY <2>1
  <2>3. i' = 0 /\ i' \in 0..Len(proofs') /\ sent' \in Seq(Results)
    BY <1>3, <2>2 DEF GetProofs
  <2> QED
    BY <1>3, <2>2, <2>3 DEF GetProofs, TypeInv, TypeOK
<1>4. CASE Verify
  <2>1. i < Len(proofs) /\ i \in Nat /\ proofs \in Seq(Proofs)
    BY <1>4 DEF Verify, More, TypeInv, TypeOK
  <2>2. Current \in Proofs
    BY <2>1 DEF Current
  <2>3. [proof |-> Current, result |-> VerifyProof(kind[Current])] \in Results
    BY <2>2 DEF Results, VerifyProof
  <2>4. verifyResults' \in Seq(Results)
    BY <1>4, <2>3 DEF Verify, TypeInv, TypeOK
  <2>5. i' \in 0..Len(proofs')
    BY <1>4, <2>1 DEF Verify
  <2> QED
    BY <1>4, <2>4, <2>5 DEF Verify, TypeInv, TypeOK
<1>5. CASE SubmitFull \/ EndLoop
  <2>1. sent' \in Seq(Results)
    <3>1. sent' = sent \o verifyResults
      BY <1>5 DEF SubmitFull, EndLoop, Submitting
    <3>2. sent \in Seq(Results) /\ verifyResults \in Seq(Results)
      BY DEF TypeInv, TypeOK
    <3> QED
      BY <3>1, <3>2, Concat
  <2>2. tryCount' \in 0..(MaxTry - 1)
    BY <1>5, MaxAssumption DEF SubmitFull, EndLoop, Submitting
  <2> QED
    BY <1>5, <2>1, <2>2 DEF SubmitFull, EndLoop, Submitting, TypeInv, TypeOK
<1>6. ASSUME Submitted
      PROVE  /\ pc' \in {"loop", "get"} /\ verifyResults' \in Seq(Results)
             /\ UNCHANGED <<kind, proofs, i, tryCount, sent, workLock, key>>
  BY <1>6 DEF Submitted, Emptied
<1>7. CASE SubmitOk
  <2>1. Execute(Batch) /\ Batch \in SUBSET Results /\ UNCHANGED pending
    BY <1>7, BatchTyped DEF SubmitOk, TypeInv
  <2>2. Submitted
    BY <1>7 DEF SubmitOk
  <2> QED
    BY <1>6, <2>1, <2>2, ExecuteTyped DEF TypeInv, TypeOK
<1>8. CASE SubmitFailed
  BY <1>6, <1>8 DEF SubmitFailed, TypeInv, TypeOK
<1>9. CASE SubmitNoHash
  <2>1. pending' \subseteq SUBSET Results /\ UNCHANGED <<unverified, verdict>>
    BY <1>9, BatchTyped DEF SubmitNoHash, TypeInv, TypeOK
  <2>2. CASE Submitted
    BY <1>6, <2>1, <2>2 DEF TypeInv, TypeOK
  <2>3. CASE ~ GivesUp /\ tryCount' = tryCount + 1
    <3>1. tryCount' \in 0..(MaxTry - 1)
      BY <2>3, MaxAssumption DEF GivesUp, TypeInv, TypeOK
    <3>2. UNCHANGED <<kind, pc, proofs, i, verifyResults, sent, workLock, key>>
      BY <1>9, <2>3 DEF SubmitNoHash
    <3> QED
      BY <2>1, <3>1, <3>2 DEF TypeInv, TypeOK
  <2> QED
    BY <1>9, <2>2, <2>3 DEF SubmitNoHash
<1>10. ASSUME NEW at \in {"ended", "key"}, TaskEnds(at)
       PROVE  /\ pc' \in {"ended", "key"} /\ proofs' \in Seq(Proofs)
              /\ i' \in 0..Len(proofs') /\ verifyResults' \in Seq(Results)
              /\ tryCount' \in 0..(MaxTry - 1) /\ sent' \in Seq(Results)
  BY <1>10, MaxAssumption DEF TaskEnds
<1>11. CASE TaskPanic
  <2>1. workLock' \in {"free", "validator", "other", "lost"}
    BY <1>11 DEF TaskPanic, TypeInv, TypeOK
  <2> QED
    BY <1>10, <1>11, <2>1 DEF TaskPanic, TypeInv, TypeOK
<1>12. CASE CoroutineMgr
  BY <1>10, <1>12 DEF CoroutineMgr, TypeInv, TypeOK
<1>13. CASE VerifyCrash \/ Restart
  BY <1>10, <1>13 DEF VerifyCrash, Restart, Stops, TypeInv, TypeOK
<1>14. ASSUME NEW p \in Proofs, Challenge(p)
       PROVE  TypeInv'
  <2>1. IsFiniteSet(unverified')
    BY <1>14, FS_AddElement DEF Challenge, TypeInv
  <2> QED
    BY <1>14, <2>1 DEF Challenge, TypeInv, TypeOK
<1>15. CASE Land
  <2>1. PICK b \in pending :
            /\ pending' = pending \ {b}
            /\ Execute(b) \/ UNCHANGED <<unverified, verdict>>
    BY <1>15 DEF Land
  <2>2. b \in SUBSET Results
    BY DEF TypeInv, TypeOK
  <2>3. /\ unverified' \subseteq Proofs /\ IsFiniteSet(unverified')
        /\ verdict' \in [Proofs -> {"none", "accepted", "rejected"}]
    BY <2>1, <2>2, ExecuteTyped DEF TypeInv, TypeOK
  <2> QED
    BY <1>15, <2>1, <2>3 DEF Land, TypeInv, TypeOK
<1> QED
  BY <1>1, <1>2, <1>3, <1>4, <1>5, <1>7, <1>8, <1>9, <1>11, <1>12, <1>13,
     <1>14, <1>15 DEF Next, TaskStep

LEMMA TypeInit == Init => TypeInv
BY FS_EmptySet, MaxAssumption DEF Init, TypeInv, TypeOK

\* Every variable keeps its type.
THEOREM TypeCorrect == Spec => []TypeOK
<1>1. TypeInv /\ [Next]_vars => TypeInv'
  BY TypeStep
<1>2. TypeInv => TypeOK
  BY DEF TypeInv
<1> QED
  BY TypeInit, <1>1, <1>2, PTL DEF Spec

-----------------------------------------------------------------------------
(* The round.                                                              *)

\* After Submitted, sent stands and verifyResults is empty.
LEMMA SubmittedProgress ==
    ASSUME TypeInv, Progress, pc = "submit", Submitted
    PROVE  Progress'
<1>1. /\ FirstOf(sent, i)
      /\ i \in 0..Len(proofs) /\ proofs \in Seq(Proofs) /\ Len(proofs) \in Nat
  BY DEF Progress, TypeInv, TypeOK
<1>2. verifyResults' = <<>> /\ UNCHANGED <<proofs, i, sent>>
  BY DEF Submitted, Emptied
<1>3. FirstOf(sent, i)' /\ i = Len(sent)
  BY <1>1, <1>2 DEF FirstOf
<1>4. CASE More
  <2>1. pc' = "loop"
    BY <1>4 DEF Submitted
  <2> QED
    BY <1>1, <1>2, <1>3, <2>1 DEF Progress
<1>5. CASE ~ More
  <2>1. pc' = "get" /\ i = Len(proofs)
    BY <1>1, <1>5 DEF Submitted, More
  <2> QED
    BY <1>1, <1>2, <1>3, <2>1 DEF Progress
<1> QED
  BY <1>4, <1>5

\* Appended to sent, verifyResults covers the proofs verified so far.
LEMMA SubmittingProgress ==
    ASSUME TypeInv, Progress, pc = "loop", Submitting, UNCHANGED <<proofs, i>>
    PROVE  Progress'
<1>1. /\ sent \in Seq(Results) /\ verifyResults \in Seq(Results)
      /\ Len(sent) \in Nat /\ Len(verifyResults) \in Nat
  BY DEF TypeInv, TypeOK
<1>2. /\ FirstOf(sent, Len(sent))
      /\ i = Len(sent) + Len(verifyResults)
      /\ \A k \in 1..Len(verifyResults) :
            verifyResults[k].proof = proofs[Len(sent) + k]
  BY DEF Progress
<1>3. sent' = sent \o verifyResults /\ pc' = "submit"
  BY DEF Submitting
<1>4. Len(sent') = i
  BY <1>1, <1>2, <1>3, Concat
<1>5. ASSUME NEW k \in 1..i
      PROVE  sent'[k].proof = proofs[k]
  <2>1. CASE k <= Len(sent)
    <3>1. k \in 1..Len(sent) /\ sent[k].proof = proofs[k]
      BY <1>1, <1>2, <2>1 DEF FirstOf
    <3> QED
      BY <1>1, <1>3, <3>1, Concat
  <2>2. CASE k > Len(sent)
    <3>1. k - Len(sent) \in 1..Len(verifyResults) /\ Len(sent) + (k - Len(sent)) = k
      BY <1>1, <1>2, <2>2
    <3>2. sent'[k] = verifyResults[k - Len(sent)]
      BY <1>1, <1>3, <3>1, Concat
    <3> QED
      BY <1>2, <3>1, <3>2
  <2> QED
    BY <1>1, <1>2, <2>1, <2>2
<1> QED
  BY <1>3, <1>4, <1>5 DEF Progress, FirstOf

LEMMA ProgressStep ==
    ASSUME TypeInv, Progress, [Next]_vars
    PROVE  Progress'
<1> USE DEF task, ledger
<1>1. CASE UNCHANGED vars
  BY <1>1 DEF vars, Progress, FirstOf
<1>2. CASE GetKey
  BY <1>2 DEF GetKey, Progress
<1>3. CASE GetProofs
  BY <1>3 DEF GetProofs, Progress
<1>4. CASE Lock
  BY <1>4 DEF Lock, Progress, FirstOf
<1>5. CASE Verify
  <2>1. /\ verifyResults \in Seq(Results) /\ Len(verifyResults) \in Nat
        /\ Len(sent) \in Nat
    BY DEF TypeInv, TypeOK
  <2>2. PICK r : /\ verifyResults' = Append(verifyResults, r)
                 /\ r.proof = proofs[i + 1]
    BY <1>5 DEF Verify, Current
  <2>3. /\ pc = "loop" /\ i' = i + 1
        /\ UNCHANGED <<pc, proofs, sent>>
    BY <1>5 DEF Verify
  <2>4. /\ FirstOf(sent, Len(sent))
        /\ i = Len(sent) + Len(verifyResults)
        /\ \A k \in 1..Len(verifyResults) :
              verifyResults[k].proof = proofs[Len(sent) + k]
    BY <2>3 DEF Progress
  <2>5. /\ Len(verifyResults') = Len(verifyResults) + 1
        /\ verifyResults'[Len(verifyResults) + 1] = r
        /\ \A k \in 1..Len(verifyResults) : verifyResults'[k] = verifyResults[k]
    BY <2>1, <2>2
  <2>6. \A k \in 1..Len(verifyResults') :
            verifyResults'[k].proof = proofs'[Len(sent') + k]
    <3> SUFFICES ASSUME NEW k \in 1..Len(verifyResults')
                 PROVE  verifyResults'[k].proof = proofs[Len(sent) + k]
      BY <2>3
    <3>1. CASE k \in 1..Len(verifyResults)
      BY <2>4, <2>5, <3>1
    <3>2. CASE k = Len(verifyResults) + 1
      <4>1. Len(sent) + k = i + 1
        BY <2>1, <2>4, <3>2
      <4> QED
        BY <2>2, <2>5, <3>2, <4>1
    <3> QED
      BY <2>1, <2>5, <3>1, <3>2
  <2>7. i' = Len(sent') + Len(verifyResults')
    BY <2>1, <2>3, <2>4, <2>5
  <2>8. FirstOf(sent, Len(sent))'
    BY <2>3, <2>4 DEF FirstOf
  <2> QED
    BY <2>3, <2>6, <2>7, <2>8 DEF Progress
<1>6. CASE SubmitFull \/ EndLoop
  BY <1>6, SubmittingProgress DEF SubmitFull, EndLoop
<1>7. CASE SubmitOk \/ SubmitFailed
  BY <1>7, SubmittedProgress DEF SubmitOk, SubmitFailed
<1>8. CASE SubmitNoHash
  <2>1. CASE Submitted
    BY <1>8, <2>1, SubmittedProgress DEF SubmitNoHash
  <2>2. CASE UNCHANGED <<kind, pc, proofs, i, verifyResults, sent, workLock, key>>
    BY <2>2 DEF Progress, FirstOf
  <2> QED
    BY <1>8, <2>1, <2>2 DEF SubmitNoHash
<1>9. ASSUME NEW at \in {"ended", "key"}, TaskEnds(at)
      PROVE  Progress'
  BY <1>9 DEF TaskEnds, Progress
<1>10. CASE TaskPanic \/ CoroutineMgr \/ VerifyCrash \/ Restart
  BY <1>9, <1>10 DEF TaskPanic, CoroutineMgr, VerifyCrash, Restart, Stops
<1>11. CASE \/ KeyStored \/ OtherLock \/ OtherUnlock \/ Land
            \/ \E p \in Proofs : Challenge(p)
  BY <1>11 DEF KeyStored, OtherLock, OtherUnlock, Land, Challenge, Progress,
     FirstOf
<1> QED
  BY <1>1, <1>2, <1>3, <1>4, <1>5, <1>6, <1>7, <1>8, <1>10, <1>11
     DEF Next, TaskStep

\* The sequences a property compares are those of the invariant, name by name.
LEMMA FirstOfNamed ==
    ASSUME NEW s \in Seq(Results), proofs \in Seq(Proofs),
           NEW n \in 0..Len(proofs), FirstOf(s, n)
    PROVE  Named(s) = SubSeq(proofs, 1, n)
<1>1. Named(s) = [k \in 1..n |-> proofs[k]]
  BY DEF Named, FirstOf
<1>2. SubSeq(proofs, 1, n) = [k \in 1..n |-> proofs[k]]
  OBVIOUS
<1> QED
  BY <1>1, <1>2

\* Each proof of a round is handed to SubmitProofResults once and in order.
THEOREM RoundCorrect == Spec => []RoundCovered
<1> DEFINE Inv == TypeInv /\ Progress
<1>1. Init => Inv
  BY TypeInit DEF Init, Progress
<1>2. Inv /\ [Next]_vars => Inv'
  BY TypeStep, ProgressStep
<1>3. Inv => RoundCovered
  <2> SUFFICES ASSUME TypeInv, Progress
               PROVE  RoundCovered
    OBVIOUS
  <2>1. /\ sent \in Seq(Results) /\ verifyResults \in Seq(Results)
        /\ proofs \in Seq(Proofs) /\ i \in 0..Len(proofs) /\ Len(proofs) \in Nat
    BY DEF TypeInv, TypeOK
  <2>2. ASSUME pc = "loop"
        PROVE  Named(sent \o verifyResults) = SubSeq(proofs, 1, i)
    <3>1. sent \o verifyResults \in Seq(Results)
      BY <2>1, Concat
    <3>2. Len(sent \o verifyResults) = i
      BY <2>1, <2>2, Concat DEF Progress
    <3>3. ASSUME NEW k \in 1..i
          PROVE  (sent \o verifyResults)[k].proof = proofs[k]
      <4>1. i = Len(sent) + Len(verifyResults) /\ FirstOf(sent, Len(sent))
        BY <2>2 DEF Progress
      <4>2. CASE k \in 1..Len(sent)
        BY <2>1, <4>1, <4>2, Concat DEF FirstOf
      <4>3. CASE k \notin 1..Len(sent)
        <5>1. /\ k - Len(sent) \in 1..Len(verifyResults)
              /\ Len(sent) + (k - Len(sent)) = k
          BY <2>1, <4>1, <4>3
        <5>2. (sent \o verifyResults)[k] = verifyResults[k - Len(sent)]
          BY <2>1, <5>1, Concat
        <5>3. verifyResults[k - Len(sent)].proof = proofs[k]
          BY <2>2, <5>1 DEF Progress
        <5> QED
          BY <5>2, <5>3
      <4> QED
        BY <4>2, <4>3
    <3>4. FirstOf(sent \o verifyResults, i)
      BY <3>2, <3>3 DEF FirstOf
    <3> QED
      BY <2>1, <3>1, <3>4, FirstOfNamed
  <2>3. ASSUME pc = "submit"
        PROVE  Named(sent) = SubSeq(proofs, 1, i)
    BY <2>1, <2>3, FirstOfNamed DEF Progress
  <2>4. ASSUME pc = "get", proofs # <<>>
        PROVE  Named(sent) = proofs
    <3>1. Named(sent) = SubSeq(proofs, 1, Len(proofs))
      BY <2>1, <2>4, FirstOfNamed DEF Progress
    <3>2. SubSeq(proofs, 1, Len(proofs)) = proofs
      BY <2>1
    <3> QED
      BY <3>1, <3>2
  <2> QED
    BY <2>2, <2>3, <2>4 DEF RoundCovered
<1> HIDE DEF Inv
<1> QED
  BY <1>1, <1>2, <1>3, PTL DEF Spec

-----------------------------------------------------------------------------
(* The audit.                                                              *)

\* A batch as it is sent is small and right.
LEMMA BatchRight ==
    ASSUME TypeOK, BatchesRight
    PROVE  /\ Batch \in SUBSET Results
           /\ IsFiniteSet(Batch) /\ Cardinality(Batch) <= MaxResults
           /\ \A r \in Batch : Right(r)
<1>1. verifyResults \in Seq(Results) /\ Len(verifyResults) \in Nat
  BY DEF TypeOK
<1>2. /\ Batch \subseteq Results /\ IsFiniteSet(Batch)
      /\ Cardinality(Batch) <= Len(verifyResults)
  BY <1>1, ToSetSize DEF Batch
<1>3. Cardinality(Batch) \in Nat
  BY <1>2, FS_CardinalityType
<1>4. Cardinality(Batch) <= MaxResults
  BY <1>1, <1>2, <1>3, MaxAssumption DEF BatchesRight
<1>5. \A r \in Batch : Right(r)
  BY <1>1 DEF BatchesRight, Batch, ToSet
<1> QED
  BY <1>2, <1>4, <1>5

LEMMA BatchesStep ==
    ASSUME TypeInv, BatchesRight, [Next]_vars
    PROVE  BatchesRight'
<1> USE DEF task, ledger, Right
<1>a. verifyResults \in Seq(Results) /\ Len(verifyResults) \in Nat
  BY DEF TypeInv, TypeOK
<1>b. MaxResults \in Nat \ {0}
  BY MaxAssumption
<1>1. CASE UNCHANGED vars
  BY <1>1 DEF vars, BatchesRight
<1>2. CASE \/ GetKey \/ GetProofs \/ Lock \/ SubmitFull \/ EndLoop \/ KeyStored
           \/ OtherLock \/ OtherUnlock \/ \E p \in Proofs : Challenge(p)
  <2>1. UNCHANGED <<kind, verifyResults, pending>>
    BY <1>2 DEF GetKey, GetProofs, Lock, SubmitFull, EndLoop, KeyStored,
       OtherLock, OtherUnlock, Challenge
  <2> QED
    BY <2>1 DEF BatchesRight
<1>3. CASE Verify
  <2>1. PICK r : /\ verifyResults' = Append(verifyResults, r)
                 /\ r.result = VerifyProof(kind[r.proof])
    BY <1>3 DEF Verify
  <2>2. /\ Len(verifyResults') = Len(verifyResults) + 1
        /\ verifyResults'[Len(verifyResults) + 1] = r
        /\ \A k \in 1..Len(verifyResults) : verifyResults'[k] = verifyResults[k]
    BY <1>a, <2>1
  <2>3. Len(verifyResults') <= MaxResults
    BY <1>a, <1>b, <1>3, <2>2 DEF Verify, Full
  <2>4. UNCHANGED <<kind, pending>>
    BY <1>3 DEF Verify
  <2>5. \A k \in 1..Len(verifyResults') : Right(verifyResults'[k])
    BY <1>a, <2>1, <2>2 DEF BatchesRight
  <2>6. \A k \in 1..Len(verifyResults') : Right(verifyResults[k])'
    BY <2>4, <2>5
  <2> QED
    BY <2>3, <2>4, <2>6 DEF BatchesRight
<1>4. CASE \/ SubmitOk \/ SubmitFailed \/ Land \/ TaskPanic \/ CoroutineMgr
           \/ VerifyCrash \/ Restart
  <2>1. /\ kind' = kind /\ pending' \subseteq pending
        /\ verifyResults' \in {verifyResults, <<>>}
    BY <1>4 DEF SubmitOk, SubmitFailed, Submitted, Emptied, Land, TaskPanic,
       CoroutineMgr, VerifyCrash, Restart, Stops, TaskEnds
  <2> QED
    BY <1>b, <2>1 DEF BatchesRight
<1>5. CASE SubmitNoHash
  <2>1. /\ kind' = kind /\ pending' \subseteq pending \cup {Batch}
        /\ verifyResults' \in {verifyResults, <<>>}
    BY <1>5 DEF SubmitNoHash, Submitted, Emptied
  <2>2. /\ IsFiniteSet(Batch) /\ Cardinality(Batch) <= MaxResults
        /\ \A r \in Batch : Right(r)
    BY BatchRight DEF TypeInv
  <2> QED
    BY <1>b, <2>1, <2>2 DEF BatchesRight
<1> QED
  BY <1>1, <1>2, <1>3, <1>4, <1>5 DEF Next, TaskStep

\* Executing a small, right batch is a step of the audit, or none.
LEMMA ExecuteJudges ==
    ASSUME TypeOK, NEW b \in SUBSET Results, IsFiniteSet(b),
           Cardinality(b) <= MaxResults, \A r \in b : Right(r),
           Execute(b), kind' = kind
    PROVE  Audit!Next
<1> DEFINE judged == {r \in b : r.proof \in unverified}
           names == {r.proof : r \in judged}
           f == [r \in judged |-> r.proof]
<1>1. IsFiniteSet(judged) /\ Cardinality(judged) <= Cardinality(b)
  BY FS_Subset
<1>2. f \in Surjection(judged, names)
  BY DEF Surjection
<1>3. IsFiniteSet(names) /\ Cardinality(names) <= Cardinality(judged)
  BY <1>1, <1>2, FS_Surjection
<1>4. Cardinality(names) <= MaxResults
  BY <1>1, <1>3, FS_CardinalityType, MaxAssumption
<1>5. names \in SUBSET unverified
  OBVIOUS
<1>6. unverified' = unverified \ names
  BY DEF Execute
<1>7. ASSUME NEW p \in names
      PROVE  Verdict((CHOOSE r \in judged : r.proof = p).result) = Deserved(kind[p])
  <2>1. PICK r \in judged : r.proof = p
    OBVIOUS
  <2>2. /\ (CHOOSE q \in judged : q.proof = p) \in judged
        /\ (CHOOSE q \in judged : q.proof = p).proof = p
    BY <2>1
  <2> DEFINE x == CHOOSE q \in judged : q.proof = p
  <2>3. x.result = VerifyProof(kind[p])
    BY <2>2 DEF Right
  <2> HIDE DEF x
  <2>4. Verdict(x.result) = Deserved(kind[p])
    BY <2>3 DEF Verdict, Deserved, VerifyProof
  <2> QED
    BY <2>4 DEF x
<1>8. verdict' = [p \in Proofs |->
                     IF p \in names
                     THEN Verdict((CHOOSE r \in judged : r.proof = p).result)
                     ELSE verdict[p]]
  BY DEF Execute
<1>9. verdict' = [p \in Proofs |->
                     IF p \in names THEN [q \in Proofs |-> Deserved(kind[q])][p]
                     ELSE verdict[p]]
  BY <1>7, <1>8, <1>5 DEF TypeOK
<1>10. UNCHANGED [p \in Proofs |-> Deserved(kind[p])]
  OBVIOUS
<1> HIDE DEF names
<1>11. Audit!Cardinality(names) = Cardinality(names)
  BY DEF Audit!Cardinality, Cardinality
<1>12. Audit!Judged(names)
  BY <1>4, <1>6, <1>9, <1>10, <1>11 DEF Audit!Judged
<1> QED
  BY <1>5, <1>12 DEF Audit!Next

LEMMA AuditStep ==
    ASSUME TypeInv, BatchesRight, [Next]_vars
    PROVE  [Audit!Next]_Audit!auditVars
<1> USE DEF task, ledger
<1>1. ASSUME UNCHANGED <<kind, unverified, verdict>>
      PROVE  UNCHANGED Audit!auditVars
  BY <1>1 DEF Audit!auditVars
<1>2. CASE UNCHANGED vars
  BY <1>1, <1>2 DEF vars
<1>3. CASE \/ GetKey \/ GetProofs \/ Verify \/ SubmitFull \/ EndLoop
           \/ SubmitFailed \/ SubmitNoHash \/ TaskPanic \/ VerifyCrash
           \/ CoroutineMgr \/ Lock \/ KeyStored \/ OtherLock \/ OtherUnlock
           \/ Restart
  <2>1. UNCHANGED <<kind, unverified, verdict>>
    BY <1>3 DEF GetKey, GetProofs, Verify, SubmitFull, EndLoop, SubmitFailed,
       SubmitNoHash, TaskPanic, VerifyCrash, CoroutineMgr, Lock, KeyStored,
       OtherLock, OtherUnlock, Restart, Stops, Submitted
  <2> QED
    BY <1>1, <2>1
<1>4. CASE SubmitOk
  <2>1. Execute(Batch) /\ kind' = kind
    BY <1>4 DEF SubmitOk, Submitted
  <2> QED
    BY <2>1, BatchRight, ExecuteJudges DEF TypeInv
<1>5. ASSUME NEW p \in Proofs, Challenge(p)
      PROVE  Audit!Next
  <2>1. Audit!Challenged(p)
    BY <1>5 DEF Challenge, Audit!Challenged
  <2> QED
    BY <2>1 DEF Audit!Next
<1>6. CASE Land
  <2>1. PICK b \in pending : Execute(b) \/ UNCHANGED <<unverified, verdict>>
    BY <1>6 DEF Land
  <2>2. kind' = kind
    BY <1>6 DEF Land
  <2>3. CASE UNCHANGED <<unverified, verdict>>
    BY <1>1, <2>2, <2>3
  <2>4. CASE Execute(b)
    <3>1. /\ b \in SUBSET Results /\ IsFiniteSet(b)
          /\ Cardinality(b) <= MaxResults /\ \A r \in b : Right(r)
      BY DEF TypeInv, TypeOK, BatchesRight
    <3> QED
      BY <2>2, <2>4, <3>1, ExecuteJudges DEF TypeInv
  <2> QED
    BY <2>1, <2>3, <2>4
<1> QED
  BY <1>2, <1>3, <1>4, <1>5, <1>6 DEF Next, TaskStep

\* Whatever is retried, left in the pool, lost with a restart or verified
\* twice, the chain sees verdicts in bounded batches, each the deserved one.
THEOREM AuditCorrect == Spec => ImplementsAudit
<1> DEFINE Inv == TypeInv /\ BatchesRight
<1>1. Init => Inv
  BY TypeInit, MaxAssumption DEF Init, BatchesRight
<1>2. Inv /\ [Next]_vars => Inv'
  BY TypeStep, BatchesStep
<1>3. Init => Audit!Init
  BY DEF Init, Audit!Init, Deserved
<1>4. Inv /\ [Next]_vars => [Audit!Next]_Audit!auditVars
  BY AuditStep
<1> HIDE DEF Inv
<1> QED
  BY <1>1, <1>2, <1>3, <1>4, PTL DEF Spec, ImplementsAudit, Audit!Spec

-----------------------------------------------------------------------------
(* The task uses workLock as a mutex.                                      *)

\* Where the task is between Lock and Unlock.
TaskInside == pc = "loop" \/ (pc = "submit" /\ More)

\* It has workLock there and nowhere else.
LockRight == TaskInside <=> workLock = "validator"

User == IF workLock \in {"validator", "other"} THEN {workLock} ELSE {}

LEMMA LockInit == Init => LockRight
BY DEF Init, LockRight, TaskInside

\* What a step may do to workLock.
LockMove ==
    \/ UNCHANGED workLock
    \/ workLock = "free" /\ workLock' \in {"validator", "other"}
    \/ workLock \in {"validator", "other"} /\ workLock' = "free"
    \/ workLock = "validator" /\ workLock' = "lost"
    \/ Restart \/ VerifyCrash

LEMMA LockStep ==
    ASSUME TypeOK, LockRight, [Next]_vars
    PROVE  LockRight' /\ LockMove
<1> USE DEF LockRight, TaskInside, LockMove, More, task
<1>1. CASE UNCHANGED vars
  BY <1>1 DEF vars
<1>2. CASE GetKey \/ GetProofs \/ Lock \/ SubmitFull \/ EndLoop
  BY <1>2 DEF GetKey, GetProofs, Lock, SubmitFull, EndLoop, Submitting, TypeOK
<1>3. CASE Verify
  BY <1>3 DEF Verify
<1>4. CASE SubmitOk \/ SubmitFailed \/ SubmitNoHash
  BY <1>4 DEF SubmitOk, SubmitFailed, SubmitNoHash, Submitted
<1>5. CASE TaskPanic \/ CoroutineMgr
  BY <1>5 DEF TaskPanic, CoroutineMgr, TaskEnds
<1>6. CASE VerifyCrash \/ Restart
  BY <1>6 DEF VerifyCrash, Restart, Stops, TaskEnds
<1>7. CASE KeyStored \/ OtherLock \/ OtherUnlock \/ Land
           \/ \E p \in Proofs : Challenge(p)
  BY <1>7 DEF KeyStored, OtherLock, OtherUnlock, Land, Challenge
<1> QED
  BY <1>1, <1>2, <1>3, <1>4, <1>5, <1>6, <1>7 DEF Next, TaskStep

LEMMA MutexStep ==
    ASSUME TypeOK, LockRight, LockRight', LockMove
    PROVE  [WorkLock!Next]_(WorkLock!mutexVars)
<1> DEFINE lockState == CASE workLock = "free" -> "free"
                          [] workLock = "lost" -> "lost"
                          [] OTHER -> "held"
<1> DEFINE inside == (IF pc = "loop" \/ (pc = "submit" /\ More)
                      THEN {"validator"} ELSE {})
                  \cup (IF workLock = "other" THEN {"other"} ELSE {})
<1>1. inside = User /\ inside' = User'
  BY DEF LockRight, TaskInside, User
<1>2. CASE UNCHANGED workLock
  BY <1>1, <1>2 DEF User, WorkLock!mutexVars
<1>3. CASE workLock = "free" /\ workLock' \in {"validator", "other"}
  <2>1. PICK u \in {"validator", "other"} : workLock' = u
    BY <1>3
  <2>2. WorkLock!Lock(u)
    BY <1>1, <1>3, <2>1 DEF User, WorkLock!Lock
  <2> QED
    BY <2>2 DEF WorkLock!Next
<1>4. CASE workLock \in {"validator", "other"} /\ workLock' = "free"
  <2>1. PICK u \in {"validator", "other"} : workLock = u
    BY <1>4
  <2>2. WorkLock!Unlock(u)
    BY <1>1, <1>4, <2>1 DEF User, WorkLock!Unlock
  <2> QED
    BY <2>2 DEF WorkLock!Next
<1>5. CASE workLock = "validator" /\ workLock' = "lost"
  <2>1. WorkLock!Lose("validator")
    BY <1>1, <1>5 DEF User, WorkLock!Lose
  <2> QED
    BY <2>1 DEF WorkLock!Next
<1>6. CASE Restart \/ VerifyCrash
  <2>1. workLock' = "free"
    BY <1>6 DEF Restart, VerifyCrash, Stops
  <2>2. WorkLock!Restart
    BY <1>1, <2>1 DEF User, WorkLock!Restart
  <2> QED
    BY <2>2 DEF WorkLock!Next
<1> QED
  BY <1>2, <1>3, <1>4, <1>5, <1>6 DEF LockMove

\* Full batches, the last one, retries: the task unlocks workLock once a round,
\* and a panic, which skips the Unlock, is the one way to leave it locked.
THEOREM WorkLockCorrect == Spec => WorkLockKept
<1> DEFINE Inv == TypeInv /\ LockRight
<1>1. Init => Inv /\ WorkLock!Init
  BY TypeInit, LockInit DEF Init, WorkLock!Init
<1>2. Inv /\ [Next]_vars => Inv'
  BY TypeStep, LockStep DEF TypeInv
<1>3. Inv /\ [Next]_vars => [WorkLock!Next]_(WorkLock!mutexVars)
  BY <1>2, LockStep, MutexStep DEF TypeInv
<1> HIDE DEF Inv
<1> QED
  BY <1>1, <1>2, <1>3, PTL DEF Spec, WorkLockKept, WorkLock!Spec
=============================================================================
