------------------------ MODULE FillerPipelineProofs ------------------------
(***************************************************************************)
(* Proofs about FillerPipeline, for any miners, any capacity of C_Filler   *)
(* and any number of fillers, with or without panics.                      *)
(***************************************************************************)
EXTENDS FillerPipeline, TLAPS

-----------------------------------------------------------------------------
(* Queues without repetition.                                              *)

Elems(s) == {s[i] : i \in 1..Len(s)}
Injective(s) == \A i, j \in 1..Len(s) : s[i] = s[j] => i = j

LEMMA AppendElems ==
    ASSUME NEW S, NEW s \in Seq(S), NEW e \in S, e \notin Elems(s), Injective(s)
    PROVE  /\ Append(s, e) \in Seq(S)
           /\ Len(Append(s, e)) = Len(s) + 1
           /\ Elems(Append(s, e)) = Elems(s) \cup {e}
           /\ Injective(Append(s, e))
<1> DEFINE t == Append(s, e)
<1>1. t \in Seq(S) /\ Len(t) = Len(s) + 1 /\ Len(s) \in Nat
  OBVIOUS
<1>2. /\ \A i \in 1..Len(s) : t[i] = s[i]
      /\ t[Len(s) + 1] = e
  OBVIOUS
<1>3. 1..Len(t) = 1..Len(s) \cup {Len(s) + 1}
  BY <1>1
<1> HIDE DEF t
<1>4. Elems(t) = Elems(s) \cup {e}
  BY <1>2, <1>3 DEF Elems
<1>5. Injective(t)
  BY <1>1, <1>2, <1>3 DEF Elems, Injective
<1> QED
  BY <1>1, <1>4, <1>5 DEF t

LEMMA TailElems ==
    ASSUME NEW S, NEW s \in Seq(S), s # <<>>, Injective(s)
    PROVE  /\ Tail(s) \in Seq(S)
           /\ Len(Tail(s)) = Len(s) - 1
           /\ Head(s) \in S
           /\ Elems(s) = Elems(Tail(s)) \cup {Head(s)}
           /\ Head(s) \notin Elems(Tail(s))
           /\ Injective(Tail(s))
<1> DEFINE t == Tail(s)
<1>1. t \in Seq(S) /\ Len(t) = Len(s) - 1 /\ Len(s) \in Nat \ {0}
  OBVIOUS
<1>2. /\ \A i \in 1..Len(t) : t[i] = s[i + 1]
      /\ Head(s) = s[1]
  OBVIOUS
<1>3. Head(s) \in S
  OBVIOUS
<1> HIDE DEF t
<1>4. Elems(t) \cup {Head(s)} \subseteq Elems(s)
  BY <1>1, <1>2 DEF Elems
<1>5. Elems(s) \subseteq Elems(t) \cup {Head(s)}
  <2> SUFFICES ASSUME NEW i \in 1..Len(s)
               PROVE  s[i] \in Elems(t) \cup {Head(s)}
    BY DEF Elems
  <2>1. CASE i = 1
    BY <1>2, <2>1
  <2>2. CASE i # 1
    <3>1. i - 1 \in 1..Len(t) /\ (i - 1) + 1 = i
      BY <1>1, <2>2
    <3> QED
      BY <1>2, <3>1 DEF Elems
  <2> QED
    BY <2>1, <2>2
<1>6. Head(s) \notin Elems(t)
  BY <1>1, <1>2 DEF Elems, Injective
<1>7. Injective(t)
  <2> SUFFICES ASSUME NEW i \in 1..Len(t), NEW j \in 1..Len(t), t[i] = t[j]
               PROVE  i = j
    BY DEF Injective
  <2>1. s[i + 1] = s[j + 1] /\ i + 1 \in 1..Len(s) /\ j + 1 \in 1..Len(s)
    BY <1>1, <1>2
  <2>2. i + 1 = j + 1
    BY <2>1 DEF Injective
  <2> QED
    BY <2>2
<1> QED
  BY <1>1, <1>3, <1>4, <1>5, <1>6, <1>7 DEF t

-----------------------------------------------------------------------------
(* The invariant.                                                          *)

(***************************************************************************)
(* Where the fillers are.  Every filler in the generator's hands, in       *)
(* C_Filler or in task_Space's hand is there once, its files exist, and no *)
(* other file does but those of fillers a task panicked over.              *)
(***************************************************************************)
Places ==
    /\ genF = NoFiller <=> gen = "check"
    /\ gen # "check" => genF \in fillerFiles /\ Len(queue) < Reserved
    /\ gen \in {"tag", "tagging", "discard"} => genF \notin tagFiles
    /\ gen = "push" => genF \in tagFiles
    /\ Elems(queue) \subseteq fillerFiles \cap tagFiles
    /\ cur # NoFiller => cur \in fillerFiles \cap tagFiles
    /\ Injective(queue)
    /\ cur \notin Elems(queue)
    /\ genF # NoFiller => genF \notin Elems(queue) \cup {cur}
    /\ fillerFiles \cup tagFiles \subseteq 1..made
    /\ fillerFiles \cup tagFiles \subseteq
           Elems(queue) \cup {cur, genF} \cup abandoned

\* storagefiller runs only while task_Space waits for it, with a filler in hand;
\* after its panic task_Space waits on.
Waiting ==
    /\ st # "none" => space = "wait"
    /\ st \notin {"none", "panicked"} => target \in Miners
    /\ space = "wait" => cur # NoFiller

LEMMA TypeStep ==
    ASSUME TypeOK, Places, Waiting, [Next]_vars
    PROVE  TypeOK'
<1> USE DEF Fillers, NoFiller, generator, files, spacing, storing, external
<1>1. CASE UNCHANGED vars
  BY <1>1 DEF vars, TypeOK
<1>2. CASE GenerateFiller
  BY <1>2, MaxFillersAssumption DEF GenerateFiller, TypeOK
<1>3. CASE TagLock \/ RequestAndSaveTag \/ Discard
  BY <1>3 DEF TagLock, RequestAndSaveTag, Discard, TypeOK, Places, Holders
<1>4. CASE Push
  <2>1. queue' \in Seq(Fillers)
    <3>1. genF \in Fillers /\ queue \in Seq(Fillers)
      BY <1>4 DEF Push, TypeOK, Places
    <3> QED
      BY <1>4, <3>1 DEF Push
  <2> QED
    BY <1>4, <2>1 DEF Push, TypeOK
<1>5. CASE ListMiners \/ SpacePanic \/ EndRound \/ \E m \in Miners : StartStore(m)
  BY <1>5 DEF ListMiners, SpacePanic, EndRound, StartStore, TypeOK
<1>6. CASE TakeFiller
  <2>1. queue' \in Seq(Fillers) /\ cur' \in Fillers
    <3>1. queue \in Seq(Fillers) /\ queue # <<>> /\ Injective(queue)
      BY <1>6 DEF TakeFiller, TypeOK, Places
    <3> QED
      BY <1>6, <3>1, TailElems DEF TakeFiller
  <2> QED
    BY <1>6, <2>1 DEF TakeFiller, TypeOK
<1>7. CASE Prepare \/ StoreLock \/ Dial
  BY <1>7 DEF Prepare, StoreLock, Dial, Signal, TypeOK, Holders
<1>8. ASSUME Waiting, st \notin {"none", "panicked"}
      PROVE  Received => held' \in [Miners -> SUBSET Fillers]
  BY <1>8 DEF Received, TypeOK, Waiting
<1>9. ASSUME Waiting, st \notin {"none", "panicked"}
      PROVE  Meta \in Fillers \X Miners
  BY <1>9 DEF Meta, TypeOK, Waiting
<1>10. CASE SendFile
  <2>1. held' \in [Miners -> SUBSET Fillers]
    BY <1>8, <1>10 DEF SendFile, TypeOK
  <2> QED
    BY <1>10, <2>1 DEF SendFile, Signal, TypeOK, Holders
<1>11. CASE SubmitHash
  BY <1>9, <1>11 DEF SubmitHash, Signal, TypeOK, Holders
<1>12. CASE SubmitNoHash
  BY <1>9, <1>12 DEF SubmitNoHash, TypeOK
<1>13. CASE StorePanic
  <2>1. held' \in [Miners -> SUBSET Fillers]
    BY <1>8, <1>13 DEF StorePanic, TypeOK
  <2>2. pending' \subseteq Fillers \X Miners
    BY <1>9, <1>13 DEF StorePanic, TypeOK
  <2> QED
    BY <1>13, <2>1, <2>2 DEF StorePanic, TypeOK, Holders
<1>14. CASE StoreUnlock \/ OtherLock \/ OtherUnlock
  BY <1>14 DEF StoreUnlock, OtherLock, OtherUnlock, TypeOK, Holders
<1>15. CASE Land
  BY <1>15 DEF Land, TypeOK
<1>16. CASE Restart
  BY <1>16 DEF Restart, TypeOK, Holders
<1> QED
  BY <1>1, <1>2, <1>3, <1>4, <1>5, <1>6, <1>7, <1>10, <1>11, <1>12, <1>13,
     <1>14, <1>15, <1>16 DEF Next

LEMMA WaitingStep ==
    ASSUME TypeOK, Places, Waiting, [Next]_vars
    PROVE  Waiting'
<1> USE DEF Waiting, generator, files, spacing, storing, external
<1>1. CASE UNCHANGED vars
  BY <1>1 DEF vars
<1>2. CASE GenerateFiller \/ TagLock \/ RequestAndSaveTag \/ Discard \/ Push
  BY <1>2 DEF GenerateFiller, TagLock, RequestAndSaveTag, Discard, Push
<1>3. CASE ListMiners \/ SpacePanic \/ EndRound \/ \E m \in Miners : StartStore(m)
  BY <1>3 DEF ListMiners, SpacePanic, EndRound, StartStore, TypeOK
<1>4. CASE TakeFiller
  BY <1>4 DEF TakeFiller
<1>5. CASE Prepare \/ StoreLock \/ Dial \/ SendFile \/ SubmitHash
  BY <1>5 DEF Prepare, StoreLock, Dial, SendFile, SubmitHash, Signal
<1>6. CASE \/ SubmitNoHash \/ StoreUnlock \/ StorePanic \/ OtherLock
           \/ OtherUnlock \/ Land \/ Restart
  BY <1>6 DEF SubmitNoHash, StoreUnlock, StorePanic, OtherLock, OtherUnlock,
     Land, Restart
<1> QED
  BY <1>1, <1>2, <1>3, <1>4, <1>5, <1>6 DEF Next

LEMMA PlacesStep ==
    ASSUME TypeOK, Places, Waiting, [Next]_vars
    PROVE  Places'
<1> USE DEF NoFiller, generator, files, spacing, storing, external
<1>a. /\ made \in Nat
      /\ queue \in Seq(Fillers)
      /\ 0 \notin Fillers
      /\ Elems(queue) \subseteq Fillers
      /\ Fillers \subseteq Nat
  BY MaxFillersAssumption DEF TypeOK, Fillers, Elems
<1>1. CASE UNCHANGED vars
  BY <1>1 DEF vars, Places
<1>2. CASE GenerateFiller
  <2>1. made + 1 \notin 1..made /\ made + 1 # 0 /\ 1..made' = 1..made \cup {made + 1}
    BY <1>2, <1>a DEF GenerateFiller
  <2>2. made + 1 \notin Elems(queue) /\ made + 1 # cur
    BY <2>1 DEF Places
  <2> QED
    BY <1>2, <2>1, <2>2 DEF GenerateFiller, HasRoom, Places
<1>3. CASE TagLock \/ Discard
  BY <1>3 DEF TagLock, Discard, Places
<1>4. CASE RequestAndSaveTag
  BY <1>4 DEF RequestAndSaveTag, Places
<1>5. CASE Push
  <2>1. /\ genF \in Fillers
        /\ genF \notin Elems(queue)
        /\ genF # cur
    BY <1>5 DEF Push, Places, TypeOK
  <2>2. /\ Elems(queue') = Elems(queue) \cup {genF}
        /\ Injective(queue')
    BY <1>5, <1>a, <2>1, AppendElems DEF Push, Places
  <2> QED
    BY <1>5, <2>1, <2>2 DEF Push, Places
<1>6. CASE TakeFiller
  <2>1. /\ Len(queue') = Len(queue) - 1
        /\ cur' \in Fillers
        /\ Elems(queue) = Elems(queue') \cup {cur'}
        /\ cur' \notin Elems(queue')
        /\ Injective(queue')
    BY <1>6, <1>a, TailElems DEF TakeFiller, Places
  <2>2. Len(queue) < Reserved => Len(queue') < Reserved
    BY <2>1, <1>a, ReservedAssumption
  <2> QED
    BY <1>6, <2>1, <2>2, <1>a DEF TakeFiller, Places
<1>7. CASE ListMiners \/ SpacePanic \/ EndRound \/ \E m \in Miners : StartStore(m)
  BY <1>7 DEF ListMiners, SpacePanic, EndRound, StartStore, Places
<1>8. CASE Prepare \/ StoreLock \/ Dial \/ SendFile
  <2>1. UNCHANGED <<gen, genF, made, abandoned, queue, fillerFiles, tagFiles, cur>>
    BY <1>8 DEF Prepare, StoreLock, Dial, SendFile, Signal
  <2> QED
    BY <2>1 DEF Places
<1>9. CASE SubmitHash
  <2>1. /\ cur # 0 /\ cur' = 0
        /\ fillerFiles' = fillerFiles \ {cur}
        /\ tagFiles' = tagFiles \ {cur}
        /\ UNCHANGED <<gen, genF, made, abandoned, queue>>
    BY <1>9 DEF SubmitHash, Signal, Waiting
  <2> QED
    BY <2>1, <1>a DEF Places
<1>10. CASE \/ SubmitNoHash \/ StoreUnlock \/ StorePanic \/ OtherLock
            \/ OtherUnlock \/ Land
  <2>1. UNCHANGED <<gen, genF, made, abandoned, queue, fillerFiles, tagFiles, cur>>
    BY <1>10 DEF SubmitNoHash, StoreUnlock, StorePanic, OtherLock, OtherUnlock,
       Land
  <2> QED
    BY <2>1 DEF Places
<1>11. CASE Restart
  BY <1>11 DEF Restart, Places, Elems, Injective
<1> QED
  BY <1>1, <1>2, <1>3, <1>4, <1>5, <1>6, <1>7, <1>8, <1>9, <1>10, <1>11 DEF Next

Inv == TypeOK /\ Places /\ Waiting

LEMMA InvInit == Init => Inv
BY MaxFillersAssumption, MinersAssumption DEF Init, Inv, TypeOK, Places, Waiting,
   Fillers, NoFiller, Holders, Elems, Injective

LEMMA InvStep == Inv /\ [Next]_vars => Inv'
BY TypeStep, PlacesStep, WaitingStep DEF Inv

\* Every variable keeps its type.
THEOREM TypeCorrect == Spec => []TypeOK
<1>1. Inv => TypeOK
  BY DEF Inv
<1> QED
  BY InvInit, InvStep, <1>1, PTL DEF Spec

\* What C_Filler and the variable fillers name exists on disk, once, and the
\* generator, the only producer, never blocks on C_Filler.
THEOREM QueueCorrect == Spec => []QueueBacked
<1>1. Inv => QueueBacked
  BY DEF Inv, Places, QueueBacked, InQueue, Elems, Injective, NoFiller
<1> QED
  BY InvInit, InvStep, <1>1, PTL DEF Spec

\* No filler file is left behind while the process runs, but one whose tag
\* request panicked, and one task_Space had in hand when it panicked.
THEOREM NothingForgotten == Spec => []NoOrphan
<1>1. Inv => NoOrphan
  BY DEF Inv, Places, NoOrphan, InQueue, Elems
<1> QED
  BY InvInit, InvStep, <1>1, PTL DEF Spec

-----------------------------------------------------------------------------
(* What the chain records.                                                 *)

(***************************************************************************)
(* A filler is reported only from "submit", for the target storagefiller   *)
(* sent it to.  After that it stays in hand until the report is in a block *)
(* and it is dropped, or until a panic leaves task_Space waiting: in both  *)
(* cases no other miner gets it.                                           *)
(***************************************************************************)
Reports ==
    /\ st = "submit" => cur \in held[target]
    /\ \A x \in pending \cup metas :
          /\ x[1] \in 1..made
          /\ x[1] \in held[x[2]]
          /\ x[1] \notin Elems(queue)
          /\ x[1] # genF
          /\ x[1] = cur => \/ st = "submit" /\ x[2] = target
                           \/ st = "panicked"
    /\ \A x, y \in pending \cup metas : x[1] = y[1] => x[2] = y[2]

LEMMA ReportsStep ==
    ASSUME Inv, Reports, [Next]_vars
    PROVE  Reports'
<1> USE DEF NoFiller, generator, files, spacing, storing, external
<1>a. /\ made \in Nat
      /\ queue \in Seq(Fillers)
      /\ held \in [Miners -> SUBSET Fillers]
      /\ Injective(queue)
      /\ cur \notin Elems(queue)
      /\ 0 \notin 1..made
      /\ cur # 0 => cur \in 1..made
  BY MaxFillersAssumption DEF Inv, TypeOK, Fillers, Places
<1>b. \A x \in pending \cup metas : x[1] \in Fillers /\ x[2] \in Miners
  BY DEF Inv, TypeOK
<1>1. CASE UNCHANGED vars
  BY <1>1 DEF vars, Reports
<1>2. CASE GenerateFiller
  <2>1. made + 1 \notin 1..made /\ 1..made \subseteq 1..made'
    BY <1>2, <1>a DEF GenerateFiller
  <2>2. genF' = made + 1
    BY <1>2 DEF GenerateFiller
  <2>3. UNCHANGED <<queue, space, cur, st, target, held, pending, metas>>
    BY <1>2 DEF GenerateFiller
  <2> QED
    BY <2>1, <2>2, <2>3 DEF Reports
<1>3. CASE TagLock \/ RequestAndSaveTag \/ Discard
  <2>1. genF' \in {genF, 0} /\ made' = made
    BY <1>3 DEF TagLock, RequestAndSaveTag, Discard
  <2>2. UNCHANGED <<queue, space, cur, st, target, held, pending, metas>>
    BY <1>3 DEF TagLock, RequestAndSaveTag, Discard
  <2> QED
    BY <1>a, <2>1, <2>2 DEF Reports
<1>4. CASE Push
  <2>1. Elems(queue') = Elems(queue) \cup {genF}
    <3>1. genF \in Fillers /\ genF \notin Elems(queue)
      BY <1>4 DEF Push, Inv, Places, TypeOK
    <3> QED
      BY <1>4, <1>a, <3>1, AppendElems DEF Push
  <2>2. genF' = 0 /\ made' = made
        /\ UNCHANGED <<space, cur, st, target, held, pending, metas>>
    BY <1>4 DEF Push
  <2> QED
    BY <1>a, <2>1, <2>2 DEF Reports
<1>5. CASE TakeFiller
  <2>1. Elems(queue) = Elems(queue') \cup {cur'}
    BY <1>5, <1>a, TailElems DEF TakeFiller
  <2>2. UNCHANGED <<gen, genF, made, space, st, target, held, pending, metas>>
    BY <1>5 DEF TakeFiller
  <2>3. st # "submit"
    BY <1>5 DEF TakeFiller, Inv, Waiting
  <2> QED
    BY <2>1, <2>2, <2>3 DEF Reports
<1>6. CASE ListMiners \/ SpacePanic \/ EndRound
  <2>1. /\ space # "wait"
        /\ cur' \in {cur, 0}
        /\ UNCHANGED <<genF, made, queue, st, target, held, pending, metas>>
    BY <1>6 DEF ListMiners, SpacePanic, EndRound
  <2>2. st = "none"
    BY <2>1 DEF Inv, Waiting, TypeOK
  <2> QED
    BY <2>1, <2>2 DEF Reports
<1>7. ASSUME NEW m \in Miners, StartStore(m)
      PROVE  Reports'
  <2>1. /\ space = "next"
        /\ st' = "start"
        /\ UNCHANGED <<genF, made, queue, cur, held, pending, metas>>
    BY <1>7 DEF StartStore
  <2>2. st = "none"
    BY <2>1 DEF Inv, Waiting
  <2>3. \A x \in pending \cup metas : x[1] # cur
    BY <2>1, <2>2 DEF Reports
  <2> QED
    BY <2>1, <2>3 DEF Reports
<1>8. CASE Prepare \/ StoreLock \/ Dial \/ SendFile
  <2>1. /\ st \in {"start", "lock", "dial", "send"}
        /\ st' \in {"none", "lock", "dial", "send", "submit"}
        /\ UNCHANGED <<genF, made, queue, cur, pending, metas>>
    BY <1>8 DEF Prepare, StoreLock, Dial, SendFile, Signal
  <2>2. \A x \in pending \cup metas : x[1] # cur
    BY <2>1 DEF Reports
  <2>3. \A m \in Miners : held[m] \subseteq held'[m]
    BY <1>8, <1>a DEF Prepare, StoreLock, Dial, SendFile, Received
  <2>4. st' = "submit" => cur \in held'[target']
    <3>1. target \in Miners
      BY <2>1 DEF Inv, Waiting
    <3> QED
      BY <1>8, <1>a, <3>1 DEF Prepare, StoreLock, Dial, SendFile, Received, Signal
  <2> QED
    BY <1>b, <2>1, <2>2, <2>3, <2>4 DEF Reports
<1>c. ASSUME st = "submit"
      PROVE  /\ target \in Miners
             /\ Meta[1] = cur /\ Meta[2] = target
             /\ cur \in 1..made
             /\ cur \notin Elems(queue)
             /\ cur # genF
             /\ cur \in held[target]
  BY <1>a, <1>c DEF Meta, Inv, Waiting, Reports, Places
<1>d. ASSUME st = "submit",
             NEW x \in pending \cup metas \cup {Meta},
             NEW y \in pending \cup metas \cup {Meta}, x[1] = y[1]
      PROVE  x[2] = y[2]
  <2>1. \A z \in pending \cup metas : z[1] = cur => z[2] = target
    BY <1>d DEF Reports
  <2> QED
    BY <1>c, <1>d, <2>1 DEF Reports
<1>9. CASE SubmitHash
  <2>1. /\ st = "submit" /\ cur # 0 /\ cur' = 0 /\ st' = "none"
        /\ pending' \cup metas' \subseteq pending \cup metas \cup {Meta}
        /\ UNCHANGED <<genF, made, queue, held>>
    BY <1>9 DEF SubmitHash, Signal, Inv, Waiting
  <2>2. \A x \in pending' \cup metas' :
            /\ x[1] \in 1..made
            /\ x[1] \in held[x[2]]
            /\ x[1] \notin Elems(queue)
            /\ x[1] # genF
    BY <1>c, <2>1 DEF Reports
  <2>3. \A x, y \in pending' \cup metas' : x[1] = y[1] => x[2] = y[2]
    BY <1>d, <2>1
  <2> QED
    BY <1>a, <2>1, <2>2, <2>3 DEF Reports
<1>10. CASE SubmitNoHash \/ StorePanic
  <2>1. /\ UNCHANGED <<genF, made, queue, space, cur, metas>>
        /\ pending' \subseteq pending \cup {Meta}
        /\ st \in {"send", "submit"}
        /\ pending' # pending => st = "submit"
        /\ st' = "panicked" \/ (st = "submit" /\ UNCHANGED <<st, target, held>>)
        /\ st = "submit" => held' = held
    BY <1>10 DEF SubmitNoHash, StorePanic
  <2>2. \A m \in Miners : held[m] \subseteq held'[m]
    BY <1>10, <1>a DEF SubmitNoHash, StorePanic, Received
  <2>3. \A x \in pending' \cup metas' :
            /\ x[1] \in 1..made
            /\ x[1] \in held'[x[2]]
            /\ x[1] \notin Elems(queue)
            /\ x[1] # genF
    BY <1>b, <1>c, <2>1, <2>2 DEF Reports
  <2>4. \A x, y \in pending' \cup metas' : x[1] = y[1] => x[2] = y[2]
    BY <1>d, <2>1 DEF Reports
  <2>5. space = "wait"
    BY <2>1 DEF Inv, Waiting
  <2>6. \A x \in pending' \cup metas' :
            x[1] = cur => x[2] = target \/ st' = "panicked"
    BY <1>c, <2>1 DEF Reports
  <2> QED
    BY <2>1, <2>3, <2>4, <2>5, <2>6 DEF Reports
<1>11. CASE StoreUnlock \/ OtherLock \/ OtherUnlock
  BY <1>11 DEF StoreUnlock, OtherLock, OtherUnlock, Reports
<1>12. CASE Land
  <2>1. /\ pending' \cup metas' \subseteq pending \cup metas
        /\ UNCHANGED <<genF, made, queue, space, cur, st, target, held>>
    BY <1>12 DEF Land
  <2> QED
    BY <2>1 DEF Reports
<1>13. CASE Restart
  <2>1. /\ st' = "none" /\ cur' = 0 /\ genF' = 0 /\ queue' = <<>>
        /\ UNCHANGED <<made, held, pending, metas>>
    BY <1>13 DEF Restart
  <2> QED
    BY <1>a, <2>1 DEF Reports, Elems
<1> QED
  BY <1>1, <1>2, <1>3, <1>4, <1>5, <1>6, <1>7, <1>8, <1>9, <1>10, <1>11, <1>12,
     <1>13 DEF Next

LEMMA ReportsInit == Init => Reports
BY DEF Init, Reports

\* Whatever transfers fail and whenever the extrinsics of repeated submissions
\* are executed, the chain records each filler for at most one miner.
THEOREM OneMinerCorrect == Spec => []OneMiner
<1>1. Inv /\ Reports /\ [Next]_vars => Inv' /\ Reports'
  BY InvStep, ReportsStep
<1>2. Reports => OneMiner
  BY DEF Reports, OneMiner
<1> QED
  BY InvInit, ReportsInit, <1>1, <1>2, PTL DEF Spec

\* A miner the chain records a filler for has received it.
THEOREM MetaCorrect == Spec => []MetaImpliesHeld
<1>1. Inv /\ Reports /\ [Next]_vars => Inv' /\ Reports'
  BY InvStep, ReportsStep
<1>2. Reports => MetaImpliesHeld
  BY DEF Reports, MetaImpliesHeld
<1> QED
  BY InvInit, ReportsInit, <1>1, <1>2, PTL DEF Spec
-----------------------------------------------------------------------------
(* The order of the fillers.                                               *)

Ascending(s) == \A i, j \in 1..Len(s) : i < j => s[i] < s[j]

LEMMA AppendAscends ==
    ASSUME NEW S, S \subseteq Nat, NEW s \in Seq(S), NEW e \in S,
           Ascending(s), \A x \in Elems(s) : x < e
    PROVE  Ascending(Append(s, e))
<1> DEFINE t == Append(s, e)
<1>1. /\ Len(t) = Len(s) + 1 /\ Len(s) \in Nat
      /\ \A i \in 1..Len(s) : t[i] = s[i]
      /\ t[Len(s) + 1] = e
  OBVIOUS
<1> HIDE DEF t
<1>2. ASSUME NEW i \in 1..Len(t), NEW j \in 1..Len(t), i < j
      PROVE  t[i] < t[j]
  <2>1. i \in 1..Len(s) /\ t[i] = s[i]
    BY <1>1, <1>2
  <2>2. CASE j = Len(s) + 1
    BY <1>1, <2>1, <2>2 DEF Elems
  <2>3. CASE j \in 1..Len(s)
    BY <1>1, <1>2, <2>1, <2>3 DEF Ascending
  <2> QED
    BY <1>1, <2>2, <2>3
<1> QED
  BY <1>2 DEF Ascending, t

LEMMA TailAscends ==
    ASSUME NEW S, S \subseteq Nat, NEW s \in Seq(S), s # <<>>, Ascending(s)
    PROVE  /\ Ascending(Tail(s))
           /\ \A x \in Elems(Tail(s)) : Head(s) < x
<1> DEFINE t == Tail(s)
<1>1. /\ Len(t) = Len(s) - 1 /\ Len(s) \in Nat \ {0}
      /\ \A i \in 1..Len(t) : t[i] = s[i + 1]
      /\ Head(s) = s[1]
  OBVIOUS
<1> HIDE DEF t
<1>2. \A i \in 1..Len(t) : i + 1 \in 1..Len(s) /\ 1 < i + 1
  BY <1>1
<1>3. Ascending(t)
  BY <1>1, <1>2 DEF Ascending
<1>4. \A x \in Elems(t) : Head(s) < x
  BY <1>1, <1>2 DEF Ascending, Elems
<1> QED
  BY <1>3, <1>4 DEF t

\* The fillers that are still to come into task_Space's hand.
InLine == Elems(queue) \cup ({genF} \ {NoFiller})

(***************************************************************************)
(* C_Filler keeps the fillers in the order in which they were made, with   *)
(* the one in hand before them, the generator's after them, and what the   *)
(* miners have received before all that is to come.                        *)
(***************************************************************************)
Ordered ==
    /\ Ascending(queue)
    /\ genF # NoFiller => \A e \in Elems(queue) : e < genF
    /\ \A e \in InLine : cur < e
    /\ \A m \in Miners : \A h \in held[m] :
          /\ h \in 1..made
          /\ cur # NoFiller => h <= cur
          /\ \A e \in InLine : h < e

LEMMA OrderedInit == Init => Ordered
BY DEF Init, Ordered, Ascending, InLine, Elems, NoFiller

LEMMA OrderedStep ==
    ASSUME Inv, Ordered, [Next]_vars
    PROVE  Ordered'
<1> USE DEF NoFiller, generator, files, spacing, storing, external
<1>a. /\ made \in Nat
      /\ queue \in Seq(Fillers) /\ Fillers \subseteq Nat
      /\ genF \in Nat /\ cur \in Nat
      /\ genF # 0 => genF \in 1..made
      /\ cur # 0 => cur \in 1..made
      /\ Elems(queue) \subseteq 1..made
      /\ Injective(queue)
      /\ held \in [Miners -> SUBSET Fillers]
  <2>1. Fillers \subseteq Nat
    BY MaxFillersAssumption DEF Fillers
  <2>2. made \in Nat /\ genF \in Fillers \cup {0} /\ cur \in Fillers \cup {0}
    BY MaxFillersAssumption DEF Inv, TypeOK
  <2>3. /\ genF # 0 => genF \in 1..made
        /\ cur # 0 => cur \in 1..made
        /\ Elems(queue) \subseteq 1..made
        /\ Injective(queue)
    BY DEF Inv, Places
  <2>4. queue \in Seq(Fillers) /\ held \in [Miners -> SUBSET Fillers]
    BY DEF Inv, TypeOK
  <2> HIDE DEF Fillers
  <2> QED
    BY <2>1, <2>2, <2>3, <2>4
<1>b. 0 \notin InLine /\ InLine \subseteq Nat
  BY <1>a DEF InLine
\* Nothing moves forward, and something may have left.
<1>c. ASSUME UNCHANGED <<made, queue, held>>, genF' \in {genF, 0},
             cur' \in {cur, 0}
      PROVE  Ordered'
  <2>1. InLine' \subseteq InLine
    BY <1>c DEF InLine
  <2>2. \A e \in InLine' : cur' < e
    <3>1. \A e \in InLine : cur < e /\ 0 < e
      BY <1>b DEF Ordered
    <3> QED
      BY <1>c, <2>1, <3>1
  <2> QED
    BY <1>c, <2>1, <2>2 DEF Ordered
<1>1. CASE UNCHANGED vars
  BY <1>1, <1>c DEF vars
<1>2. CASE GenerateFiller
  <2>1. /\ genF' = made + 1 /\ made' = made + 1 /\ genF = 0
        /\ UNCHANGED <<queue, cur, held>>
    BY <1>2 DEF GenerateFiller, Inv, Places
  <2>2. InLine' = Elems(queue) \cup {made + 1} /\ InLine = Elems(queue)
    BY <1>a, <2>1 DEF InLine
  <2>3. \A n \in 1..made : n < made + 1 /\ n \in 1..(made + 1)
    BY <1>a
  <2>4. cur < made + 1
    BY <1>a
  <2> QED
    BY <1>a, <2>1, <2>2, <2>3, <2>4 DEF Ordered
<1>3. CASE TagLock \/ RequestAndSaveTag \/ Discard
  BY <1>3, <1>c DEF TagLock, RequestAndSaveTag, Discard
<1>4. CASE Push
  <2>1. /\ queue' = Append(queue, genF) /\ genF' = 0 /\ genF # 0
        /\ genF \in Fillers /\ genF \notin Elems(queue)
        /\ UNCHANGED <<made, cur, held>>
    BY <1>4 DEF Push, Inv, Places, TypeOK
  <2>2. Elems(queue') = Elems(queue) \cup {genF}
    BY <1>a, <2>1, AppendElems
  <2>3. Ascending(queue')
    BY <1>a, <2>1, AppendAscends DEF Ordered
  <2>4. InLine' = InLine
    BY <2>1, <2>2 DEF InLine
  <2> QED
    BY <2>1, <2>3, <2>4 DEF Ordered
<1>5. CASE TakeFiller
  <2>1. /\ queue # <<>> /\ cur = 0
        /\ queue' = Tail(queue) /\ cur' = Head(queue)
        /\ UNCHANGED <<genF, made, held>>
    BY <1>5 DEF TakeFiller
  <2>2. /\ Elems(queue) = Elems(queue') \cup {cur'}
        /\ cur' \in Fillers
    BY <1>a, <2>1, TailElems
  <2>3. Ascending(queue') /\ \A x \in Elems(queue') : cur' < x
    BY <1>a, <2>1, TailAscends DEF Ordered
  <2>4. InLine' \subseteq InLine /\ cur' \in InLine
    BY <2>1, <2>2 DEF InLine
  <2>5. \A e \in InLine' : cur' < e
    BY <2>1, <2>2, <2>3 DEF InLine, Ordered
  <2>6. \A m \in Miners : \A h \in held[m] : h <= cur'
    BY <1>a, <1>b, <2>4 DEF Ordered
  <2> QED
    BY <2>1, <2>2, <2>3, <2>4, <2>5, <2>6 DEF Ordered
<1>6. CASE \/ ListMiners \/ SpacePanic \/ EndRound \/ \E m \in Miners : StartStore(m)
           \/ Prepare \/ StoreLock \/ Dial
           \/ SubmitHash \/ SubmitNoHash
           \/ StoreUnlock \/ OtherLock \/ OtherUnlock \/ Land
  BY <1>6, <1>c DEF ListMiners, SpacePanic, EndRound, StartStore, Prepare,
     StoreLock, Dial, Signal, SubmitHash, SubmitNoHash, StoreUnlock, OtherLock, OtherUnlock, Land
<1>7. CASE SendFile \/ StorePanic
  <2>1. /\ UNCHANGED <<genF, made, queue, cur>>
        /\ Received \/ UNCHANGED held
        /\ cur # 0
    BY <1>7 DEF SendFile, StorePanic, Signal, Inv, Waiting
  <2>2. CASE UNCHANGED held
    BY <1>c, <2>1, <2>2
  <2>3. CASE Received
    <3>1. \A m \in Miners : held'[m] \subseteq held[m] \cup {cur}
      BY <1>a, <2>3 DEF Received
    <3>2. InLine' = InLine
      BY <2>1 DEF InLine
    <3>3. cur \in 1..made /\ cur <= cur
      BY <1>a, <2>1
    <3> QED
      BY <2>1, <3>1, <3>2, <3>3 DEF Ordered
  <2> QED
    BY <2>1, <2>2, <2>3
<1>8. CASE Restart
  <2>1. /\ queue' = <<>> /\ genF' = 0 /\ cur' = 0
        /\ UNCHANGED <<made, held>>
    BY <1>8 DEF Restart
  <2>2. InLine' = {} /\ Ascending(queue')
    BY <2>1 DEF InLine, Elems, Ascending
  <2> QED
    BY <2>1, <2>2 DEF Ordered
<1> QED
  BY <1>1, <1>2, <1>3, <1>4, <1>5, <1>6, <1>7, <1>8 DEF Next

-----------------------------------------------------------------------------
(* The refinement of FillerLedger.                                         *)

\* While storagefiller has the filler in hand, it is the latest that a miner has
\* received, and it is not reported before its transfer has succeeded.
LEMMA InHand ==
    ASSUME Inv, Reports, Ordered, st \in {"send", "submit"}
    PROVE  /\ cur \in 1..made
           /\ target \in Miners
           /\ Ledger!Latest(cur)
           /\ st = "send" => ~ Ledger!Reported(cur)
           /\ st = "submit" =>
                 /\ cur \in held[target]
                 /\ \A x \in pending \cup metas : x[1] = cur => x[2] = target
<1>1. cur # NoFiller /\ target \in Miners
  BY DEF Inv, Waiting
<1>2. cur \in 1..made
  BY <1>1 DEF Inv, Places
<1>3. Ledger!Latest(cur)
  BY <1>1 DEF Ordered, Ledger!Latest
<1>4. \A x \in pending \cup metas : x[1] = cur => st = "submit" /\ x[2] = target
  BY DEF Reports
<1>5. st = "send" => ~ Ledger!Reported(cur)
  BY <1>4 DEF Ledger!Reported
<1> QED
  BY <1>1, <1>2, <1>3, <1>4, <1>5 DEF Reports

LEMMA LedgerStep ==
    ASSUME Inv, Reports, Ordered, [Next]_vars
    PROVE  [Ledger!Next]_Ledger!ledgerVars
<1> USE DEF generator, files, spacing, storing, external
<1>a. UNCHANGED <<made, held, pending, metas>> =>
          [Ledger!Next]_Ledger!ledgerVars
  BY DEF Ledger!ledgerVars
<1>b. ASSUME Received, st = "send", UNCHANGED <<made, pending, metas>>
      PROVE  [Ledger!Next]_Ledger!ledgerVars
  <2>1. Ledger!Send(cur, target)
    BY <1>b, InHand DEF Received, Ledger!Send
  <2> QED
    BY <1>b, <2>1, InHand DEF Ledger!Next
<1>c. ASSUME st = "submit", UNCHANGED <<made, held>>,
             \/ metas' = metas \cup {Meta} /\ UNCHANGED pending
             \/ pending' = pending \cup {Meta} /\ UNCHANGED metas
      PROVE  [Ledger!Next]_Ledger!ledgerVars
  <2>1. Ledger!Report(cur, target)
    BY <1>c, InHand DEF Meta, Ledger!Report
  <2> QED
    BY <1>c, <2>1, InHand DEF Ledger!Next
<1>1. CASE UNCHANGED vars
  BY <1>1, <1>a DEF vars
<1>2. CASE GenerateFiller
  <2>1. Ledger!Make
    BY <1>2 DEF GenerateFiller, Ledger!Make
  <2> QED
    BY <2>1 DEF Ledger!Next
<1>3. CASE \/ TagLock \/ RequestAndSaveTag \/ Discard \/ Push
           \/ ListMiners \/ SpacePanic \/ TakeFiller \/ EndRound
           \/ \E m \in Miners : StartStore(m)
           \/ Prepare \/ StoreLock \/ Dial
           \/ StoreUnlock \/ OtherLock \/ OtherUnlock \/ Restart
  BY <1>3, <1>a DEF TagLock, RequestAndSaveTag, Discard, Push, ListMiners,
     SpacePanic, TakeFiller, EndRound, StartStore, Prepare, StoreLock, Dial, StoreUnlock,
     OtherLock, OtherUnlock, Restart
<1>4. CASE SendFile
  <2>1. /\ st = "send" /\ UNCHANGED <<made, pending, metas>>
        /\ Received \/ UNCHANGED held
    BY <1>4 DEF SendFile
  <2> QED
    BY <1>a, <1>b, <2>1
<1>5. CASE SubmitHash
  <2>1. /\ st = "submit" /\ UNCHANGED <<made, held, pending>>
        /\ metas' = metas \cup {Meta} \/ UNCHANGED metas
    BY <1>5 DEF SubmitHash
  <2> QED
    BY <1>a, <1>c, <2>1
<1>6. CASE SubmitNoHash
  <2>1. /\ st = "submit" /\ UNCHANGED <<made, held, metas>>
        /\ pending' = pending \cup {Meta}
    BY <1>6 DEF SubmitNoHash
  <2> QED
    BY <1>c, <2>1
<1>7. CASE StorePanic
  <2>1. /\ UNCHANGED <<made, metas>>
        /\ \/ UNCHANGED <<held, pending>>
           \/ st = "send" /\ Received /\ UNCHANGED pending
           \/ st = "submit" /\ pending' = pending \cup {Meta} /\ UNCHANGED held
    BY <1>7 DEF StorePanic
  <2> QED
    BY <1>a, <1>b, <1>c, <2>1
<1>8. CASE Land
  <2>1. PICK x \in pending : Ledger!Execute(x)
    BY <1>8 DEF Land, Ledger!Execute
  <2> QED
    BY <2>1 DEF Ledger!Next
<1> QED
  BY <1>1, <1>2, <1>3, <1>4, <1>5, <1>6, <1>7, <1>8 DEF Next

\* The pipeline implements FillerLedger: the miners receive the fillers in
\* order, and nothing of a filler once it has been reported.
THEOREM LedgerCorrect == Spec => ImplementsLedger
<1> DEFINE Strong == Inv /\ Reports /\ Ordered
<1>1. Init => Strong /\ Ledger!Init
  BY InvInit, ReportsInit, OrderedInit DEF Init, Ledger!Init
<1>2. Strong /\ [Next]_vars => Strong'
  BY InvStep, ReportsStep, OrderedStep
<1>3. Strong /\ [Next]_vars => [Ledger!Next]_Ledger!ledgerVars
  BY LedgerStep
<1> HIDE DEF Strong
<1> QED
  BY <1>1, <1>2, <1>3, PTL DEF Spec, ImplementsLedger, Ledger!Spec

-----------------------------------------------------------------------------
(* The generator and storagefiller use workLock as a mutex.                *)

\* Who is between Lock and Unlock has workLock, and conversely.
HoldersInside ==
    /\ gen = "tagging" <=> workLock = "gen"
    /\ st \in {"dial", "send", "submit"} <=> workLock = "st"

\* A storagefiller that has signalled still has it.
User == IF workLock = "free" THEN {}
        ELSE IF workLock = "left" THEN {"st"} ELSE {workLock}

LEMMA HoldersInit == Init => HoldersInside
BY DEF Init, HoldersInside

LEMMA HoldersStep ==
    ASSUME Waiting, HoldersInside, [Next]_vars
    PROVE  HoldersInside' /\ (User' = User \/ User = {} \/ User' = {})
<1> USE DEF HoldersInside, User, generator, files, spacing, storing, external
<1>1. CASE UNCHANGED vars
  BY <1>1 DEF vars
<1>2. CASE \/ GenerateFiller \/ TagLock \/ RequestAndSaveTag \/ Discard \/ Push
           \/ OtherLock \/ OtherUnlock \/ Land
  BY <1>2 DEF GenerateFiller, TagLock, RequestAndSaveTag, Discard, Push,
     OtherLock, OtherUnlock, Land
<1>3. CASE ListMiners \/ SpacePanic \/ TakeFiller \/ EndRound \/ StoreUnlock \/ Restart
  BY <1>3 DEF ListMiners, SpacePanic, TakeFiller, EndRound, StoreUnlock, Restart
<1>4. CASE \E m \in Miners : StartStore(m)
  BY <1>4 DEF StartStore, Waiting
<1>5. CASE Prepare \/ StoreLock \/ Dial
  BY <1>5 DEF Prepare, StoreLock, Dial, Signal
<1>6. CASE SendFile
  BY <1>6 DEF SendFile, Signal
<1>7. CASE SubmitHash \/ SubmitNoHash
  BY <1>7 DEF SubmitHash, SubmitNoHash, Signal
<1>8. CASE StorePanic
  BY <1>8 DEF StorePanic
<1> QED
  BY <1>1, <1>2, <1>3, <1>4, <1>5, <1>6, <1>7, <1>8 DEF Next

LEMMA MutexStep ==
    ASSUME TypeOK, HoldersInside, HoldersInside', TypeOK',
           User' = User \/ User = {} \/ User' = {}
    PROVE  [WorkLock!Next]_(WorkLock!mutexVars)
<1> DEFINE lockState == IF workLock = "free" THEN "free" ELSE "held"
<1> DEFINE inside == (IF gen = "tagging" THEN {"gen"} ELSE {})
                  \cup (IF st \in {"dial", "send", "submit"} \/ workLock = "left"
                        THEN {"st"} ELSE {})
                  \cup (IF workLock = "other" THEN {"other"} ELSE {})
<1>1. inside = User /\ inside' = User'
  BY DEF TypeOK, Holders, HoldersInside, User
<1>2. workLock = "free" \/ \E u \in {"gen", "st", "other"} : User = {u}
  BY DEF TypeOK, Holders, User
<1>3. workLock' = "free" \/ \E u \in {"gen", "st", "other"} : User' = {u}
  BY DEF TypeOK, Holders, User
<1>4. CASE User' = User
  BY <1>1, <1>4 DEF User, WorkLock!mutexVars
<1>5. CASE User = {} /\ User' # User
  <2>1. PICK u \in {"gen", "st", "other"} : User' = {u}
    BY <1>3, <1>5 DEF User
  <2>2. WorkLock!Lock(u)
    BY <1>1, <1>5, <2>1 DEF User, WorkLock!Lock
  <2> QED
    BY <2>2 DEF WorkLock!Next
<1>6. CASE User' = {} /\ User' # User
  <2>1. PICK u \in {"gen", "st", "other"} : User = {u}
    BY <1>2, <1>6 DEF User
  <2>2. WorkLock!Unlock(u)
    BY <1>1, <1>6, <2>1 DEF User, WorkLock!Unlock
  <2> QED
    BY <2>2 DEF WorkLock!Next
<1> QED
  BY <1>4, <1>5, <1>6

\* Whatever they meet, a transfer, the chain or a tag answer that panics, the
\* generator and storagefiller unlock workLock once, and not for one another.
THEOREM WorkLockCorrect == Spec => WorkLockKept
<1> DEFINE Strong == Inv /\ HoldersInside
<1>1. Init => Strong /\ WorkLock!Init
  BY InvInit, HoldersInit DEF Init, WorkLock!Init
<1>2. Strong /\ [Next]_vars => Strong'
  BY InvStep, HoldersStep DEF Inv
<1>3. Strong /\ [Next]_vars => [WorkLock!Next]_(WorkLock!mutexVars)
  BY <1>2, HoldersStep, MutexStep DEF Inv
<1> HIDE DEF Strong
<1> QED
  BY <1>1, <1>2, <1>3, PTL DEF Spec, WorkLockKept, WorkLock!Spec
=============================================================================
