-------------------------- MODULE TagServiceProofs --------------------------
(***************************************************************************)
(* Proofs about TagService, for any requesters, files and goroutines of    *)
(* the callback route.                                                     *)
(***************************************************************************)
EXTENDS TagService, TLAPS

-----------------------------------------------------------------------------
(* Types and the lock.                                                     *)

\* Between Lock and the deferred Unlock.
Inside == {"ask", "asking", "wait", "save", "key", "putE", "putN", "setKey"}

\* Who is inside holds workLock; who wants a tag has a file to ask it for.
Holding ==
    \A r \in Requesters :
        /\ pc[r] \in Inside => workLock = r
        /\ pc[r] \in {"lock", "ask", "asking", "wait", "save"} => file[r] \in Files

Inv == TypeOK /\ Holding

\* The record of a goroutine of the route.
Busy == [at : {"check", "drain", "push"}, tag : Files]

LEMMA InvInit == Init => Inv
<1> SUFFICES ASSUME Init PROVE Inv
  OBVIOUS
<1>1. keyMem \in BOOLEAN /\ keyE \in BOOLEAN /\ keyN \in BOOLEAN /\ late \in BOOLEAN
  BY Zenon DEF Init
<1> QED
  BY <1>1 DEF Init, Inv, TypeOK, Holding, Inside

LEMMA InvStep == Inv /\ [Next]_vars => Inv'
<1> SUFFICES ASSUME Inv, [Next]_vars PROVE Inv'
  OBVIOUS
<1> USE NoneAssumption DEF Inv, TypeOK, Holding, Inside
<1>1. ASSUME NEW r \in Requesters, NEW f \in Files, Request(r, f) PROVE Inv'
  BY <1>1 DEF Request, key
<1>2. ASSUME NEW r \in Requesters, Lock(r) PROVE Inv'
  BY <1>2 DEF Lock, LockFree, key
<1>16. ASSUME NEW r \in Requesters, SgxTakes(r) PROVE Inv'
  BY <1>16 DEF SgxTakes, Goto, key
<1>3. ASSUME NEW r \in Requesters, GetTagReq(r) PROVE Inv'
  <2>1. late' \in BOOLEAN
    BY <1>3, Zenon DEF GetTagReq
  <2>2. asked' \subseteq Files /\ UNCHANGED <<chTag, cb, saved, key>>
    BY <1>3 DEF GetTagReq
  <2>3. (Goto(r, "wait") /\ UNCHANGED tag) \/ Return(r)
    BY <1>3 DEF GetTagReq
  <2>4. CASE Goto(r, "wait") /\ UNCHANGED tag
    BY <1>3, <2>1, <2>2, <2>4 DEF GetTagReq, Goto, key
  <2>5. CASE Return(r)
    BY <1>3, <2>1, <2>2, <2>5 DEF GetTagReq, Return, key
  <2> QED
    BY <2>3, <2>4, <2>5
<1>4. ASSUME NEW r \in Requesters, Receive(r) PROVE Inv'
  BY <1>4 DEF Receive, Goto, key
<1>5. ASSUME NEW r \in Requesters, TimeOut(r) PROVE Inv'
  <2>1. late' \in BOOLEAN
    BY <1>5, Zenon DEF TimeOut
  <2> QED
    BY <1>5, <2>1 DEF TimeOut, Return, key
<1>6. ASSUME NEW r \in Requesters, Save(r) PROVE Inv'
  <2>1. CASE Return(r)
    BY <1>6, <2>1 DEF Save, Return, key
  <2>2. CASE /\ saved' = [saved EXCEPT ![file[r]] = tag[r]]
             /\ pc' = [pc EXCEPT ![r] = "key"]
             /\ file' = [file EXCEPT ![r] = None]
             /\ tag' = [tag EXCEPT ![r] = None]
             /\ UNCHANGED workLock
    BY <1>6, <2>2 DEF Save, key
  <2> QED
    BY <1>6, <2>1, <2>2 DEF Save
<1>7. ASSUME NEW r \in Requesters, GetKey(r) \/ SetKey(r) PROVE Inv'
  <2>1. keyMem' \in BOOLEAN
    BY <1>7, Zenon DEF GetKey, SetKey, LoadKey
  <2>2. (Goto(r, "putE") /\ UNCHANGED tag) \/ Return(r)
    BY <1>7 DEF GetKey, SetKey
  <2>3. CASE Goto(r, "putE") /\ UNCHANGED tag
    BY <1>7, <2>1, <2>3 DEF GetKey, SetKey, Goto
  <2>4. CASE Return(r)
    BY <1>7, <2>1, <2>4 DEF GetKey, SetKey, Return
  <2> QED
    BY <2>2, <2>3, <2>4
<1>8. ASSUME NEW r \in Requesters, PutE(r) \/ PutN(r) PROVE Inv'
  <2>1. keyE' \in BOOLEAN /\ keyN' \in BOOLEAN
    BY <1>8, Zenon DEF PutE, PutN
  <2> QED
    BY <1>8, <2>1 DEF PutE, PutN, Goto
<1>9. ASSUME NEW s \in Callbacks, Answer(s) PROVE Inv'
  <2>1. PICK f \in asked : asked' = asked \ {f} /\
                           cb' = [cb EXCEPT ![s] = [at |-> "check", tag |-> f]]
    BY <1>9 DEF Answer
  <2>2. [at |-> "check", tag |-> f] \in Busy
    BY DEF Busy
  <2> QED
    BY <1>9, <2>1, <2>2 DEF Answer, Busy, requesters, key
<1>10. ASSUME NEW s \in Callbacks, CheckLen(s) \/ Drain(s) PROVE Inv'
  <2>1. cb[s] \in Busy
    BY <1>10 DEF CheckLen, Drain, Done, Busy
  <2>2. cb' \in [Callbacks -> {Done} \cup Busy]
    BY <1>10, <2>1 DEF CheckLen, Drain, Busy
  <2> QED
    BY <1>10, <2>2 DEF CheckLen, Drain, Busy, requesters, key
<1>11. ASSUME NEW s \in Callbacks, PushTag(s) PROVE Inv'
  <2>1. cb[s] \in Busy
    BY <1>11 DEF PushTag, Done, Busy
  <2>2. chTag' \in Files
    BY <1>11, <2>1 DEF PushTag, Busy
  <2> QED
    BY <1>11, <2>2 DEF PushTag, requesters, key
<1>12. CASE GetTagDrops
  BY <1>12 DEF GetTagDrops, requesters, key
<1>13. CASE ValidatorGetKey
  <2>1. keyMem' \in BOOLEAN
    BY <1>13, Zenon DEF ValidatorGetKey, LoadKey
  <2> QED
    BY <1>13, <2>1 DEF ValidatorGetKey, requesters
<1>14. CASE Restart
  <2>1. keyMem' \in BOOLEAN /\ late' \in BOOLEAN
    BY <1>14, Zenon DEF Restart
  <2> QED
    BY <1>14, <2>1 DEF Restart
<1>15. CASE UNCHANGED vars
  BY <1>15 DEF vars
<1> QED
  BY <1>1, <1>2, <1>3, <1>4, <1>5, <1>6, <1>7, <1>8, <1>9, <1>10, <1>11, <1>12,
     <1>13, <1>14, <1>15, <1>16
  DEF Next, RequesterStep, CallbackStep

\* Every variable keeps its type.
THEOREM TypeCorrect == Spec => []TypeOK
<1>1. Inv => TypeOK
  BY DEF Inv
<1> QED
  BY <1>1, InvInit, InvStep, PTL DEF Spec

-----------------------------------------------------------------------------
(* The key.                                                                *)

\* A key in memory was read from the cache, which never loses a half.
LEMMA KeyStep == KeySurvives /\ [Next]_vars => KeySurvives'
<1> SUFFICES ASSUME KeySurvives, [Next]_vars PROVE KeySurvives'
  OBVIOUS
<1>1. ASSUME UNCHANGED key PROVE KeySurvives'
  BY <1>1, Zenon DEF key, KeySurvives
<1>2. ASSUME LoadKey, UNCHANGED <<keyE, keyN>> PROVE KeySurvives'
  BY <1>2, Zenon DEF LoadKey, KeySurvives
<1>3. ASSUME NEW r \in Requesters, PutE(r) \/ PutN(r) PROVE KeySurvives'
  BY <1>3, Zenon DEF PutE, PutN, KeySurvives
<1>4. CASE Restart
  BY <1>4, Zenon DEF Restart, KeySurvives
<1>5. ASSUME NEW r \in Requesters, GetKey(r) \/ SetKey(r) PROVE KeySurvives'
  BY <1>2, <1>5 DEF GetKey, SetKey
<1>6. CASE ValidatorGetKey
  BY <1>2, <1>6 DEF ValidatorGetKey
<1>7. ASSUME NEW r \in Requesters, NEW f \in Files, Request(r, f) PROVE KeySurvives'
  BY <1>1, <1>7 DEF Request
<1>8. ASSUME NEW r \in Requesters,
             \/ Lock(r) \/ SgxTakes(r) \/ GetTagReq(r)
             \/ Receive(r) \/ TimeOut(r) \/ Save(r)
      PROVE  KeySurvives'
  BY <1>1, <1>8 DEF Lock, SgxTakes, GetTagReq, Receive, TimeOut, Save
<1>9. ASSUME NEW s \in Callbacks, Answer(s) \/ CallbackStep(s) PROVE KeySurvives'
  BY <1>1, <1>9 DEF Answer, CallbackStep, CheckLen, Drain, PushTag
<1>10. CASE GetTagDrops \/ UNCHANGED vars
  BY <1>1, <1>10 DEF GetTagDrops, vars, key
<1> QED
  BY <1>3, <1>4, <1>5, <1>6, <1>7, <1>8, <1>9, <1>10 DEF Next, RequesterStep

(***************************************************************************)
(* A key in use is in the cache, both halves of it, wherever a stop falls  *)
(* and whichever write fails.                                              *)
(***************************************************************************)
THEOREM KeyCorrect == Spec => []KeySurvives
<1>1. Init => KeySurvives
  BY Zenon DEF Init, KeySurvives
<1> QED
  BY <1>1, KeyStep, PTL DEF Spec

-----------------------------------------------------------------------------
(* The tags.                                                               *)

\* Somebody inside has asked for the tag of f.
Awaited(f) ==
    \E r \in Requesters : pc[r] \in {"asking", "wait"} /\ file[r] = f

(***************************************************************************)
(* While no request was given up that might be answered: an answer is in   *)
(* one place at most, with the SGX, in one goroutine of the route or in    *)
(* the channel, and it is the one for which the holder of workLock waits.  *)
(***************************************************************************)
OwnAnswer ==
    /\ \A f \in asked : Awaited(f)
    /\ chTag # None =>
           Awaited(chTag) /\ asked = {} /\ \A s \in Callbacks : cb[s] = Done
    /\ \A s \in Callbacks :
           cb[s] # Done =>
               /\ Awaited(cb[s].tag) /\ cb[s].at # "drain"
               /\ asked = {} /\ chTag = None
               /\ \A t \in Callbacks \ {s} : cb[t] = Done

\* What is received and what is saved are the tags of the right files.
OwnTag ==
    /\ \A r \in Requesters : pc[r] = "save" => tag[r] = file[r]
    /\ \A f \in Files : saved[f] \in {f, None}

Punctual == late \/ (OwnAnswer /\ OwnTag)

\* The lock makes the requester that waits unique.
LEMMA OneWaits ==
    ASSUME Inv, NEW r \in Requesters, NEW q \in Requesters,
           pc[r] \in Inside, pc[q] \in Inside
    PROVE  r = q
BY DEF Inv, Holding

\* With somebody inside who does not wait, no answer is due.
LEMMA NoneDue ==
    ASSUME Inv, OwnAnswer, NEW r \in Requesters, pc[r] \in Inside,
           pc[r] \notin {"asking", "wait"}
    PROVE  asked = {} /\ chTag = None /\ \A s \in Callbacks : cb[s] = Done
<1>1. \A f : ~ Awaited(f)
  BY OneWaits DEF Awaited, Inside
<1> QED
  BY <1>1 DEF OwnAnswer

\* Answers that are still awaited by the same requesters stay in order.
LEMMA SameAnswers ==
    ASSUME OwnAnswer, UNCHANGED <<asked, chTag, cb>>,
           \A f : Awaited(f) => Awaited(f)'
    PROVE  OwnAnswer'
BY DEF OwnAnswer

\* No answer is due, whoever waits.
LEMMA NoAnswers ==
    ASSUME asked' = {}, chTag' = None, \A s \in Callbacks : cb'[s] = Done
    PROVE  OwnAnswer'
BY DEF OwnAnswer

LEMMA PunctualInit == Init => Punctual
BY DEF Init, Punctual, OwnAnswer, OwnTag

\* Once late, late until a restart.
LEMMA LateStays == late /\ [Next]_vars => late' \/ Restart
<1>1. ASSUME NEW r \in Requesters, NEW f \in Files, late, Request(r, f) PROVE late'
  BY <1>1, Zenon DEF Request
<1>2. ASSUME NEW r \in Requesters, late,
             Lock(r) \/ SgxTakes(r) \/ GetTagReq(r) \/ RequesterStep(r)
      PROVE  late'
  BY <1>2, Zenon DEF Lock, RequesterStep, SgxTakes, GetTagReq, Receive, TimeOut, Save,
                     GetKey, PutE, PutN, SetKey
<1>3. ASSUME NEW s \in Callbacks, late, Answer(s) \/ CallbackStep(s) PROVE late'
  BY <1>3, Zenon DEF Answer, CallbackStep, CheckLen, Drain, PushTag
<1>4. ASSUME late, GetTagDrops \/ ValidatorGetKey \/ UNCHANGED vars PROVE late'
  BY <1>4, Zenon DEF GetTagDrops, ValidatorGetKey, vars
<1> QED
  BY <1>1, <1>2, <1>3, <1>4 DEF Next

LEMMA PunctualStep == Inv /\ Punctual /\ [Next]_vars => Punctual'
<1> SUFFICES ASSUME Inv, [Next]_vars, ~Restart, ~late', OwnAnswer, OwnTag
             PROVE  OwnAnswer' /\ OwnTag'
  <2>1. ASSUME Restart, ~late' PROVE OwnAnswer' /\ OwnTag'
    <3>1. asked' = {} /\ chTag' = None /\ \A s \in Callbacks : cb'[s] = Done
      BY <2>1 DEF Restart
    <3>2. OwnTag'
      BY <2>1 DEF Restart, OwnTag
    <3> QED
      BY <3>1, <3>2, NoAnswers
  <2> QED
    BY <2>1, LateStays DEF Punctual
<1> USE DEF Inv, TypeOK
<1>1. ASSUME NEW r \in Requesters, NEW f \in Files, Request(r, f)
      PROVE  OwnAnswer' /\ OwnTag'
  <2>1. \A g : Awaited(g) => Awaited(g)'
    BY <1>1 DEF Request, Awaited
  <2> QED
    BY <1>1, <2>1, SameAnswers DEF Request, OwnTag
<1>2. ASSUME NEW r \in Requesters, Lock(r) PROVE OwnAnswer' /\ OwnTag'
  <2>1. \A g : Awaited(g) => Awaited(g)'
    BY <1>2 DEF Lock, Awaited
  <2> QED
    BY <1>2, <2>1, SameAnswers DEF Lock, OwnTag
<1>14. ASSUME NEW r \in Requesters, SgxTakes(r) PROVE OwnAnswer' /\ OwnTag'
  <2>1. asked = {} /\ chTag = None /\ \A s \in Callbacks : cb[s] = Done
    BY <1>14, NoneDue DEF SgxTakes, Inside
  <2>2. pc'[r] = "asking" /\ file'[r] = file[r]
    BY <1>14 DEF SgxTakes, Goto
  <2>3. asked' = {file'[r]}
    BY <1>14, <2>1, <2>2 DEF SgxTakes
  <2>4. chTag' = None /\ \A s \in Callbacks : cb'[s] = Done
    BY <1>14, <2>1 DEF SgxTakes
  <2>5. OwnAnswer'
    BY <2>2, <2>3, <2>4 DEF OwnAnswer, Awaited
  <2> QED
    BY <1>14, <2>5 DEF SgxTakes, Goto, OwnTag
<1>3. ASSUME NEW r \in Requesters, GetTagReq(r) PROVE OwnAnswer' /\ OwnTag'
  <2>1. CASE pc[r] = "asking" /\ Goto(r, "wait") /\ UNCHANGED tag
    <3>1. \A f : Awaited(f) => Awaited(f)'
      BY <2>1 DEF Goto, Awaited
    <3> QED
      BY <1>3, <2>1, <3>1, SameAnswers DEF GetTagReq, Goto, OwnTag
  <2>2. CASE pc[r] = "ask" /\ Return(r)
    <3>1. asked = {} /\ chTag = None /\ \A s \in Callbacks : cb[s] = Done
      BY <2>2, NoneDue DEF Inside
    <3>2. OwnAnswer'
      BY <1>3, <3>1, NoAnswers DEF GetTagReq
    <3> QED
      BY <1>3, <2>2, <3>2 DEF GetTagReq, Return, OwnTag
  <2>3. CASE Return(r) /\ ~ Outstanding
    <3>1. OwnAnswer'
      BY <1>3, <2>3, NoAnswers DEF GetTagReq, Outstanding
    <3> QED
      BY <1>3, <2>3, <3>1 DEF GetTagReq, Return, OwnTag
  <2> QED
    BY <1>3, <2>1, <2>2, <2>3 DEF GetTagReq
<1>4. ASSUME NEW r \in Requesters, Receive(r) PROVE OwnAnswer' /\ OwnTag'
  <2>1. Awaited(chTag) /\ asked = {} /\ \A s \in Callbacks : cb[s] = Done
    BY <1>4 DEF Receive, OwnAnswer
  <2>2. chTag = file[r]
    BY <1>4, <2>1, OneWaits DEF Receive, Awaited, Inside
  <2>3. OwnAnswer'
    BY <1>4, <2>1, NoAnswers DEF Receive
  <2> QED
    BY <1>4, <2>2, <2>3 DEF Receive, Goto, OwnTag
<1>5. ASSUME NEW r \in Requesters, TimeOut(r) PROVE OwnAnswer' /\ OwnTag'
  <2>1. ~ Outstanding
    BY <1>5 DEF TimeOut
  <2>2. OwnAnswer'
    BY <1>5, <2>1, NoAnswers DEF TimeOut, Outstanding
  <2> QED
    BY <1>5, <2>2 DEF TimeOut, Return, OwnTag
<1>6. ASSUME NEW r \in Requesters, Save(r) PROVE OwnAnswer' /\ OwnTag'
  <2>1. asked = {} /\ chTag = None /\ \A s \in Callbacks : cb[s] = Done
    BY <1>6, NoneDue DEF Save, Inside
  <2>2. OwnAnswer'
    BY <1>6, <2>1, NoAnswers DEF Save
  <2>3. tag[r] = file[r]
    BY <1>6 DEF Save, OwnTag
  <2>4. \A f \in Files : saved'[f] \in {f, None}
    BY <1>6, <2>3 DEF Save, OwnTag
  <2>5. \A q \in Requesters : pc'[q] = "save" => tag'[q] = file'[q]
    BY <1>6 DEF Save, Return, OwnTag
  <2> QED
    BY <2>2, <2>4, <2>5 DEF OwnTag
<1>7. ASSUME NEW r \in Requesters, GetKey(r) \/ PutE(r) \/ PutN(r) \/ SetKey(r)
      PROVE  OwnAnswer' /\ OwnTag'
  <2>1. asked = {} /\ chTag = None /\ \A s \in Callbacks : cb[s] = Done
    BY <1>7, NoneDue DEF GetKey, PutE, PutN, SetKey, Inside
  <2>2. OwnAnswer'
    BY <1>7, <2>1, NoAnswers DEF GetKey, PutE, PutN, SetKey
  <2>3. UNCHANGED saved
    BY <1>7 DEF GetKey, PutE, PutN, SetKey
  <2>4. \A q \in Requesters : pc'[q] = "save" => tag'[q] = file'[q]
    BY <1>7 DEF GetKey, PutE, PutN, SetKey, Return, Goto, OwnTag
  <2> QED
    BY <2>2, <2>3, <2>4 DEF OwnTag
<1>8. ASSUME NEW s \in Callbacks, Answer(s) PROVE OwnAnswer' /\ OwnTag'
  <2>1. PICK f \in asked : asked' = asked \ {f} /\
                           cb' = [cb EXCEPT ![s] = [at |-> "check", tag |-> f]]
    BY <1>8 DEF Answer
  <2>2. Awaited(f) /\ chTag = None /\ \A t \in Callbacks : cb[t] = Done
    BY <2>1 DEF OwnAnswer
  <2>3. asked = {f}
    BY <2>2, OneWaits DEF OwnAnswer, Awaited, Inside
  <2>4. Awaited(f)'
    BY <1>8, <2>2 DEF Answer, requesters, Awaited
  <2>5. asked' = {} /\ chTag' = None
    BY <1>8, <2>1, <2>2, <2>3 DEF Answer
  <2>6. cb'[s].tag = f /\ cb'[s].at = "check"
    BY <2>1
  <2>7. \A t \in Callbacks \ {s} : cb'[t] = Done
    BY <2>1, <2>2
  <2>8. OwnAnswer'
    BY <2>4, <2>5, <2>6, <2>7 DEF OwnAnswer
  <2> QED
    BY <1>8, <2>8 DEF Answer, requesters, OwnTag
<1>9. ASSUME NEW s \in Callbacks, CheckLen(s) PROVE OwnAnswer' /\ OwnTag'
  <2>1. cb[s] # Done
    BY <1>9 DEF CheckLen, Done
  <2>2. chTag = None /\ asked = {} /\ Awaited(cb[s].tag)
        /\ \A t \in Callbacks \ {s} : cb[t] = Done
    BY <2>1 DEF OwnAnswer
  <2>3. cb'[s].tag = cb[s].tag /\ cb'[s].at = "push"
        /\ \A t \in Callbacks \ {s} : cb'[t] = cb[t]
    BY <1>9, <2>1, <2>2 DEF CheckLen
  <2>4. Awaited(cb[s].tag)'
    BY <1>9, <2>2, <2>3 DEF CheckLen, requesters, Awaited
  <2>5. OwnAnswer'
    BY <1>9, <2>2, <2>3, <2>4 DEF CheckLen, OwnAnswer
  <2> QED
    BY <1>9, <2>5 DEF CheckLen, requesters, OwnTag
<1>10. ASSUME NEW s \in Callbacks, Drain(s) PROVE OwnAnswer' /\ OwnTag'
  BY <1>10 DEF Drain, Done, OwnAnswer
<1>11. ASSUME NEW s \in Callbacks, PushTag(s) PROVE OwnAnswer' /\ OwnTag'
  <2>1. cb[s] # Done
    BY <1>11 DEF PushTag, Done
  <2>2. asked = {} /\ Awaited(cb[s].tag) /\ \A t \in Callbacks \ {s} : cb[t] = Done
    BY <2>1 DEF OwnAnswer
  <2>3. Awaited(chTag)'
    BY <1>11, <2>2 DEF PushTag, requesters, Awaited
  <2>4. \A t \in Callbacks : cb'[t] = Done
    BY <1>11, <2>2 DEF PushTag
  <2>5. OwnAnswer'
    BY <1>11, <2>2, <2>3, <2>4 DEF PushTag, OwnAnswer
  <2> QED
    BY <1>11, <2>5 DEF PushTag, requesters, OwnTag
<1>12. CASE GetTagDrops
  <2>1. \A f : Awaited(f) => Awaited(f)'
    BY <1>12 DEF GetTagDrops, requesters, Awaited
  <2>2. OwnAnswer'
    BY <1>12, <2>1 DEF GetTagDrops, OwnAnswer
  <2> QED
    BY <1>12, <2>2 DEF GetTagDrops, requesters, OwnTag
<1>13. CASE ValidatorGetKey \/ UNCHANGED vars
  <2>1. \A f : Awaited(f) => Awaited(f)'
    BY <1>13 DEF ValidatorGetKey, requesters, vars, Awaited
  <2> QED
    BY <1>13, <2>1, SameAnswers DEF ValidatorGetKey, requesters, vars, OwnTag
<1> QED
  BY <1>1, <1>2, <1>3, <1>4, <1>5, <1>6, <1>7, <1>8, <1>9, <1>10, <1>11, <1>12,
     <1>13, <1>14
  DEF Next, RequesterStep, CallbackStep

(***************************************************************************)
(* The tag saved for a file is its own, though the channel carries no      *)
(* name, unless an answer may come to a request that was given up.         *)
(***************************************************************************)
THEOREM TagCorrect == Spec => []TagMatchesUnlessLate
<1>1. Punctual => TagMatchesUnlessLate
  BY DEF Punctual, OwnTag, TagMatchesUnlessLate
<1> QED
  BY <1>1, InvInit, InvStep, PunctualInit, PunctualStep, PTL DEF Spec

-----------------------------------------------------------------------------
(* The requesters use workLock as a mutex.                                 *)

\* Who has workLock is between Lock and the deferred Unlock.
HolderInside == workLock # None => pc[workLock] \in Inside

LEMMA HolderInit == Init => HolderInside
BY DEF Init, HolderInside

LEMMA HolderStep ==
    ASSUME Inv, HolderInside, [Next]_vars
    PROVE  HolderInside' /\ (workLock' = workLock \/ workLock = None \/ workLock' = None)
<1>1. workLock \in Requesters \cup {None} /\ pc \in [Requesters -> Inside \cup {"idle", "lock"}]
      /\ \A r \in Requesters : pc[r] \in Inside => workLock = r
  BY DEF Inv, TypeOK, Holding, Inside
<1> USE NoneAssumption DEF HolderInside, Inside
<1>2. ASSUME NEW r \in Requesters, Return(r) PROVE HolderInside' /\ workLock' \in {workLock, None}
  BY <1>1, <1>2 DEF Return
<1>3. ASSUME NEW r \in Requesters, NEW p \in Inside, Goto(r, p)
      PROVE  HolderInside' /\ UNCHANGED workLock
  BY <1>1, <1>3 DEF Goto
<1>4. ASSUME NEW r \in Requesters, \/ Lock(r)
                                  \/ \E f \in Files : Request(r, f)
      PROVE  HolderInside' /\ (workLock' = workLock \/ workLock = None)
  BY <1>1, <1>4 DEF Request, Lock, LockFree
<1>5. ASSUME NEW r \in Requesters,
             SgxTakes(r) \/ GetTagReq(r) \/ RequesterStep(r)
      PROVE  HolderInside' /\ workLock' \in {workLock, None}
  <2>1. ASSUME Save(r), ~ Return(r) PROVE HolderInside' /\ UNCHANGED workLock
    BY <1>1, <2>1 DEF Save
  <2>2. ASSUME ~ Save(r) PROVE Return(r) \/ \E p \in Inside : Goto(r, p)
    BY <1>5, <2>2 DEF RequesterStep, SgxTakes, GetTagReq, Receive, TimeOut, GetKey,
       PutE, PutN, SetKey
  <2> QED
    BY <1>2, <1>3, <2>1, <2>2
<1>6. CASE \/ \E s \in Callbacks : Answer(s) \/ CallbackStep(s)
           \/ GetTagDrops \/ ValidatorGetKey \/ UNCHANGED vars
  <2>1. UNCHANGED <<workLock, pc>>
    BY <1>6, Zenon DEF Answer, CallbackStep, CheckLen, Drain, PushTag, GetTagDrops,
       ValidatorGetKey, requesters, vars
  <2> QED
    BY <2>1
<1>7. CASE Restart
  BY <1>7 DEF Restart
<1> QED
  BY <1>4, <1>5, <1>6, <1>7 DEF Next

LEMMA MutexStep ==
    ASSUME Inv, Inv', HolderInside, HolderInside',
           workLock' = workLock \/ workLock = None \/ workLock' = None
    PROVE  [WorkLock!Next]_(WorkLock!mutexVars)
<1> DEFINE lockState == IF workLock = None THEN "free" ELSE "held"
<1> DEFINE inside == {r \in Requesters : pc[r] \notin {"idle", "lock"}}
<1>1. inside = IF workLock = None THEN {} ELSE {workLock}
  BY NoneAssumption DEF Inv, TypeOK, Holding, Inside, HolderInside
<1>2. inside' = IF workLock' = None THEN {} ELSE {workLock'}
  BY NoneAssumption DEF Inv, TypeOK, Holding, Inside, HolderInside
<1>3. workLock \in Requesters \cup {None} /\ workLock' \in Requesters \cup {None}
  BY DEF Inv, TypeOK
<1>4. CASE workLock' = workLock
  BY <1>1, <1>2, <1>4 DEF WorkLock!mutexVars
<1>5. CASE workLock = None /\ workLock' # None
  <2>1. PICK u \in Requesters : u = workLock'
    BY <1>3, <1>5
  <2>2. WorkLock!Lock(u)
    BY <1>1, <1>2, <1>5, <2>1 DEF WorkLock!Lock
  <2> QED
    BY <2>2 DEF WorkLock!Next
<1>6. CASE workLock # None /\ workLock' = None
  <2>1. PICK u \in Requesters : u = workLock
    BY <1>3, <1>6
  <2>2. WorkLock!Unlock(u)
    BY <1>1, <1>2, <1>6, <2>1 DEF WorkLock!Unlock
  <2> QED
    BY <2>2 DEF WorkLock!Next
<1> QED
  BY <1>4, <1>5, <1>6

\* An answer, the timeout, an error or a panic: each ends the wait under workLock
\* with the one Unlock.
THEOREM WorkLockCorrect == Spec => WorkLockKept
<1> DEFINE Strong == Inv /\ HolderInside
<1>1. Init => Strong /\ WorkLock!Init
  BY InvInit, HolderInit DEF Init, WorkLock!Init
<1>2. Strong /\ [Next]_vars => Strong'
  BY InvStep, HolderStep
<1>3. Strong /\ [Next]_vars => [WorkLock!Next]_(WorkLock!mutexVars)
  BY <1>2, HolderStep, MutexStep
<1> HIDE DEF Strong
<1> QED
  BY <1>1, <1>2, <1>3, PTL DEF Spec, WorkLockKept, WorkLock!Spec
=============================================================================
