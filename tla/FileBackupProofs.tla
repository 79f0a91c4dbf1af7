-------------------------- MODULE FileBackupProofs --------------------------
(***************************************************************************)
(* Proofs about FileBackup, for any number of jobs, miners, chunks and     *)
(* tries, panics, late extrinsics and restarts included.                   *)
(***************************************************************************)
EXTENDS FileBackup, TLAPS

-----------------------------------------------------------------------------
(* Types, and how far a job is.                                            *)

AtChunk == {"stat", "tagLock", "tagWait", "tagWrite", "pick", "sendLock", "dial",
            "send", "record"}

Submitting == {"submit", "check", "finish"}

Before == {"idle", "upload", "start"}

Points == Before \cup AtChunk \cup Submitting \cup {"done", "dead"}

\* A job may be at p: it has chunks left while it is at one and none at the
\* submission, no miner before it has begun, and tries left when it goes on.
MayBeAt(j, p) ==
    /\ p \in Before => info[j] = <<>>
    /\ p \in AtChunk => Len(info[j]) < NChunks
    /\ p \in Submitting => Len(info[j]) = NChunks
    /\ p \notin {"done", "dead"} => tries[j] < MaxTry

Progress == \A j \in Jobs : MayBeAt(j, pc[j])

\* The two halves of TypeOK: the jobs' variables, and the ones they share.
JobsTyped ==
    /\ pc \in [Jobs -> Points]
    /\ info \in [Jobs -> Seq(Miners)]
    /\ \A j \in Jobs : Len(info[j]) <= NChunks
    /\ cand \in [Jobs -> Miners]
    /\ tries \in [Jobs -> 0..MaxTry]

Records == [state : {"none", "pending", "Failed", "active"},
            miners : Seq(Miners), sched : BOOLEAN]

LedgerTyped ==
    /\ pending \subseteq Seq(Miners)
    /\ chainState \in {"pending", "active"}
    /\ chainMeta \in Seq(Miners)
    /\ misled \subseteq Jobs

SharedTyped ==
    /\ workLock \in Jobs \cup {NoJob, Other, Lost}
    /\ tagFile \in [Chunks -> {"none", "partial", "full"}]
    /\ cache \in Records
    /\ held \in [Miners -> SUBSET Chunks]
    /\ LedgerTyped

LEMMA TypeParts == TypeOK <=> JobsTyped /\ SharedTyped
<1>1. Points = Ended \cup {"upload", "start", "stat", "tagLock", "tagWait",
                 "tagWrite", "pick", "sendLock", "dial", "send", "record",
                 "submit", "check", "finish"}
  BY DEF Points, Before, AtChunk, Submitting, Ended
<1> QED
  BY <1>1, Zenon DEF TypeOK, JobsTyped, SharedTyped, LedgerTyped, Records

JInv == JobsTyped /\ Progress

\* A job that goes on to a point it may be at keeps the jobs in order.
LEMMA GoOn ==
    ASSUME JInv, NEW j \in Jobs, NEW p \in Points, Goto(j, p), MayBeAt(j, p),
           UNCHANGED <<info, tries>>, cand' \in [Jobs -> Miners]
    PROVE  JInv'
<1>1. JobsTyped'
  BY DEF JInv, JobsTyped, Goto
<1>2. ASSUME NEW k \in Jobs PROVE MayBeAt(k, pc[k])'
  <2>1. CASE k = j
    <3>1. pc'[k] = p
      BY <2>1 DEF JInv, JobsTyped, Goto
    <3> QED
      BY <2>1, <3>1 DEF MayBeAt
  <2>2. CASE k # j
    <3>1. pc'[k] = pc[k] /\ MayBeAt(k, pc[k])
      BY <2>2 DEF JInv, JobsTyped, Goto, Progress
    <3> QED
      BY <3>1 DEF MayBeAt
  <2> QED
    BY <2>1, <2>2
<1> QED
  BY <1>1, <1>2 DEF JInv, Progress

\* What is true of a job at a point.
LEMMA AtPoint ==
    ASSUME JInv, NEW j \in Jobs
    PROVE  /\ MayBeAt(j, pc[j]) /\ pc[j] \in Points
           /\ info[j] \in Seq(Miners) /\ Len(info[j]) \in Nat
           /\ Len(info[j]) <= NChunks
           /\ cand[j] \in Miners /\ tries[j] \in 0..MaxTry
BY DEF JInv, JobsTyped, Progress

\* From a point at a chunk a job may go to any other, and within the submission too.
LEMMA SamePhase ==
    ASSUME NEW j \in Jobs, NEW p, NEW q, MayBeAt(j, p),
           \/ p \in AtChunk /\ q \in AtChunk
           \/ p \in Submitting /\ q \in Submitting
           \/ p \in Before /\ q \in Before
           \/ q \in {"done", "dead"}
    PROVE  MayBeAt(j, q) /\ q \in Points
BY DEF MayBeAt, AtChunk, Submitting, Before, Points

LEMMA PutTyped ==
    ASSUME NEW state \in {"none", "pending", "Failed", "active"},
           NEW miners \in Seq(Miners), NEW sched \in BOOLEAN,
           Put(state, miners, sched)
    PROVE  cache' \in Records
BY DEF Put, Records

\* The steps of a job that change neither its miners nor its tries.
Quiet(j) ==
    \/ MsgHead(j) \/ MsgEnd(j) \/ Stat(j) \/ TagLock(j) \/ SendLock(j)
    \/ TagOpen(j) \/ TagWrite(j) \/ Pick(j) \/ Dial(j) \/ SendFile(j)
    \/ SendPanic(j) \/ SubmitOk(j) \/ SubmitPanic(j) \/ Check(j) \/ Finish(j)

LEMMA QuietJobs ==
    ASSUME JInv, NEW j \in Jobs, Quiet(j)
    PROVE  JInv'
<1> USE AtPoint DEF AtChunk, Submitting, Before
<1>1. CASE MsgHead(j) \/ MsgEnd(j)
  <2>1. PICK p \in Before : Goto(j, p)
    BY <1>1 DEF MsgHead, MsgEnd
  <2>2. pc[j] \in Before /\ UNCHANGED <<info, tries>> /\ cand' \in [Jobs -> Miners]
    BY <1>1 DEF MsgHead, MsgEnd, JInv, JobsTyped
  <2> QED
    BY <2>1, <2>2, SamePhase, GoOn
<1>2. CASE Stat(j) \/ TagLock(j) \/ SendLock(j) \/ Dial(j)
  <2>1. PICK p \in AtChunk : Goto(j, p)
    BY <1>2 DEF Stat, TagLock, SendLock, Dial
  <2>2. pc[j] \in AtChunk /\ UNCHANGED <<info, tries>> /\ cand' \in [Jobs -> Miners]
    BY <1>2 DEF Stat, TagLock, SendLock, Dial, JInv, JobsTyped
  <2> QED
    BY <2>1, <2>2, SamePhase, GoOn
<1>3. CASE TagOpen(j) \/ TagWrite(j)
  <2>1. PICK p \in AtChunk : Goto(j, p)
    BY <1>3 DEF TagOpen, TagWrite
  <2>2. pc[j] \in AtChunk /\ UNCHANGED <<info, tries>> /\ cand' \in [Jobs -> Miners]
    BY <1>3 DEF TagOpen, TagWrite, JInv, JobsTyped
  <2> QED
    BY <2>1, <2>2, SamePhase, GoOn
<1>4. CASE Pick(j)
  <2>1. PICK p \in AtChunk : Goto(j, p)
    BY <1>4 DEF Pick
  <2>2. pc[j] \in AtChunk /\ UNCHANGED <<info, tries>> /\ cand' \in [Jobs -> Miners]
    BY <1>4 DEF Pick, JInv, JobsTyped
  <2> QED
    BY <2>1, <2>2, SamePhase, GoOn
<1>5. CASE SendFile(j) \/ SendPanic(j)
  <2>1. PICK p \in AtChunk : Goto(j, p)
    BY <1>5 DEF SendFile, SendPanic
  <2>2. pc[j] \in AtChunk /\ UNCHANGED <<info, tries>> /\ cand' \in [Jobs -> Miners]
    BY <1>5 DEF SendFile, SendPanic, JInv, JobsTyped
  <2> QED
    BY <2>1, <2>2, SamePhase, GoOn
<1>6. CASE SubmitOk(j) \/ SubmitPanic(j) \/ Check(j) \/ Finish(j)
  <2>1. PICK p \in Submitting \cup {"done", "dead"} : Goto(j, p)
    BY <1>6 DEF SubmitOk, SubmitPanic, Check, Finish
  <2>2. pc[j] \in Submitting /\ UNCHANGED <<info, tries>>
        /\ cand' \in [Jobs -> Miners]
    BY <1>6 DEF SubmitOk, SubmitPanic, Check, Finish, JInv, JobsTyped
  <2> QED
    BY <2>1, <2>2, SamePhase, GoOn
<1> QED
  BY <1>1, <1>2, <1>3, <1>4, <1>5, <1>6 DEF Quiet

\* Begin: the job is at its first chunk, or there is none.
LEMMA BeginJobs ==
    ASSUME JInv, NEW j \in Jobs, Begin(j)
    PROVE  JInv'
<1>1. pc[j] = "start" /\ info[j] = <<>> /\ tries[j] < MaxTry
  BY AtPoint DEF Begin, MayBeAt, Before
<1>2. Len(info[j]) = 0
  BY <1>1
<1>3. PICK p \in {"stat", "done"} : Goto(j, p) /\ (p = "stat" => NChunks # 0)
  BY DEF Begin
<1>4. MayBeAt(j, p) /\ p \in Points
  BY <1>1, <1>2, <1>3, NChunksAssumption
  DEF MayBeAt, Points, Before, AtChunk, Submitting
<1>5. UNCHANGED <<info, tries>> /\ cand' \in [Jobs -> Miners]
  BY DEF Begin, JInv, JobsTyped
<1> QED
  BY <1>3, <1>4, <1>5, GoOn

\* Record: one miner more.
LEMMA Longer ==
    ASSUME JInv, NEW j \in Jobs, Record(j)
    PROVE  /\ info'[j] = Append(info[j], cand[j]) /\ info'[j] \in Seq(Miners)
           /\ Len(info'[j]) = Len(info[j]) + 1
           /\ Len(info[j]) < NChunks
           /\ info' \in [Jobs -> Seq(Miners)]
           /\ \A k \in Jobs : k # j => info'[k] = info[k]
<1>1. info \in [Jobs -> Seq(Miners)] /\ cand[j] \in Miners /\ info[j] \in Seq(Miners)
  BY AtPoint DEF JInv, JobsTyped
<1>2. info' = [info EXCEPT ![j] = Append(info[j], cand[j])]
  BY DEF Record
<1>3. Append(info[j], cand[j]) \in Seq(Miners)
      /\ Len(Append(info[j], cand[j])) = Len(info[j]) + 1
  BY <1>1
<1>4. Len(info[j]) < NChunks
  BY AtPoint DEF Record, MayBeAt, AtChunk
<1> QED
  BY <1>1, <1>2, <1>3, <1>4

LEMMA RecordJobs ==
    ASSUME JInv, NEW j \in Jobs, Record(j)
    PROVE  JInv'
<1>1. pc' = [pc EXCEPT ![j] = IF Len(info'[j]) = NChunks THEN "submit" ELSE "stat"]
  BY DEF Record, Goto
<1>2. UNCHANGED <<cand, tries>> /\ pc[j] = "record"
  BY DEF Record
<1>3. Len(info'[j]) \in Nat /\ Len(info'[j]) <= NChunks
  BY Longer, AtPoint, NChunksAssumption
<1>4. \A k \in Jobs : Len(info'[k]) <= NChunks
  BY <1>3, Longer DEF JInv, JobsTyped
<1>5. JobsTyped'
  BY <1>1, <1>2, <1>4, Longer
  DEF JInv, JobsTyped, Points, Before, AtChunk, Submitting
<1>6. ASSUME NEW k \in Jobs PROVE MayBeAt(k, pc[k])'
  <2>1. CASE k = j
    <3>1. tries'[j] < MaxTry
      BY <1>2, AtPoint DEF MayBeAt
    <3>2. \/ pc'[j] = "submit" /\ Len(info'[j]) = NChunks
          \/ pc'[j] = "stat" /\ Len(info'[j]) # NChunks
      BY <1>1 DEF JInv, JobsTyped
    <3> QED
      BY <2>1, <3>1, <3>2, <1>3, NChunksAssumption
      DEF MayBeAt, Before, AtChunk, Submitting
  <2>2. CASE k # j
    <3>1. pc'[k] = pc[k] /\ MayBeAt(k, pc[k]) /\ info'[k] = info[k]
          /\ tries'[k] = tries[k]
      BY <1>1, <1>2, <2>2, Longer DEF JInv, JobsTyped, Progress
    <3> QED
      BY <3>1 DEF MayBeAt
  <2> QED
    BY <2>1, <2>2
<1> QED
  BY <1>5, <1>6 DEF JInv, Progress

\* SubmitErr: one try more, and the job goes on only if there is another.
LEMMA SubmitErrJobs ==
    ASSUME JInv, NEW j \in Jobs, SubmitErr(j)
    PROVE  JInv'
<1>1. /\ pc[j] = "submit" /\ UNCHANGED <<info, cand>>
      /\ tries' = [tries EXCEPT ![j] = tries[j] + 1]
  BY DEF SubmitErr, NextTry
<1>2. tries[j] \in 0..MaxTry /\ tries[j] < MaxTry /\ Len(info[j]) = NChunks
  BY <1>1, AtPoint DEF MayBeAt, Submitting
<1>3. tries' \in [Jobs -> 0..MaxTry] /\ tries'[j] = tries[j] + 1
  BY <1>1, <1>2, MaxTryAssumption DEF JInv, JobsTyped
<1>4. PICK p \in {"done", "check"} :
          pc' = [pc EXCEPT ![j] = p] /\ (p = "check" => tries'[j] < MaxTry)
  <2>1. CASE tries'[j] >= MaxTry
    <3>1. Goto(j, "done")
      BY <2>1, Zenon DEF SubmitErr, GiveUp
    <3> QED
      BY <3>1 DEF Goto
  <2>2. CASE ~ (tries'[j] >= MaxTry)
    <3>1. Goto(j, "check")
      BY <2>2, Zenon DEF SubmitErr
    <3>2. tries'[j] < MaxTry
      BY <1>2, <1>3, <2>2, MaxTryAssumption
    <3> QED
      BY <3>1, <3>2 DEF Goto
  <2> QED
    BY <2>1, <2>2
<1>5. JobsTyped'
  BY <1>1, <1>3, <1>4 DEF JInv, JobsTyped, Points, Submitting
<1>6. ASSUME NEW k \in Jobs PROVE MayBeAt(k, pc[k])'
  <2>1. CASE k = j
    <3>1. pc'[j] = p
      BY <1>4 DEF JInv, JobsTyped
    <3> QED
      BY <1>1, <1>2, <1>4, <2>1, <3>1 DEF MayBeAt, Before, AtChunk, Submitting
  <2>2. CASE k # j
    <3>1. pc'[k] = pc[k] /\ MayBeAt(k, pc[k]) /\ tries'[k] = tries[k]
      BY <1>1, <1>4, <2>2 DEF JInv, JobsTyped, Progress
    <3> QED
      BY <1>1, <3>1 DEF MayBeAt
  <2> QED
    BY <2>1, <2>2
<1> QED
  BY <1>5, <1>6 DEF JInv, Progress

LEMMA RestartJobs ==
    ASSUME JInv, Restart
    PROVE  JInv'
<1>1. /\ pc' = [j \in Jobs |-> IF pc[j] \in Ended THEN pc[j] ELSE "dead"]
      /\ UNCHANGED <<info, cand, tries>>
  BY DEF Restart
<1>2. JobsTyped'
  BY <1>1 DEF JInv, JobsTyped, Points
<1>3. ASSUME NEW k \in Jobs PROVE MayBeAt(k, pc[k])'
  BY <1>1, AtPoint DEF MayBeAt, Before, AtChunk, Submitting
<1> QED
  BY <1>2, <1>3 DEF JInv, Progress

\* The steps of the surroundings.
Around == OtherLock \/ OtherUnlock \/ Land

\* The steps of Next, grouped by what they do to a job.
LEMMA Steps ==
    ASSUME Next
    PROVE  \/ \E j \in Jobs : Quiet(j) \/ Begin(j) \/ Record(j) \/ SubmitErr(j)
           \/ Around \/ Restart
BY Zenon DEF Next, Lock, Call, JobStep, Quiet, Around

\* The chain, what is on its way to it and what is believed of it change with the
\* submissions and with what they left in the pool.
LEMMA LedgerSteps ==
    ASSUME [Next]_vars
    PROVE  \/ UNCHANGED ledger
           \/ Land
           \/ \E j \in Jobs : SubmitOk(j) \/ SubmitErr(j) \/ SubmitPanic(j)
<1>1. ASSUME NEW j \in Jobs,
             MsgHead(j) \/ MsgEnd(j) \/ Stat(j) \/ TagLock(j) \/ SendLock(j)
                 \/ TagOpen(j) \/ TagWrite(j)
      PROVE  UNCHANGED ledger
  BY <1>1 DEF MsgHead, MsgEnd, Stat, TagLock, SendLock, TagOpen, TagWrite
<1>2. ASSUME NEW j \in Jobs,
             Pick(j) \/ Dial(j) \/ SendFile(j) \/ SendPanic(j) \/ Check(j)
                 \/ Finish(j) \/ Begin(j) \/ Record(j)
      PROVE  UNCHANGED ledger
  BY <1>2 DEF Pick, Dial, SendFile, SendPanic, Check, Finish, Begin, Record
<1>3. ASSUME OtherLock \/ OtherUnlock \/ Restart \/ UNCHANGED vars
      PROVE  UNCHANGED ledger
  BY <1>3 DEF OtherLock, OtherUnlock, Restart, vars, ledger
<1> QED
  BY <1>1, <1>2, <1>3, Steps, Zenon DEF Quiet, Around

LEMMA JInvInit == Init => JInv
<1> SUFFICES ASSUME Init PROVE JInv
  OBVIOUS
<1>1. <<>> \in Seq(Miners) /\ Len(<<>>) = 0
  OBVIOUS
<1>2. JobsTyped
  BY <1>1, MaxTryAssumption, NChunksAssumption
  DEF Init, JobsTyped, Points, Before
<1>3. ASSUME NEW j \in Jobs PROVE MayBeAt(j, pc[j])
  BY <1>1, MaxTryAssumption
  DEF Init, MayBeAt, Before, AtChunk, Submitting
<1> QED
  BY <1>2, <1>3 DEF JInv, Progress

LEMMA JInvStep == JInv /\ [Next]_vars => JInv'
<1> SUFFICES ASSUME JInv, [Next]_vars PROVE JInv'
  OBVIOUS
<1>1. CASE Around \/ UNCHANGED vars
  <2>1. UNCHANGED jobs
    BY <1>1 DEF Around, OtherLock, OtherUnlock, Land, vars, jobs
  <2> QED
    BY <2>1 DEF jobs, JInv, JobsTyped, Progress, MayBeAt
<1> QED
  BY <1>1, Steps, QuietJobs, BeginJobs, RecordJobs, SubmitErrJobs, RestartJobs

-----------------------------------------------------------------------------
(* What the jobs share.                                                    *)

LEMMA SharedInit == Init => SharedTyped
<1> SUFFICES ASSUME Init PROVE SharedTyped
  OBVIOUS
<1>1. <<>> \in Seq(Miners)
  OBVIOUS
<1>2. cache \in Records
  BY <1>1 DEF Init, Records
<1> QED
  BY <1>1, <1>2 DEF Init, SharedTyped, LedgerTyped

LEMMA HeldStep ==
    ASSUME JInv, SharedTyped, NEW j \in Jobs, SendFile(j) \/ SendPanic(j)
    PROVE  held' \in [Miners -> SUBSET Chunks]
<1>1. Len(info[j]) < NChunks /\ Len(info[j]) \in Nat /\ cand[j] \in Miners
  BY AtPoint DEF SendFile, SendPanic, MayBeAt, AtChunk
<1>2. Chunk(j) \in Chunks
  BY <1>1, NChunksAssumption DEF Chunk, Chunks
<1>3. UNCHANGED held \/ held' = [held EXCEPT ![cand[j]] = held[cand[j]] \cup {Chunk(j)}]
  BY DEF SendFile, SendPanic, Received
<1> QED
  BY <1>1, <1>2, <1>3 DEF SharedTyped

LEMMA LedgerStep ==
    ASSUME JInv, LedgerTyped,
           Land \/ \E j \in Jobs : SubmitOk(j) \/ SubmitErr(j) \/ SubmitPanic(j)
    PROVE  LedgerTyped'
<1>1. CASE Land
  BY <1>1 DEF Land, Execute, LedgerTyped
<1>2. ASSUME NEW j \in Jobs, SubmitOk(j) PROVE LedgerTyped'
  BY <1>2, AtPoint DEF SubmitOk, Execute, LedgerTyped
<1>3. ASSUME NEW j \in Jobs, SubmitErr(j) PROVE LedgerTyped'
  BY <1>3, AtPoint DEF SubmitErr, Execute, ledger, LedgerTyped
<1>4. ASSUME NEW j \in Jobs, SubmitPanic(j) PROVE LedgerTyped'
  BY <1>4, AtPoint DEF SubmitPanic, LedgerTyped
<1> QED
  BY <1>1, <1>2, <1>3, <1>4

LEMMA SharedStep == JInv /\ SharedTyped /\ [Next]_vars => SharedTyped'
<1> SUFFICES ASSUME JInv, SharedTyped, [Next]_vars PROVE SharedTyped'
  OBVIOUS
<1> USE DEF SharedTyped
<1>1. ASSUME NEW j \in Jobs,
             MsgHead(j) \/ MsgEnd(j) \/ Stat(j) \/ Pick(j) \/ Check(j)
      PROVE  SharedTyped'
  BY <1>1 DEF MsgHead, MsgEnd, Stat, Pick, Check, ledger, LedgerTyped
<1>2. ASSUME NEW j \in Jobs, TagLock(j) \/ SendLock(j) \/ Dial(j)
      PROVE  SharedTyped'
  BY <1>2 DEF TagLock, SendLock, Dial, ledger, LedgerTyped
<1>3. ASSUME NEW j \in Jobs, TagOpen(j) \/ TagWrite(j) PROVE SharedTyped'
  <2>1. tagFile' \in [Chunks -> {"none", "partial", "full"}]
    BY <1>3 DEF TagOpen, TagWrite
  <2>2. workLock' \in Jobs \cup {NoJob, Other, Lost}
    BY <1>3 DEF TagOpen, TagWrite
  <2> QED
    BY <1>3, <2>1, <2>2 DEF TagOpen, TagWrite, ledger, LedgerTyped
<1>4. ASSUME NEW j \in Jobs, SendFile(j) \/ SendPanic(j) PROVE SharedTyped'
  BY <1>4, HeldStep DEF SendFile, SendPanic, ledger, LedgerTyped
<1>5. ASSUME NEW j \in Jobs, Begin(j) PROVE SharedTyped'
  <2>1. cache' \in Records
    <3>1. <<>> \in Seq(Miners) /\ (NChunks > 0) \in BOOLEAN
      OBVIOUS
    <3> QED
      BY <1>5, <3>1, PutTyped DEF Begin
  <2> QED
    BY <1>5, <2>1 DEF Begin, ledger, LedgerTyped
<1>6. ASSUME NEW j \in Jobs, Record(j) PROVE SharedTyped'
  <2>1. cache' \in Records
    BY <1>6, Longer, PutTyped DEF Record
  <2> QED
    BY <1>6, <2>1 DEF Record, ledger, LedgerTyped
<1>7. ASSUME NEW j \in Jobs, Finish(j) PROVE SharedTyped'
  <2>1. cache' \in Records
    BY <1>7, AtPoint, PutTyped DEF Finish
  <2> QED
    BY <1>7, <2>1 DEF Finish, ledger, LedgerTyped
<1>8. ASSUME NEW j \in Jobs, SubmitErr(j) PROVE SharedTyped'
  <2>1. cache' \in Records
    <3>1. \/ UNCHANGED cache
          \/ Put("Failed", info[j], TRUE)
      BY <1>8 DEF SubmitErr, GiveUp
    <3> QED
      BY <3>1, AtPoint, PutTyped
  <2>2. UNCHANGED <<workLock, tagFile, held>>
    BY <1>8 DEF SubmitErr
  <2> QED
    BY <1>8, <2>1, <2>2, LedgerStep
<1>9. ASSUME NEW j \in Jobs, SubmitOk(j) \/ SubmitPanic(j) PROVE SharedTyped'
  <2>1. UNCHANGED <<workLock, tagFile, cache, held>>
    BY <1>9 DEF SubmitOk, SubmitPanic
  <2> QED
    BY <1>9, <2>1, LedgerStep
<1>10. CASE OtherLock \/ OtherUnlock
  BY <1>10 DEF OtherLock, OtherUnlock, ledger, LedgerTyped
<1>11. CASE Land
  <2>1. UNCHANGED <<workLock, tagFile, cache, held>>
    BY <1>11 DEF Land
  <2> QED
    BY <1>11, <2>1, LedgerStep
<1>12. CASE Restart
  BY <1>12 DEF Restart, ledger, LedgerTyped
<1>13. CASE UNCHANGED vars
  BY <1>13 DEF vars, LedgerTyped
<1> QED
  BY <1>1, <1>2, <1>3, <1>4, <1>5, <1>6, <1>7, <1>8, <1>9, <1>10, <1>11, <1>12,
     <1>13 DEF Next, Lock, Call, JobStep

Inv == JInv /\ SharedTyped

LEMMA InvInit == Init => Inv
BY JInvInit, SharedInit DEF Inv

LEMMA InvStep == Inv /\ [Next]_vars => Inv'
BY JInvStep, SharedStep DEF Inv

\* Every variable keeps its type; no job has more miners than chunks, or tries
\* more often than it may.
THEOREM TypeCorrect == Spec => []TypeOK
<1>1. Inv => TypeOK
  BY TypeParts DEF Inv, JInv
<1> QED
  BY <1>1, InvInit, InvStep, PTL DEF Spec

-----------------------------------------------------------------------------
(* What is recorded is held.                                               *)

Holds(h, list) == \A c \in 1..Len(list) : c \in h[list[c]]

\* What a list says stays true as the miners receive more.
LEMMA StillHeld ==
    ASSUME NEW g, NEW h, \A m \in Miners : g[m] \subseteq h[m],
           NEW list \in Seq(Miners), Holds(g, list)
    PROVE  Holds(h, list)
BY DEF Holds

\* Nothing takes a chunk from a miner.
LEMMA HeldGrows ==
    ASSUME Inv, [Next]_vars
    PROVE  \A m \in Miners : held[m] \subseteq held'[m]
<1>1. UNCHANGED held
      \/ \E j \in Jobs : cand[j] \in Miners /\ Received(j)
  <2>1. ASSUME NEW j \in Jobs, SendFile(j) \/ SendPanic(j)
        PROVE  UNCHANGED held \/ (cand[j] \in Miners /\ Received(j))
    BY <2>1, AtPoint DEF Inv, SendFile, SendPanic
  <2>2. ASSUME NEW j \in Jobs,
               MsgHead(j) \/ MsgEnd(j) \/ Stat(j) \/ TagLock(j) \/ SendLock(j)
                   \/ TagOpen(j) \/ TagWrite(j)
        PROVE  UNCHANGED held
    BY <2>2 DEF MsgHead, MsgEnd, Stat, TagLock, SendLock, TagOpen, TagWrite
  <2>3. ASSUME NEW j \in Jobs,
               Pick(j) \/ Dial(j) \/ SubmitOk(j) \/ SubmitPanic(j) \/ Check(j)
                   \/ Finish(j)
        PROVE  UNCHANGED held
    BY <2>3 DEF Pick, Dial, SubmitOk, SubmitPanic, Check, Finish
  <2>4. ASSUME NEW j \in Jobs, Begin(j) \/ Record(j) \/ SubmitErr(j)
        PROVE  UNCHANGED held
    BY <2>4 DEF Begin, Record, SubmitErr
  <2>5. ASSUME Around \/ Restart \/ UNCHANGED vars PROVE UNCHANGED held
    BY <2>5 DEF Around, OtherLock, OtherUnlock, Land, Restart, vars
  <2> QED
    BY <2>1, <2>2, <2>3, <2>4, <2>5, Steps, Zenon DEF Quiet
<1>2. held \in [Miners -> SUBSET Chunks]
  BY DEF Inv, SharedTyped
<1> QED
  BY <1>1, <1>2 DEF Received

(***************************************************************************)
(* The miners of the chunks a job has done have them, the one it is about  *)
(* to record too; RecordedHeld then holds of what is derived from them.    *)
(***************************************************************************)
InfoHeld ==
    \A j \in Jobs :
        /\ HeldBy(info[j])
        /\ pc[j] = "record" => Chunk(j) \in held[cand[j]]

RInv == Inv /\ InfoHeld /\ RecordedHeld

LEMMA RInvInit == Init => RInv
<1> SUFFICES ASSUME Init PROVE RInv
  OBVIOUS
<1>1. Len(<<>>) = 0
  OBVIOUS
<1> QED
  BY <1>1, InvInit DEF Init, RInv, InfoHeld, RecordedHeld, HeldBy

\* A list that was held, and has not changed, is held after the step.
LEMMA Kept ==
    ASSUME Inv, [Next]_vars, NEW list \in Seq(Miners), Holds(held, list)
    PROVE  Holds(held', list)
BY HeldGrows, StillHeld

\* The miner of a chunk sent has it; no other step leads to the record.
LEMMA RecordArrives ==
    ASSUME Inv, [Next]_vars, NEW k \in Jobs, pc'[k] = "record", pc[k] # "record"
    PROVE  k \in Jobs /\ SendFile(k) /\ Received(k)
<1>1. pc \in [Jobs -> Points]
  BY DEF Inv, JInv, JobsTyped
<1>2. PICK j \in Jobs : Quiet(j) \/ Begin(j) \/ Record(j) \/ SubmitErr(j)
  <2>1. ~ (Around \/ UNCHANGED vars)
    BY DEF Around, OtherLock, OtherUnlock, Land, jobs, vars
  <2>2. ~ Restart
    BY DEF Restart
  <2> QED
    BY <2>1, <2>2, Steps
<1>3. ASSUME NEW p, Goto(j, p) PROVE j = k /\ p = "record"
  BY <1>1, <1>3 DEF Goto
<1>4. ~ (MsgHead(j) \/ MsgEnd(j) \/ Stat(j) \/ TagLock(j) \/ SendLock(j))
  BY <1>3 DEF MsgHead, MsgEnd, Stat, TagLock, SendLock
<1>5. ~ (TagOpen(j) \/ TagWrite(j) \/ Pick(j) \/ Dial(j))
  BY <1>3 DEF TagOpen, TagWrite, Pick, Dial
<1>6. ~ (SubmitOk(j) \/ SubmitPanic(j) \/ Check(j) \/ Finish(j) \/ SendPanic(j))
  <2>1. ASSUME SubmitOk(j) \/ SubmitPanic(j) \/ Check(j) \/ Finish(j)
                   \/ SendPanic(j)
        PROVE  \E p \in {"finish", "dead", "submit", "done", "stat"} : Goto(j, p)
    BY <2>1 DEF SubmitOk, SubmitPanic, Check, Finish, SendPanic
  <2> QED
    BY <1>3, <2>1
<1>7. ~ (Begin(j) \/ Record(j))
  <2>1. ASSUME Begin(j) \/ Record(j)
        PROVE  \E p \in {"done", "stat", "submit"} : Goto(j, p)
    BY <2>1 DEF Begin, Record
  <2> QED
    BY <1>3, <2>1
<1>8. ~ SubmitErr(j)
  <2>1. ASSUME SubmitErr(j) PROVE Goto(j, "done") \/ Goto(j, "check")
    BY <2>1, Zenon DEF SubmitErr, GiveUp
  <2> QED
    BY <1>3, <2>1
<1>9. SendFile(j)
  BY <1>2, <1>4, <1>5, <1>6, <1>7, <1>8, Zenon DEF Quiet
<1>10. j = k /\ Received(j)
  BY <1>3, <1>9 DEF SendFile
<1> QED
  BY <1>9, <1>10

\* A job's list grows by Record only.
LEMMA InfoChanges ==
    ASSUME Inv, [Next]_vars, NEW k \in Jobs
    PROVE  info'[k] = info[k] \/ Record(k)
<1>1. ASSUME NEW j \in Jobs, Record(j) PROVE info'[k] = info[k] \/ k = j
  BY <1>1, Longer DEF Inv
<1>2. ASSUME NEW j \in Jobs,
             MsgHead(j) \/ MsgEnd(j) \/ Stat(j) \/ TagLock(j) \/ SendLock(j)
                 \/ TagOpen(j) \/ TagWrite(j)
      PROVE  UNCHANGED info
  BY <1>2 DEF MsgHead, MsgEnd, Stat, TagLock, SendLock, TagOpen, TagWrite
<1>3. ASSUME NEW j \in Jobs,
             Pick(j) \/ Dial(j) \/ SendFile(j) \/ SendPanic(j) \/ SubmitOk(j)
                 \/ SubmitPanic(j) \/ Check(j) \/ Finish(j)
      PROVE  UNCHANGED info
  BY <1>3 DEF Pick, Dial, SendFile, SendPanic, SubmitOk, SubmitPanic, Check, Finish
<1>4. ASSUME NEW j \in Jobs, Begin(j) \/ SubmitErr(j) PROVE UNCHANGED info
  BY <1>4 DEF Begin, SubmitErr
<1>5. ASSUME Around \/ Restart \/ UNCHANGED vars PROVE UNCHANGED info
  BY <1>5 DEF Around, OtherLock, OtherUnlock, Land, Restart, jobs, vars
<1>6. UNCHANGED info \/ \E j \in Jobs : Record(j)
  BY <1>2, <1>3, <1>4, <1>5, Steps, Zenon DEF Quiet
<1> QED
  BY <1>1, <1>6

\* While a job is about to record a chunk, its miner stays.
LEMMA CandStays ==
    ASSUME Inv, [Next]_vars, NEW k \in Jobs, pc[k] = "record"
    PROVE  cand'[k] = cand[k]
<1>1. ASSUME NEW j \in Jobs, Pick(j) PROVE j # k
  BY <1>1 DEF Pick
<1>2. ASSUME NEW j \in Jobs, Pick(j) PROVE cand'[k] = cand[k]
  BY <1>1, <1>2 DEF Pick, Inv, JInv, JobsTyped
<1>3. ASSUME NEW j \in Jobs,
             MsgHead(j) \/ MsgEnd(j) \/ Stat(j) \/ TagLock(j) \/ SendLock(j)
                 \/ TagOpen(j) \/ TagWrite(j) \/ Dial(j)
      PROVE  UNCHANGED cand
  BY <1>3 DEF MsgHead, MsgEnd, Stat, TagLock, SendLock, TagOpen, TagWrite, Dial
<1>4. ASSUME NEW j \in Jobs,
             SendFile(j) \/ SendPanic(j) \/ SubmitOk(j)
                 \/ SubmitPanic(j) \/ Check(j) \/ Finish(j)
      PROVE  UNCHANGED cand
  BY <1>4 DEF SendFile, SendPanic, SubmitOk, SubmitPanic, Check, Finish
<1>5. ASSUME NEW j \in Jobs, Begin(j) \/ SubmitErr(j) \/ Record(j)
      PROVE  UNCHANGED cand
  BY <1>5 DEF Begin, SubmitErr, Record
<1>6. ASSUME Around \/ Restart \/ UNCHANGED vars PROVE UNCHANGED cand
  BY <1>6 DEF Around, OtherLock, OtherUnlock, Land, Restart, jobs, vars
<1>7. UNCHANGED cand \/ \E j \in Jobs : Pick(j)
  BY <1>3, <1>4, <1>5, <1>6, Steps, Zenon DEF Quiet
<1> QED
  BY <1>2, <1>7

LEMMA InfoHeldStep == RInv /\ [Next]_vars => InfoHeld'
<1> SUFFICES ASSUME RInv, [Next]_vars, NEW k \in Jobs
             PROVE  /\ HeldBy(info[k])'
                    /\ (pc[k] = "record" => Chunk(k) \in held[cand[k]])'
  BY DEF InfoHeld
<1>1. Inv /\ InfoHeld /\ JInv
  BY DEF RInv, Inv
<1>2. info[k] \in Seq(Miners) /\ Len(info[k]) \in Nat /\ cand[k] \in Miners
      /\ Holds(held, info[k])
  BY <1>1, AtPoint DEF InfoHeld, HeldBy, Holds
<1>3. Holds(held', info[k])
  BY <1>1, <1>2, Kept
<1>4. HeldBy(info[k])'
  <2>1. CASE info'[k] = info[k]
    BY <1>3, <2>1 DEF HeldBy, Holds
  <2>2. CASE Record(k)
    <3>1. info'[k] = Append(info[k], cand[k]) /\ Len(info'[k]) = Len(info[k]) + 1
      BY <1>1, <2>2, Longer
    <3>2. Chunk(k) \in held[cand[k]] /\ UNCHANGED held /\ Chunk(k) = Len(info[k]) + 1
      BY <1>1, <2>2 DEF Record, InfoHeld, Chunk
    <3>3. ASSUME NEW c \in 1..Len(info'[k]) PROVE c \in held'[info'[k][c]]
      <4>1. CASE c = Len(info[k]) + 1
        BY <1>2, <3>1, <3>2, <4>1
      <4>2. CASE c # Len(info[k]) + 1
        <5>1. c \in 1..Len(info[k]) /\ info'[k][c] = info[k][c]
          BY <1>2, <3>1, <4>2
        <5> QED
          BY <1>3, <5>1 DEF Holds
      <4> QED
        BY <4>1, <4>2
    <3> QED
      BY <3>3 DEF HeldBy
  <2> QED
    BY <1>1, <2>1, <2>2, InfoChanges
<1>5. ASSUME pc'[k] = "record" PROVE Chunk(k)' \in held'[cand'[k]]
  <2>1. CASE pc[k] # "record"
    <3>1. SendFile(k) /\ Received(k)
      BY <1>1, <1>5, <2>1, RecordArrives
    <3>2. Chunk(k)' = Chunk(k) /\ cand' = cand
      BY <3>1 DEF SendFile, Chunk
    <3> QED
      BY <1>1, <1>2, <3>1, <3>2 DEF Received, Inv, SharedTyped
  <2>2. CASE pc[k] = "record"
    <3>1. ~ Record(k)
      <4>1. ASSUME Record(k) PROVE pc'[k] \in {"submit", "stat"}
        BY <1>1, <4>1 DEF Record, Goto, JInv, JobsTyped
      <4> QED
        BY <1>5, <4>1
    <3>2. Chunk(k)' = Chunk(k) /\ cand'[k] = cand[k]
      BY <1>1, <2>2, <3>1, InfoChanges, CandStays DEF Chunk
    <3>3. Chunk(k) \in held[cand[k]] /\ held[cand[k]] \subseteq held'[cand[k]]
      BY <1>1, <1>2, <2>2, HeldGrows DEF InfoHeld
    <3> QED
      BY <3>2, <3>3
  <2> QED
    BY <2>1, <2>2
<1> QED
  BY <1>4, <1>5

LEMMA RecordedHeldStep == RInv /\ [Next]_vars => RecordedHeld'
<1> SUFFICES ASSUME RInv, [Next]_vars PROVE RecordedHeld'
  OBVIOUS
<1>1. Inv /\ JInv /\ InfoHeld /\ RecordedHeld /\ InfoHeld'
  BY InfoHeldStep DEF RInv, Inv
<1>2. SharedTyped /\ LedgerTyped /\ cache.miners \in Seq(Miners)
  BY <1>1 DEF Inv, SharedTyped, Records
<1>3. ASSUME NEW list \in Seq(Miners), Holds(held, list) PROVE Holds(held', list)
  BY <1>1, <1>3, Kept
<1>4. HeldBy(cache.miners)'
  <2>1. \/ UNCHANGED cache
        \/ cache'.miners = <<>>
        \/ \E j \in Jobs : cache'.miners = info'[j]
    <3>1. ASSUME NEW j \in Jobs,
                 MsgHead(j) \/ MsgEnd(j) \/ Stat(j) \/ TagLock(j) \/ SendLock(j)
                     \/ TagOpen(j) \/ TagWrite(j)
          PROVE  UNCHANGED cache
      BY <3>1 DEF MsgHead, MsgEnd, Stat, TagLock, SendLock, TagOpen, TagWrite
    <3>2. ASSUME NEW j \in Jobs,
                 Pick(j) \/ Dial(j) \/ SendFile(j) \/ SendPanic(j) \/ SubmitOk(j)
                     \/ SubmitPanic(j) \/ Check(j)
          PROVE  UNCHANGED cache
      BY <3>2 DEF Pick, Dial, SendFile, SendPanic, SubmitOk, SubmitPanic, Check
    <3>3. ASSUME NEW j \in Jobs, Begin(j) PROVE cache'.miners = <<>>
      BY <3>3 DEF Begin, Put
    <3>4. ASSUME NEW j \in Jobs, Record(j) \/ Finish(j) PROVE cache'.miners = info'[j]
      BY <3>4 DEF Record, Finish, Put
    <3>5. ASSUME NEW j \in Jobs, SubmitErr(j)
          PROVE  UNCHANGED cache \/ cache'.miners = info'[j]
      BY <3>5 DEF SubmitErr, GiveUp, Put
    <3>6. ASSUME Around \/ Restart \/ UNCHANGED vars PROVE UNCHANGED cache
      BY <3>6 DEF Around, OtherLock, OtherUnlock, Land, Restart, vars
    <3> QED
      BY <3>1, <3>2, <3>3, <3>4, <3>5, <3>6, Steps, Zenon DEF Quiet
  <2>2. CASE UNCHANGED cache
    <3>1. Holds(held', cache.miners)
      BY <1>1, <1>2, <1>3 DEF RecordedHeld, HeldBy, Holds
    <3> QED
      BY <2>2, <3>1 DEF HeldBy, Holds
  <2>3. CASE cache'.miners = <<>>
    BY <2>3 DEF HeldBy
  <2>4. CASE \E j \in Jobs : cache'.miners = info'[j]
    BY <1>1, <2>4 DEF InfoHeld, HeldBy
  <2> QED
    BY <2>1, <2>2, <2>3, <2>4
\* What is on its way to the chain, or recorded by it, is a job's full list or
\* was there before.
<1>5. ASSUME NEW j \in Jobs, pc[j] = "submit"
      PROVE  info[j] \in Seq(Miners) /\ Holds(held', info[j]) /\ Len(info[j]) = NChunks
  <2>1. info[j] \in Seq(Miners) /\ Len(info[j]) = NChunks
    BY <1>1, <1>5, AtPoint DEF MayBeAt, Submitting
  <2> QED
    BY <1>1, <1>3, <2>1 DEF InfoHeld, HeldBy, Holds
<1>6. \A meta \in pending : Holds(held', meta) /\ Len(meta) = NChunks
  BY <1>1, <1>2, <1>3 DEF RecordedHeld, HeldBy, Holds, LedgerTyped
<1>7. chainState = "active" => Holds(held', chainMeta) /\ Len(chainMeta) = NChunks
  BY <1>1, <1>2, <1>3 DEF RecordedHeld, HeldBy, Holds, LedgerTyped
<1>8. /\ \A meta \in pending' : Holds(held', meta) /\ Len(meta) = NChunks
      /\ chainState' = "active" => Holds(held', chainMeta') /\ Len(chainMeta') = NChunks
  <2>1. ASSUME UNCHANGED ledger PROVE <1>8!:
    BY <1>6, <1>7, <2>1 DEF ledger
  <2>2. ASSUME NEW j \in Jobs, SubmitOk(j) \/ SubmitErr(j) \/ SubmitPanic(j)
        PROVE  <1>8!:
    <3>1. \/ UNCHANGED ledger
          \/ /\ pc[j] = "submit"
             /\ pending' \subseteq pending \cup {info[j]}
             /\ \/ Execute(info[j])
                \/ UNCHANGED <<chainState, chainMeta>>
      BY <2>2 DEF SubmitOk, SubmitErr, SubmitPanic, ledger
    <3> QED
      BY <1>5, <1>6, <1>7, <2>1, <3>1 DEF Execute
  <2>3. ASSUME Land PROVE <1>8!:
    BY <1>6, <1>7, <2>3 DEF Land, Execute
  <2> QED
    BY <2>1, <2>2, <2>3, LedgerSteps
<1> QED
  BY <1>4, <1>8 DEF RecordedHeld, HeldBy, Holds

LEMMA RInvStep == RInv /\ [Next]_vars => RInv'
BY InvStep, InfoHeldStep, RecordedHeldStep DEF RInv

\* What the chain, an extrinsic or the record says of a chunk is true, whatever
\* transfer failed, was repeated or was abandoned before.
THEOREM RecordCorrect == Spec => []RecordedHeld
<1>1. RInv => RecordedHeld
  BY DEF RInv
<1> QED
  BY <1>1, RInvInit, RInvStep, PTL DEF Spec

-----------------------------------------------------------------------------
(* Active means active.                                                    *)

\* A job that is about to record the file as active knows it from the chain, or
\* was misled.
KnowsActive ==
    \A j \in Jobs : pc[j] = "finish" => chainState = "active" \/ j \in misled

\* A job that was misled has its list complete and adds nothing to it.
Over == {"finish", "done", "dead"}
MisledOver == \A j \in misled : pc[j] \in Over

AInv == Inv /\ MisledOver /\ KnowsActive /\ ActiveIsTrue

\* The chain never takes the state back.
LEMMA StaysActive ==
    ASSUME [Next]_vars, chainState = "active"
    PROVE  chainState' = "active"
<1>1. ASSUME NEW j \in Jobs, SubmitOk(j) \/ SubmitErr(j) \/ SubmitPanic(j)
      PROVE  UNCHANGED chainState \/ chainState' = "active"
  BY <1>1 DEF SubmitOk, SubmitErr, SubmitPanic, Execute, ledger
<1>2. ASSUME Land PROVE UNCHANGED chainState \/ chainState' = "active"
  BY <1>2 DEF Land, Execute
<1> QED
  BY <1>1, <1>2, LedgerSteps DEF ledger

\* Who was misled is not forgotten, and it is the answer that misleads.
LEMMA MisledSteps ==
    ASSUME [Next]_vars
    PROVE  \/ UNCHANGED misled
           \/ \E j \in Jobs : SubmitOk(j) /\ misled' = misled \cup {j}
<1>1. ASSUME NEW j \in Jobs, SubmitErr(j) \/ SubmitPanic(j)
      PROVE  UNCHANGED misled
  BY <1>1 DEF SubmitErr, SubmitPanic, ledger
<1>2. ASSUME NEW j \in Jobs, SubmitOk(j)
      PROVE  UNCHANGED misled \/ misled' = misled \cup {j}
  BY <1>2 DEF SubmitOk
<1>3. ASSUME Land PROVE UNCHANGED misled
  BY <1>3 DEF Land
<1> QED
  BY <1>1, <1>2, <1>3, LedgerSteps DEF ledger

\* A job at its end stays there.
LEMMA OverStays ==
    ASSUME Inv, [Next]_vars, NEW k \in Jobs, pc[k] \in Over
    PROVE  pc'[k] \in Over
<1>1. pc \in [Jobs -> Points]
  BY DEF Inv, JInv, JobsTyped
<1>2. ASSUME NEW j \in Jobs, NEW p, Goto(j, p), j # k PROVE pc'[k] = pc[k]
  BY <1>1, <1>2 DEF Goto
<1>3. ASSUME NEW j \in Jobs, pc[j] \notin Over, NEW p, Goto(j, p)
      PROVE  pc'[k] = pc[k]
  BY <1>2, <1>3
<1>4. ASSUME NEW j \in Jobs,
             MsgHead(j) \/ MsgEnd(j) \/ Stat(j) \/ TagLock(j) \/ SendLock(j)
                 \/ TagOpen(j) \/ TagWrite(j)
      PROVE  pc[j] \notin Over /\ \E p \in Points : Goto(j, p)
  BY <1>4 DEF MsgHead, MsgEnd, Stat, TagLock, SendLock, TagOpen, TagWrite, Over,
              Points, Before, AtChunk
<1>5. ASSUME NEW j \in Jobs,
             Pick(j) \/ Dial(j) \/ SendFile(j) \/ SendPanic(j) \/ SubmitOk(j)
                 \/ SubmitPanic(j) \/ Check(j)
      PROVE  pc[j] \notin Over /\ \E p \in Points : Goto(j, p)
  BY <1>5 DEF Pick, Dial, SendFile, SendPanic, SubmitOk, SubmitPanic, Check, Over,
              Points, AtChunk, Submitting
<1>6. ASSUME NEW j \in Jobs, Begin(j) \/ Record(j)
      PROVE  pc[j] \notin Over /\ \E p \in Points : Goto(j, p)
  BY <1>6 DEF Begin, Record, Over, Points, AtChunk, Submitting
<1>7. ASSUME NEW j \in Jobs, SubmitErr(j)
      PROVE  pc[j] \notin Over /\ \E p \in Points : Goto(j, p)
  <2>1. pc[j] = "submit" /\ (Goto(j, "done") \/ Goto(j, "check"))
    BY <1>7, Zenon DEF SubmitErr, GiveUp
  <2> QED
    BY <2>1 DEF Over, Points, Submitting
<1>8. ASSUME NEW j \in Jobs, Finish(j) PROVE pc'[k] \in Over
  BY <1>1, <1>8 DEF Finish, Goto, Over
<1>9. ASSUME Around \/ Restart \/ UNCHANGED vars PROVE pc'[k] \in Over
  BY <1>1, <1>9 DEF Around, OtherLock, OtherUnlock, Land, Restart, jobs, vars, Over
<1> QED
  BY <1>3, <1>4, <1>5, <1>6, <1>7, <1>8, <1>9, Steps, Zenon DEF Quiet

\* The list of a job that was misled stays as it is.
LEMMA MisledKeeps ==
    ASSUME Inv, MisledOver, [Next]_vars
    PROVE  \A j \in misled : j \in Jobs /\ info'[j] = info[j]
<1> SUFFICES ASSUME NEW j \in misled PROVE j \in Jobs /\ info'[j] = info[j]
  OBVIOUS
<1>1. j \in Jobs
  BY DEF Inv, SharedTyped, LedgerTyped
<1>2. ~ Record(j)
  BY DEF Record, MisledOver, Over
<1> QED
  BY <1>1, <1>2, InfoChanges

\* A job reaches the end of the submission when the chain has the file active, or
\* misled.
LEMMA FinishArrives ==
    ASSUME Inv, [Next]_vars, NEW k \in Jobs, pc'[k] = "finish", pc[k] # "finish"
    PROVE  chainState' = "active" \/ k \in misled'
<1>1. pc \in [Jobs -> Points]
  BY DEF Inv, JInv, JobsTyped
<1>2. PICK j \in Jobs : Quiet(j) \/ Begin(j) \/ Record(j) \/ SubmitErr(j)
  <2>1. ~ (Around \/ UNCHANGED vars)
    BY DEF Around, OtherLock, OtherUnlock, Land, jobs, vars
  <2>2. ~ Restart
    BY DEF Restart
  <2> QED
    BY <2>1, <2>2, Steps
<1>3. ASSUME NEW p, Goto(j, p) PROVE j = k /\ p = "finish"
  BY <1>1, <1>3 DEF Goto
<1>4. ASSUME NEW p \in Before \cup AtChunk \cup {"submit", "check", "done", "dead"},
             Goto(j, p)
      PROVE  FALSE
  BY <1>3, <1>4 DEF Before, AtChunk
<1>5. ~ (MsgHead(j) \/ MsgEnd(j) \/ Stat(j) \/ TagLock(j) \/ SendLock(j))
  BY <1>4 DEF MsgHead, MsgEnd, Stat, TagLock, SendLock, Before, AtChunk
<1>6. ~ (TagOpen(j) \/ TagWrite(j) \/ Pick(j) \/ Dial(j))
  BY <1>4 DEF TagOpen, TagWrite, Pick, Dial, AtChunk
<1>7. ~ (SubmitPanic(j) \/ Finish(j) \/ SendPanic(j) \/ SendFile(j))
  BY <1>4 DEF SubmitPanic, Finish, SendPanic, SendFile, AtChunk
<1>8. ~ (Begin(j) \/ Record(j))
  <2>1. ASSUME Begin(j) \/ Record(j)
        PROVE  \E p \in {"done", "stat", "submit"} : Goto(j, p)
    BY <2>1 DEF Begin, Record
  <2> QED
    BY <1>4, <2>1 DEF AtChunk
<1>9. ~ SubmitErr(j)
  <2>1. ASSUME SubmitErr(j) PROVE Goto(j, "done") \/ Goto(j, "check")
    BY <2>1, Zenon DEF SubmitErr, GiveUp
  <2> QED
    BY <1>4, <2>1
<1>10. SubmitOk(j) \/ Check(j)
  BY <1>2, <1>5, <1>6, <1>7, <1>8, <1>9, Zenon DEF Quiet
<1>11. CASE SubmitOk(j)
  BY <1>3, <1>11 DEF SubmitOk, Execute
<1>12. CASE Check(j)
  BY <1>4, <1>12 DEF Check, ledger
<1> QED
  BY <1>10, <1>11, <1>12

LEMMA AInvInit == Init => AInv
BY InvInit DEF Init, AInv, MisledOver, KnowsActive, ActiveIsTrue

LEMMA AInvStep == AInv /\ [Next]_vars => AInv'
<1> SUFFICES ASSUME AInv, [Next]_vars PROVE AInv'
  OBVIOUS
<1>1. Inv /\ MisledOver /\ KnowsActive /\ ActiveIsTrue
  BY DEF AInv
<1>2. Inv' /\ misled \subseteq Jobs /\ misled \subseteq misled'
  BY <1>1, InvStep, MisledSteps DEF Inv, SharedTyped, LedgerTyped
<1>3. KnowsActive'
  BY <1>1, <1>2, StaysActive, FinishArrives DEF KnowsActive
<1>5. MisledOver'
  <2>1. ASSUME NEW j \in misled PROVE pc'[j] \in Over
    BY <1>1, <1>2, OverStays DEF MisledOver
  <2>2. ASSUME NEW j \in Jobs, SubmitOk(j) PROVE pc'[j] \in Over
    BY <1>1, <2>2 DEF SubmitOk, Goto, Over, Inv, JInv, JobsTyped
  <2> QED
    BY <2>1, <2>2, MisledSteps DEF MisledOver
\* Only Finish puts the file as active.
<1>4. ActiveIsTrue'
  <2>1. ASSUME NEW j \in Jobs,
               MsgHead(j) \/ MsgEnd(j) \/ Stat(j) \/ TagLock(j) \/ SendLock(j)
                   \/ TagOpen(j) \/ TagWrite(j)
        PROVE  UNCHANGED cache
    BY <2>1 DEF MsgHead, MsgEnd, Stat, TagLock, SendLock, TagOpen, TagWrite
  <2>2. ASSUME NEW j \in Jobs,
               Pick(j) \/ Dial(j) \/ SendFile(j) \/ SendPanic(j) \/ SubmitOk(j)
                   \/ SubmitPanic(j) \/ Check(j)
        PROVE  UNCHANGED cache
    BY <2>2 DEF Pick, Dial, SendFile, SendPanic, SubmitOk, SubmitPanic, Check
  <2>3. ASSUME NEW j \in Jobs, Begin(j) \/ Record(j) PROVE cache'.state # "active"
    BY <2>3 DEF Begin, Record, Put
  <2>4. ASSUME NEW j \in Jobs, SubmitErr(j)
        PROVE  UNCHANGED cache \/ cache'.state # "active"
    BY <2>4 DEF SubmitErr, GiveUp, Put
  <2>5. ASSUME Around \/ Restart \/ UNCHANGED vars PROVE UNCHANGED cache
    BY <2>5 DEF Around, OtherLock, OtherUnlock, Land, Restart, vars
  <2>6. ASSUME NEW j \in Jobs, Finish(j)
        PROVE  chainState = "active" \/ (j \in misled /\ cache'.miners = info[j])
    BY <1>1, <2>6 DEF Finish, Put, KnowsActive
  <2>7. \/ UNCHANGED cache
        \/ cache'.state # "active"
        \/ chainState = "active"
        \/ \E j \in misled : cache'.miners = info[j]
    BY <2>1, <2>2, <2>3, <2>4, <2>5, <2>6, Steps, Zenon DEF Quiet
  <2>8. ASSUME NEW j \in misled, cache'.miners = info[j]
        PROVE  j \in misled' /\ info'[j] = cache'.miners
    BY <1>1, <1>2, <2>8, MisledKeeps
  <2> QED
    BY <1>1, <2>7, <2>8, StaysActive DEF ActiveIsTrue
<1> QED
  BY <1>2, <1>3, <1>4, <1>5 DEF AInv

\* A record that says active is right, whichever answers, retries and checks led
\* to it, unless another extrinsic's event misled the job whose list it shows.
THEOREM ActiveCorrect == Spec => []ActiveIsTrue
<1>1. AInv => ActiveIsTrue
  BY DEF AInv
<1> QED
  BY <1>1, AInvInit, AInvStep, PTL DEF Spec

-----------------------------------------------------------------------------
(* The backup implements FileRecord.                                       *)

\* A job's list is one of FileRecord's, and a full one when it is as long as that.
LEMMA ListKinds ==
    ASSUME NEW list \in Seq(Miners), Len(list) <= NChunks
    PROVE  /\ list \in Promise!Lists
           /\ Len(list) = NChunks => list \in Promise!FullLists
<1>1. Len(list) \in 0..NChunks /\ list \in [1..Len(list) -> Miners]
  BY NChunksAssumption
<1> QED
  BY <1>1 DEF Promise!Lists, Promise!FullLists

\* The steps of a job that only it sees.
LEMMA UnseenStep ==
    ASSUME NEW j \in Jobs,
           \/ MsgHead(j) \/ MsgEnd(j) \/ Stat(j) \/ TagLock(j) \/ SendLock(j)
           \/ TagOpen(j) \/ TagWrite(j) \/ Pick(j) \/ Dial(j) \/ Check(j)
    PROVE  UNCHANGED <<cache, held, ledger>>
<1>1. CASE \/ MsgHead(j) \/ MsgEnd(j) \/ Stat(j) \/ TagLock(j) \/ SendLock(j)
           \/ TagOpen(j) \/ TagWrite(j)
  BY <1>1 DEF MsgHead, MsgEnd, Stat, TagLock, SendLock, TagOpen, TagWrite
<1>2. CASE Pick(j) \/ Dial(j) \/ Check(j)
  BY <1>2 DEF Pick, Dial, Check
<1> QED
  BY <1>1, <1>2

\* The lists of the jobs that were misled.
Misreads == {info[j] : j \in misled}

LEMMA RecordStep ==
    ASSUME RInv, RInv', AInv, [Next]_vars
    PROVE  [Promise!Next]_(Promise!recordVars)
<1>1. JInv /\ JInv' /\ SharedTyped /\ InfoHeld /\ InfoHeld' /\ KnowsActive
  BY DEF RInv, AInv, Inv
<1>0. ASSUME UNCHANGED misled PROVE Misreads' = Misreads
  <2>1. \A j \in misled : info'[j] = info[j]
    BY MisledKeeps DEF AInv
  <2> QED
    BY <1>0, <2>1 DEF Misreads
<1>2. ASSUME UNCHANGED <<cache, held, ledger>>
      PROVE  UNCHANGED Promise!recordVars
  BY <1>0, <1>2 DEF ledger, Promise!recordVars, Promise!chain, Misreads
<1>3. ASSUME NEW j \in Jobs, SendFile(j) \/ SendPanic(j)
      PROVE  [Promise!Next]_(Promise!recordVars)
  <2>1. /\ Received(j) \/ UNCHANGED held
        /\ UNCHANGED <<cache, ledger>>
        /\ pc[j] \in AtChunk
    BY <1>3 DEF SendFile, SendPanic, AtChunk
  <2>2. cand[j] \in Miners /\ Chunk(j) \in 1..NChunks
    BY <1>1, <2>1, AtPoint, NChunksAssumption DEF MayBeAt, Chunk
  <2>3. CASE Received(j)
    <3>1. Promise!Receive(cand[j], Chunk(j))
      BY <1>0, <2>1, <2>3
      DEF Received, ledger, Promise!Receive, Promise!chain, Misreads
    <3> QED
      BY <2>2, <3>1 DEF Promise!Next
  <2> QED
    BY <1>2, <2>1, <2>3
<1>4. ASSUME NEW j \in Jobs, Begin(j)
      PROVE  Promise!Next
  <2>1. <<>> \in Promise!Lists
    BY NChunksAssumption DEF Promise!Lists
  <2>2. Promise!Show(<<>>)
    BY <1>0, <1>4
    DEF Begin, Put, ledger, Promise!Show, Promise!True, Promise!Saying,
        Promise!chain, Misreads
  <2> QED
    BY <2>1, <2>2 DEF Promise!Next
<1>5. ASSUME NEW j \in Jobs, Record(j)
      PROVE  Promise!Next
  <2>1. PICK list : list = info'[j]
    OBVIOUS
  <2>2. list \in Promise!Lists
    BY <1>1, <2>1, ListKinds DEF JInv, JobsTyped
  <2>3. held' = held /\ Promise!True(list)
    BY <1>1, <1>5, <2>1 DEF Record, InfoHeld, HeldBy, Promise!True
  <2>4. Promise!Show(list)
    BY <1>0, <1>5, <2>1, <2>3
    DEF Record, Put, ledger, Promise!Show, Promise!Saying, Promise!chain, Misreads
  <2> QED
    BY <2>2, <2>4 DEF Promise!Next
\* A job at the submission has a complete list, and each of its miners its chunk.
<1>6. ASSUME NEW j \in Jobs, pc[j] \in Submitting
      PROVE  info[j] \in Promise!FullLists /\ Promise!True(info[j])
  BY <1>1, <1>6, AtPoint, ListKinds DEF MayBeAt, InfoHeld, HeldBy, Promise!True
<1>7. ASSUME NEW j \in Jobs, SubmitOk(j) \/ SubmitErr(j) \/ SubmitPanic(j)
      PROVE  Promise!Next
  <2>1. pc[j] \in Submitting /\ UNCHANGED <<held, info>>
    BY <1>7 DEF SubmitOk, SubmitErr, SubmitPanic, Submitting
  <2>2. cache' = cache \/ Put("Failed", info[j], TRUE)
    BY <1>7 DEF SubmitOk, SubmitErr, SubmitPanic, GiveUp
  <2>3. \/ UNCHANGED ledger
        \/ /\ pending' = pending \cup {info[j]}
           /\ UNCHANGED <<chainState, chainMeta, misled>>
        \/ Execute(info[j]) /\ UNCHANGED <<pending, misled>>
        \/ /\ misled' = misled \cup {j}
           /\ UNCHANGED <<cache, pending, chainState, chainMeta>>
    BY <1>7 DEF SubmitOk, SubmitErr, SubmitPanic, ledger
  <2>4. CASE UNCHANGED misled
    <3>1. Promise!Submit(info[j])
      BY <1>0, <1>6, <2>1, <2>2, <2>3, <2>4
      DEF Put, Execute, ledger, Promise!Submit, Promise!Saying, Promise!Execute,
          Promise!chain, Misreads
    <3> QED
      BY <1>6, <2>1, <3>1 DEF Promise!Next
  <2>5. CASE /\ misled' = misled \cup {j}
             /\ UNCHANGED <<cache, pending, chainState, chainMeta>>
    <3>1. Misreads' = Misreads \cup {info[j]}
      BY <2>1, <2>5 DEF Misreads
    <3>2. PICK list \in Promise!FullLists : list = info[j] /\ Promise!True(list)
      BY <1>6, <2>1
    <3>3. Promise!Misread(list)
      BY <2>1, <2>5, <3>1, <3>2 DEF Promise!Misread, Misreads
    <3> QED
      BY <3>3, Zenon DEF Promise!Next
  <2> QED
    BY <2>3, <2>4, <2>5 DEF ledger
<1>8. ASSUME NEW j \in Jobs, Finish(j)
      PROVE  Promise!Next
  <2>1. /\ pc[j] \in Submitting
        /\ chainState = "active" \/ info[j] \in Misreads
    BY <1>1, <1>8 DEF Finish, Submitting, KnowsActive, Misreads
  <2>2. Promise!Confirm(info[j])
    BY <1>0, <1>6, <1>8, <2>1
    DEF Finish, Put, ledger, Promise!Confirm, Promise!Saying, Promise!chain,
        Misreads
  <2> QED
    BY <1>6, <2>1, <2>2 DEF Promise!Next
<1>9. ASSUME Land
      PROVE  Promise!Next
  <2>1. PICK list \in pending : Promise!Land(list)
    BY <1>0, <1>9 DEF Land, Execute, Promise!Land, Promise!Execute, Misreads
  <2> QED
    BY <2>1 DEF Promise!Next
<1>10. CASE OtherLock \/ OtherUnlock \/ Restart \/ UNCHANGED vars
  BY <1>2, <1>10 DEF OtherLock, OtherUnlock, Restart, vars, ledger
<1>11. CASE \E j \in Jobs : Quiet(j) \/ Begin(j) \/ Record(j) \/ SubmitErr(j)
  <2>1. PICK j \in Jobs : Quiet(j) \/ Begin(j) \/ Record(j) \/ SubmitErr(j)
    BY <1>11
  <2> QED
    BY <1>2, <1>3, <1>4, <1>5, <1>7, <1>8, <2>1, UnseenStep, Zenon DEF Quiet
<1> QED
  BY <1>9, <1>10, <1>11, Steps DEF Around

LEMMA RecordInit == Init => Promise!Init
BY DEF Init, Promise!Init, Promise!Saying

\* The backup of a file by any number of jobs is, for the clients and the chain,
\* FileRecord: late executions, retries, panics and restarts show in nothing else;
\* an answer read off another extrinsic's event shows as FileRecord allows it to.
THEOREM FileRecordCorrect == Spec => ImplementsRecord
<1>1. RInv /\ AInv /\ [Next]_vars => RInv' /\ AInv'
  BY RInvStep, AInvStep
<1>2. RInv /\ RInv' /\ AInv /\ [Next]_vars
          => [Promise!Next]_(Promise!recordVars)
  BY RecordStep
<1> QED
  BY <1>1, <1>2, RInvInit, AInvInit, RecordInit, PTL
  DEF Spec, ImplementsRecord, Promise!Spec

-----------------------------------------------------------------------------
(* No half tag is sent.                                                    *)

\* A job between a Lock of workLock and its Unlock has it, so there is one at
\* most, and the one that has it is there.
LockHeld == \A j \in Jobs : pc[j] \in Holding <=> workLock = j

\* A tag file is half written only while a job writes it.
PartialWritten ==
    \A c \in Chunks : tagFile[c] = "partial" =>
        \E j \in Jobs : pc[j] = "tagWrite" /\ Chunk(j) = c

HInv == Inv /\ LockHeld /\ PartialWritten

\* NoJob, Other and Lost are no job.
LEMMA NotJobs == \A j \in Jobs : j # NoJob /\ j # Other /\ j # Lost
BY JobsAssumption

LEMMA HInvInit == Init => HInv
BY InvInit, NotJobs DEF Init, HInv, LockHeld, PartialWritten, Holding

\* What a step of one job may do to the lock: leave it alone, take it when it is
\* free, or give it up or lose it when it has it.
LEMMA LockSteps ==
    ASSUME Inv, LockHeld,
           NEW j \in Jobs, Quiet(j) \/ Begin(j) \/ Record(j) \/ SubmitErr(j)
    PROVE  /\ \A k \in Jobs \ {j} : pc'[k] = pc[k]
           /\ \/ /\ pc'[j] \in Holding <=> pc[j] \in Holding
                 /\ UNCHANGED workLock
              \/ workLock = NoJob /\ workLock' = j /\ pc'[j] \in Holding
              \/ /\ pc[j] \in Holding /\ pc'[j] \notin Holding
                 /\ workLock' \in {NoJob, Lost}
<1>1. pc \in [Jobs -> Points]
  BY DEF Inv, JInv, JobsTyped
<1>2. ASSUME NEW p, Goto(j, p)
      PROVE  pc'[j] = p /\ \A k \in Jobs \ {j} : pc'[k] = pc[k]
  BY <1>1, <1>2 DEF Goto
<1>3. CASE MsgHead(j) \/ MsgEnd(j) \/ Stat(j) \/ TagLock(j) \/ SendLock(j)
  BY <1>2, <1>3 DEF MsgHead, MsgEnd, Stat, TagLock, SendLock, Holding
<1>4. CASE TagOpen(j)
  BY <1>2, <1>4 DEF TagOpen, Holding
<1>5. CASE TagWrite(j)
  <2>1. workLock = j
    BY <1>5 DEF TagWrite, LockHeld, Holding
  <2> QED
    BY <1>2, <1>5, <2>1 DEF TagWrite, Holding
<1>6. CASE Pick(j)
  BY <1>2, <1>6 DEF Pick, Holding
<1>7. CASE Dial(j)
  BY <1>2, <1>7 DEF Dial, Holding
<1>8. CASE SendFile(j) \/ SendPanic(j)
  BY <1>2, <1>8 DEF SendFile, SendPanic, Holding
<1>9. CASE SubmitOk(j) \/ SubmitPanic(j) \/ Check(j) \/ Finish(j)
  <2>1. UNCHANGED workLock /\ pc[j] \notin Holding
        /\ \E p \in {"finish", "dead", "submit", "done"} : Goto(j, p)
    BY <1>9 DEF SubmitOk, SubmitPanic, Check, Finish, Holding
  <2> QED
    BY <1>2, <2>1 DEF Holding
<1>10. CASE Begin(j) \/ Record(j)
  <2>1. UNCHANGED workLock /\ pc[j] \notin Holding
        /\ \E p \in {"done", "stat", "submit"} : Goto(j, p)
    BY <1>10 DEF Begin, Record, Holding
  <2> QED
    BY <1>2, <2>1 DEF Holding
<1>11. CASE SubmitErr(j)
  <2>1. pc[j] \notin Holding
    BY <1>11 DEF SubmitErr, Holding
  <2>2. UNCHANGED workLock /\ \E p \in {"done", "check"} : Goto(j, p)
    BY <1>11, Zenon DEF SubmitErr, GiveUp
  <2> QED
    BY <1>2, <2>1, <2>2 DEF Holding
<1> QED
  BY <1>3, <1>4, <1>5, <1>6, <1>7, <1>8, <1>9, <1>10, <1>11, Zenon DEF Quiet

LEMMA LockHeldStep == HInv /\ [Next]_vars => LockHeld'
<1> SUFFICES ASSUME HInv, [Next]_vars PROVE LockHeld'
  OBVIOUS
<1>1. Inv /\ LockHeld
  BY DEF HInv
<1>2. CASE \E j \in Jobs : Quiet(j) \/ Begin(j) \/ Record(j) \/ SubmitErr(j)
  BY <1>1, <1>2, LockSteps, NotJobs DEF LockHeld
<1>3. CASE Around \/ UNCHANGED vars
  <2>1. UNCHANGED pc /\ (UNCHANGED workLock \/ {workLock, workLock'} = {NoJob, Other})
    BY <1>3 DEF Around, OtherLock, OtherUnlock, Land, jobs, vars
  <2> QED
    BY <1>1, <2>1, NotJobs DEF LockHeld
<1>4. CASE Restart
  BY <1>4, NotJobs DEF Restart, LockHeld, Holding, Ended
<1> QED
  BY <1>2, <1>3, <1>4, Steps

\* A job in the middle of a tag file stays there, or it is its own TagWrite.
LEMMA WritingStays ==
    ASSUME Inv, LockHeld, NEW j \in Jobs, NEW k \in Jobs, pc[k] = "tagWrite",
           Quiet(j) \/ Begin(j) \/ Record(j) \/ SubmitErr(j), ~ TagWrite(k)
    PROVE  pc'[k] = "tagWrite" /\ Chunk(k)' = Chunk(k)
<1>1. j # k
  <2>1. ASSUME j = k PROVE FALSE
    <3>1. ~ (MsgHead(k) \/ MsgEnd(k) \/ Stat(k) \/ TagLock(k) \/ SendLock(k))
      BY DEF MsgHead, MsgEnd, Stat, TagLock, SendLock
    <3>2. ~ (TagOpen(k) \/ Pick(k) \/ Dial(k) \/ SendFile(k) \/ SendPanic(k))
      BY DEF TagOpen, Pick, Dial, SendFile, SendPanic
    <3>3. ~ (SubmitOk(k) \/ SubmitPanic(k) \/ Check(k) \/ Finish(k))
      BY DEF SubmitOk, SubmitPanic, Check, Finish
    <3>4. ~ (Begin(k) \/ Record(k) \/ SubmitErr(k))
      BY DEF Begin, Record, SubmitErr
    <3> QED
      BY <2>1, <3>1, <3>2, <3>3, <3>4, Zenon DEF Quiet
  <2> QED
    BY <2>1
<1>2. pc'[k] = pc[k]
  BY <1>1, LockSteps
<1>3. Next
  BY Zenon DEF Next, Lock, Call, JobStep, Quiet
<1>4. ~ Record(k)
  BY DEF Record
<1>5. info'[k] = info[k]
  BY <1>3, <1>4, InfoChanges
<1> QED
  BY <1>2, <1>5 DEF Chunk

LEMMA PartialStep == HInv /\ [Next]_vars => PartialWritten'
<1> SUFFICES ASSUME HInv, [Next]_vars, NEW c \in Chunks, tagFile'[c] = "partial"
             PROVE  \E k \in Jobs : pc'[k] = "tagWrite" /\ Chunk(k)' = c
  BY DEF PartialWritten, Chunks
<1>1. Inv /\ PartialWritten /\ SharedTyped /\ LockHeld
  BY DEF HInv, Inv
<1>2. tagFile \in [Chunks -> {"none", "partial", "full"}]
  BY <1>1 DEF SharedTyped
<1>3. ASSUME NEW j \in Jobs, TagOpen(j), tagFile[c] # "partial"
      PROVE  pc'[j] = "tagWrite" /\ Chunk(j)' = c
  <2>1. tagFile' = [tagFile EXCEPT ![Chunk(j)] = "partial"] /\ Goto(j, "tagWrite")
        /\ UNCHANGED info
    BY <1>3 DEF TagOpen
  <2> QED
    BY <1>1, <1>2, <1>3, <2>1 DEF Goto, Chunk, Inv, JInv, JobsTyped
<1>4. ASSUME NEW j \in Jobs, TagWrite(j) PROVE tagFile[c] = "partial" /\ Chunk(j) # c
  BY <1>2, <1>4 DEF TagWrite
<1>5. CASE \E j \in Jobs : Quiet(j) \/ Begin(j) \/ Record(j) \/ SubmitErr(j)
  <2>1. PICK j \in Jobs : Quiet(j) \/ Begin(j) \/ Record(j) \/ SubmitErr(j)
    BY <1>5
  <2>2. CASE tagFile[c] = "partial"
    <3>1. PICK k \in Jobs : pc[k] = "tagWrite" /\ Chunk(k) = c
      BY <1>1, <2>2 DEF PartialWritten
    <3>2. ~ TagWrite(k)
      BY <1>4, <3>1
    <3> QED
      BY <1>1, <2>1, <3>1, <3>2, WritingStays
  <2>3. CASE tagFile[c] # "partial"
    <3>1. ~ TagWrite(j)
      BY <1>4, <2>3
    <3>2. ~ (MsgHead(j) \/ MsgEnd(j) \/ Stat(j) \/ TagLock(j) \/ SendLock(j))
      BY <2>3 DEF MsgHead, MsgEnd, Stat, TagLock, SendLock
    <3>3. ~ (Pick(j) \/ Dial(j) \/ SendFile(j) \/ SendPanic(j))
      BY <2>3 DEF Pick, Dial, SendFile, SendPanic
    <3>4. ~ (SubmitOk(j) \/ SubmitPanic(j) \/ Check(j) \/ Finish(j))
      BY <2>3 DEF SubmitOk, SubmitPanic, Check, Finish
    <3>5. ~ (Begin(j) \/ Record(j) \/ SubmitErr(j))
      BY <2>3 DEF Begin, Record, SubmitErr
    <3>6. TagOpen(j)
      BY <2>1, <3>1, <3>2, <3>3, <3>4, <3>5, Zenon DEF Quiet
    <3> QED
      BY <1>3, <2>3, <3>6
  <2> QED
    BY <2>2, <2>3
<1>6. CASE Around \/ UNCHANGED vars
  BY <1>1, <1>6
  DEF Around, OtherLock, OtherUnlock, Land, jobs, vars, PartialWritten, Chunk
<1>7. CASE Restart
  BY <1>7 DEF Restart
<1> QED
  BY <1>5, <1>6, <1>7, Steps

LEMMA HInvStep == HInv /\ [Next]_vars => HInv'
BY InvStep, LockHeldStep, PartialStep DEF HInv

\* A job that sends a chunk holds workLock, so no other is writing a tag, and no
\* tag is half written.
THEOREM TagCorrect == Spec => []NoHalfTag
<1>1. HInv => NoHalfTag
  <2> SUFFICES ASSUME HInv, NEW j \in Jobs, pc[j] = "send",
                      tagFile[Chunk(j)] = "partial"
               PROVE  FALSE
    BY DEF NoHalfTag
  <2>1. Chunk(j) \in Chunks
    BY AtPoint, NChunksAssumption DEF HInv, Inv, MayBeAt, AtChunk, Chunk, Chunks
  <2>2. PICK k \in Jobs : pc[k] = "tagWrite"
    BY <2>1 DEF HInv, PartialWritten
  <2>3. workLock = j /\ workLock = k
    BY <2>2 DEF HInv, LockHeld, Holding
  <2> QED
    BY <2>2, <2>3
<1> QED
  BY <1>1, HInvInit, HInvStep, PTL DEF Spec

-----------------------------------------------------------------------------
(* The jobs use workLock as a mutex.                                       *)

\* Who is between Lock and Unlock of workLock.
User == IF workLock \in Jobs \cup {Other} THEN {workLock} ELSE {}

LEMMA MutexInit == Init => WorkLock!Init
BY NotJobs, JobsAssumption DEF Init, WorkLock!Init, Holding

LEMMA MutexStep ==
    ASSUME HInv, HInv', [Next]_vars
    PROVE  [WorkLock!Next]_(WorkLock!mutexVars)
<1> DEFINE lockState == CASE workLock = NoJob -> "free"
                          [] workLock = Lost -> "lost"
                          [] OTHER -> "held"
<1> DEFINE inside == {j \in Jobs : pc[j] \in Holding}
                       \cup (IF workLock = Other THEN {Other} ELSE {})
<1>1. inside = User /\ inside' = User'
  BY NotJobs DEF HInv, LockHeld, User
<1>3. ASSUME NEW u \in Jobs \cup {Other}, workLock = NoJob, workLock' = u
      PROVE  WorkLock!Lock(u)
  <2>1. lockState = "free" /\ lockState' = "held"
    BY <1>3, NotJobs, JobsAssumption
  <2>2. inside = {} /\ inside' = {u}
    BY <1>1, <1>3, NotJobs, JobsAssumption DEF User
  <2> QED
    BY <2>1, <2>2 DEF WorkLock!Lock
<1>4. ASSUME NEW u \in Jobs \cup {Other}, workLock = u, workLock' = NoJob
      PROVE  WorkLock!Unlock(u)
  <2>1. lockState = "held" /\ lockState' = "free"
    BY <1>4, NotJobs, JobsAssumption
  <2>2. inside = {u} /\ inside' = {}
    BY <1>1, <1>4, NotJobs, JobsAssumption DEF User
  <2> QED
    BY <2>1, <2>2 DEF WorkLock!Unlock
<1>5. ASSUME NEW u \in Jobs, workLock = u, workLock' = Lost
      PROVE  WorkLock!Lose(u)
  <2>1. lockState = "held" /\ lockState' = "lost"
    BY <1>5, NotJobs, JobsAssumption
  <2>2. inside = {u} /\ inside' = {}
    BY <1>1, <1>5, NotJobs, JobsAssumption DEF User
  <2> QED
    BY <2>1, <2>2 DEF WorkLock!Lose
<1>6. ASSUME UNCHANGED workLock PROVE UNCHANGED WorkLock!mutexVars
  <2>1. lockState' = lockState
    BY <1>6
  <2>2. inside' = inside
    BY <1>1, <1>6 DEF User
  <2> QED
    BY <2>1, <2>2 DEF WorkLock!mutexVars
<1>7. CASE \E j \in Jobs : Quiet(j) \/ Begin(j) \/ Record(j) \/ SubmitErr(j)
  <2>1. PICK j \in Jobs : Quiet(j) \/ Begin(j) \/ Record(j) \/ SubmitErr(j)
    BY <1>7
  <2>2. \/ UNCHANGED workLock
        \/ workLock = NoJob /\ workLock' = j
        \/ pc[j] \in Holding /\ workLock' \in {NoJob, Lost}
    BY <2>1, LockSteps DEF HInv
  <2>3. pc[j] \in Holding => workLock = j
    BY DEF HInv, LockHeld
  <2> QED
    BY <1>3, <1>4, <1>5, <1>6, <2>2, <2>3 DEF WorkLock!Next
<1>8. CASE Around
  <2>1. \/ UNCHANGED workLock
        \/ workLock = NoJob /\ workLock' = Other
        \/ workLock = Other /\ workLock' = NoJob
    BY <1>8 DEF Around, OtherLock, OtherUnlock, Land
  <2> QED
    BY <1>3, <1>4, <1>6, <2>1 DEF WorkLock!Next
<1>9. CASE Restart
  <2>1. lockState' = "free"
    BY <1>9, JobsAssumption DEF Restart
  <2>2. inside' = {}
    BY <1>1, <1>9, NotJobs, JobsAssumption DEF Restart, User
  <2> QED
    BY <2>1, <2>2 DEF WorkLock!Next, WorkLock!Restart
<1>10. CASE UNCHANGED vars
  BY <1>6, <1>10 DEF vars
<1> QED
  BY <1>7, <1>8, <1>9, <1>10, Steps

\* On every way out of RequestAndSaveTag and backupFile workLock is unlocked once,
\* by the job that has it; only a panic in SendFile leaves it locked.
THEOREM WorkLockCorrect == Spec => WorkLockKept
<1>1. HInv /\ HInv' /\ [Next]_vars => [WorkLock!Next]_(WorkLock!mutexVars)
  BY MutexStep
<1> QED
  BY <1>1, HInvInit, HInvStep, MutexInit, PTL DEF Spec, WorkLockKept, WorkLock!Spec
=============================================================================
