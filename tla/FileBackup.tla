----------------------------- MODULE FileBackup -----------------------------
(***************************************************************************)
(* The backup of an uploaded file to the miners (node/handler.go): the     *)
(* check the connection handler makes when an upload starts, the goroutine *)
(* FileBackupManagement it starts when the last chunk is received, and     *)
(* backupFile, which that goroutine runs for one chunk after the other.    *)
(*                                                                         *)
(* The module follows one file identifier.  Several uploads of it may be   *)
(* under way; each ends in a backup job of its own.  The jobs share the    *)
(* tag files, the record of the file in the cache, and workLock.           *)
(*                                                                         *)
(* External: the miners, and the chain, where the file has a state that a  *)
(* successful SubmitFileMeta turns to "active".  The transfer of a chunk,  *)
(* RequestAndSaveTag and SubmitFileMeta appear with all their outcomes.    *)
(***************************************************************************)
EXTENDS Integers, Sequences

CONSTANTS
    Jobs,        \* uploads of the file, each with its backup job
    NoJob,       \* workLock is free
    Other,       \* any other user of workLock
    Lost,        \* workLock was left locked by a panic
    Miners,
    NChunks,     \* the chunks found on disk for the file
    MaxTry       \* failed submissions before the job gives up, plus one (4)

ASSUME JobsAssumption ==
    /\ NoJob # Other /\ NoJob # Lost /\ Other # Lost
    /\ {NoJob, Other, Lost} \cap Jobs = {}
ASSUME NChunksAssumption == NChunks \in Nat
ASSUME MaxTryAssumption == MaxTry \in Nat \ {0}

VARIABLES
    pc,          \* each job's program point
    info,        \* chunksInfo: the miners of the chunks done so far, in order
    cand,        \* the miner it is trying
    tries,       \* tryCount
    workLock,    \* the holder of workLock; NoJob: it is free
    tagFile,     \* the tag file of each chunk: "none", "partial" or "full"
    cache,       \* the record of the file in the cache: [state, miners, sched]
    held,        \* external: the chunks each miner has received, with their tag
    pending,     \* external: SubmitFileMeta extrinsics not yet in a block
    chainState,  \* external: the file's state on the chain
    chainMeta,   \* external: the miners the chain records, chunk by chunk
    misled       \* history: the jobs told of success though their extrinsic failed

jobs == <<pc, info, cand, tries>>
ledger == <<pending, chainState, chainMeta, misled>>
vars == <<pc, info, cand, tries, workLock, tagFile, cache, held, pending,
          chainState, chainMeta, misled>>

Chunks == 1..NChunks

\* The chunk the job is at; its loop variable i.
Chunk(j) == Len(info[j]) + 1

Goto(j, at) == pc' = [pc EXCEPT ![j] = at]

\* n.Cache.Put of the file's record.
Put(state, miners, sched) ==
    cache' = [state |-> state, miners |-> miners, sched |-> sched]

-----------------------------------------------------------------------------
(* The upload.                                                             *)

\* MsgHead: the upload is refused if the file is active on the chain, or if its
\* state cannot be read.
MsgHead(j) ==
    /\ pc[j] = "idle"
    /\ chainState # "active"
    /\ Goto(j, "upload")
    /\ UNCHANGED <<info, cand, tries, workLock, tagFile, cache, held, ledger>>

\* MsgEnd with LastMark: go FileBackupManagement.
MsgEnd(j) ==
    /\ pc[j] = "upload"
    /\ Goto(j, "start")
    /\ UNCHANGED <<info, cand, tries, workLock, tagFile, cache, held, ledger>>

-----------------------------------------------------------------------------
(* FileBackupManagement and backupFile.                                    *)

\* The record is put as pending; with no chunk on disk the job ends there.
Begin(j) ==
    /\ pc[j] = "start"
    /\ Put("pending", <<>>, NChunks > 0)
    /\ Goto(j, IF NChunks = 0 THEN "done" ELSE "stat")
    /\ UNCHANGED <<info, cand, tries, workLock, tagFile, held, ledger>>

(***************************************************************************)
(* os.Stat of the chunk and of its tag file.  An error (or the recovered   *)
(* division by the zero size of an empty chunk) makes the loop of          *)
(* FileBackupManagement try the chunk again.                               *)
(***************************************************************************)
Stat(j) ==
    /\ pc[j] = "stat"
    /\ Goto(j, IF tagFile[Chunk(j)] = "none" THEN "tagLock" ELSE "pick")
    /\ UNCHANGED <<info, cand, tries, workLock, tagFile, cache, held, ledger>>

\* RequestAndSaveTag takes workLock ...
TagLock(j) ==
    /\ pc[j] = "tagLock"
    /\ workLock = NoJob
    /\ workLock' = j
    /\ Goto(j, "tagWait")
    /\ UNCHANGED <<info, cand, tries, tagFile, cache, held, ledger>>

TagUnlockEarly(j) ==
    /\ pc[j] = "tagWait"
    /\ tagFile' = [tagFile EXCEPT ![Chunk(j)] = "partial"]
    /\ Goto(j, "tagWrite")
    /\ workLock' = NoJob
    /\ UNCHANGED <<info, cand, tries, cache, held, ledger>>

\* ... and gets no tag, or creates (truncates) the tag file ...
TagOpen(j) ==
    /\ pc[j] = "tagWait"
    /\ \/ /\ tagFile' = [tagFile EXCEPT ![Chunk(j)] = "partial"]
          /\ Goto(j, "tagWrite")
          /\ UNCHANGED workLock
       \/ /\ Goto(j, "stat")
          /\ workLock' = NoJob
          /\ UNCHANGED tagFile
    /\ UNCHANGED <<info, cand, tries, cache, held, ledger>>

\* ... and writes it, or removes it when that fails.
TagWrite(j) ==
    /\ pc[j] = "tagWrite"
    /\ \/ tagFile' = [tagFile EXCEPT ![Chunk(j)] = "full"] /\ Goto(j, "pick")
       \/ tagFile' = [tagFile EXCEPT ![Chunk(j)] = "none"] /\ Goto(j, "stat")
    /\ workLock' = IF workLock = j THEN NoJob ELSE workLock
    /\ UNCHANGED <<info, cand, tries, cache, held, ledger>>

PickUnlocks(j) ==
    /\ pc[j] = "pick"
    /\ \/ /\ \E m \in Miners : cand' = [cand EXCEPT ![j] = m]
          /\ Goto(j, "sendLock")
          /\ UNCHANGED workLock
       \/ Goto(j, "stat") /\ workLock' = NoJob /\ UNCHANGED cand
    /\ UNCHANGED <<info, tries, tagFile, cache, held, ledger>>

(***************************************************************************)
(* The loop over the miners, in random order.  A miner is skipped when its *)
(* cached record is missing or shows too little space; when none is left,  *)
(* or the signature fails, backupFile returns an error, and the next call  *)
(* reads and shuffles the list again.                                      *)
(***************************************************************************)
Pick(j) ==
    /\ pc[j] = "pick"
    /\ \/ \E m \in Miners : cand' = [cand EXCEPT ![j] = m] /\ Goto(j, "sendLock")
       \/ Goto(j, "stat") /\ UNCHANGED cand
    /\ UNCHANGED <<info, tries, workLock, tagFile, cache, held, ledger>>

\* workLock.Lock()
SendLock(j) ==
    /\ pc[j] = "sendLock"
    /\ workLock = NoJob
    /\ workLock' = j
    /\ Goto(j, "dial")
    /\ UNCHANGED <<info, cand, tries, tagFile, cache, held, ledger>>

DialKeepsLock(j) ==
    /\ pc[j] = "dial"
    /\ \/ Goto(j, "send") \/ Goto(j, "stat") \/ Goto(j, "pick")
    /\ UNCHANGED <<info, cand, tries, workLock, tagFile, cache, held, ledger>>

(***************************************************************************)
(* dialer.Dial.  A failure unlocks, and then netCon.Close() on the nil     *)
(* connection panics: the recovered backupFile returns no error and no     *)
(* miner, and the loop of FileBackupManagement calls it again at once.  A  *)
(* connection that is not TCP unlocks and goes on with the next miner.     *)
(***************************************************************************)
Dial(j) ==
    /\ pc[j] = "dial"
    /\ \/ Goto(j, "send") /\ UNCHANGED workLock
       \/ (Goto(j, "stat") \/ Goto(j, "pick")) /\ workLock' = NoJob
    /\ UNCHANGED <<info, cand, tries, tagFile, cache, held, ledger>>

Received(j) == held' = [held EXCEPT ![cand[j]] = @ \cup {Chunk(j)}]

Sendable(j) == tagFile[Chunk(j)] # "none"

(***************************************************************************)
(* SendFile of the chunk and its tag.  When it succeeds workLock is        *)
(* unlocked, and the chunk is done unless its name has not the length of a *)
(* block id (the next miner is tried) or the miner has id zero, which      *)
(* backupFile takes for no miner at all (the chunk is tried again).  An    *)
(* error unlocks and goes on with the next miner; the miner may have the   *)
(* chunk all the same.                                                     *)
(***************************************************************************)
SendFile(j) ==
    /\ pc[j] = "send"
    /\ workLock' = NoJob
    /\ \/ /\ Sendable(j)
          /\ Received(j)
          /\ Goto(j, "record") \/ Goto(j, "pick") \/ Goto(j, "stat")
       \/ Goto(j, "pick") /\ UNCHANGED held
    /\ UNCHANGED <<info, cand, tries, tagFile, cache, ledger>>

\* A panic in SendFile (its connection's channel is closed by the writer) is
\* recovered by backupFile, which has no deferred Unlock: workLock stays locked.
SendPanic(j) ==
    /\ pc[j] = "send"
    /\ workLock' = Lost
    /\ (Sendable(j) /\ Received(j)) \/ UNCHANGED held
    /\ Goto(j, "stat")
    /\ UNCHANGED <<info, cand, tries, tagFile, cache, ledger>>

\* The chunk's miner is put in the record; the last chunk leads to the chain.
Record(j) ==
    /\ pc[j] = "record"
    /\ info' = [info EXCEPT ![j] = Append(@, cand[j])]
    /\ Put("pending", info'[j], TRUE)
    /\ Goto(j, IF Len(info'[j]) = NChunks THEN "submit" ELSE "stat")
    /\ UNCHANGED <<cand, tries, workLock, tagFile, held, ledger>>

-----------------------------------------------------------------------------
(* Submission.                                                             *)

\* External: the meta information is executed with success.
Execute(meta) == chainState' = "active" /\ chainMeta' = meta

(***************************************************************************)
(* SubmitFileMeta returns no error: the extrinsic succeeded; or it failed, *)
(* and the FileUpload event of another extrinsic is in its block (see      *)
(* ChainClient, SuccessIsOwn).                                             *)
(***************************************************************************)
SubmitOk(j) ==
    /\ pc[j] = "submit"
    /\ \/ Execute(info[j]) /\ UNCHANGED misled
       \/ misled' = misled \cup {j} /\ UNCHANGED <<chainState, chainMeta>>
    /\ Goto(j, "finish")
    /\ UNCHANGED <<info, cand, tries, workLock, tagFile, cache, held, pending>>

GiveUpNever(j) ==
    /\ Goto(j, "check")
    /\ UNCHANGED cache

GiveUpAsActive(j) ==
    /\ Goto(j, "finish")
    /\ UNCHANGED cache

\* tryCount > 3: the record is put as failed and the job ends.
GiveUp(j) ==
    /\ Put("Failed", info[j], TRUE)
    /\ Goto(j, "done")

\* tryCount++
NextTry(n) == n + 1

(***************************************************************************)
(* SubmitFileMeta returns an error: the extrinsic was not sent, or failed, *)
(* or is still in the pool, or was executed and its event was not seen.    *)
(***************************************************************************)
SubmitErr(j) ==
    /\ pc[j] = "submit"
    /\ tries' = [tries EXCEPT ![j] = NextTry(@)]
    /\ \/ UNCHANGED ledger
       \/ /\ pending' = pending \cup {info[j]}
          /\ UNCHANGED <<chainState, chainMeta, misled>>
       \/ Execute(info[j]) /\ UNCHANGED <<pending, misled>>
    /\ IF tries'[j] >= MaxTry
       THEN GiveUp(j)
       ELSE Goto(j, "check") /\ UNCHANGED cache
    /\ UNCHANGED <<info, cand, workLock, tagFile, held>>

\* GetFileState: an active file ends the loop; otherwise, or when the state
\* cannot be read, the meta information is submitted again.
Check(j) ==
    /\ pc[j] = "check"
    /\ \/ Goto(j, "submit")
       \/ chainState = "active" /\ Goto(j, "finish")
    /\ UNCHANGED <<info, cand, tries, workLock, tagFile, cache, held, ledger>>

\* The record is put as active.
Finish(j) ==
    /\ pc[j] = "finish"
    /\ Put("active", info[j], TRUE)
    /\ Goto(j, "done")
    /\ UNCHANGED <<info, cand, tries, workLock, tagFile, held, ledger>>

(***************************************************************************)
(* A panic in SubmitFileMeta, before or after the pool took the extrinsic, *)
(* or in GetFileState (the client's connection is nil) ends the job; the   *)
(* record stays pending.                                                   *)
(***************************************************************************)
SubmitPanic(j) ==
    /\ pc[j] \in {"submit", "check"}
    /\ \/ UNCHANGED pending
       \/ pc[j] = "submit" /\ pending' = pending \cup {info[j]}
    /\ Goto(j, "dead")
    /\ UNCHANGED <<info, cand, tries, workLock, tagFile, cache, held, chainState,
                   chainMeta, misled>>

-----------------------------------------------------------------------------
(* The surroundings.                                                       *)

\* The proofs' verification, storagefiller and the generator of fillers take
\* workLock too.  They have not to give it back: the verification loses it when
\* it panics (ProofValidation), and a tag request or a transfer may not return.
OtherLock ==
    /\ workLock = NoJob
    /\ workLock' = Other
    /\ UNCHANGED <<jobs, tagFile, cache, held, ledger>>

OtherUnlock ==
    /\ workLock = Other
    /\ workLock' = NoJob
    /\ UNCHANGED <<jobs, tagFile, cache, held, ledger>>

\* External: an extrinsic left in the pool is executed, with success or not.
Land ==
    /\ \E meta \in pending :
          /\ pending' = pending \ {meta}
          /\ Execute(meta) \/ UNCHANGED <<chainState, chainMeta>>
    /\ UNCHANGED <<jobs, workLock, tagFile, cache, held, misled>>

Ended == {"idle", "done", "dead"}

(***************************************************************************)
(* The process stops and starts again.  The cache and the chunks stay, the *)
(* tag files are removed by buildDir; no job is resumed.                   *)
(***************************************************************************)
Restart ==
    /\ \E j \in Jobs : pc[j] \notin Ended
    /\ pc' = [j \in Jobs |-> IF pc[j] \in Ended THEN pc[j] ELSE "dead"]
    /\ workLock' = NoJob
    /\ tagFile' = [c \in Chunks |-> "none"]
    /\ UNCHANGED <<info, cand, tries, cache, held, ledger>>

-----------------------------------------------------------------------------
Init ==
    /\ pc = [j \in Jobs |-> "idle"]
    /\ info = [j \in Jobs |-> <<>>]
    /\ cand \in [Jobs -> Miners]
    /\ tries = [j \in Jobs |-> 0]
    /\ workLock = NoJob
    /\ tagFile = [c \in Chunks |-> "none"]
    /\ cache = [state |-> "none", miners |-> <<>>, sched |-> FALSE]
    /\ held = [m \in Miners |-> {}]
    /\ pending = {}
    /\ chainState = "pending"
    /\ chainMeta = <<>>
    /\ misled = {}

Lock(j) == TagLock(j) \/ SendLock(j)

\* Calls without a deadline: the tag request and the transfer.
Call(j) == TagOpen(j) \/ SendFile(j) \/ SendPanic(j)

JobStep(j) ==
    \/ Begin(j) \/ Stat(j) \/ TagWrite(j) \/ Pick(j) \/ Dial(j) \/ Record(j)
    \/ SubmitOk(j) \/ SubmitErr(j) \/ SubmitPanic(j) \/ Check(j) \/ Finish(j)

Next ==
    \/ \E j \in Jobs : MsgHead(j) \/ MsgEnd(j) \/ Lock(j) \/ Call(j) \/ JobStep(j)
    \/ OtherLock \/ OtherUnlock \/ Land \/ Restart

(***************************************************************************)
(* Goroutines run and sync.Mutex is fair.  A tag request, a transfer and   *)
(* the other users of workLock have not to end.                            *)
(***************************************************************************)
Fairness == \A j \in Jobs : WF_vars(JobStep(j)) /\ SF_vars(Lock(j))

Spec == Init /\ [][Next]_vars /\ Fairness

-----------------------------------------------------------------------------
(* Properties.                                                             *)

\* Every variable keeps its type.
TypeOK ==
    /\ pc \in [Jobs -> Ended \cup {"upload", "start", "stat", "tagLock",
                 "tagWait", "tagWrite", "pick", "sendLock", "dial", "send",
                 "record", "submit", "check", "finish"}]
    /\ info \in [Jobs -> Seq(Miners)]
    /\ \A j \in Jobs : Len(info[j]) <= NChunks
    /\ cand \in [Jobs -> Miners]
    /\ tries \in [Jobs -> 0..MaxTry]
    /\ workLock \in Jobs \cup {NoJob, Other, Lost}
    /\ tagFile \in [Chunks -> {"none", "partial", "full"}]
    /\ cache \in [state : {"none", "pending", "Failed", "active"},
                  miners : Seq(Miners), sched : BOOLEAN]
    /\ held \in [Miners -> SUBSET Chunks]
    /\ pending \subseteq Seq(Miners)
    /\ chainState \in {"pending", "active"}
    /\ chainMeta \in Seq(Miners)
    /\ misled \subseteq Jobs

\* The miners of a list have the chunks they are listed for.
HeldBy(miners) == \A c \in 1..Len(miners) : c \in held[miners[c]]

(***************************************************************************)
(* Where the chain, an extrinsic on its way to it, or the record shown to  *)
(* clients says a chunk is, it is: a failed, repeated or abandoned         *)
(* transfer is never reported.  What is submitted names every chunk.       *)
(***************************************************************************)
RecordedHeld ==
    /\ HeldBy(cache.miners)
    /\ \A meta \in pending : HeldBy(meta) /\ Len(meta) = NChunks
    /\ chainState = "active" => HeldBy(chainMeta) /\ Len(chainMeta) = NChunks

\* A record that tells clients the file is active is right, whichever of the
\* answers, the retries and the checks led to it; unless a SubmitFileMeta took
\* another extrinsic's event for its own.
ActiveIsTrue ==
    cache.state = "active" =>
        chainState = "active" \/ \E j \in misled : info[j] = cache.miners

(***************************************************************************)
(* The tag is there when a chunk is sent in full or not at all: another    *)
(* job's os.Stat may see a tag file that is being written, and what saves  *)
(* it from sending half a tag is that both hold workLock.                  *)
(***************************************************************************)
NoHalfTag ==
    \A j \in Jobs : pc[j] = "send" => tagFile[Chunk(j)] # "partial"

\* What clients and the chain are told: see FileRecord.
Promise == INSTANCE FileRecord WITH
    record <- [state |-> cache.state, miners |-> cache.miners],
    proposed <- pending,
    misread <- {info[j] : j \in misled}

(***************************************************************************)
(* Whatever transfers fail, are repeated or are abandoned, and whichever   *)
(* submissions are executed late, what the record and the chain say of the *)
(* file was true when it was said and stays so; except that the record may *)
(* say active on another extrinsic's event.                                *)
(***************************************************************************)
ImplementsRecord == Promise!Spec

\* The points between a Lock of workLock and its Unlock.
Holding == {"tagWait", "tagWrite", "dial", "send"}

\* How the jobs use workLock: see Mutex.
WorkLock == INSTANCE Mutex WITH
    Users <- Jobs \cup {Other},
    Careless <- Jobs,
    state <- CASE workLock = NoJob -> "free"
               [] workLock = Lost -> "lost"
               [] OTHER -> "held",
    inside <- {j \in Jobs : pc[j] \in Holding}
                  \cup (IF workLock = Other THEN {Other} ELSE {})

(***************************************************************************)
(* RequestAndSaveTag and backupFile unlock workLock on each of their ways  *)
(* out, once and only while they hold it: errors, retries, the next miner, *)
(* the panics after an Unlock.  Only a panic in SendFile leaves it locked. *)
(***************************************************************************)
WorkLockKept == WorkLock!Spec

\* No tag request and no transfer hangs for ever, and no other goroutine keeps
\* workLock for ever.
NothingHangs ==
    /\ \A j \in Jobs : []<>(pc[j] # "tagWait") /\ []<>(pc[j] # "send")
    /\ []<>(workLock # Other)

(***************************************************************************)
(* Whichever of their many exits the jobs take, every wait for workLock,   *)
(* before a tag request or before a transfer, ends; as long as nothing it  *)
(* has to wait for hangs, and no panic in SendFile has left the lock       *)
(* locked.                                                                 *)
(***************************************************************************)
LockGranted ==
    NothingHangs =>
        \A j \in Jobs : \A at \in {"tagLock", "sendLock"} :
            pc[j] = at ~> pc[j] # at \/ workLock = Lost
=============================================================================
