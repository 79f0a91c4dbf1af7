--------------------------- MODULE FillerPipeline ---------------------------
(***************************************************************************)
(* The filler pipeline of node/sub_filler.go and node/sub_space.go.        *)
(*                                                                         *)
(*  task_GenerateFiller  makes a filler file, has the SGX compute its tag  *)
(*                       (RequestAndSaveTag, under workLock) and queues it *)
(*                       in the channel C_Filler                           *)
(*  task_Space           for each miner of the chain, takes a filler when  *)
(*                       it has none in hand, starts a storagefiller       *)
(*                       goroutine and waits for its verdict on chal       *)
(*  storagefiller        under workLock, sends the filler and its tag to   *)
(*                       the miner, reports it on the chain, and deletes   *)
(*                       the files                                         *)
(*                                                                         *)
(* The chain and the miners are external.  RequestAndSaveTag, the transfer *)
(* and SubmitFillerMeta appear with all their outcomes.                    *)
(***************************************************************************)
EXTENDS Integers, Sequences, FiniteSets

CONSTANTS
    Miners,      \* the storage miners of the chain
    NoMiner,
    Reserved,    \* Num_Filler_Reserved, the capacity of C_Filler (5 in the code)
    MaxFillers   \* bound: fillers generated, over all runs of the process

ASSUME ReservedAssumption == Reserved \in Nat \ {0}
ASSUME MaxFillersAssumption == MaxFillers \in Nat
ASSUME MinersAssumption == NoMiner \notin Miners

VARIABLES
    gen,         \* task_GenerateFiller: its program point
    genF,        \* the filler it works on
    made,        \* fillers generated so far: their hashes are 1..made
    abandoned,   \* history: the fillers a panic of a task has left behind
    queue,       \* C_Filler
    fillerFiles, \* the filler files in FillerDir
    tagFiles,    \* their tag files
    space,       \* task_Space: its program point
    todo,        \* the miners left in its for loop
    cur,         \* its variable fillers: the filler in hand (0: none)
    st,          \* storagefiller: its program point
    target,      \* the miner it serves
    workLock,    \* who holds workLock
    held,        \* external: the fillers each miner has received
    pending,     \* external: filler extrinsics that are not in a block yet
    metas        \* external: the fillers the chain records, with their miner

generator == <<gen, genF, made, abandoned>>
files == <<fillerFiles, tagFiles>>
spacing == <<space, todo, cur>>
storing == <<st, target>>
external == <<held, pending, metas>>
vars == <<gen, genF, made, abandoned, queue, fillerFiles, tagFiles, space, todo, cur,
          st, target, workLock, held, pending, metas>>

Fillers == 1..MaxFillers
NoFiller == 0

\* "left" is a storagefiller that has signalled chal and has yet to run its
\* deferred Unlock; "other" is any other user of the mutex.
Holders == {"free", "gen", "st", "left", "other"}

-----------------------------------------------------------------------------
(* task_GenerateFiller.                                                    *)

\* len(C_Filler) < configs.Num_Filler_Reserved
HasRoom == Len(queue) < Reserved

GenerateErrorIgnored ==
    /\ gen = "check"
    /\ HasRoom
    /\ gen' = "tag"
    /\ UNCHANGED <<genF, made, abandoned, queue, files, spacing, storing, workLock,
                   external>>

\* The loop's test, then GenerateFiller: a new file, named by its hash.  When
\* it fails the loop tests again.
GenerateFiller ==
    /\ gen = "check"
    /\ HasRoom
    /\ made < MaxFillers
    /\ made' = made + 1
    /\ genF' = made + 1
    /\ fillerFiles' = fillerFiles \cup {made + 1}
    /\ gen' = "tag"
    /\ UNCHANGED <<abandoned, queue, tagFiles, spacing, storing, workLock, external>>

\* RequestAndSaveTag: workLock.Lock().
TagLock ==
    /\ gen = "tag"
    /\ workLock = "free"
    /\ workLock' = "gen"
    /\ gen' = "tagging"
    /\ UNCHANGED <<genF, made, abandoned, queue, files, spacing, storing, external>>

(***************************************************************************)
(* RequestAndSaveTag returns, if the SGX service answers its request (the  *)
(* HTTP client has no timeout), through its deferred Unlock: the tag is    *)
(* saved; or an error (a refused request, the timeout, a malformed answer, *)
(* a failing write after which the tag file is removed); or it panics (a   *)
(* number of the answer that does not parse), before or after the tag is   *)
(* saved: the task ends and CoroutineMgr starts it again.                  *)
(***************************************************************************)
RequestAndSaveTag ==
    /\ gen = "tagging"
    /\ workLock' = "free"
    /\ \/ /\ gen' = "push"
          /\ tagFiles' = tagFiles \cup {genF}
          /\ UNCHANGED <<genF, abandoned>>
       \/ gen' = "discard" /\ UNCHANGED <<tagFiles, genF, abandoned>>
       \/ /\ gen' = "check"
          /\ genF' = NoFiller
          /\ abandoned' = abandoned \cup {genF}
          /\ tagFiles' \in {tagFiles, tagFiles \cup {genF}}
    /\ UNCHANGED <<made, queue, fillerFiles, spacing, storing, external>>

DiscardNothing ==
    /\ gen = "discard"
    /\ gen' = "check"
    /\ genF' = NoFiller
    /\ UNCHANGED <<made, abandoned, queue, files, spacing, storing, workLock,
                   external>>

DiscardThenPush ==
    /\ gen = "discard"
    /\ fillerFiles' = fillerFiles \ {genF}
    /\ gen' = "push"
    /\ UNCHANGED <<genF, made, abandoned, queue, tagFiles, spacing, storing,
                   workLock, external>>

\* The error branch: os.Remove(fillerpath); continue.
Discard ==
    /\ gen = "discard"
    /\ fillerFiles' = fillerFiles \ {genF}
    /\ gen' = "check"
    /\ genF' = NoFiller
    /\ UNCHANGED <<made, abandoned, queue, tagFiles, spacing, storing, workLock,
                   external>>

\* C_Filler <- fillerEle: blocks while the channel is full.
Push ==
    /\ gen = "push"
    /\ Len(queue) < Reserved
    /\ queue' = Append(queue, genF)
    /\ gen' = "check"
    /\ genF' = NoFiller
    /\ UNCHANGED <<made, abandoned, files, spacing, storing, workLock, external>>

-----------------------------------------------------------------------------
(* task_Space.                                                             *)

\* GetAllStorageMiner; on an error the task sleeps and asks again.
ListMiners ==
    /\ space = "list"
    /\ todo' \in (SUBSET Miners) \ {{}}
    /\ space' = "next"
    /\ UNCHANGED <<generator, queue, files, cur, storing, workLock, external>>

(***************************************************************************)
(* GetAllStorageMiner panics: the chain client has no connection, c.api is *)
(* nil.  The task ends and CoroutineMgr starts it again, with no filler in *)
(* hand: the one it had is forgotten, its files stay.                      *)
(***************************************************************************)
SpacePanic ==
    /\ space = "list"
    /\ abandoned' = abandoned \cup ({cur} \ {NoFiller})
    /\ cur' = NoFiller
    /\ UNCHANGED <<gen, genF, made, queue, files, space, todo, storing, workLock,
                   external>>

\* if len(fillers) == 0: <-C_Filler, which blocks while the channel is empty.
TakeFiller ==
    /\ space = "next"
    /\ todo # {}
    /\ cur = NoFiller
    /\ queue # <<>>
    /\ cur' = Head(queue)
    /\ queue' = Tail(queue)
    /\ UNCHANGED <<generator, files, space, todo, storing, workLock, external>>

\* go storagefiller(chal, n, allMinerPubkey[i], fillers); <-chal.  The order of
\* the miners is random.
StartStore(m) ==
    /\ space = "next"
    /\ m \in todo
    /\ cur # NoFiller
    /\ todo' = todo \ {m}
    /\ target' = m
    /\ st' = "start"
    /\ space' = "wait"
    /\ UNCHANGED <<generator, queue, files, cur, workLock, external>>

\* The for loop over the miners is done; the filler in hand is kept.
EndRound ==
    /\ space = "next"
    /\ todo = {}
    /\ space' = "list"
    /\ UNCHANGED <<generator, queue, files, todo, cur, storing, workLock,
                   external>>

-----------------------------------------------------------------------------
(* storagefiller.                                                          *)

\* ch <- result: task_Space receives it and drops the filler when it is true.
\* The goroutine ends; if it holds workLock it has still to unlock it.
Signal(result) ==
    /\ st' = "none"
    /\ target' = NoMiner
    /\ space' = "next"
    /\ cur' = IF result THEN NoFiller ELSE cur
    /\ workLock' = IF workLock = "st" THEN "left" ELSE workLock
    /\ UNCHANGED todo

\* Signing, the chain status, the miner's cached record: any of them can end
\* the attempt before workLock is taken.
Prepare ==
    /\ st = "start"
    /\ \/ Signal(FALSE)
       \/ st' = "lock" /\ UNCHANGED <<target, spacing, workLock>>
    /\ UNCHANGED <<generator, queue, files, external>>

\* workLock.Lock()
StoreLock ==
    /\ st = "lock"
    /\ workLock = "free"
    /\ workLock' = "st"
    /\ st' = "dial"
    /\ UNCHANGED <<generator, queue, files, spacing, target, external>>

DialFailsSilently ==
    /\ st = "dial"
    /\ \/ st' = "send" /\ UNCHANGED <<target, workLock>>
       \/ st' = "none" /\ target' = NoMiner /\ workLock' = "free"
    /\ UNCHANGED <<generator, queue, files, spacing, external>>

\* dialTcpServer
Dial ==
    /\ st = "dial"
    /\ \/ st' = "send" /\ UNCHANGED <<target, spacing, workLock>>
       \/ Signal(FALSE)
    /\ UNCHANGED <<generator, queue, files, external>>

\* The miner has both files; it may have them though the last answer was lost.
Received == held' = [held EXCEPT ![target] = @ \cup {cur}]
Readable == cur \in fillerFiles \cap tagFiles

SendIgnoresError ==
    /\ st = "send"
    /\ Received \/ UNCHANGED held
    /\ st' = "submit"
    /\ UNCHANGED <<target, spacing, workLock, generator, queue, files, pending,
                   metas>>

\* SendFile of the tag file and the filler file.  It has not to return: a write
\* to a miner that has stopped reading has no deadline.
SendFile ==
    /\ st = "send"
    /\ \/ /\ Readable
          /\ Received
          /\ st' = "submit"
          /\ UNCHANGED <<target, spacing, workLock>>
       \/ /\ (Readable /\ Received) \/ UNCHANGED held
          /\ Signal(FALSE)
    /\ UNCHANGED <<generator, queue, files, pending, metas>>

Meta == <<cur, target>>

(***************************************************************************)
(* SubmitFillerMeta returns a block hash, whatever the error beside it:    *)
(* the extrinsic is in a block, where it succeeded or failed.  The files   *)
(* are removed and task_Space is told the filler is stored.                *)
(***************************************************************************)
SubmitHash ==
    /\ st = "submit"
    /\ metas' \in {metas, metas \cup {Meta}}
    /\ fillerFiles' = fillerFiles \ {cur}
    /\ tagFiles' = tagFiles \ {cur}
    /\ Signal(TRUE)
    /\ UNCHANGED <<generator, queue, held, pending>>

\* SubmitFillerMeta returns no hash: the loop sleeps and submits again.  The
\* extrinsic may have been left in the pool (a timeout, a lost answer); when it
\* was not, nothing changes.
SubmitNoHash ==
    /\ st = "submit"
    /\ pending' = pending \cup {Meta}
    /\ UNCHANGED <<generator, queue, files, spacing, storing, workLock, held,
                   metas>>

\* The deferred workLock.Unlock() of a storagefiller that has signalled.
StoreUnlock ==
    /\ workLock = "left"
    /\ workLock' = "free"
    /\ UNCHANGED <<generator, queue, files, spacing, storing, external>>

(***************************************************************************)
(* A panic in storagefiller (the transfer's channels, a nil connection in  *)
(* the chain client) is recovered, and workLock is unlocked; but nothing   *)
(* is sent on chal.  A transfer or an extrinsic may have gone through.     *)
(***************************************************************************)
StorePanic ==
    /\ st \in {"send", "submit"}
    /\ st' = "panicked"
    /\ target' = NoMiner
    /\ workLock' = "free"
    /\ \/ UNCHANGED <<held, pending>>
       \/ st = "send" /\ Readable /\ Received /\ UNCHANGED pending
       \/ st = "submit" /\ pending' = pending \cup {Meta} /\ UNCHANGED held
    /\ UNCHANGED <<generator, queue, files, spacing, metas>>

-----------------------------------------------------------------------------
(* The surroundings.                                                       *)

\* The proofs' verification and the file backups take workLock too.  They have
\* not to give it back: both lose it when they panic (ProofValidation,
\* FileBackup), and a backup's tag request or transfer may not return.
OtherLock ==
    /\ workLock = "free"
    /\ workLock' = "other"
    /\ UNCHANGED <<generator, queue, files, spacing, storing, external>>

OtherUnlock ==
    /\ workLock = "other"
    /\ workLock' = "free"
    /\ UNCHANGED <<generator, queue, files, spacing, storing, external>>

\* External: an extrinsic left in the pool is executed, and succeeds or fails.
Land ==
    /\ \E x \in pending :
          /\ pending' = pending \ {x}
          /\ metas' \in {metas, metas \cup {x}}
    /\ UNCHANGED <<generator, queue, files, spacing, storing, workLock, held>>

\* The process stops anywhere and starts again: buildDir empties FillerDir, and
\* the channels and locks are new.
Restart ==
    /\ gen' = "check" /\ genF' = NoFiller /\ abandoned' = {}
    /\ queue' = <<>>
    /\ fillerFiles' = {} /\ tagFiles' = {}
    /\ space' = "list" /\ todo' = {} /\ cur' = NoFiller
    /\ st' = "none" /\ target' = NoMiner
    /\ workLock' = "free"
    /\ UNCHANGED <<made, external>>

-----------------------------------------------------------------------------
Init ==
    /\ gen = "check" /\ genF = NoFiller /\ made = 0 /\ abandoned = {}
    /\ queue = <<>>
    /\ fillerFiles = {} /\ tagFiles = {}
    /\ space = "list" /\ todo = {} /\ cur = NoFiller
    /\ st = "none" /\ target = NoMiner
    /\ workLock = "free"
    /\ held = [m \in Miners |-> {}]
    /\ pending = {}
    /\ metas = {}

Next ==
    \/ GenerateFiller \/ TagLock \/ RequestAndSaveTag \/ Discard \/ Push
    \/ ListMiners \/ SpacePanic \/ TakeFiller \/ EndRound
    \/ \E m \in Miners : StartStore(m)
    \/ Prepare \/ StoreLock \/ Dial \/ SendFile
    \/ SubmitHash \/ SubmitNoHash \/ StoreUnlock \/ StorePanic
    \/ OtherLock \/ OtherUnlock \/ Land \/ Restart

(***************************************************************************)
(* Goroutines run; sync.Mutex hands workLock over to the goroutine that    *)
(* has waited longest; a submission repeated for ever is included at last. *)
(* A tag request, a transfer and the other users of workLock have not to   *)
(* end, and the process is not obliged to restart.                         *)
(***************************************************************************)
Fairness ==
    /\ WF_vars(GenerateFiller \/ Discard \/ Push)
    /\ WF_vars(ListMiners \/ TakeFiller \/ EndRound \/ \E m \in Miners : StartStore(m))
    /\ WF_vars(Prepare \/ Dial)
    /\ WF_vars(StoreUnlock)
    /\ SF_vars(TagLock) /\ SF_vars(StoreLock)
    /\ SF_vars(SubmitHash)

Spec == Init /\ [][Next]_vars /\ Fairness

-----------------------------------------------------------------------------
(* Properties.                                                             *)

\* Every variable keeps its type.
TypeOK ==
    /\ gen \in {"check", "tag", "tagging", "discard", "push"}
    /\ genF \in Fillers \cup {NoFiller}
    /\ made \in 0..MaxFillers
    /\ abandoned \subseteq Fillers
    /\ queue \in Seq(Fillers)
    /\ fillerFiles \subseteq Fillers
    /\ tagFiles \subseteq Fillers
    /\ space \in {"list", "next", "wait"}
    /\ todo \subseteq Miners
    /\ cur \in Fillers \cup {NoFiller}
    /\ st \in {"none", "start", "lock", "dial", "send", "submit", "panicked"}
    /\ target \in Miners \cup {NoMiner}
    /\ workLock \in Holders
    /\ held \in [Miners -> SUBSET Fillers]
    /\ pending \subseteq Fillers \X Miners
    /\ metas \subseteq Fillers \X Miners

InQueue == {queue[i] : i \in 1..Len(queue)}

(***************************************************************************)
(* A filler is reported for one miner only, though a failed transfer sends *)
(* the same filler to the next miner, submissions are repeated, and those  *)
(* given up on may be executed at any later time.                          *)
(***************************************************************************)
OneMiner ==
    \A x, y \in pending \cup metas : x[1] = y[1] => x[2] = y[2]

\* The chain never credits a miner with a filler it has not received.
MetaImpliesHeld ==
    \A x \in pending \cup metas : x[1] \in held[x[2]]

\* What the miners and the chain see: see FillerLedger.
Ledger == INSTANCE FillerLedger

(***************************************************************************)
(* One filler is in hand at a time, for one miner at a time, and a failed  *)
(* transfer sends the same filler to the next miner.  The pipeline sends   *)
(* the fillers in order and never again once it has reported one, though   *)
(* the answers of transfers and submissions are lost, reports land late,   *)
(* storagefiller panics and the process is restarted in between.           *)
(***************************************************************************)
ImplementsLedger == Ledger!Spec

(***************************************************************************)
(* The paths that travel through C_Filler and the variable fillers name    *)
(* files that exist, and no filler is in two places: what is deleted by    *)
(* one task is not in the hands of another.  And the send on C_Filler      *)
(* never blocks, though the room was tested minutes before, when the work  *)
(* on the filler began.                                                    *)
(***************************************************************************)
QueueBacked ==
    /\ InQueue \cup ({cur} \ {NoFiller}) \subseteq fillerFiles \cap tagFiles
    /\ gen = "push" => genF \in fillerFiles \cap tagFiles /\ Len(queue) < Reserved
    /\ \A i, j \in 1..Len(queue) : queue[i] = queue[j] => i = j
    /\ cur \notin InQueue
    /\ genF # NoFiller => genF \notin InQueue \cup {cur}

(***************************************************************************)
(* No file is forgotten in FillerDir while the process runs: each belongs  *)
(* to the generator's filler, to the channel or to the filler in hand.     *)
(* Only a panic leaves files behind: in RequestAndSaveTag, those of its    *)
(* own filler; in task_Space, those of the filler in hand.                 *)
(***************************************************************************)
NoOrphan ==
    fillerFiles \cup tagFiles \subseteq InQueue \cup {cur, genF} \cup abandoned

\* How the generator and storagefiller use workLock: see Mutex.
WorkLock == INSTANCE Mutex WITH
    Users <- {"gen", "st", "other"},
    Careless <- {},
    state <- IF workLock = "free" THEN "free" ELSE "held",
    inside <- (IF gen = "tagging" THEN {"gen"} ELSE {})
                  \cup (IF st \in {"dial", "send", "submit"} \/ workLock = "left"
                        THEN {"st"} ELSE {})
                  \cup (IF workLock = "other" THEN {"other"} ELSE {})

(***************************************************************************)
(* storagefiller and RequestAndSaveTag unlock workLock through a deferred  *)
(* call: once, and also when they panic; the next storagefiller, started   *)
(* before the last one has unlocked, waits for it.                         *)
(***************************************************************************)
WorkLockKept == WorkLock!Spec

(***************************************************************************)
(* What the pipeline needs of its surroundings: no tag request and no      *)
(* transfer hangs for ever, and no other goroutine keeps workLock for ever *)
(* (by a panic that loses it, or by a call that hangs).                    *)
(***************************************************************************)
NothingHangs ==
    /\ []<>(gen # "tagging")
    /\ []<>(st # "send")
    /\ []<>(workLock # "other")

(***************************************************************************)
(* "task_Space is used to fill the miner space" (sub_space.go:36): it does *)
(* not wait for ever for the verdict of a storagefiller.                   *)
(***************************************************************************)
SpaceAdvances == NothingHangs => []<>(space # "wait")

(***************************************************************************)
(* Whatever the outcomes of the dials, the transfers and the submissions,  *)
(* storagefiller gives task_Space its verdict, unless it panics; as long   *)
(* as nothing it has to wait for hangs.                                    *)
(***************************************************************************)
VerdictUnlessPanic == NothingHangs => []<>(space # "wait" \/ st = "panicked")
=============================================================================
