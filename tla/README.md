# A TLA+ model of cess-scheduler

The scheduler of a CESS storage network (Go, `src/`) is one process that talks
to a chain over RPC, to storage miners and clients over TCP, and to an SGX
service over HTTP. It generates filler files and stores them on miners, backs up
uploaded files, and verifies the proofs of storage that miners put on the chain.

This directory specifies the parts of it that are hard to get right: what its
goroutines do when calls fail, time out or panic, when the process is restarted
between two steps, and when answers arrive late. Every definition is translated
from the source; `PROJECT.json` ("map") names the lines of each.

## The system and its parts

| Part | State it keeps | Operations | What makes it correct |
|---|---|---|---|
| Chain client, `pkg/chain` | the connection `c.api`, its status `c.chainState`, the mutex `c.lock`; on the chain: the account's nonce | `Register`, `Update`, `SubmitFileMeta`, `SubmitFillerMeta`, `SubmitProofResults`; the queries; `GetSyncStatus` | extrinsics exclude each other, nonces leave no gap, a block hash that is returned is of the block with one's own extrinsic, every call returns |
| Filler generation, `node/sub_filler.go` | filler files and tag files in `FillerDir`, the channel `C_Filler` | `task_GenerateFiller`, `GenerateFiller` | what is queued exists; nothing is forgotten; the send does not block |
| Space filling, `node/sub_space.go` | the filler in hand, the channel `chal` | `task_Space`, `storagefiller` | a filler is reported for one miner, which has it; the task goes on |
| Tags, `node/sub_filler.go`, `node/route.go` | `workLock`, the channel `Ch_Tag`, tag files | `RequestAndSaveTag`, the callback `GetTag`, `saveTagToFile` | a file gets its own tag; `workLock` is released |
| Signature key, `pkg/proof/keyGen.go` | the key in memory, its halves in the cache | `GetKey`, `SetKey` | a key in use survives a restart |
| File upload and backup, `node/handler.go` | the record of each file in the cache, chunks, tag files | `MsgHead`..`MsgEnd`, `FileBackupManagement`, `backupFile` | what is recorded is held; a record is active only if the chain was told so |
| Proof validation, `node/sub_verifyProofs.go`, `pkg/proof` | the round's list and results | `task_ValidateProof`, `verifyProof`, `submitProofResult`, `VerifyProof` | each proof of a round is judged once, rightly, in bounded batches |
| File transfer, `node/handler.go`, `node/transfer.go` | per connection: the channels `send`, `recv`, `waitNotify`, `stop` | `SendFile`, `sendSingleFile`, `handler`, `readMsg`, `sendMsg`, `Close` | success means stored in full; the transfer ends if the peer reads |
| Task manager, `node/sub_main.go` | five channels | `CoroutineMgr` starts a task that ended again | each task runs once and does not stay dead |
| Miner cache, `node/sub_minerCache.go` | a record per miner in the cache | `task_MinerCache` | the records follow the chain; the room they show is there |
| Startup, `cmd/console` | directories, the scheduler's registration | `runCmd`, `register`, `buildDir` | a running node is registered; a start loses no record of the cache (fillers and tags go at every start) |
| Balance watch, `node/sub_common.go` | none | `task_Common` | a node that cannot pay stops |
| Accept loop, `node/node.go` | the connections waiting | `Run`, `ConnectionFiltering` | who waits is accepted |
| Cache (LevelDB), configuration, logging, utilities, erasure coding, proof generation | | | |

The parts meet in three places. `workLock` is one mutex for the tag requests,
the storing of fillers, the sending of chunks and the verification of proofs, so
that whatever keeps it stops everything else. The chain client is shared by all
tasks. The connection code (`ConMgr`, `TcpCon`) is used in both directions.

What is hard: goroutines that die by a panic which somebody recovers, with a lock
held or a channel not sent to; extrinsics that are given up on and are executed
later; answers that carry no request's name; state read at the beginning of an
upload and trusted at its end; restarts, after which part of the state is on
disk, part in the cache, part on the chain and the rest gone. `PROJECT.json`
("hazards") lists these at their lines, with the properties about each.

## The modules

Every module is parameterised by constants with named assumptions, and has one
action per handler or program step between two calls that block, fail or are
seen by another goroutine. Program points are strings, named for what comes next.

**`ChainClient`** (with `MCChainClient`, `ChainClientProofs`), which implements **`Account`**. Goroutines
`Callers` call the methods of the chain client in any order. `HealthCheck`,
`Probe`, `Reconnect`, `Down` and `Up` are `IsChainClientOk` and `SetChainState`;
`Lock`, `ReadNonce`, `Submit`, `Resubmit`, `Watch`, `ReadEvents` are the body of an
extrinsic method; `Fetch` is the body of a query. `api` is nil or a connection, and
another goroutine can make it nil between any two steps, upon which a use of it
panics (`Panic`) and the deferred `Unlock` runs. The chain is external: a pool
(`pool`) accepts an extrinsic whose nonce is free, blocks take extrinsics in
nonce order (`ProduceBlock`), with success or not, next to events of others
(`Foreign`). `placed` is a history variable: how many extrinsics of a goroutine's
last call the pool has taken. `Account` is what the callers and the chain see of
all this: the account's extrinsics are a queue; a call puts one at its end or none,
whether or not it learns of it, and may return an error at any time; the chain
executes them from the front, also those of callers that have given up; a return
with a block hash is about the caller's own extrinsic, in its place, and without
an error only if the event its method looks for (`Sought`) is in that block. What
the method makes of the block is `ReadEvents`: any event of the kind counts, whoever
brought it; the events are decoded up to the first unknown one (the error is
dropped), so the right one may be missed; and `SubmitProofResults` looks for
another pallet's. `ERR_Failed` therefore says nothing of the extrinsic. The refinement
maps the chain, followed by what is ready in the pool, to `queue`, and the nonce of
the extrinsic a goroutine watches to `watched`.

**`FillerPipeline`** (`FillerPipelineProofs`), which implements **`FillerLedger`**. `GenerateFiller`, `TagLock`,
`RequestAndSaveTag`, `Discard`, `Push` are the loop of `task_GenerateFiller`;
`ListMiners`, `TakeFiller`, `StartStore`, `EndRound` that of `task_Space`; `Prepare`,
`StoreLock`, `Dial`, `SendFile`, `SubmitHash`, `SubmitNoHash`, `StoreUnlock`,
`StorePanic` are `storagefiller`. The value `"left"` of `workLock` is the time
between a goroutine's send on `chal` and its deferred `Unlock`. `"panicked"` is
the end of a `storagefiller` that has sent nothing; `SpacePanic` the end and the
restart of `task_Space`, which forgets the filler in its list. `"other"` is any of
the other users of `workLock`. `RequestAndSaveTag` and the
transfer appear with all the outcomes the modules below give them. `FillerLedger` is
what the miners and the chain see: fillers are made one after the other and reach
the miners in that order; one is reported for a miner that has it and for no other,
and is not sent once it is reported; a report is executed at any later time or
fails. The refinement keeps `made`, `held`, `pending` and `metas` and hides the rest.

**`TagService`**. Requesters in `RequestAndSaveTag` (`Lock` to `SetKey`), the
goroutines of the callback route (`CheckLen`, `Drain`, `PushTag` are the lines of
`GetTag` that touch `Ch_Tag`), the SGX (`Answer`, `GetTagDrops`). The key is two
halves, written one after the other to the cache (`PutE`, `PutN`), then read back
(`SetKey`). A failing `Put` is a step that changes nothing. The request itself (`GetTagReq`) has no timeout: it returns
when the SGX service answers it, which is the service's choice (`SgxTakes`). `late`
is a history variable: a request has been given up (a timeout, an error, a
restart) to which an answer may still come.

**`FileBackup`** (`FileBackupProofs`), which implements **`FileRecord`**. Several uploads
of one file, each ending in a backup job.
`Begin` to `Finish` are `FileBackupManagement` and `backupFile`. A chunk is its
number, its tag file is absent, partly written or complete. `workLock` has the
value `Lost` when a recovered panic of `SendFile` left it locked. `FileRecord` is what
clients, who read the record in the cache, and the chain are told: lists of miners
that have the chunks, complete ones at the submission, "active" only when the chain
says so, or when `SubmitFileMeta` took another extrinsic's event for its own
(`misled`, a history variable). The refinement maps the record to `record` and the extrinsics on their way
to `proposed`.

**`Mutex`** is the discipline of a `sync.Mutex`: one user at a time is between `Lock`
and `Unlock`, unlocks once and only then, and only a panic without a deferred
`Unlock` (of a user in `Careless`) leaves it locked. The four modules that take
`workLock` implement it (`WorkLockKept`), each with the program points at which it has
the lock as `inside`, and so does `ChainClient` with `c.lock` (`LockKept`). In
`FileBackup` and `ProofValidation` the users are careless, in the others not.

**`ProofValidation`** (`ProofValidationProofs`), which implements **`ProofAudit`**. `GetKey` to
`SubmitNoHash` are the loop of `task_ValidateProof`; `TaskPanic` and
`CoroutineMgr` its end and its restart; `VerifyCrash` the panic of a goroutine of
`VerifyProof`, which nothing recovers. A proof is of one of six kinds, which are
the paths `verifyProof` can take. `ProofAudit` is what the chain should see:
challenged proofs, verdicts in bounded batches, each the deserved one. The
refinement maps the chain's list to `open` and a kind to the verdict it deserves.

**`MinerCache`** and **`Node`** (with `MCNode`, `NodeProofs`). `MinerCache` is the
body of `task_MinerCache`: `List`, then for each miner `FetchOk` or `FetchErr`,
`SaveOk` or `SaveErr`, and `EndRound`, while the chain moves between any two of
them (`ChainMoves`). `Free` is the absolute value of power less space, cut to the
`Modulus` of a uint64. `settled` is a history variable: the miners of the round
whose details have stayed and whose calls have succeeded. `Node` extends it to the
life of the process: `Launch` to `Run` are `runCmd`, `buildChain`, `register`,
`buildDir` and `buildCache`, each of which goes on or ends the process; `Panic`,
`Send` and `CoroutineMgr` are the end and the restart of a task; `BalanceLow` is
`task_Common`; `Stop` kills the process anywhere. The extrinsic of `Register` may
be executed after its sender has given up (`Land`), so that the chain's list, the
registration and the removal of the base directory interleave with it. `misled`
is a history variable: another scheduler's event was taken for one's own.

**`UploadServer`** (`UploadServerProofs`). What `FileBackup` takes for one step, the
receiving of a chunk, block by block: the accept loop (`Connect`, `Accept`,
`ConnectionFiltering`), the handler of each connection (`MsgHead`, `MsgFile`,
`MsgEnd`, `OtherHead`, `HangUp`), the end of the file's last chunk, which starts the
job on whatever is there of this one (`StartJob`), and the job that reads the chunk
from disk (`Stat` to `SendErr`). Connections and job share one file, which
`MsgHead` truncates: a block is written where its connection has got to (`WriteAt`),
leaving a hole if the file has become shorter. `chunk` says whether the last
`MsgHead` has been followed by an accepted `MsgEnd`. `torn` is a history variable: the
chunk was truncated while somebody else wrote it or a job used it, or a job was
started on a part of it; a new upload from the start, alone, makes good for it. The
name of the chunk, which the client chooses, makes a block id or not (`fits`); in
the latter case the chunk goes to one miner after the other and is recorded with
none (`SendUnnamed`). Of `workLock` only its loss is followed (`lost`): `SendPanic` and
`Hang` are the job's own, `LockLost` that of others.

**`Transfer`** (with `TransferProofs`). Both ends of a connection, with the
goroutines `sendMsg` (writer), `readMsg` (reader) and `handler` of each, the sender
(`SendFile`), the channels between them with their capacities, and a network that
delivers in order until `Reset`. Sending on a closed channel panics, receiving from
one yields nothing; `Close` waits, then closes the channels. Sleeps are left out: any
goroutine may be slow, and timers may fire whenever they are set. The network holds
`NetCap` messages of a direction: when the peer reads no more, `WriteMsg` blocks,
the channel fills, and `SendMsg` blocks. The last `MsgEnd` may come with or without
the size of the file (`SizeForms`): the end message that this repository's sender
builds is without, upon which the handler panics and no backup starts
(`StartBackup`); a client's may be with it. It implements
**`FileTransfer`**, which is what the two callers at the ends see: files are offered
one after the other, each when the receiver has the earlier ones, and received in
that order; the backup starts with the last one; the sender is told "ok" only with
all of them there, and may be told "err" at any time. The refinement maps what is
stored in full to `received` (`InFull`), the file `SendFile` is at to `offered`, and
its state to `outcome`.

How they fit together: `Transfer` justifies what `FileBackup` and `FillerPipeline`
take a transfer for (success means received, an error means anything, a panic is
possible: `SenderPanics` is reached). `ChainClient`, with what it promises in
`Account`, justifies what they take an extrinsic for (a hash, an error, a late
execution, a panic on a nil `c.api`, and success on another's event, which
`ChainClient` shows for every method and which `FileBackup` and `Node` follow).
`TagService` justifies `RequestAndSaveTag`: it returns and unlocks once the SGX
service has answered the request itself; if that hangs, `workLock` stays locked,
which the liveness properties of the other modules have in their premises.
`UploadServer` says when a chunk may be taken, as `FileBackup` takes it, for
whole and unchanging: as long as it is not `torn`. `MinerCache` says what the
records are worth by which `backupFile` and `storagefiller` choose miners; since
they may be old, `Pick` may choose any miner. `Node` says when the tasks of the
other modules run: its `CoroutineMgr` is the restart that `FillerPipeline` and
`ProofValidation` have for their own tasks, its `Stop` their restart of the process.

## The runs

| Run | What it shows |
|---|---|
| `chain_client` | The client implements `Account` (`ImplementsAccount`): whatever answers are lost, a call places one extrinsic at most, and a block hash it returns is of the block with that one; the pool has no gap and no duplicate (`PoolReady`), `c.lock` is used as a mutex (`LockKept`). |
| `chain_client_live` | Every method returns (`CallReturns`); an extrinsic in the pool is executed (`Lands`). The kinds are `register`, `update` and `file`. |
| `chain_client_own` | Violated: success is reported on another account's event (`SuccessIsOwn`). |
| `filler_pipeline` | The pipeline implements `FillerLedger` (`ImplementsLedger`): no filler is stored twice or claimed without being held; none is queued without its files (`QueueBacked`) or forgotten but by a panic (`NoOrphan`), and `storagefiller` gives its verdict if it does not panic and nothing it waits for hangs (`VerdictUnlessPanic`). |
| `filler_pipeline_panic` | Violated: `task_Space` waits for ever for a `storagefiller` that panicked (`SpaceAdvances`). |
| `tag_service` | A file gets its own tag while no answer can be late (`TagMatchesUnlessLate`), the key in use is in the cache (`KeySurvives`), `workLock` is released if the requests themselves return (`LockReleased`). |
| `file_backup` | The backup implements `FileRecord` (`ImplementsRecord`): what is recorded is held, active is true unless a success was misread; no half tag is sent (`NoHalfTag`), `workLock` is used as a mutex (`WorkLockKept`), waits for it end if nothing hangs and no panic lost it (`LockGranted`). |
| `proof_validation` | Each proof of a round is submitted once (`RoundCovered`), the chain sees an audit (`ImplementsAudit`), `workLock` is used as a mutex (`WorkLockKept`), and a listed proof gets its verdict if no panic and no other user keeps `workLock` (`VerifiedUnlessLost`). |
| `proof_validation_panic` | Violated: a panic under `workLock` stops the verification for good (`EachProofVerified`). |
| `transfer` | The two ends implement `FileTransfer` (`ImplementsFileTransfer`): success means stored in full, a backup that starts has all files; one answer at most is on its way, and the request it answers is waiting (`AnswersFit`); `SendFile` ends if the peer reads, and the receiver's `Start` unless `recv` is left full (`TransferEnds`). |
| `node` | Each task runs once (`OneInstance`), a running node is registered unless misled (`RunsRegistered`), a start loses no record of the cache (`NothingLost`), a node whose balance is too low stops (`PoorStops`); a round leaves right records (`RoundFaithful`), and they converge to the chain (`CacheConverges`). |
| `upload_server` | What a backup stores is the whole chunk unless it was torn (`StoredWhole`), who waits is accepted unless a silent client holds the loop (`Accepted`), a job ends unless its chunk was left empty, its name makes no block id or `workLock` is lost (`JobEnds`). |

Every passing run but `chain_client_live`, whose module `chain_client` checks, has the
module's `TypeOK` besides. Deadlock checking is off
where the system may stop: all uploads done (`FileBackup`), no proof to come
(`ProofValidation`), both ends closed (`Transfer`).

### Bounds

- `ChainClient`: two goroutines, so that one can take the connection away from the
  other and queue behind it; `MaxResubmit` 2 (20 in the code) gives a first try, one
  resubmission and giving up; `MaxTx` stops new extrinsics once that many are in
  the pool or executed. With 2, three nonces are in play: the account's next, the
  one a resubmission takes, and a third that must never be needed.
- `FillerPipeline`: two miners, three fillers, a channel of two (5): it fills up,
  a filler goes from one miner to the next, and a third is made meanwhile.
- `TagService`: two requesters, two files, two callback goroutines: one drains
  what the other put.
- `FileBackup`: two jobs, two miners, two chunks, `MaxTry` 2 (4): a retry after a
  submission that may still land, then giving up.
- `ProofValidation`: two proofs of any two of the six kinds, `MaxResults` 1, so
  that a round has a batch submitted under `workLock` and one after it; `MaxTry` 2 (3).
- `Transfer`: two files (a file and its tag), one `MsgFile` each, a `send` channel of
  one, a `recv` channel of one (10 and 10) and a network of one message: all fill
  up. Both forms of the last end message.
- `Node`: two miners, so that one is visited while the other changes; four details
  a miner may have (absent, not in service, roomy, and with more space than
  power); `Modulus` 4, `ChunkSize` 1: the absolute value matters, and the theorem
  covers every width; one extrinsic of `Register` left in the pool (`MaxPending`);
  two tasks, since the restarts of the others are theirs. The
  balance is enough or too low. An account the chain has removed (`"none"`) is in
  the module and in its theorems, and out of the run, which it would make half as
  large again: it is refused at the start like a low balance, and later it changes
  nothing, since `task_Common` ignores the error.
- `UploadServer`: two clients, one of which truncates what the other has written,
  and two blocks, so that a chunk can have a hole before its last block; one job
  at a time (`StartJob`).

The theorems below lift these bounds for the modules that have proofs.

### Fairness

Weak fairness of the steps of each goroutine: Go's scheduler runs every runnable
goroutine, RPCs and dials return or time out, timers fire. Not so the calls that
have no time limit: the request of a tag (an `http.Client` without a timeout), the
writing of a message (no deadline), and whatever another user does with `workLock`,
since `backupFile` and `task_ValidateProof` can lose it by a panic. These steps have
no fairness at all; the liveness properties that need them say so in a named
premise: `NothingHangs` (in `FillerPipeline`, `FileBackup`, `ProofValidation`),
`RequestsReturn` (`TagService`), `PeerReads` (`Transfer`), and the `lost` of
`UploadServer`'s `JobEnds`. Without them the properties do not hold of the code.

Strong fairness of taking a mutex: `sync.Mutex` hands itself over to the goroutine
that has waited longest after a millisecond (starvation mode), so a waiter that
finds it free again and again gets it. Strong fairness of a success where the
code repeats an extrinsic or a query for ever (`SubmitHash`; `SubmitOk` and
`GetProofs` in `ProofValidation`): the chain answers at last. Blocks are produced.
In the same way the RPCs and cache writes of `task_MinerCache` and the balance query
of `task_Common`, repeated round after round, succeed at last for each miner
(`FetchOk`, `SaveOk`) and for an account that is there (`BalanceLow`), and in
`UploadServer` a tag or a transfer that is tried for ever succeeds at last (`TagOk`,
`Open`, `Read`, `SendOk`); a waiting connection is accepted if the loop comes to
`AcceptTCP` again and again, since the kernel's queue is first in, first out. No
client is obliged to anything. No start of the process, panic, failure, restart,
late answer or new request is ever required to happen. `VerifiedUnlessLost` and
`EachProofVerified` are claimed of behaviours in which the process is not restarted
for ever.

## What is proved

`ChainClientProofs`, for any set of goroutines and any bounds:
`TypeCorrect`; `LockCorrect` (`TxExclusive`, inductive with the types, and left to
the proof alone); `OnceCorrect` (`AtMostOnce`), by `OnceInv`: up to its first
submission a call has placed nothing, and in the loop either still nothing or its
one nonce is taken (`Taken`), which it stays (`TakenStays`), so that every later
round is refused;
`PoolCorrect` (`PoolReady`), for which `NonceFresh` is added: a method submits a
nonce it has read from the chain, and comes to the resubmission only after that
nonce was refused as occupied, so the next one leaves no gap; `ReportCorrect`
(`ReportHonest`: a hash is of the block of one's own extrinsic, and no error means
an event of the sort there, no more), for which `Tracked` follows an extrinsic from
the pool to its block; `AccountCorrect` (`ImplementsAccount`), from all of these, action by action: what the
pool accepts goes to the end of the queue (`QueueGrows`, from `PoolReady` before and
after: no gap below it, nothing above), a block leaves the queue as it is
(`QueueStays`), and the placing steps find `placed` zero by `OnceInv`.

`FillerPipelineProofs`, for any miners, capacity and number of fillers, panics
and restarts included: `TypeCorrect`, `QueueCorrect` (`QueueBacked`) and
`NothingForgotten` (`NoOrphan`), by the invariant `Places`: each filler in somebody's
hands is in one place, where its files exist, and the room the generator found is
still there, since only it sends; `OneMinerCorrect` and `MetaCorrect` (`OneMiner`,
`MetaImpliesHeld`), by `Reports`: a filler is reported only for the miner it was sent
to, and from then on it stays in hand until it is dropped, or a panic leaves
`task_Space` waiting, so no other miner gets it; `LedgerCorrect` (`ImplementsLedger`),
for which `Ordered` is added: the channel holds fillers in the order in which they
were made, all of them later than the one in hand, and that one is the latest any
miner has seen (`InHand`). With a lost answer the filler in hand is sent again, to
another miner, which the ledger allows as long as nobody has reported it.

`TagServiceProofs`, for any requesters, files and callback goroutines, with
failing writes, late answers and restarts: `TypeCorrect`; `KeyCorrect`
(`KeySurvives`): a key in memory was read from the cache, which never loses a half;
`TagCorrect` (`TagMatchesUnlessLate`), by `Holding` (who is between `Lock` and `Unlock`
holds `workLock`, so one requester waits at most) and `Punctual`: until a request is
given up, one answer at most is due, with the SGX, in a goroutine of the route or
in `Ch_Tag`, and it is the one for which the holder of `workLock` waits.

`WorkLockCorrect`, in the modules of the four users of `workLock`, and
`ClientLockCorrect` in `ChainClientProofs`: each implements `Mutex`. The invariant
says that the lock is held exactly where the program has it (`HoldersInside`,
`HolderInside` with `Holding`, `LockHeld`, `LockRight`, `TxExclusive`); a step then
takes a free lock, or gives up one it has, or leaves it alone.

`FileBackupProofs`, for any number of jobs, miners, chunks and tries, with panics,
late extrinsics and restarts: `TypeCorrect`, with `MayBeAt`: a job at a chunk has
chunks left and one at the submission has none; `RecordCorrect` (`RecordedHeld`), by
`InfoHeld`: a miner joins a job's list only through `SendFile`'s success, a miner
loses nothing (`HeldGrows`), and what is put, submitted or executed is a job's
list; `ActiveCorrect` (`ActiveIsTrue`: an active record is true, or its job has
misread another's event), by `KnowsActive`; `FileRecordCorrect`
(`ImplementsRecord`), from these invariants, action by action: the transfers are
steps `Receive`, what a job puts is `Show` or `Confirm`, a submission `Submit`
(also when it is the last and the record fails with it), its late execution `Land`,
and everything else stutters (`UnseenStep`); `TagCorrect` (`NoHalfTag`), by
`LockHeld` and `PartialWritten`: who sends and who writes a tag both hold
`workLock`, and a half-written tag has its writer.

`TransferProofs`, for any number of files and of messages per file and any capacity
of the channels, with refusals, timeouts and resets: `TypeCorrect`, `SuccessCorrect`
(`SuccessMeansStored`), `BackupCorrect` (`BackupHasAll`, of the backup that a last end
message with a size starts; one without starts none: `BackupStarts`). A direction is reduced to
how many of each message are on their way (`flow`): every step of a goroutine that
passes messages on keeps these numbers or makes them smaller (`Keeps`), so only the
sender and the two handlers matter. Their invariant is `Protocol`: only messages
about the current file are on their way (`AboutCurrent`); one request or answer at
most is due, counting the one in `waitNotify` (`OneDue`), so an answer that carries
no name belongs to the request that waits; what is stored and what is in flight
are together no more than was sent (`Amounts`), so a size that matches means that
nothing is in flight; and a favourable answer to `MsgEnd` means that the file is
complete (`Answered`), which nothing undoes (`Completed`). `TransferCorrect`
(`ImplementsFileTransfer`) follows from the same invariant and the two theorems
before it, action by action: what is stored in full is a prefix of the list
(`InFullIs`), so a message that is stored is a step `Receive` if it completes its
file and a stutter otherwise (`AcceptStep`); the steps of `SendFile` are `Offer`,
`Succeed` and `Fail`; the steps of the other goroutines stutter (`UnseenStep`).
`AnswersCorrect` (`AnswersFit`), by `Lone`: one answer at most is coming, the
receiver's handler has sent none but favourable ones while it runs, and none is
coming while a `MsgFile` is on its way.

`ProofValidationProofs`, for any set of proofs of any kinds, any batch size and any
number of tries: `TypeCorrect`; `RoundCorrect` (`RoundCovered`), by `Progress`: what
was sent and what is gathered are, place by place, the list as far as it is
verified; `AuditCorrect` (`ImplementsAudit`), by `BatchesRight`: the results
gathered and those in the pool are what `verifyProof` says of their proofs, in
batches that are not too large. `ExecuteJudges` shows that the execution of such a
batch is a step `Judged` of `ProofAudit` on the proofs still listed, however
often and however late it happens.

`NodeProofs`, for any miners, details, width, chunk size and number of extrinsics
in the pool: `TypeCorrect`; `OneCorrect` (`OneInstance`); `RegisteredCorrect` and
`LossCorrect` (`RunsRegistered`, `NothingLost`), by `Registration`: past the look at
the list the scheduler is registered, and a cache that holds something was made
by a run that was, so the base directory is removed only while it holds nothing;
`RoundCorrect` (`RoundFaithful`), by `Round`: the settled miners already visited are
recorded, and the one in hand has the details of the chain.

`UploadServerProofs`, for any clients and blocks: `TypeCorrect`, which includes that
the chunk never grows beyond its size; `StoredCorrect` (`StoredWhole`), by `Intact`:
unless the chunk is torn, one connection or the job has it at a time, what a
connection has written is what is on disk, what `MsgEnd` has accepted is whole, and
a job was started on such a chunk and has seen nothing else. `FreshUpload` shows that
an upload from the start restores this.

Not in the properties of a run, and proved only: `AtMostOnce`, `ReportHonest`,
`OneMiner`, `MetaImpliesHeld`, `RecordedHeld`, `ActiveIsTrue`, `SuccessMeansStored`,
`BackupHasAll`, which the refinements checked in the runs entail; `TxExclusive` of
`ChainClient`, on which `LockKept` rests; and `WorkLockKept` of `FillerPipeline` and
`TagService`, which the two runs that have it check for the careless users.

The theorems rest on the assumptions the modules state of their constants, and
on no others.

Only model-checked: the liveness properties (they rest on fairness, which the
prover does not treat).

## Findings

Three disagreements between the code and what it says of itself have a run that
shows them: success taken from another's event, `task_Space` waiting for a
goroutine that is gone, and the verification of proofs stopped by a panic under
`workLock`. `PROJECT.json` ("findings") quotes the lines. Others appear as the
exceptions and premises of the properties that hold:

- `ERR_Failed` is returned for an extrinsic that succeeded, when the block's events
  are decoded in part, and of `SubmitProofResults`, which looks for another pallet's
  event (`ReportHonest` claims nothing of `ERR_Failed`; `Account` neither);
- a node whose account the chain has removed goes on running (`PoorStops` is of a
  low balance only);
- a late tag is another file's (`TagMatchesUnlessLate`), and a tag request without an
  answer keeps `workLock` (`RequestsReturn`, `NothingHangs`), as does a peer that stops
  reading (`PeerReads`);
- a panic of `task_Space` or of a tag request leaves a filler behind (`NoOrphan`);
- a record says active after another's event (`ActiveIsTrue`, `misread` in `FileRecord`);
- a chunk truncated under a backup is stored with holes or a wrong tag, and one cut
  short is stored as it is when the last chunk's mark comes (`StoredWhole`);
- an emptied chunk, or one whose name makes no block id, keeps its job going for ever,
  and a panic in `SendFile` all jobs (`JobEnds`, `LockGranted`);
- with this repository's sender at the other end no backup starts (`StartBackup`),
  and a receiver's `Start` may be left behind (`StartEnds`);
- a silent client keeps the accept loop (`Accepted`), a miner with more space than
  power looks roomy (`RoundFaithful`), and a scheduler may run on another's
  registration (`RunsRegistered`).

## What is not modelled, and why

- The arithmetic of PoDR2 and of the tags: a proof is good or bad, a tag is the
  tag of a file. The keys, addresses and encodings of extrinsics: fixed values
  and pure functions.
- The contents of files, but for the blocks of one chunk in `UploadServer`.
- `MsgFileSt` and `MsgVersion` (a query and its answer) and the buffer pools in
  `Transfer`.
- Two goroutines in `SetKey` at once, each writing the key's two numbers: `GetKey`
  tests the one that is written last.
- Erasure coding and proof generation: not called by the node.
- LevelDB: a `Put` is atomic, may fail, and survives a restart.
- The command `update`, which sends one extrinsic (`ChainClient`'s `Update`), and
  `default`, which writes a template.
- The record of an ip address in the cache, and the blacklist: written and not read.
- Logging, configuration files and the parsing of the command line.

## Plan

1. (done) `ChainClient`, `FillerPipeline`, `TagService`, `FileBackup`,
   `ProofAudit`, `ProofValidation`, `Transfer`, `MinerCache`, `Node`, `UploadServer`, and
   the proofs above.
2. (done) The abstract specifications `Account`, `FileTransfer`, `FillerLedger`,
   `FileRecord` and `Mutex`, and that the modules implement them.
3. `CalcFileBlockSizeAndScanSize` as an operator against its definition; `SetKey` with
   the key's two words; `MsgFileSt` in `Transfer`.
