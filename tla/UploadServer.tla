---------------------------- MODULE UploadServer ----------------------------
(***************************************************************************)
(* The server side of an upload: the accept loop (Run in node/node.go),    *)
(* the handler of each connection (MsgHead, MsgFile and MsgEnd in          *)
(* node/handler.go), and what the backup job started at the end of an      *)
(* upload reads from disk.  Where FileBackup takes a chunk for received in *)
(* full, here its blocks are followed, because connections and jobs share  *)
(* the chunk's file and nothing keeps them apart.                          *)
(*                                                                         *)
(* The module follows one chunk, of NBlocks blocks, which any of the       *)
(* clients may upload, each with the same contents, since the name of a    *)
(* chunk is its hash.  It need not be the last chunk of its file: the job  *)
(* starts with the last one, whether or not this one is received by then.  *)
(*                                                                         *)
(* External: the clients, who may stop at any point, leave a chunk for     *)
(* another or send its end too early; the SGX service, which reads the     *)
(* file for its tag; the miners; the file's state on the chain; the other  *)
(* users of workLock, of whom only that one may never unlock it is seen.   *)
(***************************************************************************)
EXTENDS Integers, Sequences

CONSTANTS
    Clients,
    NBlocks

ASSUME NBlocksAssumption == NBlocks \in Nat \ {0}

VARIABLES
    conn,        \* each client's connection
    off,         \* the blocks written through it since its MsgHead
    file,        \* the chunk on disk
    chunk,       \* "absent" from the disk; "part", as its last MsgHead is not
                 \* followed by an accepted MsgEnd yet; or "received"
    fits,        \* its name, which the client has chosen, makes a blockId:
                 \* it is of 68 bytes, with a ".000" or more added
    tag,         \* what the chunk's tag file was computed from, or NoTag
    job,         \* the program point of the backup job
    size,        \* the size of the chunk, as backupFile read it (BlockSize)
    announced,   \* the size sendSingleFile read and will announce
    got,         \* external: what the miner has received
    active,      \* external: the file is active on the chain
    lost,        \* workLock is locked for good
    torn         \* history: the chunk, or its tag, is of the time after a
                 \* truncation in the middle of an upload or of a job, or
                 \* after the start of a job on a part of the chunk

uploads == <<conn, off>>
disk == <<file, chunk, fits>>
backups == <<job, size, announced, got>>
vars == <<uploads, disk, tag, backups, active, lost, torn>>

Block == {"data", "hole"}
Whole == [b \in 1..NBlocks |-> "data"]

NoTag == <<"none">>

Close(c) == conn' = [conn EXCEPT ![c] = "out"] /\ off' = [off EXCEPT ![c] = 0]

-----------------------------------------------------------------------------
(* The accept loop.                                                        *)

Connect(c) ==
    /\ conn[c] = "out"
    /\ conn' = [conn EXCEPT ![c] = "queued"]
    /\ UNCHANGED <<off, disk, tag, backups, active, lost, torn>>

\* A mutated form: the handler is called without "go".
LoopFreeAlone == \A d \in Clients : conn[d] \in {"out", "queued"}

\* The loop is at AcceptTCP.
LoopFree == \A d \in Clients : conn[d] # "filter"

\* AcceptTCP; the connection is closed if the chain's status is false.
Accept(c) ==
    /\ conn[c] = "queued"
    /\ LoopFree
    /\ \E next \in {"filter", "out"} : conn' = [conn EXCEPT ![c] = next]
    /\ UNCHANGED <<off, disk, tag, backups, active, lost, torn>>

(***************************************************************************)
(* ConnectionFiltering reads the first bytes of the connection, in the     *)
(* loop itself and without a deadline: it returns when the client sends    *)
(* them or closes.                                                         *)
(***************************************************************************)
ConnectionFiltering(c) ==
    /\ conn[c] = "filter"
    /\ \E next \in {"open", "out"} : conn' = [conn EXCEPT ![c] = next]
    /\ UNCHANGED <<off, disk, tag, backups, active, lost, torn>>

-----------------------------------------------------------------------------
(* The handler of a connection.                                            *)

Working == job # "none"

\* Somebody else than c is at work with the chunk.
InUse(c) == Working \/ \E d \in Clients \ {c} : conn[d] = "upload"

\* MsgHead: refused if the file is active; else the chunk is opened with
\* O_TRUNC, whoever uses it.
MsgHead(c) ==
    /\ conn[c] \in {"open", "upload"}
    /\ IF active
       THEN Close(c) /\ UNCHANGED <<file, chunk, torn>>
       ELSE /\ conn' = [conn EXCEPT ![c] = "upload"]
            /\ off' = [off EXCEPT ![c] = 0]
            /\ file' = <<>>
            /\ chunk' = "part"
            /\ torn' = (InUse(c) \/ (torn /\ tag # NoTag))
    /\ UNCHANGED <<fits, tag, backups, active, lost>>

\* A mutated form: O_APPEND.
AppendTo(s, k, v) == Append(s, v)

\* A write at an offset; beyond the end it leaves a hole.
WriteAt(s, k, v) ==
    [b \in 1..(IF k > Len(s) THEN k ELSE Len(s)) |->
        IF b = k THEN v ELSE IF b <= Len(s) THEN s[b] ELSE "hole"]

\* MsgFile: the block is written where this connection's file is.
MsgFile(c) ==
    /\ conn[c] = "upload"
    /\ off[c] < NBlocks
    /\ file' = WriteAt(file, off[c] + 1, "data")
    /\ off' = [off EXCEPT ![c] = @ + 1]
    /\ UNCHANGED <<conn, chunk, fits, tag, backups, active, lost, torn>>

\* A mutated form.
SizeUnchecked(s) == TRUE

SizeRight(s) == Len(s) = NBlocks

\* The connection's handler is done with this chunk and reads on.
Leave(c) == conn' = [conn EXCEPT ![c] = "open"] /\ off' = [off EXCEPT ![c] = 0]

\* MsgEnd: the size on disk is compared with the announced one.
MsgEnd(c) ==
    /\ conn[c] = "upload"
    /\ \/ SizeRight(file) /\ Leave(c) /\ chunk' = "received"
       \/ ~SizeRight(file) /\ Close(c) /\ UNCHANGED chunk
    /\ UNCHANGED <<file, fits, tag, backups, active, lost, torn>>

\* MsgHead of another chunk: fs is another file from now on.
OtherHead(c) ==
    /\ conn[c] = "upload"
    /\ Leave(c)
    /\ UNCHANGED <<disk, tag, backups, active, lost, torn>>

\* The client is gone, or the handler returns with an error or by a panic.
HangUp(c) ==
    /\ conn[c] \in {"open", "upload"}
    /\ Close(c)
    /\ UNCHANGED <<disk, tag, backups, active, lost, torn>>

(***************************************************************************)
(* MsgEnd with LastMark, of this chunk or of another one of the file, by   *)
(* any connection: go FileBackupManagement, with the chunks that a Glob    *)
(* finds on disk, whole or not.  Bound: one job at a time.                 *)
(***************************************************************************)
StartJob(c) ==
    /\ conn[c] = "open"
    /\ ~Working
    /\ chunk # "absent"
    /\ job' = "stat"
    /\ torn' = (torn \/ chunk = "part")
    /\ UNCHANGED <<uploads, disk, tag, size, announced, got, active, lost>>

-----------------------------------------------------------------------------
(* The job: FileBackupManagement and backupFile for this chunk.            *)

\* The locals of a call that is over.
Forget == size' = 0 /\ announced' = 0 /\ got' = <<>>

\* backupFile returns without a miner, and FileBackupManagement calls it again.
Again == job' = "stat" /\ Forget

\* backupFile goes on with the next miner, or there is none.
NextMiner ==
    \/ job' = "open" /\ announced' = 0 /\ got' = <<>> /\ UNCHANGED size
    \/ Again

(***************************************************************************)
(* os.Stat.  An empty chunk has blocks of size zero: the division panics,  *)
(* which is recovered, and backupFile is called again at once, so that the *)
(* job stays where it is until the chunk has a block again.                *)
(***************************************************************************)
Stat ==
    /\ job = "stat"
    /\ Len(file) > 0
    /\ size' = Len(file)
    /\ job' = "tag"
    /\ UNCHANGED <<uploads, disk, tag, announced, got, active, lost, torn>>

\* There is a tag file.
TagThere ==
    /\ job = "tag"
    /\ tag # NoTag
    /\ job' = "open"
    /\ UNCHANGED <<uploads, disk, tag, size, announced, got, active, lost, torn>>

\* RequestAndSaveTag, under workLock.
TagOk ==
    /\ job = "tag"
    /\ tag = NoTag
    /\ ~lost
    /\ tag' = file
    /\ job' = "open"
    /\ UNCHANGED <<uploads, disk, size, announced, got, active, lost, torn>>

TagErr ==
    /\ job = "tag"
    /\ tag = NoTag
    /\ ~lost
    /\ Again
    /\ UNCHANGED <<uploads, disk, tag, active, lost, torn>>

\* A miner with room is found and, under workLock, dialled; sendSingleFile
\* opens the chunk and reads its size.
Open ==
    /\ job = "open"
    /\ ~lost
    /\ announced' = Len(file)
    /\ got' = <<>>
    /\ job' = "read"
    /\ UNCHANGED <<uploads, disk, tag, size, active, lost, torn>>

\* There is no such miner (any more), or the dial fails: a nil connection is
\* closed, and the panic recovered.
OpenErr ==
    /\ job = "open"
    /\ Again
    /\ UNCHANGED <<uploads, disk, tag, active, lost, torn>>

AtEnd == Len(got) >= Len(file)

\* sendSingleFile reads and sends a block.
Read ==
    /\ job = "read"
    /\ ~AtEnd
    /\ got' = Append(got, file[Len(got) + 1])
    /\ UNCHANGED <<uploads, disk, tag, job, size, announced, active, lost, torn>>

\* MsgEnd at the miner, which compares the sizes: SendFile returns no error.
Sent == job = "read" /\ AtEnd /\ Len(got) = announced

\* The chunk is recorded as stored, with size and tag, and the file may become
\* active.
SendOk ==
    /\ Sent
    /\ fits
    /\ job' = "none"
    /\ Forget
    /\ active' \in {active, TRUE}
    /\ UNCHANGED <<uploads, disk, tag, lost, torn>>

\* The name makes no blockId: on to the next miner, with nothing recorded.
SendUnnamed ==
    /\ Sent
    /\ ~fits
    /\ NextMiner
    /\ UNCHANGED <<uploads, disk, tag, active, lost, torn>>

\* A mutated form: the end message is sent again, the chunk is not.
SendErrResends ==
    /\ job = "read"
    /\ AtEnd
    /\ UNCHANGED vars

(***************************************************************************)
(* The transfer fails, at the head or at the verdict, or the sizes differ. *)
(* (A connection that breaks in between ends the reading; its verdict is   *)
(* then the timeout.)                                                      *)
(***************************************************************************)
SendErr ==
    /\ job = "read"
    /\ AtEnd \/ got = <<>>
    /\ NextMiner
    /\ UNCHANGED <<uploads, disk, tag, active, lost, torn>>

\* SendFile panics, by a send on a channel that its handler has closed:
\* recovered by backupFile, which does not unlock workLock.
SendPanic ==
    /\ job = "read"
    /\ Again
    /\ lost' = TRUE
    /\ UNCHANGED <<uploads, disk, tag, active, torn>>

\* The request of the tag, or a write to the miner, has no end: neither has a
\* timeout, and workLock is held.
Hang ==
    /\ (job = "tag" /\ tag = NoTag /\ ~lost) \/ job = "read"
    /\ job' = "hung"
    /\ lost' = TRUE
    /\ UNCHANGED <<uploads, disk, tag, size, announced, got, active, torn>>

\* External: the same, or a panic, befalls another user of workLock (another
\* job, the generator of fillers, task_ValidateProof), who has it.
LockLost ==
    /\ job # "read"
    /\ ~lost
    /\ lost' = TRUE
    /\ UNCHANGED <<uploads, disk, tag, backups, active, torn>>

-----------------------------------------------------------------------------
(* The process stops and starts again: connections and jobs are gone, the  *)
(* chunks are kept, buildDir removes the tags.                             *)
Restart ==
    /\ conn' = [c \in Clients |-> "out"]
    /\ off' = [c \in Clients |-> 0]
    /\ job' = "none"
    /\ Forget
    /\ tag' = NoTag
    /\ lost' = FALSE
    /\ UNCHANGED <<disk, active, torn>>

Init ==
    /\ conn = [c \in Clients |-> "out"]
    /\ off = [c \in Clients |-> 0]
    /\ file = <<>>
    /\ chunk = "absent"
    /\ fits \in BOOLEAN
    /\ tag = NoTag
    /\ job = "none"
    /\ size = 0
    /\ announced = 0
    /\ got = <<>>
    /\ active = FALSE
    /\ lost = FALSE
    /\ torn = FALSE

Serve(c) ==
    \/ Connect(c) \/ Accept(c) \/ ConnectionFiltering(c)
    \/ MsgHead(c) \/ MsgFile(c) \/ MsgEnd(c) \/ OtherHead(c) \/ HangUp(c)
    \/ StartJob(c)

JobStep ==
    \/ Stat \/ TagThere \/ TagOk \/ TagErr \/ Open \/ OpenErr
    \/ Read \/ SendOk \/ SendUnnamed \/ SendErr

Next ==
    \/ \E c \in Clients : Serve(c)
    \/ JobStep
    \/ SendPanic \/ Hang \/ LockLost
    \/ Restart

(***************************************************************************)
(* Connections are accepted in the order of their arrival, so that one     *)
(* which waits is accepted if the loop comes to AcceptTCP again and again. *)
(* Jobs run, tags come and transfers succeed at last when they are tried   *)
(* for ever (and do not hang).  No client is obliged to anything.          *)
(***************************************************************************)
Fairness ==
    /\ \A c \in Clients : SF_vars(Accept(c))
    /\ WF_vars(JobStep)
    /\ SF_vars(TagOk)
    /\ SF_vars(Open)
    /\ SF_vars(Read)
    /\ SF_vars(SendOk)

Spec == Init /\ [][Next]_vars /\ Fairness

-----------------------------------------------------------------------------
(* Properties.                                                             *)

Content == Seq(Block)

\* Every variable keeps its type.
TypeOK ==
    /\ conn \in [Clients -> {"out", "queued", "filter", "open", "upload"}]
    /\ off \in [Clients -> 0..NBlocks]
    /\ file \in Content /\ Len(file) <= NBlocks
    /\ chunk \in {"absent", "part", "received"} /\ fits \in BOOLEAN
    /\ tag \in Content \cup {NoTag}
    /\ job \in {"none", "stat", "tag", "open", "read", "hung"}
    /\ size \in 0..NBlocks
    /\ announced \in 0..NBlocks
    /\ got \in Content
    /\ active \in BOOLEAN /\ lost \in BOOLEAN /\ torn \in BOOLEAN

(***************************************************************************)
(* What a backup reports as stored is the whole chunk, with the chunk's    *)
(* size and the tag of the whole chunk, however often uploads were cut     *)
(* short, repeated or refused, with two exceptions.  An upload has         *)
(* truncated the chunk under another one, or under a job: then holes pass  *)
(* the comparison of sizes in MsgEnd, and a tag or a size taken of half a  *)
(* chunk is kept.  Or the job was started by the mark of the last chunk    *)
(* while the last upload of this one had not come to its end.  A new       *)
(* upload, from the start and alone, makes good for either, unless a tag   *)
(* was kept.                                                               *)
(***************************************************************************)
StoredWhole ==
    [][SendOk => torn \/ (size = NBlocks /\ got = Whole /\ tag = Whole)]_vars

(***************************************************************************)
(* A client that waits for its connection to be accepted is accepted (or   *)
(* turned away), whatever the accepted ones do: unless one keeps the loop  *)
(* in ConnectionFiltering for ever by sending nothing.                     *)
(***************************************************************************)
Accepted ==
    (\A d \in Clients : []<>(conn[d] # "filter")) =>
        \A c \in Clients : conn[c] = "queued" ~> conn[c] # "queued"

(***************************************************************************)
(* Once no client uploads the chunk any more, a job ends, whatever was     *)
(* truncated under it.  There are three ways to keep it going for ever:    *)
(* the chunk was left empty, so that the job spins on the division by      *)
(* zero; its name makes no blockId, so that no miner that stores the chunk *)
(* is recorded; or workLock is never unlocked any more.                    *)
(***************************************************************************)
JobEnds ==
    <>[](\A d \in Clients : conn[d] # "upload") =>
        (Working ~> (~Working \/ file = <<>> \/ ~fits \/ lost))
=============================================================================
