------------------------------ MODULE Transfer ------------------------------
(***************************************************************************)
(* The transfer of a list of files over one connection (node/handler.go,   *)
(* node/transfer.go).  A ConMgr sends (SendFile: the scheduler to a miner) *)
(* or receives (Start: the scheduler from a client, and a miner, which     *)
(* speaks the same protocol); both ends are taken from this repository,    *)
(* except that an end message may carry what only the clients put in it.   *)
(*                                                                         *)
(* Each end has the goroutines sendMsg (the writer) and readMsg (the       *)
(* reader), the channels send and recv between them and the handler, and   *)
(* its handler.  The client has the sender besides, which the handler      *)
(* tells about notifications through waitNotify.  Whoever calls Close      *)
(* waits for the connection to be closed, then closes its channel.         *)
(*                                                                         *)
(* The sleeps are left out: any goroutine may be slow.                     *)
(***************************************************************************)
EXTENDS Integers, Sequences, FiniteSets

CONSTANTS
    NFiles,      \* the files of the list (a file and its tag: 2)
    NData,       \* MsgFile messages per file
    SendCap,     \* TCP_Message_Send_Buffers
    RecvCap,     \* TCP_Message_Read_Buffers
    NetCap,      \* messages in the sockets' buffers and in the writer's hand
    SizeForms    \* whether SignMsg of a MsgEnd carries the size of the upload:
                 \* a client's does, that of buildEndMsg is nil

ASSUME SizesAssumption == NFiles \in Nat \ {0} /\ NData \in Nat
ASSUME CapsAssumption ==
    /\ SendCap \in Nat \ {0} /\ RecvCap \in Nat \ {0} /\ NetCap \in Nat \ {0}
ASSUME FormsAssumption == SizeForms \subseteq BOOLEAN

Ends == {"client", "server"}
Peer(e) == IF e = "client" THEN "server" ELSE "client"
Files == 1..NFiles

\* Messages: "ok" and "err" are MsgNotify with its status.
Types == {"head", "file", "end", "ok", "err", "close"}
Message == [type : Types, file : Files \cup {0}]
Msg(t, f) == [type |-> t, file |-> f]

None == Msg("close", 0)   \* no message in hand

VARIABLES
    \* TcpCon, of each end
    conn,        \* "open", "closing" (in Close) or "closed": stop is closed
    send,        \* the channel send
    sendClosed,
    recv,        \* the channel recv
    recvClosed,
    hand,        \* the reader has a message to put in recv: <<>> or <<m>>
    writer,      \* sendMsg: "run", "close" (its deferred calls) or "done"
    reader,      \* readMsg: the same
    handler,     \* handler: the same
    \* the network
    net,         \* the messages on their way to each end
    broken,      \* the connection is reset
    \* the sender of the client
    pc,
    cur,         \* the file it is sending
    sentData,    \* its MsgFile messages sent
    notify,      \* the channel waitNotify
    notifyClosed,
    result,      \* the error of sendFile: "nil" or "err"
    \* the handler of the server
    fs,          \* the file it has open, or 0
    stored,      \* what each file on disk has received since it was created
    complete,    \* the files whose MsgEnd was accepted
    backup       \* FileBackupManagement was started

tcp == <<conn, send, sendClosed, recv, recvClosed, hand, writer, reader>>
sender == <<pc, cur, sentData, result>>
notes == <<notify, notifyClosed>>
disk == <<fs, stored, complete, backup>>
vars == <<tcp, handler, net, broken, sender, notes, disk>>

-----------------------------------------------------------------------------
(* TcpCon.                                                                 *)

IsClose(e) == conn[e] = "closed"

\* Close: the first caller closes, the others wait for it.
Close(e) == conn' = [conn EXCEPT ![e] = IF @ = "open" THEN "closing" ELSE @]

\* t.conn.Close(); close(t.stop)
Stop(e) ==
    /\ conn[e] = "closing"
    /\ conn' = [conn EXCEPT ![e] = "closed"]
    /\ UNCHANGED <<send, sendClosed, recv, recvClosed, hand, writer, reader,
                   handler, net, broken, sender, notes, disk>>

\* Neither end has closed the connection, and it is not reset.
Connected == ~ broken /\ \A e \in Ends : conn[e] # "closed"

\* sendMsg: a message is taken from send and written, which blocks, without a
\* deadline, while the other end does not read.  On a connection that is gone the
\* write fails, or is lost.
WriteMsg(e) ==
    /\ writer[e] = "run" /\ ~ IsClose(e)
    /\ send[e] # <<>>
    /\ send' = [send EXCEPT ![e] = Tail(@)]
    /\ \/ /\ Connected
          /\ Len(net[Peer(e)]) < NetCap
          /\ net' = [net EXCEPT ![Peer(e)] = Append(@, Head(send[e]))]
          /\ UNCHANGED <<writer, conn>>
       \/ /\ ~ Connected
          /\ UNCHANGED net
          /\ \/ UNCHANGED <<writer, conn>>
             \/ writer' = [writer EXCEPT ![e] = "close"] /\ Close(e)
    /\ UNCHANGED <<sendClosed, recv, recvClosed, hand, reader, handler, broken,
                   sender, notes, disk>>

\* The loop of sendMsg ends: wg.Done() and t.Close().
WriterStops(e) ==
    /\ writer[e] = "run" /\ IsClose(e)
    /\ writer' = [writer EXCEPT ![e] = "close"]
    /\ UNCHANGED <<conn, send, sendClosed, recv, recvClosed, hand, reader,
                   handler, net, broken, sender, notes, disk>>

WriterLeavesSend(e) ==
    /\ writer[e] = "close" /\ IsClose(e)
    /\ writer' = [writer EXCEPT ![e] = "done"]
    /\ UNCHANGED <<conn, send, sendClosed, recv, recvClosed, hand, reader,
                   handler, net, broken, sender, notes, disk>>

\* Close has returned: close(t.send).
WriterDone(e) ==
    /\ writer[e] = "close" /\ IsClose(e)
    /\ writer' = [writer EXCEPT ![e] = "done"]
    /\ sendClosed' = [sendClosed EXCEPT ![e] = TRUE]
    /\ UNCHANGED <<conn, send, recv, recvClosed, hand, reader, handler, net,
                   broken, sender, notes, disk>>

\* readMsg reads a message ...
ReadMsg(e) ==
    /\ reader[e] = "run" /\ ~ IsClose(e) /\ ~ broken
    /\ hand[e] = <<>>
    /\ net[e] # <<>>
    /\ hand' = [hand EXCEPT ![e] = <<Head(net[e])>>]
    /\ net' = [net EXCEPT ![e] = Tail(@)]
    /\ UNCHANGED <<conn, send, sendClosed, recv, recvClosed, writer, reader,
                   handler, broken, sender, notes, disk>>

\* ... and puts it in recv, which blocks while recv is full.
PutMsg(e) ==
    /\ reader[e] = "run"
    /\ hand[e] # <<>>
    /\ Len(recv[e]) < RecvCap
    /\ recv' = [recv EXCEPT ![e] = @ \o hand[e]]
    /\ hand' = [hand EXCEPT ![e] = <<>>]
    /\ UNCHANGED <<conn, send, sendClosed, recvClosed, writer, reader, handler,
                   net, broken, sender, notes, disk>>

\* The read fails, or the connection is closed: wg.Done() and t.Close().
ReaderStops(e) ==
    /\ reader[e] = "run"
    /\ hand[e] = <<>>
    /\ IsClose(e) \/ broken \/ (IsClose(Peer(e)) /\ net[e] = <<>>)
    /\ reader' = [reader EXCEPT ![e] = "close"]
    /\ Close(e)
    /\ UNCHANGED <<send, sendClosed, recv, recvClosed, hand, writer, handler,
                   net, broken, sender, notes, disk>>

\* Close has returned: close(t.recv).
ReaderDone(e) ==
    /\ reader[e] = "close" /\ IsClose(e)
    /\ reader' = [reader EXCEPT ![e] = "done"]
    /\ recvClosed' = [recvClosed EXCEPT ![e] = TRUE]
    /\ UNCHANGED <<conn, send, sendClosed, recv, hand, writer, handler, net,
                   broken, sender, notes, disk>>

\* t.send <- m, which blocks while send is full.
SendMsg(e, m) ==
    /\ ~ sendClosed[e]
    /\ Len(send[e]) < SendCap
    /\ send' = [send EXCEPT ![e] = Append(@, m)]

\* External: the network, or the host of either end, resets the connection.
Reset ==
    /\ ~ broken
    /\ broken' = TRUE
    /\ net' = [e \in Ends |-> <<>>]
    /\ UNCHANGED <<tcp, handler, sender, notes, disk>>

-----------------------------------------------------------------------------
(* ConMgr.handler.                                                         *)

\* The handler returns: the deferred c.conn.Close().
HandlerReturns(e) ==
    /\ handler' = [handler EXCEPT ![e] = "close"]
    /\ Close(e)

HandlerGoesOn == UNCHANGED <<handler, conn>>

\* Close has returned: close(c.waitNotify), and the open file is closed.
HandlerDone(e) ==
    /\ handler[e] = "close" /\ IsClose(e)
    /\ handler' = [handler EXCEPT ![e] = "done"]
    /\ IF e = "client"
       THEN notifyClosed' = TRUE /\ UNCHANGED fs
       ELSE fs' = 0 /\ UNCHANGED notifyClosed
    /\ UNCHANGED <<tcp, net, broken, sender, notify, stored, complete, backup>>

\* The loop ends on IsClose, or on GetMsg finding recv closed and empty.
HandlerStops(e) ==
    /\ handler[e] = "run"
    /\ IsClose(e) \/ (recvClosed[e] /\ recv[e] = <<>>)
    /\ HandlerReturns(e)
    /\ UNCHANGED <<send, sendClosed, recv, recvClosed, hand, writer, reader, net,
                   broken, sender, notes, disk>>

\* GetMsg returns a message of type t; its time limit only makes the loop try
\* again.
GetMsg(e, t) ==
    /\ handler[e] = "run"
    /\ recv[e] # <<>>
    /\ Head(recv[e]).type = t
    /\ recv' = [recv EXCEPT ![e] = Tail(@)]
    /\ UNCHANGED <<sendClosed, recvClosed, hand, writer, reader, net, broken,
                   sender>>

\* The file the message is about.
File(e) == Head(recv[e]).file

\* A SendMsg in the handler once send is closed panics; the handler recovers
\* and returns.
SendPanics(e) == sendClosed[e] /\ HandlerReturns(e) /\ UNCHANGED send

(***************************************************************************)
(* MsgHead: a bad signature, a file that is active already, or a file that *)
(* cannot be created is refused.                                           *)
(***************************************************************************)
MsgHead(e) ==
    /\ GetMsg(e, "head")
    /\ \/ /\ SendMsg(e, Msg("ok", File(e)))
          /\ HandlerGoesOn
          /\ fs' = File(e)
          /\ stored' = [stored EXCEPT ![File(e)] = 0]
       \/ /\ SendMsg(e, Msg("err", 0))
          /\ HandlerReturns(e)
          /\ UNCHANGED <<fs, stored>>
       \/ SendPanics(e) /\ UNCHANGED <<fs, stored>>
    /\ UNCHANGED <<notes, complete, backup>>

\* A mutated MsgFile does not return after MsgClose.
MsgFileGoesOn(e) ==
    /\ GetMsg(e, "file")
    /\ \/ fs # 0 /\ stored' = [stored EXCEPT ![fs] = @ + 1] /\ UNCHANGED send
       \/ SendMsg(e, Msg("close", 0)) /\ UNCHANGED stored
    /\ HandlerGoesOn
    /\ UNCHANGED <<notes, fs, complete, backup>>

\* MsgFile: written to the open file; with none, or on an error, MsgClose.
MsgFile(e) ==
    /\ GetMsg(e, "file")
    /\ \/ /\ fs # 0
          /\ stored' = [stored EXCEPT ![fs] = @ + 1]
          /\ HandlerGoesOn
          /\ UNCHANGED send
       \/ /\ SendMsg(e, Msg("close", 0))
          /\ HandlerReturns(e)
          /\ UNCHANGED stored
       \/ SendPanics(e) /\ UNCHANGED stored
    /\ UNCHANGED <<notes, fs, complete, backup>>

LastMarkEarly(f) == f + 1 >= NFiles

\* (i + 1) == len(c.sendFiles), as the message carries it
LastMark(f) == f = NFiles

\* info.Size() == m.FileSize, of the file that is open
SizeMatches == fs # 0 /\ stored[fs] = NData

\* With LastMark, on the last file of the list, FileBackupManagement is started.
\* Uint64 of a SignMsg without the size panics; the handler recovers and returns.
StartBackup(e) ==
    \/ /\ LastMark(File(e)) => TRUE \in SizeForms
       /\ backup' = (backup \/ LastMark(File(e)))
       /\ HandlerGoesOn
    \/ /\ LastMark(File(e)) /\ FALSE \in SizeForms
       /\ HandlerReturns(e)
       /\ UNCHANGED backup

\* MsgEnd: a size that does not match is refused.
MsgEnd(e) ==
    /\ GetMsg(e, "end")
    /\ \/ /\ SizeMatches
          /\ SendMsg(e, Msg("ok", File(e)))
          /\ complete' = complete \cup {fs}
          /\ fs' = 0
          /\ StartBackup(e)
       \/ /\ ~ SizeMatches
          /\ SendMsg(e, Msg("err", 0))
          /\ HandlerReturns(e)
          /\ UNCHANGED <<fs, complete, backup>>
       \/ SendPanics(e) /\ UNCHANGED <<fs, complete, backup>>
    /\ UNCHANGED <<notes, stored>>

\* MsgNotify: c.waitNotify <- status, which blocks while one is there.
MsgNotify(e) ==
    /\ \E t \in {"ok", "err"} :
          /\ GetMsg(e, t)
          /\ notify = <<>>
          /\ notify' = <<t = "ok">>
    /\ HandlerGoesOn
    /\ UNCHANGED <<send, notifyClosed, disk>>

\* MsgClose: the handler returns.
MsgClose(e) ==
    /\ GetMsg(e, "close")
    /\ HandlerReturns(e)
    /\ UNCHANGED <<send, notes, disk>>

-----------------------------------------------------------------------------
(* The sender: sendFile and sendSingleFile.                                *)

AlwaysOk(val) == TRUE

\* ok := <-c.waitNotify; a closed channel gives false.
Ok(val) == val

\* sendSingleFile returns an error: the loop over the files ends.
GiveUp ==
    /\ pc' = "bye"
    /\ result' = "err"
    /\ UNCHANGED <<cur, sentData>>

NextFile ==
    IF cur = NFiles
    THEN pc' = "bye" /\ result' = "nil" /\ UNCHANGED <<cur, sentData>>
    ELSE pc' = "head" /\ cur' = cur + 1 /\ sentData' = 0 /\ UNCHANGED result

\* The mutated Timeout goes on with the next file.
TimeoutSkipsFile ==
    /\ pc \in {"waitHead", "waitEnd"}
    /\ NextFile
    /\ UNCHANGED <<tcp, handler, net, broken, notes, disk>>

Sends(m, at) ==
    /\ SendMsg("client", m)
    /\ pc' = at
    /\ UNCHANGED <<conn, sendClosed, recv, recvClosed, hand, writer, reader,
                   handler, net, broken, cur, result, notes, disk>>

SendHead ==
    /\ pc = "head"
    /\ Sends(Msg("head", cur), "waitHead")
    /\ UNCHANGED sentData

\* os.Open or file.Read fails.
FileError ==
    /\ pc \in {"head", "data"}
    /\ GiveUp
    /\ UNCHANGED <<tcp, handler, net, broken, notes, disk>>

\* A notification, or false from the closed channel.
Notified ==
    /\ pc \in {"waitHead", "waitEnd"}
    /\ \/ notify # <<>> /\ notify' = <<>>
       \/ notify = <<>> /\ notifyClosed /\ UNCHANGED notify
    /\ IF Ok(notify # <<>> /\ notify[1])
       THEN IF pc = "waitEnd" THEN NextFile
            ELSE pc' = "data" /\ UNCHANGED <<cur, sentData, result>>
       ELSE GiveUp
    /\ UNCHANGED <<tcp, handler, net, broken, notifyClosed, disk>>

\* timerHead or timerFile fires.
Timeout ==
    /\ pc \in {"waitHead", "waitEnd"}
    /\ GiveUp
    /\ UNCHANGED <<tcp, handler, net, broken, notes, disk>>

MoreDataByOne == sentData <= NData

\* file.Read has something to give.
MoreData == sentData < NData

SendData ==
    /\ pc = "data" /\ ~ IsClose("client")
    /\ MoreData
    /\ sentData' = sentData + 1
    /\ Sends(Msg("file", cur), "data")

\* The file is read to its end, or the connection is closed: MsgEnd follows in
\* either case.
SendEnd ==
    /\ pc = "data"
    /\ ~ MoreData \/ IsClose("client")
    /\ Sends(Msg("end", cur), "waitEnd")
    /\ UNCHANGED sentData

\* The last message of sendFile.
SendClose ==
    /\ pc = "bye"
    /\ Sends(Msg("close", 0), "close")
    /\ UNCHANGED sentData

\* SendMsg on the closed channel: the goroutine panics.
SenderPanics ==
    /\ pc \in {"head", "data", "bye"}
    /\ sendClosed["client"]
    /\ pc' = "panic"
    /\ UNCHANGED <<tcp, handler, net, broken, cur, sentData, result, notes, disk>>

\* The deferred c.conn.Close().
SenderCloses ==
    /\ pc = "close"
    /\ Close("client")
    /\ pc' = "wait"
    /\ UNCHANGED <<send, sendClosed, recv, recvClosed, hand, writer, reader,
                   handler, net, broken, cur, sentData, result, notes, disk>>

\* wg.Wait(), and SendFile returns the error of sendFile.
SendFileReturns ==
    /\ pc = "wait" /\ IsClose("client")
    /\ writer["client"] # "run" /\ reader["client"] # "run"
    /\ pc' = "done"
    /\ UNCHANGED <<tcp, handler, net, broken, cur, sentData, result, notes, disk>>

-----------------------------------------------------------------------------
Init ==
    /\ conn = [e \in Ends |-> "open"]
    /\ send = [e \in Ends |-> <<>>] /\ recv = [e \in Ends |-> <<>>]
    /\ sendClosed = [e \in Ends |-> FALSE]
    /\ recvClosed = [e \in Ends |-> FALSE]
    /\ hand = [e \in Ends |-> <<>>]
    /\ writer = [e \in Ends |-> "run"]
    /\ reader = [e \in Ends |-> "run"]
    /\ handler = [e \in Ends |-> "run"]
    /\ net = [e \in Ends |-> <<>>]
    /\ broken = FALSE
    /\ pc = "head" /\ cur = 1 /\ sentData = 0 /\ result = "nil"
    /\ notify = <<>> /\ notifyClosed = FALSE
    /\ fs = 0
    /\ stored = [f \in Files |-> 0]
    /\ complete = {}
    /\ backup = FALSE

WriterStep(e) == WriteMsg(e) \/ WriterStops(e) \/ WriterDone(e)

ReaderStep(e) == ReadMsg(e) \/ PutMsg(e) \/ ReaderStops(e) \/ ReaderDone(e)

HandlerStep(e) ==
    \/ MsgHead(e) \/ MsgFile(e) \/ MsgEnd(e) \/ MsgNotify(e) \/ MsgClose(e)
    \/ HandlerStops(e) \/ HandlerDone(e)

SenderStep ==
    \/ SendHead \/ Notified \/ Timeout \/ SendData \/ SendEnd \/ FileError
    \/ SendClose \/ SenderPanics \/ SenderCloses \/ SendFileReturns

Next ==
    \/ SenderStep
    \/ \E e \in Ends : WriterStep(e) \/ ReaderStep(e) \/ HandlerStep(e) \/ Stop(e)
    \/ Reset

\* Every goroutine runs, and the timers fire; what is on the network has not to
\* arrive.
Fairness ==
    /\ WF_vars(SenderStep)
    /\ \A e \in Ends :
          /\ WF_vars(WriterStep(e))
          /\ WF_vars(PutMsg(e) \/ ReaderStops(e) \/ ReaderDone(e))
          /\ WF_vars(HandlerStep(e)) /\ WF_vars(Stop(e))

Spec == Init /\ [][Next]_vars /\ Fairness

-----------------------------------------------------------------------------
(* Properties.                                                             *)

Phases == {"run", "close", "done"}

\* Every variable keeps its type.
TypeOK ==
    /\ conn \in [Ends -> {"open", "closing", "closed"}]
    /\ send \in [Ends -> Seq(Message)] /\ recv \in [Ends -> Seq(Message)]
    /\ \A e \in Ends : Len(send[e]) <= SendCap /\ Len(recv[e]) <= RecvCap
    /\ sendClosed \in [Ends -> BOOLEAN] /\ recvClosed \in [Ends -> BOOLEAN]
    /\ hand \in [Ends -> {<<>>} \cup {<<m>> : m \in Message}]
    /\ writer \in [Ends -> Phases]
    /\ reader \in [Ends -> Phases]
    /\ handler \in [Ends -> Phases]
    /\ net \in [Ends -> Seq(Message)]
    /\ broken \in BOOLEAN
    /\ pc \in {"head", "waitHead", "data", "waitEnd", "bye", "close", "wait",
               "done", "panic"}
    /\ cur \in Files
    /\ sentData \in 0..NData
    /\ result \in {"nil", "err"}
    /\ notify \in {<<>>, <<TRUE>>, <<FALSE>>} /\ notifyClosed \in BOOLEAN
    /\ fs \in Files \cup {0}
    /\ stored \in [Files -> 0..NData]
    /\ complete \subseteq Files
    /\ backup \in BOOLEAN

(***************************************************************************)
(* SendFile returns no error only if the receiver has every file in full.  *)
(* Answers carry no name: a late one must never count for a later request, *)
(* nor the closing of waitNotify for an answer.                            *)
(***************************************************************************)
SuccessMeansStored ==
    pc = "done" /\ result = "nil" =>
        complete = Files /\ \A f \in Files : stored[f] = NData

(***************************************************************************)
(* The receiver starts the backup on the last file alone, without looking  *)
(* at the others: they are there, whatever was timed out or cut short.     *)
(***************************************************************************)
BackupHasAll ==
    backup => complete = Files /\ \A f \in Files : stored[f] = NData

(***************************************************************************)
(* What is on its way to the sender is one message at most, an answer or   *)
(* MsgClose, and none comes while a notification waits to be read: the     *)
(* reader never blocks on recv, nor the handler on waitNotify, where,      *)
(* once the sender has given up, nothing would free them.                  *)
(***************************************************************************)
AnswersFit ==
    /\ Len(send["server"]) + Len(net["client"]) + Len(hand["client"])
           + Len(recv["client"]) <= 1
    /\ recv["client"] # <<>> /\ Head(recv["client"]).type \in {"ok", "err"} =>
           notify = <<>>

\* The receiver has not stopped reading while the connection stays: a write is
\* not blocked for ever.
PeerReads == []<>(~ Connected \/ Len(net["server"]) < NetCap)

(***************************************************************************)
(* SendFile returns (or panics), so that workLock, which its callers hold, *)
(* is not held for ever by a transfer: the receiver may refuse, stop, or   *)
(* stay silent, and the connection may be reset at any point.  It needs    *)
(* that the receiver reads: neither Write nor SendMsg has a time limit.    *)
(***************************************************************************)
SendFileEnds == PeerReads => <>(pc \in {"done", "panic"})

(***************************************************************************)
(* Once the receiver's handler has returned, the goroutines that its Start *)
(* waits for end too; unless the reader has one message more than recv     *)
(* takes, and nobody takes any.                                            *)
(***************************************************************************)
StartEnds ==
    handler["server"] = "done" ~>
        /\ writer["server"] = "done"
        /\ \/ reader["server"] = "done"
           \/ hand["server"] # <<>> /\ Len(recv["server"]) = RecvCap

\* The callers of a connection get it back.
TransferEnds == SendFileEnds /\ StartEnds

-----------------------------------------------------------------------------
(* The file transfer that this protocol implements.                        *)

\* On disk in full, and accepted.
InFull == {f \in complete : stored[f] = NData}

\* What the caller of SendFile learns: a panic is no success.
Outcome ==
    CASE pc = "done" -> IF result = "nil" THEN "ok" ELSE "err"
      [] pc = "panic" -> "err"
      [] OTHER -> "none"

Promise == INSTANCE FileTransfer WITH
    offered <- cur, received <- InFull, outcome <- Outcome

(***************************************************************************)
(* Seen by its callers, the exchange of messages is a FileTransfer: no     *)
(* file is offered before the earlier ones are stored and accepted, a      *)
(* stored file is never truncated by a late or repeated MsgHead, the       *)
(* backup starts with the last file and never without the others, and      *)
(* after an error at most the file then under way is still accepted.       *)
(***************************************************************************)
ImplementsFileTransfer == Promise!Spec
=============================================================================
