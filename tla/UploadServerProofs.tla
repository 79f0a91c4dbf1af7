------------------------- MODULE UploadServerProofs -------------------------
(***************************************************************************)
(* Proofs about UploadServer, for any clients and any number of blocks.    *)
(***************************************************************************)
EXTENDS UploadServer, TLAPS

-----------------------------------------------------------------------------
(* Files as sequences of blocks.                                           *)

\* s is k blocks of data.
Data(s, k) == Len(s) = k /\ \A b \in 1..k : s[b] = "data"

\* The length of a sequence given by its elements.
LEMMA Elements ==
    ASSUME NEW n \in Nat, NEW s \in [1..n -> Block]
    PROVE  s \in Content /\ Len(s) = n
BY DEF Content

\* A block written within the file's bounds keeps it a file within them.
LEMMA WriteTyped ==
    ASSUME NEW s \in Content, Len(s) <= NBlocks, NEW k \in 1..NBlocks
    PROVE  /\ WriteAt(s, k, "data") \in Content
           /\ Len(WriteAt(s, k, "data")) <= NBlocks
<1> DEFINE n == IF k > Len(s) THEN k ELSE Len(s)
<1>1. Len(s) \in Nat /\ n \in Nat /\ n <= NBlocks
  BY NBlocksAssumption DEF Content
<1>2. \A b \in 1..Len(s) : s[b] \in Block
  BY DEF Content
<1>3. ASSUME NEW b \in 1..n
      PROVE  (IF b = k THEN "data" ELSE IF b <= Len(s) THEN s[b] ELSE "hole")
                 \in Block
  BY <1>1, <1>2, <1>3 DEF Block
<1>4. WriteAt(s, k, "data") \in [1..n -> Block]
  BY <1>3 DEF WriteAt
<1> QED
  BY <1>1, <1>4, Elements

\* A block written at the end of k blocks of data makes it k + 1.
LEMMA WriteNext ==
    ASSUME NEW s \in Content, NEW k \in Nat, Data(s, k)
    PROVE  Data(WriteAt(s, k + 1, "data"), k + 1)
<1> DEFINE w == WriteAt(s, k + 1, "data")
<1>1. w = [b \in 1..k + 1 |->
              IF b = k + 1 THEN "data" ELSE IF b <= k THEN s[b] ELSE "hole"]
  BY DEF WriteAt, Data
<1>2. \A b \in 1..k + 1 : w[b] = "data"
  BY <1>1 DEF Data
<1>3. w \in [1..k + 1 -> Block]
  BY <1>1, <1>2 DEF Block
<1> QED
  BY <1>2, <1>3, Elements DEF Data

\* As many blocks of data as the chunk has are the whole chunk.
LEMMA DataIsWhole ==
    ASSUME NEW s \in Content, Data(s, NBlocks)
    PROVE  s = Whole
BY NBlocksAssumption DEF Data, Whole, Content

-----------------------------------------------------------------------------
(* Types.                                                                  *)

LEMMA TypeInit == Init => TypeOK
<1>1. <<>> \in Content /\ Len(<<>>) = 0 /\ 0 \in 0..NBlocks /\ 0 <= NBlocks
  BY NBlocksAssumption DEF Content
<1> QED
  BY <1>1 DEF Init, TypeOK

LEMMA TypeStep == TypeOK /\ [Next]_vars => TypeOK'
<1> SUFFICES ASSUME TypeOK, [Next]_vars PROVE TypeOK'
  OBVIOUS
<1> USE DEF TypeOK
<1>0. <<>> \in Content /\ Len(<<>>) = 0 /\ 0 \in 0..NBlocks
  BY NBlocksAssumption DEF Content
<1>1. ASSUME NEW c \in Clients, Connect(c) \/ Accept(c) \/ ConnectionFiltering(c)
      PROVE  TypeOK'
  BY <1>1 DEF Connect, Accept, ConnectionFiltering, disk, backups
<1>2. ASSUME NEW c \in Clients, MsgHead(c) PROVE TypeOK'
  <2>1. file' \in Content /\ Len(file') <= NBlocks
    BY <1>0, <1>2, NBlocksAssumption DEF MsgHead
  <2>2. torn' \in BOOLEAN
    BY <1>2, Zenon DEF MsgHead, InUse
  <2>3. conn' \in [Clients -> {"out", "queued", "filter", "open", "upload"}]
        /\ off' \in [Clients -> 0..NBlocks]
    BY <1>0, <1>2 DEF MsgHead, Close
  <2> QED
    BY <1>2, <2>1, <2>2, <2>3 DEF MsgHead, backups
<1>3. ASSUME NEW c \in Clients, MsgFile(c) PROVE TypeOK'
  <2>1. off[c] + 1 \in 1..NBlocks /\ off[c] + 1 \in 0..NBlocks
    BY <1>3, NBlocksAssumption DEF MsgFile
  <2>2. file' \in Content /\ Len(file') <= NBlocks
    BY <1>3, <2>1, WriteTyped DEF MsgFile
  <2> QED
    BY <1>3, <2>1, <2>2 DEF MsgFile, backups
<1>4. ASSUME NEW c \in Clients, MsgEnd(c) \/ OtherHead(c) \/ HangUp(c)
      PROVE  TypeOK'
  <2>1. conn' \in [Clients -> {"out", "queued", "filter", "open", "upload"}]
        /\ off' \in [Clients -> 0..NBlocks]
    BY <1>0, <1>4 DEF MsgEnd, OtherHead, HangUp, Close, Leave
  <2> QED
    BY <1>4, <2>1 DEF MsgEnd, OtherHead, HangUp, disk, backups
<1>5. ASSUME NEW c \in Clients, StartJob(c) PROVE TypeOK'
  <2>1. torn' \in BOOLEAN
    BY <1>5, Zenon DEF StartJob
  <2> QED
    BY <1>5, <2>1 DEF StartJob, uploads, disk
<1>6. CASE Stat
  BY <1>6 DEF Stat, uploads, disk, Content
<1>7. CASE TagThere \/ TagOk
  BY <1>7 DEF TagThere, TagOk, uploads, disk
<1>8. CASE Open
  <2>1. Len(file) \in 0..NBlocks
    BY NBlocksAssumption DEF Content
  <2> QED
    BY <1>0, <1>8, <2>1 DEF Open, uploads, disk
<1>9. CASE Read
  <2>1. file[Len(got) + 1] \in Block
    BY <1>9 DEF Read, AtEnd, Content
  <2>2. got' \in Content
    BY <1>9, <2>1 DEF Read, Content
  <2> QED
    BY <1>9, <2>2 DEF Read, uploads, disk
<1>10. CASE SendOk
  <2>1. active' \in BOOLEAN
    BY <1>10, Zenon DEF SendOk
  <2> QED
    BY <1>0, <1>10, <2>1 DEF SendOk, Forget, uploads, disk
<1>11. CASE TagErr \/ OpenErr \/ SendUnnamed \/ SendErr \/ SendPanic
  BY <1>0, <1>11
  DEF TagErr, OpenErr, SendUnnamed, SendErr, SendPanic, NextMiner, Again, Forget,
      uploads, disk
<1>12. CASE Hang \/ LockLost
  BY <1>12 DEF Hang, LockLost, uploads, backups, disk
<1>13. CASE Restart
  BY <1>0, <1>13 DEF Restart, Forget, disk
<1>14. CASE UNCHANGED vars
  BY <1>14 DEF vars, uploads, backups, disk
<1> QED
  BY <1>1, <1>2, <1>3, <1>4, <1>5, <1>6, <1>7, <1>8, <1>9, <1>10, <1>11, <1>12,
     <1>13, <1>14
  DEF Next, Serve, JobStep

(***************************************************************************)
(* Whatever clients do, the chunk never grows beyond its size, and every   *)
(* other variable keeps its type.                                          *)
(***************************************************************************)
THEOREM TypeCorrect == Spec => []TypeOK
BY TypeInit, TypeStep, PTL DEF Spec

-----------------------------------------------------------------------------
(* What a backup stores.                                                   *)

(***************************************************************************)
(* Unless the chunk is torn, one at a time has it, a connection or the     *)
(* job; what a connection has written is what there is; what MsgEnd has    *)
(* accepted is whole; and a job has seen the whole chunk only.             *)
(***************************************************************************)
OneAtATime ==
    \A c \in Clients :
        conn[c] = "upload" =>
            ~Working /\ chunk = "part"
            /\ \A d \in Clients \ {c} : conn[d] # "upload"

Written ==
    /\ \A c \in Clients : conn[c] = "upload" => Data(file, off[c])
    /\ chunk = "received" => Data(file, NBlocks)

JobSeesAll ==
    /\ Working => chunk = "received"
    /\ job \in {"tag", "open", "read"} => size = NBlocks
    /\ tag # NoTag => Data(tag, NBlocks)
    /\ job \in {"open", "read"} => tag # NoTag
    /\ job = "read" => Data(got, Len(got)) /\ Len(got) <= NBlocks

Sound == OneAtATime /\ Written /\ JobSeesAll

Intact == torn \/ Sound

LEMMA IntactInit == Init => Intact
BY DEF Init, Intact, Sound, OneAtATime, Written, JobSeesAll, Working

\* Only an upload from the start forgets that the chunk was torn.
LEMMA TornStays ==
    torn /\ [Next]_vars => torn' \/ \E c \in Clients : MsgHead(c)
<1>1. ASSUME NEW c \in Clients, torn, Serve(c) PROVE torn' \/ MsgHead(c)
  BY <1>1, Zenon DEF Serve, Connect, Accept, ConnectionFiltering, MsgFile,
                     MsgEnd, OtherHead, HangUp, StartJob
<1>2. ASSUME torn, JobStep PROVE torn'
  BY <1>2, Zenon DEF JobStep, Stat, TagThere, TagOk, TagErr, Open, OpenErr, Read,
                     SendOk, SendUnnamed, SendErr
<1>3. ASSUME torn, SendPanic \/ Hang \/ LockLost \/ Restart \/ UNCHANGED vars
      PROVE  torn'
  BY <1>3, Zenon DEF SendPanic, Hang, LockLost, Restart, vars
<1> QED
  BY <1>1, <1>2, <1>3 DEF Next

\* An upload that starts while nobody else uses the chunk, and no tag of a torn
\* one is kept.
LEMMA FreshUpload ==
    ASSUME TypeOK, Intact, NEW c \in Clients, MsgHead(c), ~torn'
    PROVE  Sound'
<1> USE DEF TypeOK
<1>1. CASE active
  <2>1. Sound
    BY <1>1, Zenon DEF MsgHead, Intact
  <2> QED
    BY <1>1, <2>1 DEF MsgHead, Close, backups, Sound, OneAtATime, Written,
                      JobSeesAll, Working
<1>2. CASE ~active
  <2>1. ~InUse(c) /\ ~(torn /\ tag # NoTag)
    BY <1>2, Zenon DEF MsgHead
  <2>2. tag # NoTag => Data(tag, NBlocks)
    BY <2>1, Zenon DEF Intact, Sound, JobSeesAll
  <2>3. Data(file', off'[c])
    BY <1>2 DEF MsgHead, Data
  <2>4. ~Working /\ \A d \in Clients \ {c} : conn[d] # "upload"
    BY <2>1, Zenon DEF InUse
  <2>5. /\ conn' = [conn EXCEPT ![c] = "upload"]
        /\ chunk' = "part" /\ job' = job /\ tag' = tag
    BY <1>2 DEF MsgHead, backups
  <2>6. OneAtATime' /\ Written'
    BY <2>3, <2>4, <2>5 DEF OneAtATime, Written, Working
  <2>7. JobSeesAll'
    BY <2>2, <2>4, <2>5 DEF JobSeesAll, Working
  <2> QED
    BY <2>6, <2>7 DEF Sound
<1> QED
  BY <1>1, <1>2

LEMMA IntactStep == TypeOK /\ Intact /\ [Next]_vars => Intact'
<1> SUFFICES ASSUME TypeOK, Sound, [Next]_vars, ~torn' PROVE Sound'
  BY TornStays, FreshUpload DEF Intact
<1> USE DEF TypeOK, Sound
<1>1. ASSUME NEW c \in Clients, Connect(c) \/ Accept(c) \/ ConnectionFiltering(c)
      PROVE  Sound'
  BY <1>1 DEF Connect, Accept, ConnectionFiltering, backups, disk,
              OneAtATime, Written, JobSeesAll, Working
<1>2. ASSUME NEW c \in Clients, MsgHead(c) PROVE Sound'
  BY <1>2, FreshUpload DEF Intact
<1>3. ASSUME NEW c \in Clients, MsgFile(c) PROVE Sound'
  <2>1. ~Working /\ chunk = "part" /\ \A d \in Clients \ {c} : conn[d] # "upload"
    BY <1>3 DEF MsgFile, OneAtATime
  <2>2. Data(file', off'[c])
    BY <1>3, WriteNext DEF MsgFile, Written
  <2> QED
    BY <1>3, <2>1, <2>2 DEF MsgFile, backups, OneAtATime, Written, JobSeesAll, Working
<1>4. ASSUME NEW c \in Clients, MsgEnd(c) PROVE Sound'
  <2>1. Data(file, off[c])
    BY <1>4 DEF MsgEnd, Written
  <2>2. SizeRight(file) => Data(file, NBlocks)
    BY <2>1 DEF SizeRight, Data
  <2>3. ~Working /\ \A d \in Clients \ {c} : conn[d] # "upload"
    BY <1>4 DEF MsgEnd, OneAtATime
  <2> QED
    BY <1>4, <2>2, <2>3
    DEF MsgEnd, Close, Leave, backups, OneAtATime, Written, JobSeesAll, Working
<1>5. ASSUME NEW c \in Clients, OtherHead(c) \/ HangUp(c) PROVE Sound'
  BY <1>5 DEF OtherHead, HangUp, Close, Leave, disk, backups, OneAtATime, Written,
              JobSeesAll, Working
<1>6. ASSUME NEW c \in Clients, StartJob(c) PROVE Sound'
  <2>1. chunk # "part"
    BY <1>6, Zenon DEF StartJob
  <2>2. chunk = "received" /\ \A d \in Clients : conn[d] # "upload"
    BY <1>6, <2>1 DEF StartJob, OneAtATime
  <2> QED
    BY <1>6, <2>2
    DEF StartJob, uploads, disk, OneAtATime, Written, JobSeesAll, Working
<1>7. CASE Stat
  BY <1>7 DEF Stat, uploads, disk, OneAtATime, Written, JobSeesAll, Working, Data
<1>8. CASE TagThere \/ TagErr \/ OpenErr
  BY <1>8 DEF TagThere, TagErr, OpenErr, Again, Forget, uploads, disk, OneAtATime,
              Written, JobSeesAll, Working
<1>9. CASE TagOk
  <2>1. Data(file, NBlocks)
    BY <1>9 DEF TagOk, JobSeesAll, Written, Working
  <2>2. tag' # NoTag /\ Data(tag', NBlocks)
    BY <1>9, <2>1, NBlocksAssumption DEF TagOk, Data, NoTag
  <2> QED
    BY <1>9, <2>2
    DEF TagOk, uploads, disk, OneAtATime, Written, JobSeesAll, Working
<1>10. CASE Open
  <2>1. Data(got', Len(got')) /\ Len(got') <= NBlocks
    BY <1>10, NBlocksAssumption DEF Open, Data
  <2> QED
    BY <1>10, <2>1
    DEF Open, uploads, disk, OneAtATime, Written, JobSeesAll, Working
<1>11. CASE Read
  <2>1. Data(file, NBlocks) /\ Data(got, Len(got)) /\ Len(got) < NBlocks
    BY <1>11 DEF Read, AtEnd, JobSeesAll, Written, Working, Data, Content
  <2>2. file[Len(got) + 1] = "data"
    BY <2>1, NBlocksAssumption DEF Data, Content
  <2>3. Data(got', Len(got')) /\ Len(got') <= NBlocks
    BY <1>11, <2>1, <2>2, NBlocksAssumption DEF Read, Data, Content, Block
  <2> QED
    BY <1>11, <2>3
    DEF Read, uploads, disk, OneAtATime, Written, JobSeesAll, Working
<1>12. CASE SendOk \/ SendUnnamed \/ SendErr \/ SendPanic
  BY <1>12 DEF SendOk, Sent, SendUnnamed, SendErr, SendPanic, NextMiner, Again,
               Forget, uploads, disk, OneAtATime, Written, JobSeesAll, Working
<1>13. CASE Hang \/ LockLost
  BY <1>13 DEF Hang, LockLost, uploads, disk, backups, OneAtATime, Written,
               JobSeesAll, Working
<1>14. CASE Restart
  BY <1>14 DEF Restart, disk, OneAtATime, Written, JobSeesAll, Working
<1>15. CASE UNCHANGED vars
  BY <1>15 DEF vars, uploads, disk, backups, OneAtATime, Written, JobSeesAll,
               Working
<1> QED
  BY <1>1, <1>2, <1>3, <1>4, <1>5, <1>6, <1>7, <1>8, <1>9, <1>10, <1>11, <1>12,
     <1>13, <1>14, <1>15
  DEF Next, Serve, JobStep

\* A transfer that succeeds has sent the whole chunk.
LEMMA SendsWhole ==
    TypeOK /\ Intact /\ SendOk =>
        torn \/ (size = NBlocks /\ got = Whole /\ tag = Whole)
<1> SUFFICES ASSUME TypeOK, Intact, SendOk, ~torn
             PROVE  size = NBlocks /\ got = Whole /\ tag = Whole
  OBVIOUS
<1>1. /\ Data(file, NBlocks) /\ size = NBlocks /\ tag # NoTag
      /\ Data(tag, NBlocks) /\ Data(got, Len(got)) /\ Len(got) <= NBlocks
  BY DEF Intact, Sound, SendOk, Sent, JobSeesAll, Written, Working
<1>2. Len(got) = NBlocks
  BY <1>1, NBlocksAssumption DEF SendOk, Sent, AtEnd, Data, TypeOK, Content
<1>3. got = Whole
  BY <1>1, <1>2, DataIsWhole DEF TypeOK
<1>4. tag = Whole
  BY <1>1, DataIsWhole DEF TypeOK
<1> QED
  BY <1>1, <1>3, <1>4

(***************************************************************************)
(* What a backup reports as stored is the whole chunk, with its size and   *)
(* its tag, unless an upload has truncated the chunk under another one or  *)
(* under a job, or the job was started while the chunk's last upload had   *)
(* not come to its end.                                                    *)
(***************************************************************************)
THEOREM StoredCorrect == Spec => StoredWhole
<1>1. TypeOK /\ Intact /\ [Next]_vars =>
          [SendOk => torn \/ (size = NBlocks /\ got = Whole /\ tag = Whole)]_vars
  BY SendsWhole
<1> QED
  BY <1>1, TypeInit, TypeStep, IntactInit, IntactStep, PTL DEF Spec, StoredWhole
=============================================================================
