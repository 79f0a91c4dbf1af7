----------------------------- MODULE MinerCache -----------------------------
(***************************************************************************)
(* task_MinerCache (node/sub_minerCache.go): a goroutine that reads the    *)
(* list of the storage miners and the details of each from the chain, and  *)
(* keeps a record of each miner in service in the cache.  The other        *)
(* goroutines choose miners by these records (backupFile, storagefiller).  *)
(*                                                                         *)
(* A round over the list takes one RPC for each miner, and the chain goes  *)
(* on meanwhile; an RPC and a write of the cache may fail, which is        *)
(* logged and no more.  The record of a miner's ip address alone, which    *)
(* nothing reads, is left out.                                             *)
(***************************************************************************)
EXTENDS Integers

CONSTANTS
    Miners,
    NoMiner,     \* no miner is being visited
    Infos,       \* the details a miner may have on the chain
    Modulus,     \* 2^64, the range of uint64
    ChunkSize    \* the size of the chunk a reader wants to place

MinerStates == {"absent", "exit", "positive"}

\* "absent": not in the list; "exit": any state but MINER_STATE_POSITIVE.
Details == [state : MinerStates, power : Nat, space : Nat]

ASSUME MinersAssumption == NoMiner \notin Miners
ASSUME InfosAssumption == Infos \subseteq Details
ASSUME ModulusAssumption == Modulus \in Nat \ {0}
ASSUME ChunkSizeAssumption == ChunkSize \in Nat

VARIABLES
    details,     \* external: the chain's details of each miner
    mpc,         \* the task's program point
    todo,        \* the miners of the list it has still to visit
    visited,     \* the miner whose details it has, or NoMiner
    info,        \* minerInfo, as read from the chain; NoInfo once it is used
    cache,       \* the record of each miner: its Free, or NoRecord
    settled      \* history: the miners of this round whose details have not
                 \* changed since the list was read, and no call for which failed

minerTask == <<mpc, todo, visited, info>>

NoRecord == -1
Emptied == [m \in Miners |-> NoRecord]

Listed == {m \in Miners : details[m].state # "absent"}

NoInfo == [state |-> "absent", power |-> 0, space |-> 0]

-----------------------------------------------------------------------------
(* The arithmetic.                                                         *)

Abs(n) == IF n < 0 THEN -n ELSE n

\* A mutated form.
FreeSigned(d) == d.power - d.space

\* big.Int Sub, then Uint64: the low 64 bits of the absolute value.
Free(d) == Abs(d.power - d.space) % Modulus

\* The test backupFile makes of a record.
Offered(m) == cache[m] # NoRecord /\ cache[m] >= ChunkSize

InService(d) == d.state = "positive"

-----------------------------------------------------------------------------
(* The task.                                                               *)

\* Mutated forms.
AllButOne(list) == list \ {CHOOSE m \in list : TRUE}
SleepsForEver == mpc = "sleep" /\ UNCHANGED <<details, minerTask, cache, settled>>

\* GetAllStorageMiner: every miner it returns is visited.
Visits(list) == list

\* With no list (the status is false, an RPC error, no miner) the task sleeps
\* and asks again.
List ==
    /\ mpc = "list"
    /\ Listed # {}
    /\ todo' = Visits(Listed)
    /\ settled' = Listed
    /\ mpc' = "visit"
    /\ UNCHANGED <<details, visited, info, cache>>

\* GetStorageMinerInfo returns the details ...
FetchOk(m) ==
    /\ mpc = "visit"
    /\ m \in todo
    /\ details[m].state # "absent"
    /\ todo' = todo \ {m}
    /\ visited' = m
    /\ info' = details[m]
    /\ mpc' = "save"
    /\ UNCHANGED <<details, cache, settled>>

\* ... or an error, and the miner is left as it was.
FetchErr(m) ==
    /\ mpc = "visit"
    /\ m \in todo
    /\ todo' = todo \ {m}
    /\ settled' = settled \ {m}
    /\ UNCHANGED <<details, mpc, visited, info, cache>>

NextMiner == mpc' = "visit" /\ visited' = NoMiner /\ info' = NoInfo

\* Has and Delete for a miner that is not in service, else Put of its record.
SaveOk(m) ==
    /\ visited = m
    /\ cache' = [cache EXCEPT ![m] = IF InService(info) THEN Free(info)
                                                        ELSE NoRecord]
    /\ NextMiner
    /\ UNCHANGED <<details, todo, settled>>

\* The cache returns an error.
SaveErr(m) ==
    /\ visited = m
    /\ settled' = settled \ {m}
    /\ NextMiner
    /\ UNCHANGED <<details, todo, cache>>

\* The list is done; three minutes of sleep.
EndRound ==
    /\ mpc = "visit"
    /\ todo = {}
    /\ mpc' = "sleep"
    /\ UNCHANGED <<details, todo, visited, info, cache, settled>>

Wake ==
    /\ mpc = "sleep"
    /\ mpc' = "list"
    /\ UNCHANGED <<details, todo, visited, info, cache, settled>>

\* The task's locals, as it is started.
TaskInit ==
    /\ mpc = "list"
    /\ todo = {}
    /\ visited = NoMiner
    /\ info = NoInfo
    /\ settled = {}

\* The task is started again.
TaskStart ==
    /\ mpc' = "list"
    /\ todo' = {}
    /\ visited' = NoMiner
    /\ info' = NoInfo
    /\ settled' = {}

\* External: a miner joins, leaves, is frozen, gains power or space.
ChainMoves ==
    /\ \E m \in Miners, d \in Infos :
          /\ details' = [details EXCEPT ![m] = d]
          /\ details' # details
          /\ settled' = settled \ {m}
    /\ UNCHANGED <<minerTask, cache>>

MinerTaskStep ==
    \/ List \/ EndRound \/ Wake
    \/ \E m \in Miners : FetchOk(m) \/ FetchErr(m) \/ SaveOk(m) \/ SaveErr(m)

-----------------------------------------------------------------------------
(* Properties.                                                             *)

\* What a record should say of details d: nothing of a miner that is not in
\* service; otherwise the room there is, when it is at least nothing and fits
\* 64 bits.
Agrees(m, d) ==
    IF d.state = "positive"
    THEN /\ cache[m] # NoRecord
         /\ d.power - d.space \in 0..(Modulus - 1) => cache[m] = d.power - d.space
    ELSE cache[m] = NoRecord

(***************************************************************************)
(* When a round of task_MinerCache ends, the records of all the miners it  *)
(* found in the list agree with the chain, but for those that changed      *)
(* meanwhile or for which a call failed; and a miner that backupFile would *)
(* take for roomy has the room.  Excepted from the latter is a miner whose *)
(* space exceeds its power: the absolute value makes it look roomy.        *)
(***************************************************************************)
RoundFaithful ==
    mpc = "sleep" =>
        \A m \in settled :
            /\ Agrees(m, details[m])
            /\ Offered(m) /\ details[m].power >= details[m].space =>
                   details[m].power - details[m].space >= ChunkSize
=============================================================================
