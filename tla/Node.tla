-------------------------------- MODULE Node --------------------------------
(***************************************************************************)
(* The life of the scheduler's process: the command "scheduler run"        *)
(* (cmd/console/run.go), which registers the scheduler, prepares its       *)
(* directories and starts the node; the manager of its tasks (CoroutineMgr *)
(* in node/sub_main.go), the watch of the balance (task_Common), and       *)
(* task_MinerCache, in the detail of MinerCache.  The other three tasks    *)
(* are started again in the same way and have modules of their own.        *)
(*                                                                         *)
(* The cache is the database in the base directory that outlives the       *)
(* process; of what it holds, the records of the miners are followed here. *)
(*                                                                         *)
(* External: the chain, where the scheduler is registered by an extrinsic  *)
(* that may be executed after its sender has given up; the account's       *)
(* balance; whoever starts and kills the process.                          *)
(***************************************************************************)
EXTENDS MinerCache

CONSTANTS
    Balances,    \* the balances the account may have: "enough" (for
                 \* MinimumBalance), "low", or "none": the chain has no such
                 \* account (any more)
    MaxPending   \* bound: extrinsics of Register left in the pool

ASSUME BalancesAssumption == Balances \subseteq {"enough", "low", "none"}
ASSUME MaxPendingAssumption == MaxPending \in Nat

VARIABLES
    phase,       \* where the process is in runCmd
    alive,       \* how many goroutines of each task run
    leaving,     \* how many are in their deferred ch <- true
    signal,      \* how many values each task's channel holds (capacity 1)
    registered,  \* external: the chain lists the scheduler
    pending,     \* external: extrinsics of Register in the pool
    funds,       \* external: the account's balance
    misled       \* history: Register has taken the event of another
                 \* scheduler for its own

goroutines == <<alive, leaving, signal>>
external == <<registered, pending, funds>>
minerVars == <<details, minerTask, cache, settled>>
vars == <<phase, goroutines, external, misled, minerVars>>

Tasks == {"MinerCache", "Common"}

Phases == {"off", "balance", "list", "register", "wipe", "dirs", "run"}

Up == phase = "run"

None == [t \in Tasks |-> 0]

-----------------------------------------------------------------------------
(* The start: each step goes on, or ends the process with an error.        *)

\* A step of the start that touches nothing but the phase.
Advance(from, to) ==
    /\ phase = from
    /\ phase' \in {"off", to}
    /\ UNCHANGED <<goroutines, external, misled, minerVars>>

\* buildConfigFile and NewChainClient.
Launch == Advance("off", "balance")

\* GetAccountInfo, where no account, and a balance below MinimumBalance, are
\* errors; then GetSyncStatus, until the chain is in sync.
CheckBalance == Advance("balance", IF funds = "enough" THEN "list" ELSE "off")

\* A mutated form.
WipeAlways == Advance("list", IF registered THEN "wipe" ELSE "register")

\* GetAllSchedulerInfo: is the account among the schedulers?
ListSchedulers == Advance("list", IF registered THEN "dirs" ELSE "register")

\* External: an extrinsic of Register is executed; it fails if the scheduler is
\* registered already.
Registers(left) == registered' = TRUE /\ pending' = left

(***************************************************************************)
(* Register returns no error: the block with its extrinsic holds the event *)
(* of a registration, by itself, by an earlier extrinsic of the account in *)
(* the same block, or by another scheduler.                                *)
(***************************************************************************)
RegisterOk ==
    /\ phase = "register"
    /\ phase' = "wipe"
    /\ \/ Registers(0) /\ UNCHANGED misled
       \/ /\ pending' = 0
          /\ misled' = (misled \/ ~registered)
          /\ UNCHANGED registered
    /\ UNCHANGED <<goroutines, funds, minerVars>>

\* A mutated form.
RegisterErrIgnored ==
    /\ phase = "register"
    /\ phase' = "wipe"
    /\ UNCHANGED <<goroutines, external, misled, minerVars>>

\* Register returns an error, with or without a hash, and the process ends: the
\* extrinsic was not sent, or failed, or is still in the pool, or was executed.
RegisterErr ==
    /\ phase = "register"
    /\ phase' = "off"
    /\ \/ UNCHANGED <<registered, pending>>
       \/ pending < MaxPending /\ pending' = pending + 1 /\ UNCHANGED registered
       \/ Registers(0)
    /\ UNCHANGED <<goroutines, funds, misled, minerVars>>

\* register: os.RemoveAll(baseDir), the cache with it.
Wipe ==
    /\ phase = "wipe"
    /\ phase' = "dirs"
    /\ cache' = Emptied
    /\ UNCHANGED <<goroutines, external, misled, details, minerTask, settled>>

(***************************************************************************)
(* buildDir removes the fillers and the tags and keeps the rest; after     *)
(* buildCache, SetKey and buildLogs, CoroutineMgr starts every task.  A    *)
(* port that cannot be listened on ends the process, which is a Stop.      *)
(***************************************************************************)
Run ==
    /\ phase = "dirs"
    /\ \/ /\ phase' = "run"
          /\ alive' = [t \in Tasks |-> 1]
          /\ UNCHANGED <<leaving, signal>>
       \/ phase' = "off" /\ UNCHANGED goroutines
    /\ UNCHANGED <<external, misled, minerVars>>

-----------------------------------------------------------------------------
(* The running node.                                                       *)

\* The process is gone, and its goroutines and their locals with it.
Exit ==
    /\ phase' = "off"
    /\ alive' = None /\ leaving' = None /\ signal' = None
    /\ TaskStart
    /\ UNCHANGED <<external, misled, details, cache>>

\* It is killed, or a fatal error or an unrecovered panic ends it.
Stop == phase # "off" /\ Exit

(***************************************************************************)
(* A task panics (task_MinerCache in an RPC on a nil c.api); its deferred  *)
(* function recovers and sends on the task's channel.                      *)
(***************************************************************************)
Panic(t) ==
    /\ Up
    /\ alive[t] > 0
    /\ t = "MinerCache" => mpc = "list" \/ (mpc = "visit" /\ todo # {})
    /\ alive' = [alive EXCEPT ![t] = @ - 1]
    /\ leaving' = [leaving EXCEPT ![t] = @ + 1]
    /\ UNCHANGED <<phase, signal, external, misled, minerVars>>

\* ch <- true, which blocks while the channel is full.
Send(t) ==
    /\ leaving[t] > 0
    /\ signal[t] = 0
    /\ leaving' = [leaving EXCEPT ![t] = @ - 1]
    /\ signal' = [signal EXCEPT ![t] = @ + 1]
    /\ UNCHANGED <<phase, alive, external, misled, minerVars>>

\* A mutated form.
AlwaysMinerCache(t) == "MinerCache"

\* The task CoroutineMgr starts for a value from the channel of t.
Restarted(t) == t

CoroutineMgr(t) ==
    /\ signal[t] > 0
    /\ signal' = [signal EXCEPT ![t] = @ - 1]
    /\ alive' = [alive EXCEPT ![Restarted(t)] = @ + 1]
    /\ IF Restarted(t) = "MinerCache"
       THEN TaskStart
       ELSE UNCHANGED <<minerTask, settled>>
    /\ UNCHANGED <<phase, leaving, external, misled, details, cache>>

\* A mutated form.
BalanceHigh ==
    /\ Up
    /\ alive["Common"] > 0
    /\ funds = "enough"
    /\ Exit

\* task_Common, once a minute: the balance is read and is too low.  (An error,
\* that of an account the chain does not have included, changes nothing.)
BalanceLow ==
    /\ Up
    /\ alive["Common"] > 0
    /\ funds = "low"
    /\ Exit

\* A step of task_MinerCache.
MinerTask(A) ==
    /\ Up
    /\ alive["MinerCache"] > 0
    /\ A
    /\ UNCHANGED <<phase, goroutines, external, misled>>

-----------------------------------------------------------------------------
(* The surroundings.                                                       *)

\* An extrinsic of Register left in the pool is executed, with success or not.
Land ==
    /\ pending > 0
    /\ pending' = pending - 1
    /\ registered' \in {registered, TRUE}
    /\ UNCHANGED <<phase, goroutines, funds, misled, minerVars>>

BalanceMoves ==
    /\ funds' \in Balances \ {funds}
    /\ UNCHANGED <<phase, goroutines, registered, pending, misled, minerVars>>

MinersMove ==
    /\ ChainMoves
    /\ UNCHANGED <<phase, goroutines, external, misled>>

Init ==
    /\ phase = "off"
    /\ alive = None /\ leaving = None /\ signal = None
    /\ registered = FALSE
    /\ pending = 0
    /\ funds \in Balances
    /\ misled = FALSE
    /\ details \in [Miners -> Infos]
    /\ TaskInit
    /\ cache = Emptied

Next ==
    \/ Launch \/ CheckBalance \/ ListSchedulers
    \/ RegisterOk \/ RegisterErr \/ Wipe \/ Run
    \/ Stop \/ BalanceLow
    \/ \E t \in Tasks : Panic(t) \/ Send(t) \/ CoroutineMgr(t)
    \/ MinerTask(MinerTaskStep)
    \/ Land \/ BalanceMoves \/ MinersMove

(***************************************************************************)
(* Goroutines run.  RPCs and writes of the cache that are tried again and  *)
(* again succeed at last, hence the strong fairness of their successes.    *)
(* Nothing obliges the process to be started, to panic or to be killed.    *)
(***************************************************************************)
Fairness ==
    /\ \A t \in Tasks : WF_vars(Send(t)) /\ WF_vars(CoroutineMgr(t))
    /\ SF_vars(BalanceLow)
    /\ SF_vars(MinerTask(List))
    /\ WF_vars(MinerTask(MinerTaskStep))
    /\ \A m \in Miners :
          /\ SF_vars(MinerTask(FetchOk(m)))
          /\ SF_vars(MinerTask(SaveOk(m)))

Spec == Init /\ [][Next]_vars /\ Fairness

-----------------------------------------------------------------------------
(* Properties.                                                             *)

\* Every variable keeps its type.
TypeOK ==
    /\ phase \in Phases
    /\ alive \in [Tasks -> Nat]
    /\ leaving \in [Tasks -> Nat]
    /\ signal \in [Tasks -> Nat]
    /\ registered \in BOOLEAN /\ funds \in Balances /\ misled \in BOOLEAN
    /\ pending \in 0..MaxPending
    /\ details \in [Miners -> Infos]
    /\ mpc \in {"list", "visit", "save", "sleep"}
    /\ todo \subseteq Miners /\ settled \subseteq Miners
    /\ visited \in Miners \cup {NoMiner}
    /\ info \in Details
    /\ cache \in [Miners -> 0..(Modulus - 1) \cup {NoRecord}]

(***************************************************************************)
(* While the node runs, each task is in one place: a goroutine of it runs, *)
(* or is on its way out, or its restart is due.  It never runs twice at    *)
(* once, is never lost, and its last send never finds the channel full.    *)
(***************************************************************************)
OneInstance ==
    \A t \in Tasks : alive[t] + leaving[t] + signal[t] = IF Up THEN 1 ELSE 0

(***************************************************************************)
(* "Register and run the scheduler program" (README.md): however often the *)
(* start fails or is repeated, and whatever becomes of the extrinsics, a   *)
(* node runs only if the chain lists the scheduler; excepted is the event  *)
(* of another scheduler taken for one's own.                               *)
(***************************************************************************)
RunsRegistered == Up => registered \/ misled

(***************************************************************************)
(* The base directory is wiped for a new registration only: no other start *)
(* loses a record of the cache, though a registration may be executed at   *)
(* any time between the look at the list and the removal.  (The fillers    *)
(* and the tags go at every start.)                                        *)
(***************************************************************************)
NothingLost == [][phase # "run" /\ cache' # cache => misled]_vars

\* A node whose balance has become too low, for good, stops running for good,
\* even if task_Common has panicked.  (One whose account the chain has removed
\* need not stop: its balance cannot be read.)
PoorStops == <>[](funds = "low") => <>[]~Up

\* A node that goes on running comes to agree with the details of a miner that
\* no longer change, and stays so.
CacheConverges ==
    \A m \in Miners :
        <>[]Up /\ <>[][details'[m] = details[m]]_vars =>
            <>[](details[m].state # "absent" => Agrees(m, details[m]))
=============================================================================
