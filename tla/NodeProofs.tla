----------------------------- MODULE NodeProofs -----------------------------
(***************************************************************************)
(* Proofs about Node and its MinerCache, for any miners with any details,  *)
(* any width of the arithmetic and any size of a chunk.                    *)
(***************************************************************************)
EXTENDS Node, TLAPS

-----------------------------------------------------------------------------
(* The arithmetic.                                                         *)

\* The low bits of a number are within the width, and at most the number.
LEMMA LowBits ==
    ASSUME NEW n \in Nat
    PROVE  /\ n % Modulus \in 0..(Modulus - 1)
           /\ n % Modulus <= n
           /\ n < Modulus => n % Modulus = n
BY ModulusAssumption

\* Free is a uint64; of a miner with room it is the room, or less.
LEMMA FreeBounds ==
    ASSUME NEW d \in Details
    PROVE  /\ Free(d) \in 0..(Modulus - 1)
           /\ d.power >= d.space =>
                  /\ Free(d) <= d.power - d.space
                  /\ d.power - d.space < Modulus => Free(d) = d.power - d.space
<1>1. d.power \in Nat /\ d.space \in Nat
  BY DEF Details
<1>2. Abs(d.power - d.space) \in Nat
  BY <1>1 DEF Abs
<1>3. d.power >= d.space => Abs(d.power - d.space) = d.power - d.space
  BY <1>1 DEF Abs
<1> QED
  BY <1>2, <1>3, LowBits DEF Free

-----------------------------------------------------------------------------
(* Types.                                                                  *)

MinerTyped ==
    /\ details \in [Miners -> Infos]
    /\ mpc \in {"list", "visit", "save", "sleep"}
    /\ todo \subseteq Miners /\ settled \subseteq Miners
    /\ visited \in Miners \cup {NoMiner}
    /\ info \in Details
    /\ cache \in [Miners -> 0..(Modulus - 1) \cup {NoRecord}]

LEMMA NoInfoTyped == NoInfo \in Details
BY DEF NoInfo, Details, MinerStates

LEMMA EmptiedTyped == Emptied \in [Miners -> 0..(Modulus - 1) \cup {NoRecord}]
BY DEF Emptied

LEMMA MinerTypeStep == MinerTyped /\ MinerTaskStep => MinerTyped'
<1> SUFFICES ASSUME MinerTyped, MinerTaskStep PROVE MinerTyped'
  OBVIOUS
<1> USE DEF MinerTyped
<1>1. CASE List
  BY <1>1 DEF List, Visits, Listed
<1>2. CASE EndRound \/ Wake
  BY <1>2 DEF EndRound, Wake, minerTask
<1>3. ASSUME NEW m \in Miners, FetchOk(m) PROVE MinerTyped'
  <2>1. details[m] \in Details
    BY InfosAssumption
  <2> QED
    BY <1>3, <2>1 DEF FetchOk
<1>4. ASSUME NEW m \in Miners, FetchErr(m) PROVE MinerTyped'
  BY <1>4 DEF FetchErr
<1>5. ASSUME NEW m \in Miners, SaveOk(m) PROVE MinerTyped'
  <2>1. (IF InService(info) THEN Free(info) ELSE NoRecord)
            \in 0..(Modulus - 1) \cup {NoRecord}
    BY FreeBounds
  <2>2. cache' \in [Miners -> 0..(Modulus - 1) \cup {NoRecord}]
    BY <1>5, <2>1 DEF SaveOk
  <2> QED
    BY <1>5, <2>2, NoInfoTyped DEF SaveOk, NextMiner
<1>6. ASSUME NEW m \in Miners, SaveErr(m) PROVE MinerTyped'
  BY <1>6, NoInfoTyped DEF SaveErr, NextMiner
<1> QED
  BY <1>1, <1>2, <1>3, <1>4, <1>5, <1>6 DEF MinerTaskStep

\* Where the variables of the process change, and where those of the cache do.
NodeTyped ==
    /\ phase \in Phases
    /\ alive \in [Tasks -> Nat]
    /\ leaving \in [Tasks -> Nat]
    /\ signal \in [Tasks -> Nat]
    /\ registered \in BOOLEAN /\ funds \in Balances /\ misled \in BOOLEAN
    /\ pending \in 0..MaxPending

LEMMA Typed == TypeOK <=> NodeTyped /\ MinerTyped
BY DEF TypeOK, NodeTyped, MinerTyped

LEMMA NoneTyped == None \in [Tasks -> Nat]
BY DEF None

LEMMA NodeTypeInit == Init => TypeOK
<1> SUFFICES ASSUME Init PROVE NodeTyped /\ MinerTyped
  BY Typed
<1>1. NodeTyped
  <2>1. registered \in BOOLEAN /\ funds \in Balances /\ misled \in BOOLEAN
    BY Zenon DEF Init
  <2>2. pending \in 0..MaxPending /\ phase \in Phases
    BY MaxPendingAssumption DEF Init, Phases
  <2> QED
    BY <2>1, <2>2, NoneTyped DEF Init, NodeTyped
<1>2. MinerTyped
  BY NoInfoTyped, EmptiedTyped DEF Init, TaskInit, MinerTyped
<1> QED
  BY <1>1, <1>2

LEMMA NodeTypeStep == TypeOK /\ [Next]_vars => TypeOK'
<1> SUFFICES ASSUME NodeTyped, MinerTyped, [Next]_vars
             PROVE  NodeTyped' /\ MinerTyped'
  BY DEF TypeOK, NodeTyped, MinerTyped
<1> USE DEF NodeTyped
<1>0. ASSUME UNCHANGED minerVars PROVE MinerTyped'
  BY <1>0 DEF minerVars, minerTask, MinerTyped
<1>1. CASE Launch \/ CheckBalance \/ ListSchedulers
  <2>1. phase' \in Phases
    BY <1>1 DEF Launch, CheckBalance, ListSchedulers, Advance, Phases
  <2> QED
    BY <1>0, <1>1, <2>1 DEF Launch, CheckBalance, ListSchedulers, Advance,
                            goroutines, external
<1>2. CASE RegisterOk
  <2>1. misled' \in BOOLEAN /\ registered' \in BOOLEAN
    BY <1>2, Zenon DEF RegisterOk, Registers
  <2>2. pending' \in 0..MaxPending /\ phase' \in Phases
    BY <1>2, MaxPendingAssumption DEF RegisterOk, Registers, Phases
  <2> QED
    BY <1>0, <1>2, <2>1, <2>2 DEF RegisterOk, goroutines
<1>3. CASE RegisterErr
  <2>1. registered' \in BOOLEAN
    BY <1>3, Zenon DEF RegisterErr, Registers
  <2>2. pending' \in 0..MaxPending /\ phase' \in Phases
    BY <1>3, MaxPendingAssumption DEF RegisterErr, Registers, Phases
  <2> QED
    BY <1>0, <1>3, <2>1, <2>2 DEF RegisterErr, goroutines
<1>4. CASE Wipe
  <2>1. NodeTyped'
    BY <1>4 DEF Wipe, Phases, goroutines, external
  <2>2. MinerTyped'
    BY <1>4, EmptiedTyped DEF Wipe, MinerTyped, minerTask
  <2> QED
    BY <2>1, <2>2
<1>5. CASE Run
  <2>1. alive' \in [Tasks -> Nat]
    BY <1>5 DEF Run, goroutines
  <2> QED
    BY <1>0, <1>5, <2>1 DEF Run, Phases, goroutines, external
<1>6. CASE Stop \/ BalanceLow
  <2>1. Exit
    BY <1>6 DEF Stop, BalanceLow
  <2>2. NodeTyped'
    BY <2>1, NoneTyped DEF Exit, Phases, external
  <2>3. MinerTyped'
    BY <2>1, NoInfoTyped DEF Exit, TaskStart, MinerTyped
  <2> QED
    BY <2>2, <2>3
<1>7. ASSUME NEW t \in Tasks, Panic(t) \/ Send(t) PROVE NodeTyped' /\ MinerTyped'
  <2>1. NodeTyped'
    BY <1>7 DEF Panic, Send, external
  <2> QED
    BY <1>0, <1>7, <2>1 DEF Panic, Send
<1>8. ASSUME NEW t \in Tasks, CoroutineMgr(t) PROVE NodeTyped' /\ MinerTyped'
  <2>1. NodeTyped'
    BY <1>8 DEF CoroutineMgr, Restarted, external
  <2>2. MinerTyped'
    BY <1>8, NoInfoTyped
    DEF CoroutineMgr, TaskStart, MinerTyped, minerTask
  <2> QED
    BY <2>1, <2>2
<1>9. CASE MinerTask(MinerTaskStep)
  <2>1. NodeTyped'
    BY <1>9 DEF MinerTask, goroutines, external
  <2>2. MinerTyped'
    BY <1>9, MinerTypeStep DEF MinerTask
  <2> QED
    BY <2>1, <2>2
<1>10. CASE Land
  <2>1. registered' \in BOOLEAN
    BY <1>10, Zenon DEF Land
  <2>2. pending' \in 0..MaxPending
    BY <1>10, MaxPendingAssumption DEF Land
  <2> QED
    BY <1>0, <1>10, <2>1, <2>2 DEF Land, goroutines
<1>11. CASE BalanceMoves
  BY <1>0, <1>11 DEF BalanceMoves, goroutines
<1>12. CASE MinersMove
  <2>1. NodeTyped'
    BY <1>12 DEF MinersMove, goroutines, external
  <2>2. MinerTyped'
    BY <1>12 DEF MinersMove, ChainMoves, MinerTyped, minerTask
  <2> QED
    BY <2>1, <2>2
<1>13. CASE UNCHANGED vars
  BY <1>0, <1>13 DEF vars, goroutines, external
<1> QED
  BY <1>1, <1>2, <1>3, <1>4, <1>5, <1>6, <1>7, <1>8, <1>9, <1>10, <1>11, <1>12,
     <1>13
  DEF Next

\* Every variable keeps its type: what is recorded of a miner is a uint64.
THEOREM TypeCorrect == Spec => []TypeOK
BY NodeTypeInit, NodeTypeStep, PTL DEF Spec

-----------------------------------------------------------------------------
(* The tasks.                                                              *)

LEMMA OneInit == Init => OneInstance
BY DEF Init, OneInstance, None, Up

LEMMA OneStep == TypeOK /\ OneInstance /\ [Next]_vars => OneInstance'
<1> SUFFICES ASSUME NodeTyped, OneInstance, [Next]_vars PROVE OneInstance'
  BY Typed
<1> USE DEF NodeTyped, OneInstance, Up
<1>1. CASE Launch \/ CheckBalance \/ ListSchedulers
  BY <1>1 DEF Launch, CheckBalance, ListSchedulers, Advance, goroutines
<1>2. CASE RegisterOk \/ RegisterErr \/ Wipe
  BY <1>2 DEF RegisterOk, RegisterErr, Wipe, goroutines
<1>3. CASE Run
  <2>1. ASSUME NEW t \in Tasks PROVE leaving[t] = 0 /\ signal[t] = 0 /\ alive[t] = 0
    BY <1>3 DEF Run
  <2>2. CASE phase' = "run"
    BY <1>3, <2>1, <2>2 DEF Run
  <2>3. CASE phase' # "run"
    BY <1>3, <2>1, <2>3 DEF Run, goroutines
  <2> QED
    BY <2>2, <2>3
<1>4. CASE Stop \/ BalanceLow
  BY <1>4 DEF Stop, BalanceLow, Exit, None
<1>5. ASSUME NEW t \in Tasks, Panic(t) \/ Send(t) PROVE OneInstance'
  <2>1. CASE Panic(t)
    BY <1>5, <2>1 DEF Panic
  <2>2. CASE Send(t)
    BY <1>5, <2>2 DEF Send
  <2> QED
    BY <1>5, <2>1, <2>2
<1>6. ASSUME NEW t \in Tasks, CoroutineMgr(t) PROVE OneInstance'
  BY <1>6 DEF CoroutineMgr, Restarted
<1>7. CASE MinerTask(MinerTaskStep) \/ Land \/ BalanceMoves \/ MinersMove
  BY <1>7 DEF MinerTask, Land, BalanceMoves, MinersMove, goroutines
<1>8. CASE UNCHANGED vars
  BY <1>8 DEF vars, goroutines
<1> QED
  BY <1>1, <1>2, <1>3, <1>4, <1>5, <1>6, <1>7, <1>8 DEF Next

(***************************************************************************)
(* CoroutineMgr keeps each task in one place while the node runs: none is  *)
(* lost, none runs twice, however often they panic.                        *)
(***************************************************************************)
THEOREM OneCorrect == Spec => []OneInstance
BY NodeTypeInit, NodeTypeStep, OneInit, OneStep, PTL DEF Spec

-----------------------------------------------------------------------------
(* The registration.                                                       *)

(***************************************************************************)
(* A start that has passed the registration is of a scheduler the chain    *)
(* lists, and so was every run that has left something in the cache; hence *)
(* a start that finds itself unregistered finds nothing to lose, and does  *)
(* so still when, at last, it removes the base directory.                  *)
(***************************************************************************)
Registration ==
    /\ phase \in {"wipe", "dirs", "run"} => registered \/ misled
    /\ cache # Emptied => registered \/ misled
    /\ phase \in {"register", "wipe"} => cache = Emptied \/ misled

LEMMA RegistrationInit == Init => Registration
BY DEF Init, Registration

LEMMA RegistrationStep == TypeOK /\ Registration /\ [Next]_vars => Registration'
<1> SUFFICES ASSUME registered \in BOOLEAN, misled \in BOOLEAN,
                    Registration, [Next]_vars
             PROVE  Registration'
  BY DEF TypeOK
<1> USE DEF Registration
<1>1. CASE Launch \/ CheckBalance
  BY <1>1 DEF Launch, CheckBalance, Advance, external, minerVars
<1>2. CASE ListSchedulers
  BY <1>2 DEF ListSchedulers, Advance, external, minerVars
<1>3. CASE RegisterOk
  <2>1. registered' \/ misled'
    BY <1>3, Zenon DEF RegisterOk, Registers
  <2>2. misled => misled'
    BY <1>3, Zenon DEF RegisterOk
  <2> QED
    BY <1>3, <2>1, <2>2 DEF RegisterOk, minerVars
<1>4. CASE RegisterErr
  <2>1. registered => registered'
    BY <1>4, Zenon DEF RegisterErr, Registers
  <2> QED
    BY <1>4, <2>1 DEF RegisterErr, minerVars
<1>5. CASE Wipe
  BY <1>5 DEF Wipe, external
<1>6. CASE Run
  BY <1>6 DEF Run, external, minerVars
<1>7. CASE Stop \/ BalanceLow
  BY <1>7 DEF Stop, BalanceLow, Exit, external
<1>8. ASSUME NEW t \in Tasks, Panic(t) \/ Send(t) \/ CoroutineMgr(t)
      PROVE  Registration'
  BY <1>8 DEF Panic, Send, CoroutineMgr, external, minerVars
<1>9. CASE MinerTask(MinerTaskStep)
  BY <1>9 DEF MinerTask, Up, external
<1>10. CASE Land
  <2>1. registered => registered'
    BY <1>10, Zenon DEF Land
  <2> QED
    BY <1>10, <2>1 DEF Land, minerVars
<1>11. CASE BalanceMoves
  BY <1>11 DEF BalanceMoves, minerVars
<1>12. CASE MinersMove
  BY <1>12 DEF MinersMove, ChainMoves, external
<1>13. CASE UNCHANGED vars
  BY <1>13 DEF vars, external, minerVars
<1> QED
  BY <1>1, <1>2, <1>3, <1>4, <1>5, <1>6, <1>7, <1>8, <1>9, <1>10, <1>11, <1>12,
     <1>13
  DEF Next

(***************************************************************************)
(* A node runs only if the chain lists the scheduler, whatever became of   *)
(* the extrinsics of Register: unless the event of another scheduler was   *)
(* taken for its own.                                                      *)
(***************************************************************************)
THEOREM RegisteredCorrect == Spec => []RunsRegistered
<1>1. Registration => RunsRegistered
  BY DEF Registration, RunsRegistered, Up
<1> QED
  BY <1>1, NodeTypeInit, NodeTypeStep, RegistrationInit, RegistrationStep, PTL
  DEF Spec

\* While the node does not run, only Wipe touches the cache.
LEMMA OnlyWipes ==
    Registration /\ Next /\ phase # "run" /\ cache' # cache => misled
<1> SUFFICES ASSUME Registration, Next, phase # "run", cache' # cache
             PROVE  misled
  OBVIOUS
<1>1. ~ (Launch \/ CheckBalance \/ ListSchedulers \/ RegisterOk \/ RegisterErr)
  BY DEF Launch, CheckBalance, ListSchedulers, Advance, RegisterOk, RegisterErr,
         minerVars
<1>2. ~ (Run \/ Stop \/ BalanceLow)
  BY DEF Run, Stop, BalanceLow, Exit, minerVars
<1>3. \A t \in Tasks : ~ (Panic(t) \/ Send(t) \/ CoroutineMgr(t))
  BY DEF Panic, Send, CoroutineMgr, minerVars
<1>4. ~ (MinerTask(MinerTaskStep) \/ Land \/ BalanceMoves \/ MinersMove)
  BY DEF MinerTask, Up, Land, BalanceMoves, MinersMove, ChainMoves, minerVars
<1>5. Wipe
  BY <1>1, <1>2, <1>3, <1>4 DEF Next
<1> QED
  BY <1>5 DEF Wipe, Registration

(***************************************************************************)
(* A start loses nothing of what earlier runs stored, though the directory *)
(* is removed long after the list of schedulers was read.                  *)
(***************************************************************************)
THEOREM LossCorrect == Spec => NothingLost
<1>1. Registration /\ [Next]_vars =>
          [phase # "run" /\ cache' # cache => misled]_vars
  BY OnlyWipes
<1> QED
  BY <1>1, NodeTypeInit, NodeTypeStep, RegistrationInit, RegistrationStep, PTL
  DEF Spec, NothingLost

-----------------------------------------------------------------------------
(* The round of task_MinerCache.                                           *)

\* The record of m says what its details say.
Recorded(m) ==
    cache[m] = IF InService(details[m]) THEN Free(details[m]) ELSE NoRecord

(***************************************************************************)
(* In a round, the settled miners already visited are recorded; the one in *)
(* hand will be, from details that are still those of the chain.           *)
(***************************************************************************)
Round ==
    /\ mpc # "save" => visited = NoMiner
    /\ mpc = "save" /\ visited \in settled => info = details[visited]
    /\ mpc = "sleep" => todo = {}
    /\ mpc # "list" =>
           \A m \in settled \ todo : m # visited => Recorded(m)

\* The task is at its start when the node does not run.
Idle == ~Up => mpc = "list"

LEMMA RoundInit == Init => Round /\ Idle
BY DEF Init, TaskInit, Round, Idle

LEMMA IdleStep == Idle /\ [Next]_vars => Idle'
<1> SUFFICES ASSUME Idle, [Next]_vars PROVE Idle'
  OBVIOUS
<1> USE DEF Idle, Up
<1>1. CASE Launch \/ CheckBalance \/ ListSchedulers
  BY <1>1 DEF Launch, CheckBalance, ListSchedulers, Advance, minerVars, minerTask
<1>2. CASE RegisterOk \/ RegisterErr \/ Wipe \/ Run
  BY <1>2 DEF RegisterOk, RegisterErr, Wipe, Run, minerVars, minerTask
<1>3. CASE Stop \/ BalanceLow
  BY <1>3 DEF Stop, BalanceLow, Exit, TaskStart
<1>4. ASSUME NEW t \in Tasks, Panic(t) \/ Send(t) \/ CoroutineMgr(t) PROVE Idle'
  BY <1>4 DEF Panic, Send, CoroutineMgr, TaskStart, minerVars, minerTask
<1>5. CASE MinerTask(MinerTaskStep)
  BY <1>5 DEF MinerTask
<1>6. CASE Land \/ BalanceMoves \/ MinersMove
  BY <1>6 DEF Land, BalanceMoves, MinersMove, ChainMoves, minerVars, minerTask
<1>7. CASE UNCHANGED vars
  BY <1>7 DEF vars, minerVars, minerTask
<1> QED
  BY <1>1, <1>2, <1>3, <1>4, <1>5, <1>6, <1>7 DEF Next

LEMMA RoundTaskStep == MinerTyped /\ Round /\ MinerTaskStep => Round'
<1> SUFFICES ASSUME MinerTyped, Round, MinerTaskStep PROVE Round'
  OBVIOUS
<1> USE MinersAssumption DEF MinerTyped, Round
<1>1. CASE List
  BY <1>1 DEF List, Visits
<1>2. CASE EndRound \/ Wake
  BY <1>2 DEF EndRound, Wake, minerTask, Recorded
<1>3. ASSUME NEW m \in Miners, FetchOk(m) PROVE Round'
  BY <1>3 DEF FetchOk, Recorded
<1>4. ASSUME NEW m \in Miners, FetchErr(m) PROVE Round'
  BY <1>4 DEF FetchErr, Recorded
<1>5. ASSUME NEW m \in Miners, SaveOk(m) PROVE Round'
  <2>1. mpc = "save"
    BY <1>5 DEF SaveOk
  <2>2. m \in settled => Recorded(m)'
    BY <1>5, <2>1 DEF SaveOk, Recorded
  <2>3. ASSUME NEW n \in settled \ todo, n # m PROVE Recorded(n)'
    <3>1. Recorded(n) /\ cache'[n] = cache[n] /\ details' = details
      BY <1>5, <2>1, <2>3 DEF SaveOk
    <3> QED
      BY <3>1 DEF Recorded
  <2> QED
    BY <1>5, <2>1, <2>2, <2>3 DEF SaveOk, NextMiner
<1>6. ASSUME NEW m \in Miners, SaveErr(m) PROVE Round'
  BY <1>6 DEF SaveErr, NextMiner, Recorded
<1> QED
  BY <1>1, <1>2, <1>3, <1>4, <1>5, <1>6 DEF MinerTaskStep

\* What another goroutine or the chain does leaves the round right.
LEMMA RoundStep == TypeOK /\ Round /\ Idle /\ [Next]_vars => Round'
<1> SUFFICES ASSUME MinerTyped, Round, Idle, [Next]_vars PROVE Round'
  BY Typed
<1>1. ASSUME UNCHANGED minerVars PROVE Round'
  BY <1>1 DEF minerVars, minerTask, Round, Recorded
<1>2. ASSUME TaskStart PROVE Round'
  BY <1>2 DEF TaskStart, Round
<1>3. CASE Wipe
  <2>1. mpc' = "list" /\ visited' = visited
    BY <1>3 DEF Wipe, Idle, Up, minerTask
  <2>2. mpc = "list"
    BY <1>3 DEF Wipe, Idle, Up
  <2> QED
    BY <2>1, <2>2 DEF Round
<1>4. CASE MinersMove
  <2>1. PICK m \in Miners : /\ settled' = settled \ {m}
                            /\ \A n \in Miners \ {m} : details'[n] = details[n]
    BY <1>4 DEF MinersMove, ChainMoves, MinerTyped
  <2> QED
    BY <1>4, <2>1
    DEF MinersMove, ChainMoves, minerTask, Round, Recorded, MinerTyped
<1>5. CASE MinerTask(MinerTaskStep)
  BY <1>5, RoundTaskStep DEF MinerTask
<1>6. ASSUME NEW t \in Tasks, Panic(t) \/ Send(t) \/ CoroutineMgr(t) PROVE Round'
  <2>1. UNCHANGED minerVars \/ TaskStart
    BY <1>6 DEF Panic, Send, CoroutineMgr, minerVars
  <2> QED
    BY <1>1, <1>2, <2>1
<1>7. CASE Launch \/ CheckBalance \/ ListSchedulers \/ RegisterOk \/ RegisterErr
           \/ Run \/ Land \/ BalanceMoves \/ UNCHANGED vars
  BY <1>1, <1>7 DEF Launch, CheckBalance, ListSchedulers, Advance, RegisterOk,
                    RegisterErr, Run, Land, BalanceMoves, vars
<1>8. CASE Stop \/ BalanceLow
  BY <1>2, <1>8 DEF Stop, BalanceLow, Exit
<1> QED
  BY <1>3, <1>4, <1>5, <1>6, <1>7, <1>8 DEF Next

\* A record that is right shows no more room than there is, but for a miner with
\* less power than space.
LEMMA RecordedAgrees ==
    ASSUME MinerTyped, NEW m \in Miners, Recorded(m)
    PROVE  /\ Agrees(m, details[m])
           /\ Offered(m) /\ details[m].power >= details[m].space =>
                  details[m].power - details[m].space >= ChunkSize
<1> DEFINE d == details[m]
<1>1. d \in Details /\ d.power \in Nat /\ d.space \in Nat
  BY InfosAssumption DEF MinerTyped, Details
<1>2. Free(d) \in 0..(Modulus - 1)
  BY <1>1, FreeBounds
<1>3. d.power >= d.space =>
          /\ Free(d) <= d.power - d.space
          /\ d.power - d.space < Modulus => Free(d) = d.power - d.space
  BY <1>1, FreeBounds
<1>4. Free(d) # NoRecord
  BY <1>2, ModulusAssumption DEF NoRecord
<1>5. CASE InService(d)
  <2>1. cache[m] = Free(d)
    BY <1>5 DEF Recorded
  <2>2. Agrees(m, d)
    BY <1>1, <1>3, <1>4, <1>5, <2>1, ModulusAssumption DEF Agrees, InService
  <2> QED
    BY <1>1, <1>2, <1>3, <2>1, <2>2, ChunkSizeAssumption, ModulusAssumption
    DEF Offered
<1>6. CASE ~InService(d)
  BY <1>6 DEF Recorded, Agrees, InService, Offered
<1> QED
  BY <1>5, <1>6

(***************************************************************************)
(* At the end of a round the records of the miners that did not change     *)
(* meanwhile, and for which no call failed, agree with the chain, and none *)
(* of them is offered without room, but for miners with more space than    *)
(* power.                                                                  *)
(***************************************************************************)
THEOREM RoundCorrect == Spec => []RoundFaithful
<1>1. TypeOK /\ Round => RoundFaithful
  <2> SUFFICES ASSUME MinerTyped, Round, mpc = "sleep", NEW m \in settled
               PROVE  /\ Agrees(m, details[m])
                      /\ Offered(m) /\ details[m].power >= details[m].space =>
                             details[m].power - details[m].space >= ChunkSize
    BY Typed DEF RoundFaithful
  <2>1. m \in Miners /\ m # NoMiner
    BY MinersAssumption DEF MinerTyped
  <2>2. Recorded(m)
    BY <2>1 DEF Round
  <2> QED
    BY <2>1, <2>2, RecordedAgrees
<1> QED
  BY <1>1, NodeTypeInit, NodeTypeStep, RoundInit, RoundStep, IdleStep, PTL
  DEF Spec
=============================================================================
