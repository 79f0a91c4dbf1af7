----------------------------- MODULE FileRecord -----------------------------
(***************************************************************************)
(* What the backup of a file promises to the clients, who read the file's  *)
(* record, and to the chain: a list of miners names only miners that have  *)
(* the chunks; the chain is given complete lists; the record says that the *)
(* file failed, or is active, with a complete list; and that it is active  *)
(* only when the chain has it so, or when the answer to that submission    *)
(* was misread.  A miner keeps what it has received.                       *)
(***************************************************************************)
EXTENDS Naturals, Sequences

CONSTANTS
    Miners,
    NChunks

VARIABLES
    held,        \* the chunks each miner has received
    record,      \* the file's state and its miners, as shown to clients
    proposed,    \* lists submitted and not yet executed
    chainState,  \* what the chain says of the file
    chainMeta,   \* the list it has
    misread      \* lists whose submission failed and was taken for a success

chain == <<proposed, chainState, chainMeta, misread>>
recordVars == <<held, record, chain>>

\* The miners of the first chunks, one by one, and of all of them.
Lists == UNION {[1..n -> Miners] : n \in 0..NChunks}
FullLists == [1..NChunks -> Miners]

True(list) == \A c \in 1..Len(list) : c \in held[list[c]]

Saying(state, list) == [state |-> state, miners |-> list]

Init ==
    /\ held = [m \in Miners |-> {}]
    /\ record = Saying("none", <<>>)
    /\ proposed = {}
    /\ chainState = "pending"
    /\ chainMeta = <<>>
    /\ misread = {}

Receive(m, c) ==
    /\ held' = [held EXCEPT ![m] = @ \cup {c}]
    /\ UNCHANGED <<record, chain>>

\* The backup shows how far it is, the first chunks or none.
Show(list) ==
    /\ True(list)
    /\ record' = Saying("pending", list)
    /\ UNCHANGED <<held, chain>>

Execute(list) == chainState' = "active" /\ chainMeta' = list

\* A complete list goes to the chain, which has it at once, later or never; the
\* backup may give up at that.
Submit(list) ==
    /\ True(list)
    /\ \/ UNCHANGED chain
       \/ /\ proposed' = proposed \cup {list}
          /\ UNCHANGED <<chainState, chainMeta, misread>>
       \/ Execute(list) /\ UNCHANGED <<proposed, misread>>
    /\ record' \in {record, Saying("Failed", list)}
    /\ UNCHANGED held

\* The submission fails in a block with another one's event.
Misread(list) ==
    /\ True(list)
    /\ misread' = misread \cup {list}
    /\ UNCHANGED <<held, record, proposed, chainState, chainMeta>>

Land(list) ==
    /\ proposed' = proposed \ {list}
    /\ Execute(list) \/ UNCHANGED <<chainState, chainMeta>>
    /\ UNCHANGED <<held, record, misread>>

Confirm(list) ==
    /\ chainState = "active" \/ list \in misread
    /\ True(list)
    /\ record' = Saying("active", list)
    /\ UNCHANGED <<held, chain>>

Next ==
    \/ \E m \in Miners, c \in 1..NChunks : Receive(m, c)
    \/ \E list \in Lists : Show(list)
    \/ \E list \in FullLists : Submit(list) \/ Misread(list) \/ Confirm(list)
    \/ \E list \in proposed : Land(list)

Spec == Init /\ [][Next]_recordVars
=============================================================================
