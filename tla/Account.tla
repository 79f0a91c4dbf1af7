------------------------------ MODULE Account ------------------------------
(***************************************************************************)
(* What the chain client makes of its account, seen by its callers and the *)
(* chain: the account's extrinsics are a queue.  A call puts one at its    *)
(* end, or none; they are executed from the front, whoever has given up on *)
(* them; and a call that names a block has its extrinsic executed.         *)
(***************************************************************************)
EXTENDS Integers, Sequences

CONSTANTS
    Callers,
    Kinds,    \* of extrinsics
    Event     \* the event a call of each kind looks for among those executed

VARIABLES
    calling,   \* who is in a call
    op,        \* the kind of a caller's last call; a query has a kind of its own
    placed,    \* how many extrinsics that call has put in the queue
    watched,   \* the place of the extrinsic it watches, or -1
    ret,       \* what it has returned
    queue,     \* the kinds of the account's extrinsics: a function on 0..n
    executed   \* those executed, in order: [kind, ok, events]

accountVars == <<calling, op, placed, watched, ret, queue, executed>>

Init ==
    /\ calling = [c \in Callers |-> FALSE]
    /\ \A c \in Callers : op[c] \notin Kinds
    /\ placed = [c \in Callers |-> 0]
    /\ watched = [c \in Callers |-> -1]
    /\ ret = [c \in Callers |-> [hash |-> FALSE, err |-> "none"]]
    /\ DOMAIN queue = {}
    /\ executed = <<>>

Call(c) ==
    /\ ~ calling[c]
    /\ calling' = [calling EXCEPT ![c] = TRUE]
    /\ op' = [op EXCEPT ![c] = op'[c]]
    /\ placed' = [placed EXCEPT ![c] = 0]
    /\ watched' = [watched EXCEPT ![c] = -1]
    /\ ret' = [ret EXCEPT ![c] = [hash |-> FALSE, err |-> "none"]]
    /\ UNCHANGED <<queue, executed>>

\* c's extrinsic goes to the end of the queue, which is place n.
Put(c, n) ==
    /\ calling[c]
    /\ op[c] \in Kinds
    /\ placed[c] = 0
    /\ placed' = [placed EXCEPT ![c] = 1]
    /\ DOMAIN queue = 0..(n - 1)
    /\ queue' = [i \in 0..n |-> IF i = n THEN op[c] ELSE queue[i]]

\* The caller may learn of it, or the answer is lost.
Place(c) ==
    /\ \E n \in DOMAIN queue' :
          /\ Put(c, n)
          /\ watched' \in {watched, [watched EXCEPT ![c] = n]}
    /\ UNCHANGED <<calling, op, ret, executed>>

Return(c, hash, err) ==
    /\ calling[c]
    /\ calling' = [calling EXCEPT ![c] = FALSE]
    /\ ret' = [ret EXCEPT ![c] = [hash |-> hash, err |-> err]]
    /\ UNCHANGED <<op, executed>>

\* A return that says nothing of an extrinsic, not even that there is none.
GiveUp(c) ==
    /\ Return(c, FALSE, ret'[c].err)
    /\ watched' = [watched EXCEPT ![c] = -1]
    /\ (\E n \in DOMAIN queue' : Put(c, n)) \/ UNCHANGED <<queue, placed>>

\* A return with a block hash: the extrinsic is executed.  Only the absence of
\* an error says more, that its event is there; "failed" may be an event missed.
Report(c) ==
    /\ watched[c] \in 0..(Len(executed) - 1)
    /\ LET x == executed[watched[c] + 1]
       IN  \/ Return(c, TRUE, "other")
           \/ Return(c, TRUE, "failed")
           \/ Return(c, TRUE, "nil") /\ Event[op[c]] \in x.events
    /\ UNCHANGED <<watched, queue, placed>>

\* Some of the queue's first extrinsics not yet executed are executed.
Execute ==
    /\ Len(executed') > Len(executed)
    /\ \A n \in 1..Len(executed) : executed'[n] = executed[n]
    /\ \A n \in (Len(executed) + 1)..Len(executed') :
          /\ n - 1 \in DOMAIN queue
          /\ executed'[n].kind = queue[n - 1]
    /\ UNCHANGED <<calling, op, placed, watched, ret, queue>>

Next ==
    \/ \E c \in Callers : Call(c) \/ Place(c) \/ GiveUp(c) \/ Report(c)
    \/ Execute

Spec == Init /\ [][Next]_accountVars
=============================================================================
