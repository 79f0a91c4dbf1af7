----------------------------- MODULE TagService -----------------------------
(***************************************************************************)
(* How the scheduler gets the PoDR2 tag of a file from the SGX service     *)
(* (RequestAndSaveTag in node/sub_filler.go, GetTag in node/route.go).     *)
(*                                                                         *)
(* The generator of fillers and the file backups ask one at a time, under  *)
(* workLock.  A request is an HTTP call that only starts the computation;  *)
(* the answer comes later, to the callback route, whose goroutine puts it  *)
(* in the channel Ch_Tag, of capacity one, for whoever waits there.  The   *)
(* answer names no request.  The first tag saved also gives the public key *)
(* with which proofs are verified.                                         *)
(*                                                                         *)
(* The SGX service is external: it answers a request once, with success or *)
(* failure, or never.                                                      *)
(***************************************************************************)
EXTENDS Integers, FiniteSets

CONSTANTS
    Requesters,   \* the goroutines that call RequestAndSaveTag
    Files,        \* the files to tag
    Callbacks,    \* bound: answers handled by the route at one time
    None

ASSUME NoneAssumption == None \notin Requesters \cup Files

VARIABLES
    workLock,     \* the mutex: its holder, or None
    pc,           \* each requester's point in RequestAndSaveTag
    file,         \* the file it wants tagged; None when it is done with it
    tag,          \* the answer it received: the file the tag is of
    chTag,        \* Ch_Tag: the answer in the channel, or None
    cb,           \* the goroutines of GetTag: [at, tag]
    saved,        \* the tag file of each file: the file its tag is of, or None
    keyMem,       \* proof.key is set
    keyE, keyN,   \* the halves of the key are in the cache
    asked,        \* external: the files whose tags the SGX is to compute
    late          \* history: a request was given up and might still be answered

requesters == <<workLock, pc, file, tag>>
key == <<keyMem, keyE, keyN>>
vars == <<workLock, pc, file, tag, chTag, cb, saved, keyMem, keyE, keyN, asked,
          late>>

Done == [at |-> "done", tag |-> None]

-----------------------------------------------------------------------------
(* RequestAndSaveTag.                                                      *)

\* task_GenerateFiller asks for a new filler's tag, backupFile for that of a
\* chunk whose tag file is missing.
Request(r, f) ==
    /\ pc[r] = "idle"
    /\ saved[f] = None
    /\ pc' = [pc EXCEPT ![r] = "lock"]
    /\ file' = [file EXCEPT ![r] = f]
    /\ UNCHANGED <<workLock, tag, chTag, cb, saved, key, asked, late>>

\* Return, with or without an error: the deferred Unlock.
Return(r) ==
    /\ pc' = [pc EXCEPT ![r] = "idle"]
    /\ file' = [file EXCEPT ![r] = None]
    /\ tag' = [tag EXCEPT ![r] = None]
    /\ workLock' = IF workLock = r THEN None ELSE workLock

Goto(r, at) ==
    /\ pc' = [pc EXCEPT ![r] = at]
    /\ UNCHANGED <<workLock, file>>

LockIgnored == TRUE
LockFree == workLock = None

\* workLock.Lock()
Lock(r) ==
    /\ pc[r] = "lock"
    /\ LockFree
    /\ workLock' = r
    /\ pc' = [pc EXCEPT ![r] = "ask"]
    /\ UNCHANGED <<file, tag, chTag, cb, saved, key, asked, late>>

\* External: the request of getTagReq is at the SGX service, which may call
\* back before the HTTP call has returned.
SgxTakes(r) ==
    /\ pc[r] = "ask"
    /\ Goto(r, "asking")
    /\ asked' = asked \cup {file[r]}
    /\ UNCHANGED <<tag, chTag, cb, saved, key, late>>

\* An answer is in the channel, in the route, or still to come.
Outstanding == asked # {} \/ chTag # None \/ \E s \in Callbacks : cb[s] # Done

\* getTagReq returns: the request is taken; or it failed, though the SGX may have
\* it.  The HTTP client has no timeout: a silent service keeps it waiting.
GetTagReq(r) ==
    /\ \/ pc[r] = "asking" /\ Goto(r, "wait") /\ UNCHANGED <<tag, late>>
       \/ pc[r] = "ask" /\ Return(r) /\ UNCHANGED late
       \/ pc[r] = "asking" /\ Return(r) /\ late' = (late \/ Outstanding)
    /\ UNCHANGED <<chTag, cb, saved, key, asked>>

\* tag = <-Ch_Tag
Receive(r) ==
    /\ pc[r] = "wait"
    /\ chTag # None
    /\ tag' = [tag EXCEPT ![r] = chTag]
    /\ chTag' = None
    /\ Goto(r, "save")
    /\ UNCHANGED <<cb, saved, key, asked, late>>

TimeOutNever(r) == FALSE

\* TimeOut_WaitTag.
TimeOut(r) ==
    /\ pc[r] = "wait"
    /\ Return(r)
    /\ late' = (late \/ Outstanding)
    /\ UNCHANGED <<chTag, cb, saved, key, asked>>

(***************************************************************************)
(* The answer is decoded and saveTagToFile writes it.  A malformed field,  *)
(* a failing write (the tag file is removed then) and a number that does   *)
(* not parse (a panic) all leave no tag file and return.                   *)
(***************************************************************************)
Save(r) ==
    /\ pc[r] = "save"
    /\ \/ /\ saved' = [saved EXCEPT ![file[r]] = tag[r]]
          /\ pc' = [pc EXCEPT ![r] = "key"]
          /\ file' = [file EXCEPT ![r] = None]
          /\ tag' = [tag EXCEPT ![r] = None]
          /\ UNCHANGED workLock
       \/ /\ saved' \in {saved, [saved EXCEPT ![file[r]] = None]}
          /\ Return(r)
    /\ UNCHANGED <<chTag, cb, key, asked, late>>

\* proof.SetKey: the key is in memory once both halves are found in the cache.
LoadKey == keyMem' = (keyMem \/ (keyE /\ keyN))

\* proof.GetKey: nothing more to do when the key is there or can be loaded.
GetKey(r) ==
    /\ pc[r] = "key"
    /\ LoadKey
    /\ IF keyMem' THEN Return(r) ELSE Goto(r, "putE") /\ UNCHANGED tag
    /\ UNCHANGED <<chTag, cb, saved, keyE, keyN, asked, late>>

\* Cache.Put of the first half, whose error is ignored.
PutE(r) ==
    /\ pc[r] = "putE"
    /\ keyE' \in {keyE, TRUE}
    /\ Goto(r, "putN")
    /\ UNCHANGED <<tag, chTag, cb, saved, keyMem, keyN, asked, late>>

\* Cache.Put of the second half.
PutN(r) ==
    /\ pc[r] = "putN"
    /\ keyN' \in {keyN, TRUE}
    /\ Goto(r, "setKey")
    /\ UNCHANGED <<tag, chTag, cb, saved, keyMem, keyE, asked, late>>

SetKeyFromTag(r) ==
    /\ pc[r] = "setKey"
    /\ keyMem' = TRUE
    /\ Return(r)
    /\ UNCHANGED <<chTag, cb, saved, keyE, keyN, asked, late>>

\* proof.SetKey(n.Cache), which reads the cache, and the return.
SetKey(r) ==
    /\ pc[r] = "setKey"
    /\ LoadKey
    /\ Return(r)
    /\ UNCHANGED <<chTag, cb, saved, keyE, keyN, asked, late>>

\* task_ValidateProof asks for the key until it is there.
ValidatorGetKey ==
    /\ LoadKey
    /\ UNCHANGED <<requesters, chTag, cb, saved, keyE, keyN, asked, late>>

-----------------------------------------------------------------------------
(* The SGX service and the callback route.                                 *)

\* External: the SGX answers with success; the route starts a goroutine.
Answer(s) ==
    /\ cb[s] = Done
    /\ \E f \in asked :
          /\ asked' = asked \ {f}
          /\ cb' = [cb EXCEPT ![s] = [at |-> "check", tag |-> f]]
    /\ UNCHANGED <<requesters, chTag, saved, key, late>>

\* A failure status, or an answer that is not JSON: GetTag drops it.
GetTagDrops ==
    /\ \E f \in asked : asked' = asked \ {f}
    /\ UNCHANGED <<requesters, chTag, cb, saved, key, late>>

\* if len(Ch_Tag) == 1
CheckLen(s) ==
    /\ cb[s].at = "check"
    /\ cb' = [cb EXCEPT ![s].at = IF chTag # None THEN "drain" ELSE "push"]
    /\ UNCHANGED <<requesters, chTag, saved, key, asked, late>>

\* _ = <-Ch_Tag, which blocks if the answer seen was received in between.
Drain(s) ==
    /\ cb[s].at = "drain"
    /\ chTag # None
    /\ chTag' = None
    /\ cb' = [cb EXCEPT ![s].at = "push"]
    /\ UNCHANGED <<requesters, saved, key, asked, late>>

PushTagTwice(s) ==
    /\ cb[s].at = "push"
    /\ chTag = None
    /\ chTag' = cb[s].tag
    /\ cb' = [cb EXCEPT ![s].tag = None]
    /\ UNCHANGED <<requesters, saved, key, asked, late>>

\* Ch_Tag <- result, which blocks while the channel is full.
PushTag(s) ==
    /\ cb[s].at = "push"
    /\ chTag = None
    /\ chTag' = cb[s].tag
    /\ cb' = [cb EXCEPT ![s] = Done]
    /\ UNCHANGED <<requesters, saved, key, asked, late>>

(***************************************************************************)
(* The process stops and starts again: buildDir empties FillerDir and      *)
(* TagDir, and runCmd calls SetKey.  The SGX goes on.                      *)
(***************************************************************************)
Restart ==
    /\ workLock' = None
    /\ pc' = [r \in Requesters |-> "idle"]
    /\ file' = [r \in Requesters |-> None]
    /\ tag' = [r \in Requesters |-> None]
    /\ chTag' = None
    /\ cb' = [s \in Callbacks |-> Done]
    /\ saved' = [f \in Files |-> None]
    /\ keyMem' = (keyE /\ keyN)
    /\ late' = (asked # {})
    /\ UNCHANGED <<keyE, keyN, asked>>

-----------------------------------------------------------------------------
Init ==
    /\ workLock = None
    /\ pc = [r \in Requesters |-> "idle"]
    /\ file = [r \in Requesters |-> None]
    /\ tag = [r \in Requesters |-> None]
    /\ chTag = None
    /\ cb = [s \in Callbacks |-> Done]
    /\ saved = [f \in Files |-> None]
    /\ keyMem = FALSE /\ keyE = FALSE /\ keyN = FALSE
    /\ asked = {}
    /\ late = FALSE

RequesterStep(r) ==
    \/ Receive(r) \/ TimeOut(r) \/ Save(r)
    \/ GetKey(r) \/ PutE(r) \/ PutN(r) \/ SetKey(r)

CallbackStep(s) == CheckLen(s) \/ Drain(s) \/ PushTag(s)

Next ==
    \/ \E r \in Requesters :
          \/ \E f \in Files : Request(r, f)
          \/ Lock(r) \/ SgxTakes(r) \/ GetTagReq(r) \/ RequesterStep(r)
    \/ \E s \in Callbacks : Answer(s) \/ CallbackStep(s)
    \/ GetTagDrops
    \/ ValidatorGetKey
    \/ Restart

(***************************************************************************)
(* Goroutines run and the timer fires; sync.Mutex is fair.  The SGX need   *)
(* not answer, neither the HTTP request nor with the callback.             *)
(***************************************************************************)
Fairness ==
    /\ \A r \in Requesters : WF_vars(RequesterStep(r)) /\ SF_vars(Lock(r))
    /\ \A s \in Callbacks : WF_vars(CallbackStep(s))

Spec == Init /\ [][Next]_vars /\ Fairness

-----------------------------------------------------------------------------
(* Properties.                                                             *)

\* Every variable keeps its type.
TypeOK ==
    /\ workLock \in Requesters \cup {None}
    /\ pc \in [Requesters -> {"idle", "lock", "ask", "asking", "wait", "save", "key",
                              "putE", "putN", "setKey"}]
    /\ file \in [Requesters -> Files \cup {None}]
    /\ tag \in [Requesters -> Files \cup {None}]
    /\ chTag \in Files \cup {None}
    /\ cb \in [Callbacks -> {Done} \cup
                             [at : {"check", "drain", "push"}, tag : Files]]
    /\ saved \in [Files -> Files \cup {None}]
    /\ keyMem \in BOOLEAN /\ keyE \in BOOLEAN /\ keyN \in BOOLEAN
    /\ asked \subseteq Files
    /\ late \in BOOLEAN

(***************************************************************************)
(* "Calculate filler tag" (sub_filler.go:79): the tag saved for a file is  *)
(* the tag of that file.  The channel carries no request's name, so that   *)
(* this rests on workLock, and holds as long as no request has been given  *)
(* up whose answer might still come: such an answer stays in Ch_Tag and is *)
(* saved as the tag of the next file.                                      *)
(***************************************************************************)
TagMatchesUnlessLate == late \/ \A f \in Files : saved[f] \in {f, None}

(***************************************************************************)
(* A key used to verify proofs is in the cache, both halves of it, so that *)
(* a restart, wherever it falls between the writes, never loses it.        *)
(***************************************************************************)
KeySurvives == keyMem => keyE /\ keyN

\* How the requesters use workLock: see Mutex.
WorkLock == INSTANCE Mutex WITH
    Users <- Requesters,
    Careless <- {},
    state <- IF workLock = None THEN "free" ELSE "held",
    inside <- {r \in Requesters : pc[r] \notin {"idle", "lock"}}

(***************************************************************************)
(* One requester at a time waits for an answer, and each way out of        *)
(* RequestAndSaveTag (an error, the timeout, a panic) unlocks workLock.    *)
(***************************************************************************)
WorkLockKept == WorkLock!Spec

\* The SGX service does not keep an HTTP request waiting for ever.
RequestsReturn == \A r \in Requesters : []<>(pc[r] \notin {"ask", "asking"})

(***************************************************************************)
(* workLock, for which every task waits, is released again and again: once *)
(* the HTTP request has returned, no wait for a tag keeps it, whatever the *)
(* SGX, late answers and the callbacks do.                                 *)
(***************************************************************************)
LockReleased == RequestsReturn => []<>(workLock = None)
=============================================================================
