--------------------------- MODULE TransferProofs ---------------------------
(***************************************************************************)
(* Proofs about Transfer, for any number of files and messages per file    *)
(* and any capacity of the channels, with refusals, timeouts, resets and   *)
(* the loss of what a writer had in hand.                                  *)
(*                                                                         *)
(* The argument counts messages.  What matters of the two directions is    *)
(* how many of each message are on their way, and every step but a SendMsg *)
(* keeps these numbers or makes them smaller.                              *)
(***************************************************************************)
EXTENDS Transfer, FiniteSetTheorems, TLAPS

-----------------------------------------------------------------------------
(* Counting in a sequence.                                                 *)

Places(s, m) == {i \in 1..Len(s) : s[i] = m}

\* How often m is in s.
Count(s, m) == Cardinality(Places(s, m))

One(b) == IF b THEN 1 ELSE 0

LEMMA PlacesFinite ==
    ASSUME NEW s \in Seq(Message), NEW m
    PROVE  IsFiniteSet(Places(s, m)) /\ Count(s, m) \in Nat
<1>1. IsFiniteSet(1..Len(s))
  BY FS_Interval
<1>2. Places(s, m) \in SUBSET (1..Len(s))
  BY DEF Places
<1>3. IsFiniteSet(Places(s, m))
  BY <1>1, <1>2, FS_Subset
<1> QED
  BY <1>3, FS_CardinalityType DEF Count

LEMMA CountEmpty ==
    ASSUME NEW m
    PROVE  Count(<<>>, m) = 0
<1>1. Places(<<>>, m) = {}
  BY DEF Places
<1> QED
  BY <1>1, FS_EmptySet DEF Count

LEMMA CountAppend ==
    ASSUME NEW s \in Seq(Message), NEW x \in Message, NEW m
    PROVE  Count(Append(s, x), m) = Count(s, m) + One(x = m)
<1>1. Len(s) \in Nat /\ Len(Append(s, x)) = Len(s) + 1
  OBVIOUS
<1>2. \A i \in 1..Len(s) : Append(s, x)[i] = s[i]
  OBVIOUS
<1>3. Append(s, x)[Len(s) + 1] = x
  OBVIOUS
<1>4. CASE x = m
  <2>1. Places(Append(s, x), m) = Places(s, m) \cup {Len(s) + 1}
    BY <1>1, <1>2, <1>3, <1>4 DEF Places
  <2>2. Len(s) + 1 \notin Places(s, m)
    BY <1>1 DEF Places
  <2> QED
    BY <1>4, <2>1, <2>2, PlacesFinite, FS_AddElement DEF Count, One
<1>5. CASE x # m
  <2>1. Places(Append(s, x), m) = Places(s, m)
    BY <1>1, <1>2, <1>3, <1>5 DEF Places
  <2> QED
    BY <1>5, <2>1, PlacesFinite DEF Count, One
<1> QED
  BY <1>4, <1>5

LEMMA CountTail ==
    ASSUME NEW s \in Seq(Message), s # <<>>, NEW m
    PROVE  /\ Tail(s) \in Seq(Message) /\ Head(s) \in Message
           /\ Count(s, m) = Count(Tail(s), m) + One(Head(s) = m)
<1>1. /\ Tail(s) \in Seq(Message) /\ Head(s) \in Message /\ Head(s) = s[1]
      /\ Len(s) \in Nat \ {0} /\ Len(Tail(s)) = Len(s) - 1
  OBVIOUS
<1>2. \A i \in 1..(Len(s) - 1) : Tail(s)[i] = s[i + 1]
  OBVIOUS
<1> DEFINE S == Places(Tail(s), m)
           T == Places(s, m) \ {1}
           f == [i \in S |-> i + 1]
<1>3. f \in Bijection(S, T)
  <2>1. \A i \in S : i \in Int /\ i + 1 \in T
    BY <1>1, <1>2 DEF Places
  <2>2. f \in Injection(S, T)
    BY <2>1 DEF Injection, IsInjective
  <2>3. ASSUME NEW k \in T PROVE \E i \in S : f[i] = k
    <3>1. k - 1 \in S /\ k \in Int
      BY <1>1, <1>2 DEF Places
    <3>2. f[k - 1] = k
      BY <3>1
    <3> QED
      BY <3>1, <3>2
  <2>4. f \in Surjection(S, T)
    BY <2>1, <2>3 DEF Surjection
  <2> QED
    BY <2>2, <2>4 DEF Bijection
<1>4. IsFiniteSet(S) /\ IsFiniteSet(Places(s, m))
  BY <1>1, PlacesFinite
<1>5. ExistsBijection(S, T)
  BY <1>3 DEF ExistsBijection
<1>6. Cardinality(T) = Cardinality(S)
  <2> HIDE DEF S, T
  <2> QED
    BY <1>4, <1>5, FS_Bijection
<1>7. 1 \in Places(s, m) <=> Head(s) = m
  BY <1>1 DEF Places
<1>8. Count(s, m) \in Nat /\ Count(Tail(s), m) \in Nat
  BY <1>1, PlacesFinite
<1>9. Cardinality(T) = Cardinality(Places(s, m)) - One(1 \in Places(s, m))
  <2>1. Cardinality(T) = IF 1 \in Places(s, m) THEN Cardinality(Places(s, m)) - 1
                                               ELSE Cardinality(Places(s, m))
    BY <1>4, FS_RemoveElement, Zenon
  <2>2. Cardinality(Places(s, m)) \in Nat
    BY <1>8 DEF Count
  <2> HIDE DEF T
  <2> QED
    BY <2>1, <2>2 DEF One
<1>10. Cardinality(T) = Count(s, m) - One(Head(s) = m)
  BY <1>7, <1>9 DEF Count, One
<1> QED
  BY <1>1, <1>6, <1>8, <1>10 DEF Count, One

-----------------------------------------------------------------------------
(* The channels.                                                           *)

InHand == {<<>>} \cup {<<m>> : m \in Message}

ChanTyped ==
    /\ send \in [Ends -> Seq(Message)] /\ recv \in [Ends -> Seq(Message)]
    /\ net \in [Ends -> Seq(Message)]
    /\ hand \in [Ends -> InHand]

Bounded == \A e \in Ends : Len(send[e]) <= SendCap /\ Len(recv[e]) <= RecvCap

\* How many of each message are on their way to e, or in its hands unread.
flow == [e \in Ends |-> [m \in Message |->
            Count(send[Peer(e)], m) + Count(net[e], m)
                + Count(hand[e], m) + Count(recv[e], m)]]

chans == <<send, net, hand, recv>>

LEMMA Others ==
    /\ \A e \in Ends : Peer(e) \in Ends /\ Peer(e) # e /\ Peer(Peer(e)) = e
    /\ \A e \in Ends, d \in Ends : d = e \/ d = Peer(e)
BY DEF Ends, Peer

LEMMA HandSeq ==
    /\ InHand \subseteq Seq(Message)
    /\ \A s \in Seq(Message) : s \o <<>> = s
    /\ \A s \in Seq(Message), m \in Message : s \o <<m>> = Append(s, m)
<1>1. \A m \in Message : <<m>> \in Seq(Message)
  OBVIOUS
<1>2. <<>> \in Seq(Message)
  OBVIOUS
<1>3. InHand \subseteq Seq(Message)
  BY <1>1, <1>2 DEF InHand
<1>4. \A s \in Seq(Message) : s \o <<>> = s
  OBVIOUS
<1>5. \A s \in Seq(Message), m \in Message : s \o <<m>> = Append(s, m)
  OBVIOUS
<1> QED
  BY <1>3, <1>4, <1>5

LEMMA CountOne ==
    ASSUME NEW x \in Message, NEW m
    PROVE  Count(<<x>>, m) = One(x = m)
<1>1. Len(<<x>>) = 1 /\ <<x>>[1] = x
  OBVIOUS
<1>2. Places(<<x>>, m) = IF x = m THEN {1} ELSE {}
  BY <1>1 DEF Places
<1>3. Cardinality({1}) = 1 /\ Cardinality({}) = 0
  BY FS_Singleton, FS_EmptySet
<1> QED
  BY <1>2, <1>3 DEF Count, One

\* The four parts of a flow.
LEMMA FlowParts ==
    ASSUME ChanTyped, NEW e \in Ends, NEW m \in Message
    PROVE  /\ Count(send[Peer(e)], m) \in Nat /\ Count(net[e], m) \in Nat
           /\ Count(hand[e], m) \in Nat /\ Count(recv[e], m) \in Nat
           /\ flow[e][m] = Count(send[Peer(e)], m) + Count(net[e], m)
                               + Count(hand[e], m) + Count(recv[e], m)
           /\ flow[e][m] \in Nat
<1>1. /\ send[Peer(e)] \in Seq(Message) /\ net[e] \in Seq(Message)
      /\ hand[e] \in Seq(Message) /\ recv[e] \in Seq(Message)
  BY Others, HandSeq DEF ChanTyped
<1>2. /\ Count(send[Peer(e)], m) \in Nat /\ Count(net[e], m) \in Nat
      /\ Count(hand[e], m) \in Nat /\ Count(recv[e], m) \in Nat
  BY <1>1, PlacesFinite
<1>3. flow[e][m] = Count(send[Peer(e)], m) + Count(net[e], m)
                       + Count(hand[e], m) + Count(recv[e], m)
  BY DEF flow
<1> QED
  BY <1>2, <1>3

LEMMA FlowPartsAfter ==
    ASSUME NEW e \in Ends, NEW m \in Message
    PROVE  flow'[e][m] = Count(send'[Peer(e)], m) + Count(net'[e], m)
                             + Count(hand'[e], m) + Count(recv'[e], m)
BY DEF flow

\* No message is added.
Keeps == \A e \in Ends, m \in Message : flow'[e][m] <= flow[e][m]

LEMMA SameFlow ==
    ASSUME UNCHANGED chans
    PROVE  /\ ChanTyped => ChanTyped' /\ Keeps
           /\ Bounded => Bounded'
<1>1. flow' = flow
  BY DEF chans, flow
<1>2. ASSUME ChanTyped PROVE Keeps
  BY <1>1, <1>2, FlowParts DEF Keeps
<1> QED
  BY <1>2 DEF chans, ChanTyped, Bounded

\* m is put in send of e.
LEMMA SendFlow ==
    ASSUME ChanTyped, Bounded, NEW e \in Ends, NEW x \in Message, SendMsg(e, x),
           UNCHANGED <<net, hand, recv>>
    PROVE  /\ ChanTyped' /\ Bounded'
           /\ \A d \in Ends, m \in Message :
                  flow'[d][m] = flow[d][m] + One(d = Peer(e) /\ m = x)
<1>1. send[e] \in Seq(Message) /\ send' = [send EXCEPT ![e] = Append(send[e], x)]
      /\ Len(send[e]) < SendCap
  BY DEF ChanTyped, SendMsg
<1>2. Append(send[e], x) \in Seq(Message)
      /\ Len(Append(send[e], x)) = Len(send[e]) + 1 /\ Len(send[e]) \in Nat
  BY <1>1
<1>3. ChanTyped'
  BY <1>1, <1>2 DEF ChanTyped
<1>4. Bounded'
  BY <1>1, <1>2, CapsAssumption DEF ChanTyped, Bounded
<1>5. ASSUME NEW d \in Ends, NEW m \in Message
      PROVE  flow'[d][m] = flow[d][m] + One(d = Peer(e) /\ m = x)
  <2>1. CASE d = Peer(e)
    <3>1. Peer(d) = e /\ send'[Peer(d)] = Append(send[e], x)
      BY <1>1, <2>1, Others DEF ChanTyped
    <3>2. Count(send'[Peer(d)], m) = Count(send[Peer(d)], m) + One(x = m)
      BY <1>1, <3>1, CountAppend
    <3>3. One(x = m) = One(d = Peer(e) /\ m = x) /\ One(x = m) \in Nat
      BY <2>1 DEF One
    <3> QED
      BY <3>2, <3>3, FlowParts, FlowPartsAfter
  <2>2. CASE d # Peer(e)
    <3>1. Peer(d) # e /\ send'[Peer(d)] = send[Peer(d)]
      BY <1>1, <2>2, Others DEF ChanTyped
    <3>2. One(d = Peer(e) /\ m = x) = 0
      BY <2>2 DEF One
    <3> QED
      BY <3>1, <3>2, FlowParts, FlowPartsAfter
  <2> QED
    BY <2>1, <2>2
<1> QED
  BY <1>3, <1>4, <1>5

\* The first message is taken from recv of e, which had it.
LEMMA TakeFlow ==
    ASSUME ChanTyped, Bounded, NEW e \in Ends, recv[e] # <<>>,
           recv' = [recv EXCEPT ![e] = Tail(recv[e])], UNCHANGED <<send, net, hand>>
    PROVE  /\ ChanTyped' /\ Bounded'
           /\ Head(recv[e]) \in Message /\ flow[e][Head(recv[e])] > 0
           /\ \A d \in Ends, m \in Message :
                  flow'[d][m] = flow[d][m] - One(d = e /\ m = Head(recv[e]))
<1> DEFINE x == Head(recv[e])
<1>1. recv[e] \in Seq(Message)
  BY DEF ChanTyped
<1>2. x \in Message /\ Tail(recv[e]) \in Seq(Message)
      /\ Len(Tail(recv[e])) <= Len(recv[e])
  BY <1>1
<1>3. \A m \in Message : Count(recv[e], m) = Count(Tail(recv[e]), m) + One(x = m)
  BY <1>1, CountTail
<1>4. ChanTyped'
  BY <1>2 DEF ChanTyped
<1>5. Bounded'
  BY <1>1, <1>2, CapsAssumption DEF ChanTyped, Bounded
<1>6. \A m \in Message : Count(Tail(recv[e]), m) \in Nat
  BY <1>2, PlacesFinite
<1>7. flow[e][x] > 0
  <2>1. Count(recv[e], x) = Count(Tail(recv[e]), x) + 1
    BY <1>2, <1>3 DEF One
  <2>2. Count(Tail(recv[e]), x) \in Nat
    BY <1>2, <1>6
  <2> HIDE DEF x
  <2>3. /\ flow[e][x] = Count(send[Peer(e)], x) + Count(net[e], x)
                            + Count(hand[e], x) + Count(recv[e], x)
        /\ Count(send[Peer(e)], x) \in Nat /\ Count(net[e], x) \in Nat
        /\ Count(hand[e], x) \in Nat
    BY <1>2, FlowParts
  <2> QED
    BY <2>1, <2>2, <2>3
<1>8. ASSUME NEW d \in Ends, NEW m \in Message
      PROVE  flow'[d][m] = flow[d][m] - One(d = e /\ m = x)
  <2>1. CASE d = e
    <3>1. recv'[d] = Tail(recv[e])
      BY <2>1 DEF ChanTyped
    <3>2. One(x = m) = One(d = e /\ m = x) /\ One(x = m) \in Nat
      BY <2>1 DEF One
    <3>3. Count(recv[d], m) = Count(recv'[d], m) + One(d = e /\ m = x)
          /\ Count(recv'[d], m) \in Nat
      BY <1>3, <1>6, <2>1, <3>1, <3>2
    <3> HIDE DEF x
    <3>4. flow[d][m] = Count(send[Peer(d)], m) + Count(net[d], m)
                           + Count(hand[d], m) + Count(recv[d], m)
      BY FlowParts
    <3>5. flow'[d][m] = Count(send[Peer(d)], m) + Count(net[d], m)
                            + Count(hand[d], m) + Count(recv'[d], m)
      BY FlowPartsAfter
    <3>6. /\ Count(send[Peer(d)], m) \in Nat /\ Count(net[d], m) \in Nat
          /\ Count(hand[d], m) \in Nat
      BY FlowParts
    <3> QED
      BY <3>2, <3>3, <3>4, <3>5, <3>6
  <2>2. CASE d # e
    <3>1. recv'[d] = recv[d]
      BY <2>2 DEF ChanTyped
    <3>2. One(d = e /\ m = x) = 0
      BY <2>2 DEF One
    <3> QED
      BY <3>1, <3>2, FlowParts, FlowPartsAfter
  <2> QED
    BY <2>1, <2>2
<1> QED
  BY <1>2, <1>4, <1>5, <1>7, <1>8

\* The same, and y is put in send of e: a handler answers.
LEMMA AnswerFlow ==
    ASSUME ChanTyped, Bounded, NEW e \in Ends, recv[e] # <<>>,
           recv' = [recv EXCEPT ![e] = Tail(recv[e])],
           NEW y \in Message, SendMsg(e, y), UNCHANGED <<net, hand>>
    PROVE  /\ ChanTyped' /\ Bounded'
           /\ Head(recv[e]) \in Message /\ flow[e][Head(recv[e])] > 0
           /\ \A m \in Message :
                  /\ flow'[e][m] = flow[e][m] - One(m = Head(recv[e]))
                  /\ flow'[Peer(e)][m] = flow[Peer(e)][m] + One(m = y)
<1> DEFINE x == Head(recv[e])
<1>1. recv[e] \in Seq(Message) /\ send[e] \in Seq(Message)
      /\ send' = [send EXCEPT ![e] = Append(send[e], y)] /\ Len(send[e]) < SendCap
  BY DEF ChanTyped, SendMsg
<1>2. x \in Message /\ Tail(recv[e]) \in Seq(Message)
      /\ Len(Tail(recv[e])) <= Len(recv[e])
      /\ Append(send[e], y) \in Seq(Message)
      /\ Len(Append(send[e], y)) = Len(send[e]) + 1 /\ Len(send[e]) \in Nat
  BY <1>1
<1>3. \A m \in Message :
          /\ Count(recv[e], m) = Count(Tail(recv[e]), m) + One(x = m)
          /\ Count(Tail(recv[e]), m) \in Nat
  BY <1>1, <1>2, CountTail, PlacesFinite
<1>4. \A m \in Message : Count(Append(send[e], y), m) = Count(send[e], m) + One(y = m)
  BY <1>1, CountAppend
<1>5. ChanTyped'
  BY <1>1, <1>2 DEF ChanTyped
<1>6. Bounded'
  BY <1>1, <1>2, CapsAssumption DEF ChanTyped, Bounded
<1>7. recv'[e] = Tail(recv[e]) /\ send'[e] = Append(send[e], y)
      /\ send'[Peer(e)] = send[Peer(e)] /\ recv'[Peer(e)] = recv[Peer(e)]
  BY <1>1, Others DEF ChanTyped
<1> HIDE DEF x
<1>8. ASSUME NEW m \in Message
      PROVE  /\ flow'[e][m] = flow[e][m] - One(m = x)
             /\ flow'[Peer(e)][m] = flow[Peer(e)][m] + One(m = y)
             /\ flow[e][m] >= One(m = x)
  <2>1. /\ flow[e][m] = Count(send[Peer(e)], m) + Count(net[e], m)
                            + Count(hand[e], m) + Count(recv[e], m)
        /\ Count(send[Peer(e)], m) \in Nat /\ Count(net[e], m) \in Nat
        /\ Count(hand[e], m) \in Nat
    BY FlowParts
  <2>2. flow'[e][m] = Count(send[Peer(e)], m) + Count(net[e], m)
                            + Count(hand[e], m) + Count(Tail(recv[e]), m)
    BY <1>7, FlowPartsAfter
  <2>3. One(x = m) = One(m = x) /\ One(m = x) \in Nat
        /\ One(y = m) = One(m = y) /\ One(m = y) \in Nat
    BY DEF One
  <2>4. /\ flow[Peer(e)][m] = Count(send[e], m) + Count(net[Peer(e)], m)
                            + Count(hand[Peer(e)], m) + Count(recv[Peer(e)], m)
        /\ Count(send[e], m) \in Nat /\ Count(net[Peer(e)], m) \in Nat
        /\ Count(hand[Peer(e)], m) \in Nat /\ Count(recv[Peer(e)], m) \in Nat
    BY FlowParts, Others
  <2>5. flow'[Peer(e)][m] = Count(Append(send[e], y), m) + Count(net[Peer(e)], m)
                            + Count(hand[Peer(e)], m) + Count(recv[Peer(e)], m)
    <3>1. Peer(e) \in Ends /\ Peer(Peer(e)) = e
      BY Others
    <3>2. flow'[Peer(e)][m] = Count(send'[e], m) + Count(net'[Peer(e)], m)
                            + Count(hand'[Peer(e)], m) + Count(recv'[Peer(e)], m)
      BY <3>1, FlowPartsAfter
    <3> QED
      BY <1>7, <3>2
  <2>6. Count(recv[e], m) = Count(Tail(recv[e]), m) + One(x = m)
        /\ Count(Tail(recv[e]), m) \in Nat
        /\ Count(Append(send[e], y), m) = Count(send[e], m) + One(y = m)
    BY <1>3, <1>4
  <2>7. flow'[e][m] = flow[e][m] - One(m = x) /\ flow[e][m] >= One(m = x)
    BY <2>1, <2>2, <2>3, <2>6
  <2>8. flow'[Peer(e)][m] = flow[Peer(e)][m] + One(m = y)
    BY <2>3, <2>4, <2>5, <2>6
  <2> QED
    BY <2>7, <2>8
<1>9. flow[e][x] > 0
  <2>1. One(x = x) = 1 /\ flow[e][x] \in Nat
    BY <1>2, FlowParts DEF One
  <2> QED
    BY <1>2, <1>8, <2>1
<1> QED
  BY <1>2, <1>5, <1>6, <1>8, <1>9 DEF x

-----------------------------------------------------------------------------
(* The goroutines that only pass messages on.                              *)

Passing(e) ==
    \/ Stop(e) \/ WriterStep(e) \/ ReaderStep(e) \/ HandlerStops(e)

\* Of the flow to d, and of the parts of it that have not changed.
LEMMA LessFlow ==
    ASSUME ChanTyped, ChanTyped',
           \A d \in Ends, m \in Message :
               Count(send'[Peer(d)], m) + Count(net'[d], m)
                   + Count(hand'[d], m) + Count(recv'[d], m)
               <= Count(send[Peer(d)], m) + Count(net[d], m)
                   + Count(hand[d], m) + Count(recv[d], m)
    PROVE  Keeps
BY FlowParts, FlowPartsAfter DEF Keeps

LEMMA WriteFlow ==
    ASSUME ChanTyped, Bounded, NEW e \in Ends, WriteMsg(e)
    PROVE  ChanTyped' /\ Bounded' /\ Keeps
<1> DEFINE x == Head(send[e])
           p == Peer(e)
<1>1. send[e] \in Seq(Message) /\ send[e] # <<>> /\ p \in Ends /\ p # e
      /\ send' = [send EXCEPT ![e] = Tail(send[e])] /\ UNCHANGED <<hand, recv>>
      /\ net[p] \in Seq(Message)
  BY Others DEF ChanTyped, WriteMsg
<1>2. x \in Message /\ Tail(send[e]) \in Seq(Message)
      /\ Len(Tail(send[e])) <= Len(send[e]) /\ Append(net[p], x) \in Seq(Message)
  BY <1>1
<1>3. net' = [net EXCEPT ![p] = Append(net[p], x)] \/ UNCHANGED net
  BY DEF WriteMsg
<1>4. ChanTyped'
  BY <1>1, <1>2, <1>3 DEF ChanTyped
<1>5. Bounded'
  BY <1>1, <1>2, CapsAssumption DEF ChanTyped, Bounded
<1>6. ASSUME NEW m \in Message
      PROVE  /\ Count(send[e], m) = Count(Tail(send[e]), m) + One(x = m)
             /\ Count(Append(net[p], x), m) = Count(net[p], m) + One(x = m)
             /\ Count(Tail(send[e]), m) \in Nat /\ One(x = m) \in Nat
  <2>1. Count(send[e], m) = Count(Tail(send[e]), m) + One(x = m)
    BY <1>1, CountTail
  <2>2. Count(Tail(send[e]), m) \in Nat /\ One(x = m) \in Nat
    BY <1>2, PlacesFinite DEF One
  <2> HIDE DEF x, p
  <2>3. Count(Append(net[p], x), m) = Count(net[p], m) + One(x = m)
    BY <1>1, <1>2, CountAppend
  <2> QED
    BY <2>1, <2>2, <2>3
<1>7. /\ send'[e] = Tail(send[e]) /\ send'[p] = send[p]
      /\ net'[e] = net[e] /\ net'[p] \in {net[p], Append(net[p], x)}
  BY <1>1, <1>3 DEF ChanTyped
<1> HIDE DEF x
<1>8. ASSUME NEW d \in Ends, NEW m \in Message
      PROVE  Count(send'[Peer(d)], m) + Count(net'[d], m)
                   + Count(hand'[d], m) + Count(recv'[d], m)
               <= Count(send[Peer(d)], m) + Count(net[d], m)
                   + Count(hand[d], m) + Count(recv[d], m)
  <2>1. /\ Count(send[Peer(d)], m) \in Nat /\ Count(net[d], m) \in Nat
        /\ Count(hand[d], m) \in Nat /\ Count(recv[d], m) \in Nat
    BY FlowParts
  <2>2. hand'[d] = hand[d] /\ recv'[d] = recv[d]
    BY <1>1
  <2>3. Count(send'[Peer(d)], m) + Count(net'[d], m)
            <= Count(send[Peer(d)], m) + Count(net[d], m)
    <3>1. CASE d = p
      <4>1. Peer(d) = e
        BY <3>1, Others
      <4>2. Count(send[e], m) \in Nat /\ Count(net[p], m) \in Nat
        BY <2>1, <3>1, <4>1
      <4>3. Count(send'[e], m) = Count(Tail(send[e]), m)
            /\ Count(net'[p], m) \in {Count(net[p], m), Count(Append(net[p], x), m)}
        BY <1>7
      <4> HIDE DEF p
      <4> QED
        BY <1>6, <3>1, <4>1, <4>2, <4>3
    <3>2. CASE d # p
      <4>1. d = e /\ Peer(d) = p
        BY <3>2, Others
      <4> QED
        BY <1>7, <2>1, <4>1
    <3> QED
      BY <3>1, <3>2
  <2>4. \A f \in Ends : send'[f] \in Seq(Message) /\ net'[f] \in Seq(Message)
    BY <1>4 DEF ChanTyped
  <2>5. Count(send'[Peer(d)], m) \in Nat /\ Count(net'[d], m) \in Nat
    BY <2>4, Others, PlacesFinite
  <2> QED
    BY <2>1, <2>2, <2>3, <2>5
<1> QED
  BY <1>4, <1>5, <1>8, LessFlow

LEMMA ReadFlow ==
    ASSUME ChanTyped, Bounded, NEW e \in Ends, ReadMsg(e)
    PROVE  ChanTyped' /\ Bounded' /\ Keeps
<1> DEFINE x == Head(net[e])
<1>1. net[e] \in Seq(Message) /\ net[e] # <<>> /\ hand[e] = <<>>
      /\ net' = [net EXCEPT ![e] = Tail(net[e])]
      /\ hand' = [hand EXCEPT ![e] = <<x>>] /\ UNCHANGED <<send, recv>>
  BY DEF ChanTyped, ReadMsg
<1>2. x \in Message /\ Tail(net[e]) \in Seq(Message)
  BY <1>1
<1>3. <<x>> \in InHand
  BY <1>2 DEF InHand
<1>4. ChanTyped'
  BY <1>1, <1>2, <1>3 DEF ChanTyped
<1>5. Bounded'
  BY <1>1 DEF Bounded
<1>6. ASSUME NEW m \in Message
      PROVE  /\ Count(net[e], m) = Count(Tail(net[e]), m) + One(x = m)
             /\ Count(hand[e], m) = 0 /\ Count(<<x>>, m) = One(x = m)
             /\ Count(Tail(net[e]), m) \in Nat /\ One(x = m) \in Nat
  BY <1>1, <1>2, CountTail, CountEmpty, CountOne, PlacesFinite DEF One
<1>7. net'[e] = Tail(net[e]) /\ hand'[e] = <<x>>
      /\ \A d \in Ends : d # e => net'[d] = net[d] /\ hand'[d] = hand[d]
  BY <1>1 DEF ChanTyped
<1> HIDE DEF x
<1>8. ASSUME NEW d \in Ends, NEW m \in Message
      PROVE  Count(send'[Peer(d)], m) + Count(net'[d], m)
                   + Count(hand'[d], m) + Count(recv'[d], m)
               <= Count(send[Peer(d)], m) + Count(net[d], m)
                   + Count(hand[d], m) + Count(recv[d], m)
  <2>1. /\ Count(send[Peer(d)], m) \in Nat /\ Count(net[d], m) \in Nat
        /\ Count(hand[d], m) \in Nat /\ Count(recv[d], m) \in Nat
    BY FlowParts
  <2>2. send'[Peer(d)] = send[Peer(d)] /\ recv'[d] = recv[d]
    BY <1>1
  <2>3. CASE d = e
    BY <1>6, <1>7, <2>1, <2>2, <2>3
  <2>4. CASE d # e
    BY <1>7, <2>1, <2>2, <2>4
  <2> QED
    BY <2>3, <2>4
<1> QED
  BY <1>4, <1>5, <1>8, LessFlow

LEMMA PutFlow ==
    ASSUME ChanTyped, Bounded, NEW e \in Ends, PutMsg(e)
    PROVE  ChanTyped' /\ Bounded' /\ Keeps
<1>1. PICK x \in Message : hand[e] = <<x>>
  BY DEF ChanTyped, PutMsg, InHand
<1>2. recv[e] \in Seq(Message) /\ recv' = [recv EXCEPT ![e] = Append(recv[e], x)]
      /\ hand' = [hand EXCEPT ![e] = <<>>] /\ UNCHANGED <<send, net>>
      /\ Len(recv[e]) < RecvCap
  BY <1>1, HandSeq DEF ChanTyped, PutMsg
<1>3. Append(recv[e], x) \in Seq(Message)
      /\ Len(Append(recv[e], x)) = Len(recv[e]) + 1 /\ Len(recv[e]) \in Nat
  BY <1>2
<1>4. ChanTyped'
  BY <1>2, <1>3 DEF ChanTyped, InHand
<1>5. Bounded'
  BY <1>2, <1>3, CapsAssumption DEF ChanTyped, Bounded
<1>6. ASSUME NEW m \in Message
      PROVE  /\ Count(Append(recv[e], x), m) = Count(recv[e], m) + One(x = m)
             /\ Count(<<>>, m) = 0 /\ Count(hand[e], m) = One(x = m)
             /\ One(x = m) \in Nat
  BY <1>1, <1>2, CountAppend, CountEmpty, CountOne DEF One
<1>7. recv'[e] = Append(recv[e], x) /\ hand'[e] = <<>>
      /\ \A d \in Ends : d # e => recv'[d] = recv[d] /\ hand'[d] = hand[d]
  BY <1>2 DEF ChanTyped
<1>8. ASSUME NEW d \in Ends, NEW m \in Message
      PROVE  Count(send'[Peer(d)], m) + Count(net'[d], m)
                   + Count(hand'[d], m) + Count(recv'[d], m)
               <= Count(send[Peer(d)], m) + Count(net[d], m)
                   + Count(hand[d], m) + Count(recv[d], m)
  <2>1. /\ Count(send[Peer(d)], m) \in Nat /\ Count(net[d], m) \in Nat
        /\ Count(hand[d], m) \in Nat /\ Count(recv[d], m) \in Nat
    BY FlowParts
  <2>2. send'[Peer(d)] = send[Peer(d)] /\ net'[d] = net[d]
    BY <1>2
  <2>3. CASE d = e
    <3>1. /\ Count(recv'[d], m) = Count(recv[d], m) + One(x = m)
          /\ Count(hand'[d], m) = 0 /\ Count(hand[d], m) = One(x = m)
      BY <1>6, <1>7, <2>3
    <3> QED
      BY <1>6, <2>1, <2>2, <3>1
  <2>4. CASE d # e
    BY <1>7, <2>1, <2>2, <2>4
  <2> QED
    BY <2>3, <2>4
<1> QED
  BY <1>4, <1>5, <1>8, LessFlow

LEMMA ResetFlow ==
    ASSUME ChanTyped, Bounded, Reset
    PROVE  ChanTyped' /\ Bounded' /\ Keeps
<1>1. net' = [e \in Ends |-> <<>>] /\ UNCHANGED <<send, hand, recv>>
  BY DEF Reset, tcp
<1>2. <<>> \in Seq(Message)
  OBVIOUS
<1>3. ChanTyped' /\ Bounded'
  BY <1>1, <1>2 DEF ChanTyped, Bounded
<1>4. ASSUME NEW d \in Ends, NEW m \in Message
      PROVE  Count(send'[Peer(d)], m) + Count(net'[d], m)
                   + Count(hand'[d], m) + Count(recv'[d], m)
               <= Count(send[Peer(d)], m) + Count(net[d], m)
                   + Count(hand[d], m) + Count(recv[d], m)
  <2>1. /\ Count(send[Peer(d)], m) \in Nat /\ Count(net[d], m) \in Nat
        /\ Count(hand[d], m) \in Nat /\ Count(recv[d], m) \in Nat
    BY FlowParts
  <2>2. Count(net'[d], m) = 0
    BY <1>1, CountEmpty
  <2> QED
    BY <1>1, <2>1, <2>2
<1> QED
  BY <1>3, <1>4, LessFlow

LEMMA FlowAfterNat ==
    ASSUME ChanTyped', NEW e \in Ends, NEW m \in Message
    PROVE  flow'[e][m] \in Nat
<1>1. /\ send'[Peer(e)] \in Seq(Message) /\ net'[e] \in Seq(Message)
      /\ hand'[e] \in Seq(Message) /\ recv'[e] \in Seq(Message)
  BY Others, HandSeq DEF ChanTyped
<1>2. /\ Count(send'[Peer(e)], m) \in Nat /\ Count(net'[e], m) \in Nat
      /\ Count(hand'[e], m) \in Nat /\ Count(recv'[e], m) \in Nat
  BY <1>1, PlacesFinite
<1> QED
  BY <1>2, FlowPartsAfter

-----------------------------------------------------------------------------
(* What is due between the sender and the server's handler.                *)

Asking == {"head", "waitHead", "data", "waitEnd"}
Ending == {"bye", "close", "wait", "done"}

ProtoTyped ==
    /\ pc \in Asking \cup Ending \cup {"panic"}
    /\ cur \in Files /\ sentData \in 0..NData
    /\ result \in {"nil", "err"}
    /\ notify \in {<<>>, <<TRUE>>, <<FALSE>>}
    /\ fs \in Files \cup {0}
    /\ stored \in [Files -> Nat]
    /\ complete \subseteq Files

\* The requests about the current file on their way, and their answers.
HeadsDue == flow["server"][Msg("head", cur)]
FilesDue == flow["server"][Msg("file", cur)]
EndsDue == flow["server"][Msg("end", cur)]
OksDue == flow["client"][Msg("ok", cur)]
ErrsDue == flow["client"][Msg("err", 0)]

Told == IF notify = <<>> THEN 0 ELSE 1

Due == HeadsDue + EndsDue + OksDue + ErrsDue + Told

\* No message about another file is on its way.
AboutCurrent ==
    /\ \A m \in Message : flow["server"][m] > 0 =>
           m \in {Msg("head", cur), Msg("file", cur), Msg("end", cur), Msg("close", 0)}
    /\ \A m \in Message : flow["client"][m] > 0 =>
           m \in {Msg("ok", cur), Msg("err", 0), Msg("close", 0)}

\* One request or answer at most is due: none when the sender expects none, and
\* the one that fits when it waits.
OneDue ==
    /\ Due <= 1
    /\ pc \in {"head", "data"} => Due = 0
    /\ HeadsDue > 0 => pc \notin {"data", "waitEnd"}
    /\ EndsDue > 0 => pc # "waitHead"

\* What is stored of each file: all of the earlier ones, nothing of the later
\* ones, and of the current one no more than was sent and has arrived.
Amounts ==
    /\ pc \in {"head", "waitHead"} => sentData = 0
    /\ stored[cur] + FilesDue <= sentData
    /\ \A f \in Files : f > cur => stored[f] = 0
    /\ \A f \in Files : f < cur => f \in complete /\ stored[f] = NData
    /\ \A f \in complete : f <= cur
    /\ fs \in {0, cur}

\* Nothing more happens to a file that is complete.
Completed ==
    cur \in complete =>
        /\ pc \notin {"head", "waitHead", "data"}
        /\ HeadsDue = 0 /\ EndsDue = 0
        /\ stored[cur] = NData /\ fs = 0

\* A favourable answer to the end of a file means that it is complete.
Answered ==
    pc = "waitEnd" /\ (OksDue > 0 \/ notify = <<TRUE>>) => cur \in complete

Concluded ==
    /\ backup => NFiles \in complete
    /\ pc \in Ending /\ result = "nil" => NFiles \in complete

Protocol ==
    AboutCurrent /\ OneDue /\ Amounts /\ Completed /\ Answered /\ Concluded

Typed == ChanTyped /\ Bounded /\ ProtoTyped

LEMMA Messages ==
    /\ \A t \in Types, f \in Files \cup {0} :
           Msg(t, f) \in Message /\ Msg(t, f).type = t /\ Msg(t, f).file = f
    /\ \A m \in Message :
           m.type \in Types /\ m.file \in Files \cup {0} /\ m = Msg(m.type, m.file)
BY DEF Msg, Message

LEMMA FilesNat == Files \subseteq Nat /\ NFiles \in Files /\ 0 \notin Files
                  /\ \A f \in Files : f <= NFiles /\ f >= 1
BY SizesAssumption DEF Files

\* The messages of this protocol, of which no two are alike.
LEMMA Kinds ==
    ASSUME NEW f \in Files
    PROVE  /\ {Msg("head", f), Msg("file", f), Msg("end", f), Msg("ok", f),
               Msg("err", 0), Msg("close", 0)} \subseteq Message
           /\ Msg("head", f).type = "head" /\ Msg("file", f).type = "file"
           /\ Msg("end", f).type = "end" /\ Msg("ok", f).type = "ok"
           /\ Msg("err", 0).type = "err" /\ Msg("close", 0).type = "close"
           /\ Msg("head", f).file = f /\ Msg("file", f).file = f
           /\ Msg("end", f).file = f
BY Messages DEF Types

LEMMA DueNat ==
    ASSUME Typed
    PROVE  /\ HeadsDue \in Nat /\ FilesDue \in Nat /\ EndsDue \in Nat
           /\ OksDue \in Nat /\ ErrsDue \in Nat /\ Told \in {0, 1}
           /\ Told = 1 <=> notify # <<>>
<1>1. cur \in Files /\ "server" \in Ends /\ "client" \in Ends
  BY DEF Typed, ProtoTyped, Ends
<1> QED
  BY <1>1, Kinds, FlowParts
  DEF Typed, HeadsDue, FilesDue, EndsDue, OksDue, ErrsDue, Told

\* What is due becomes less if no message is added.
LEMMA LessDue ==
    ASSUME Typed, ChanTyped', Keeps, UNCHANGED cur
    PROVE  /\ HeadsDue' <= HeadsDue /\ FilesDue' <= FilesDue /\ EndsDue' <= EndsDue
           /\ OksDue' <= OksDue /\ ErrsDue' <= ErrsDue
           /\ AboutCurrent => AboutCurrent'
<1>1. cur \in Files /\ "server" \in Ends /\ "client" \in Ends
  BY DEF Typed, ProtoTyped, Ends
<1>2. \A m \in Message : flow'["server"][m] <= flow["server"][m]
                         /\ flow'["client"][m] <= flow["client"][m]
  BY <1>1 DEF Keeps
<1>3. /\ HeadsDue' <= HeadsDue /\ FilesDue' <= FilesDue /\ EndsDue' <= EndsDue
      /\ OksDue' <= OksDue /\ ErrsDue' <= ErrsDue
  BY <1>1, <1>2, Kinds DEF HeadsDue, FilesDue, EndsDue, OksDue, ErrsDue
<1>4. \A m \in Message : flow["server"][m] \in Nat /\ flow["client"][m] \in Nat
  BY <1>1, FlowParts DEF Typed
<1>5. ASSUME NEW m \in Message
      PROVE  /\ flow'["server"][m] > 0 => flow["server"][m] > 0
             /\ flow'["client"][m] > 0 => flow["client"][m] > 0
  <2>1. flow'["server"][m] \in Int /\ flow'["client"][m] \in Int
    BY <1>1, FlowAfterNat
  <2> QED
    BY <1>2, <1>4, <2>1
<1> QED
  BY <1>3, <1>5 DEF AboutCurrent

LEMMA DueAfterNat ==
    ASSUME ChanTyped', cur' \in Files
    PROVE  /\ HeadsDue' \in Nat /\ FilesDue' \in Nat /\ EndsDue' \in Nat
           /\ OksDue' \in Nat /\ ErrsDue' \in Nat
BY FlowAfterNat, Kinds DEF HeadsDue, FilesDue, EndsDue, OksDue, ErrsDue, Ends

\* The ways of the sender that send nothing and leave the file as it is.
Leaves ==
    \/ UNCHANGED <<pc, result>>
    \/ pc' = "panic"
    \/ pc' \in Ending /\ (result' = "err" \/ (pc \in Ending /\ UNCHANGED result))

\* A step that adds no message, and no more than drops a notification, closes the
\* file at the server, or ends the sender.
LEMMA LessProtocol ==
    ASSUME Typed, Protocol, ChanTyped', Keeps, Leaves,
           UNCHANGED <<cur, sentData, stored, complete, backup>>,
           notify' \in {notify, <<>>}, fs' \in {fs, 0}
    PROVE  Protocol'
<1>1. /\ HeadsDue' <= HeadsDue /\ FilesDue' <= FilesDue /\ EndsDue' <= EndsDue
      /\ OksDue' <= OksDue /\ ErrsDue' <= ErrsDue /\ AboutCurrent'
  BY LessDue DEF Protocol
<1>2. cur' \in Files /\ pc' \in {pc, "panic"} \cup Ending
  BY DEF Typed, ProtoTyped, Leaves
<1>3. /\ HeadsDue' \in Nat /\ FilesDue' \in Nat /\ EndsDue' \in Nat
      /\ OksDue' \in Nat /\ ErrsDue' \in Nat
  BY <1>2, DueAfterNat
<1>4. /\ HeadsDue \in Nat /\ FilesDue \in Nat /\ EndsDue \in Nat
      /\ OksDue \in Nat /\ ErrsDue \in Nat /\ Told \in {0, 1}
  BY DueNat
<1>5. Told' \in {0, 1} /\ Told' <= Told
  BY DEF Told
<1>6. Due' <= Due /\ Due' \in Nat /\ Due \in Nat
  <2>1. PICK h \in Nat, k \in Nat, o \in Nat, r \in Nat, t \in Nat :
            h = HeadsDue' /\ k = EndsDue' /\ o = OksDue' /\ r = ErrsDue' /\ t = Told'
    BY <1>3, <1>5
  <2>2. Due' = h + k + o + r + t
    BY <2>1 DEF Due
  <2>3. h <= HeadsDue /\ k <= EndsDue /\ o <= OksDue /\ r <= ErrsDue /\ t <= Told
    BY <1>1, <1>5, <2>1
  <2> QED
    BY <1>4, <2>2, <2>3 DEF Due
<1>7. OneDue'
  <2>1. Due' <= 1
    BY <1>6 DEF Protocol, OneDue
  <2>2. pc' \in {"head", "data"} => Due' = 0
    BY <1>2, <1>6 DEF Protocol, OneDue, Ending
  <2>3. HeadsDue' > 0 => pc' \notin {"data", "waitEnd"}
    BY <1>1, <1>2, <1>3, <1>4 DEF Protocol, OneDue, Ending
  <2>4. EndsDue' > 0 => pc' # "waitHead"
    BY <1>1, <1>2, <1>3, <1>4 DEF Protocol, OneDue, Ending
  <2> QED
    BY <2>1, <2>2, <2>3, <2>4 DEF OneDue
<1>8. Amounts'
  <2>1. stored[cur] \in Nat /\ sentData \in Nat
    BY DEF Typed, ProtoTyped
  <2>2. stored'[cur'] + FilesDue' <= sentData'
    BY <1>1, <1>3, <1>4, <2>1 DEF Protocol, Amounts
  <2> QED
    BY <1>2, <2>2 DEF Protocol, Amounts, Ending
<1>9. Completed'
  BY <1>1, <1>2, <1>3, <1>4 DEF Protocol, Completed, Ending
<1>10. Answered'
  <2>1. pc' = "waitEnd" => pc = "waitEnd"
    BY <1>2 DEF Ending
  <2>2. OksDue' > 0 => OksDue > 0
    BY <1>1, <1>3, <1>4
  <2>3. notify' = <<TRUE>> => notify = <<TRUE>>
    <3>1. <<>> # <<TRUE>>
      OBVIOUS
    <3> QED
      BY <3>1
  <2> QED
    BY <2>1, <2>2, <2>3 DEF Protocol, Answered
<1>11. Concluded'
  BY DEF Protocol, Concluded, Leaves, Ending
<1> QED
  BY <1>1, <1>7, <1>8, <1>9, <1>10, <1>11 DEF Protocol

-----------------------------------------------------------------------------
(* The sender.                                                             *)

\* The sender sends x about the current file.
LEMMA SentDue ==
    ASSUME Typed, NEW x \in Message, SendMsg("client", x),
           UNCHANGED <<net, hand, recv, cur>>
    PROVE  /\ ChanTyped' /\ Bounded'
           /\ HeadsDue' = HeadsDue + One(x = Msg("head", cur))
           /\ FilesDue' = FilesDue + One(x = Msg("file", cur))
           /\ EndsDue' = EndsDue + One(x = Msg("end", cur))
           /\ OksDue' = OksDue /\ ErrsDue' = ErrsDue
           /\ AboutCurrent /\ x \in {Msg("head", cur), Msg("file", cur),
                                    Msg("end", cur), Msg("close", 0)}
                  => AboutCurrent'
<1>1. cur \in Files /\ "server" \in Ends /\ "client" \in Ends
      /\ Peer("client") = "server" /\ "client" # "server"
  BY DEF Typed, ProtoTyped, Ends, Peer
<1>2. ChanTyped' /\ Bounded'
      /\ \A d \in Ends, m \in Message :
             flow'[d][m] = flow[d][m] + One(d = Peer("client") /\ m = x)
  BY <1>1, SendFlow DEF Typed
<1>3. \A m \in Message : flow'["server"][m] = flow["server"][m] + One(m = x)
                         /\ flow["server"][m] \in Nat
  BY <1>1, <1>2, FlowParts DEF Typed, One
<1>4. \A m \in Message : flow'["client"][m] = flow["client"][m]
  <2>1. ASSUME NEW m \in Message PROVE flow'["client"][m] = flow["client"][m]
    <3>1. flow'["client"][m] = flow["client"][m] + 0
      BY <1>1, <1>2 DEF One
    <3>2. flow["client"][m] \in Nat
      BY <1>1, FlowParts DEF Typed
    <3> QED
      BY <3>1, <3>2
  <2> QED
    BY <2>1
<1>5. /\ HeadsDue' = HeadsDue + One(x = Msg("head", cur))
      /\ FilesDue' = FilesDue + One(x = Msg("file", cur))
      /\ EndsDue' = EndsDue + One(x = Msg("end", cur))
      /\ OksDue' = OksDue /\ ErrsDue' = ErrsDue
  BY <1>1, <1>3, <1>4, Kinds
  DEF HeadsDue, FilesDue, EndsDue, OksDue, ErrsDue, One
<1>6. ASSUME AboutCurrent,
             x \in {Msg("head", cur), Msg("file", cur), Msg("end", cur),
                    Msg("close", 0)}
      PROVE  AboutCurrent'
  <2>1. \A m \in Message : flow'["server"][m] > 0 => flow["server"][m] > 0 \/ m = x
    BY <1>3 DEF One
  <2> QED
    BY <1>4, <1>6, <2>1 DEF AboutCurrent
<1> QED
  BY <1>2, <1>5, <1>6

LEMMA SendHeadStep ==
    ASSUME Typed, Protocol, SendHead
    PROVE  Typed' /\ Protocol'
<1> DEFINE x == Msg("head", cur)
<1>1. /\ pc = "head" /\ pc' = "waitHead" /\ SendMsg("client", x)
      /\ UNCHANGED <<net, hand, recv, cur, sentData, result, notify, disk>>
  BY DEF SendHead, Sends, notes
<1>2. cur \in Files /\ x \in Message /\ x # Msg("file", cur) /\ x # Msg("end", cur)
  BY Kinds DEF Typed, ProtoTyped
<1>3. /\ ChanTyped' /\ Bounded' /\ AboutCurrent'
      /\ HeadsDue' = HeadsDue + 1 /\ FilesDue' = FilesDue + 0
      /\ EndsDue' = EndsDue + 0 /\ OksDue' = OksDue /\ ErrsDue' = ErrsDue
  <2> HIDE DEF x
  <2>1. x \in {Msg("head", cur), Msg("file", cur), Msg("end", cur), Msg("close", 0)}
        /\ x = Msg("head", cur)
    BY DEF x
  <2> QED
    BY <1>1, <1>2, <2>1, SentDue DEF Protocol, One
<1>4. /\ HeadsDue \in Nat /\ FilesDue \in Nat /\ EndsDue \in Nat
      /\ OksDue \in Nat /\ ErrsDue \in Nat /\ Told \in {0, 1} /\ Told' = Told
  BY <1>1, DueNat DEF Told
<1>5. Typed'
  BY <1>1, <1>3 DEF Typed, ProtoTyped, disk, Asking
<1>6. HeadsDue = 0 /\ EndsDue = 0 /\ OksDue = 0 /\ ErrsDue = 0 /\ Told = 0
  BY <1>1, <1>4 DEF Protocol, OneDue, Due
<1>7. OneDue'
  BY <1>1, <1>3, <1>4, <1>6 DEF OneDue, Due
<1>8. Amounts' /\ Completed' /\ Answered' /\ Concluded'
  <2>1. cur \notin complete
    BY <1>1 DEF Protocol, Completed
  <2>2. FilesDue' = FilesDue
    BY <1>3, <1>4
  <2> QED
    BY <1>1, <2>1, <2>2
    DEF Protocol, Amounts, Completed, Answered, Concluded, disk, Ending
<1> QED
  BY <1>3, <1>5, <1>7, <1>8 DEF Protocol

LEMMA SendDataStep ==
    ASSUME Typed, Protocol, SendData
    PROVE  Typed' /\ Protocol'
<1> DEFINE x == Msg("file", cur)
<1>1. /\ pc = "data" /\ pc' = "data" /\ SendMsg("client", x)
      /\ sentData < NData /\ sentData' = sentData + 1
      /\ UNCHANGED <<net, hand, recv, cur, result, notify, disk>>
  BY DEF SendData, MoreData, Sends, notes
<1>2. cur \in Files /\ x \in Message /\ x # Msg("head", cur) /\ x # Msg("end", cur)
      /\ sentData \in Nat /\ stored[cur] \in Nat
  BY Kinds DEF Typed, ProtoTyped
<1>3. /\ ChanTyped' /\ Bounded' /\ AboutCurrent'
      /\ HeadsDue' = HeadsDue + 0 /\ FilesDue' = FilesDue + 1
      /\ EndsDue' = EndsDue + 0 /\ OksDue' = OksDue /\ ErrsDue' = ErrsDue
  <2> HIDE DEF x
  <2>1. x \in {Msg("head", cur), Msg("file", cur), Msg("end", cur), Msg("close", 0)}
        /\ x = Msg("file", cur)
    BY DEF x
  <2> QED
    BY <1>1, <1>2, <2>1, SentDue DEF Protocol, One
<1>4. /\ HeadsDue \in Nat /\ FilesDue \in Nat /\ EndsDue \in Nat
      /\ OksDue \in Nat /\ ErrsDue \in Nat /\ Told \in {0, 1} /\ Told' = Told
  BY <1>1, DueNat DEF Told
<1>5. Typed'
  <2>1. sentData' \in 0..NData
    BY <1>1, <1>2, SizesAssumption
  <2>2. ProtoTyped'
    BY <1>1, <2>1 DEF Typed, ProtoTyped, disk, Asking
  <2> QED
    BY <1>3, <2>2 DEF Typed
<1>6. OneDue'
  BY <1>1, <1>3, <1>4 DEF Protocol, OneDue, Due
<1>7. Amounts' /\ Completed' /\ Answered' /\ Concluded'
  <2>1. cur \notin complete
    BY <1>1 DEF Protocol, Completed
  <2>2. stored'[cur'] + FilesDue' <= sentData'
    BY <1>1, <1>2, <1>3, <1>4 DEF Protocol, Amounts, disk
  <2> QED
    BY <1>1, <2>1, <2>2
    DEF Protocol, Amounts, Completed, Answered, Concluded, disk, Ending
<1> QED
  BY <1>3, <1>5, <1>6, <1>7 DEF Protocol

LEMMA SendEndStep ==
    ASSUME Typed, Protocol, SendEnd
    PROVE  Typed' /\ Protocol'
<1> DEFINE x == Msg("end", cur)
<1>1. /\ pc = "data" /\ pc' = "waitEnd" /\ SendMsg("client", x)
      /\ UNCHANGED <<net, hand, recv, cur, sentData, result, notify, disk>>
  BY DEF SendEnd, Sends, notes
<1>2. cur \in Files /\ x \in Message /\ x # Msg("file", cur) /\ x # Msg("head", cur)
  BY Kinds DEF Typed, ProtoTyped
<1>3. /\ ChanTyped' /\ Bounded' /\ AboutCurrent'
      /\ HeadsDue' = HeadsDue + 0 /\ FilesDue' = FilesDue + 0
      /\ EndsDue' = EndsDue + 1 /\ OksDue' = OksDue /\ ErrsDue' = ErrsDue
  <2> HIDE DEF x
  <2>1. x \in {Msg("head", cur), Msg("file", cur), Msg("end", cur), Msg("close", 0)}
        /\ x = Msg("end", cur)
    BY DEF x
  <2> QED
    BY <1>1, <1>2, <2>1, SentDue DEF Protocol, One
<1>4. /\ HeadsDue \in Nat /\ FilesDue \in Nat /\ EndsDue \in Nat
      /\ OksDue \in Nat /\ ErrsDue \in Nat /\ Told \in {0, 1} /\ Told' = Told
  BY <1>1, DueNat DEF Told
<1>5. Typed'
  BY <1>1, <1>3 DEF Typed, ProtoTyped, disk, Asking
<1>6. HeadsDue = 0 /\ EndsDue = 0 /\ OksDue = 0 /\ ErrsDue = 0 /\ Told = 0
  BY <1>1, <1>4 DEF Protocol, OneDue, Due
<1>7. OneDue'
  BY <1>1, <1>3, <1>4, <1>6 DEF OneDue, Due
<1>8. notify' = <<>> /\ OksDue' = 0
  BY <1>1, <1>3, <1>6 DEF Told
<1>9. Amounts' /\ Completed' /\ Answered' /\ Concluded'
  <2>1. cur \notin complete
    BY <1>1 DEF Protocol, Completed
  <2>2. FilesDue' = FilesDue
    BY <1>3, <1>4
  <2> QED
    BY <1>1, <1>8, <2>1, <2>2
    DEF Protocol, Amounts, Completed, Answered, Concluded, disk, Ending
<1> QED
  BY <1>3, <1>5, <1>7, <1>9 DEF Protocol

LEMMA SendCloseStep ==
    ASSUME Typed, Protocol, SendClose
    PROVE  Typed' /\ Protocol'
<1> DEFINE x == Msg("close", 0)
<1>1. /\ pc = "bye" /\ pc' = "close" /\ SendMsg("client", x)
      /\ UNCHANGED <<net, hand, recv, cur, sentData, result, notify, disk>>
  BY DEF SendClose, Sends, notes
<1>2. cur \in Files /\ x \in Message
      /\ x # Msg("head", cur) /\ x # Msg("file", cur) /\ x # Msg("end", cur)
  BY Kinds DEF Typed, ProtoTyped
<1>3. /\ ChanTyped' /\ Bounded' /\ AboutCurrent'
      /\ HeadsDue' = HeadsDue + 0 /\ FilesDue' = FilesDue + 0
      /\ EndsDue' = EndsDue + 0 /\ OksDue' = OksDue /\ ErrsDue' = ErrsDue
  <2> HIDE DEF x
  <2>1. x \in {Msg("head", cur), Msg("file", cur), Msg("end", cur), Msg("close", 0)}
    BY DEF x
  <2> QED
    BY <1>1, <1>2, <2>1, SentDue DEF Protocol, One
<1>4. /\ HeadsDue' = HeadsDue /\ FilesDue' = FilesDue /\ EndsDue' = EndsDue
      /\ Told' = Told
  BY <1>1, <1>3, DueNat DEF Told
<1>5. Typed'
  BY <1>1, <1>3 DEF Typed, ProtoTyped, disk, Ending
<1>6. OneDue'
  BY <1>1, <1>3, <1>4 DEF Protocol, OneDue, Due
<1>7. Amounts' /\ Completed' /\ Answered' /\ Concluded'
  BY <1>1, <1>3, <1>4
  DEF Protocol, Amounts, Completed, Answered, Concluded, disk, Ending
<1> QED
  BY <1>3, <1>5, <1>6, <1>7 DEF Protocol

LEMMA LessStep ==
    ASSUME Typed, Protocol, ChanTyped', Bounded', Keeps, Leaves,
           result' \in {result, "err"},
           UNCHANGED <<cur, sentData, stored, complete, backup>>,
           notify' \in {notify, <<>>}, fs' \in {fs, 0}
    PROVE  Typed' /\ Protocol'
<1>1. Protocol'
  BY LessProtocol
<1>2. pc' \in Asking \cup Ending \cup {"panic"}
  BY DEF Typed, ProtoTyped, Leaves
<1>3. result' \in {"nil", "err"} /\ notify' \in {<<>>, <<TRUE>>, <<FALSE>>}
      /\ fs' \in Files \cup {0}
  BY DEF Typed, ProtoTyped
<1>4. ProtoTyped'
  BY <1>2, <1>3 DEF Typed, ProtoTyped
<1> QED
  BY <1>1, <1>4 DEF Typed

\* A step of the sender that sends nothing.
LEMMA QuietStep ==
    ASSUME Typed, Protocol, UNCHANGED chans, Leaves, result' \in {result, "err"},
           UNCHANGED <<cur, sentData, disk>>, notify' \in {notify, <<>>}
    PROVE  Typed' /\ Protocol'
<1>1. ChanTyped' /\ Bounded' /\ Keeps
  BY SameFlow DEF Typed
<1>2. UNCHANGED <<cur, sentData, stored, complete, backup>> /\ fs' \in {fs, 0}
  BY DEF disk
<1> QED
  BY <1>1, <1>2, LessStep

LEMMA SenderQuiet ==
    ASSUME Typed, Protocol,
           FileError \/ Timeout \/ SenderPanics \/ SenderCloses \/ SendFileReturns
    PROVE  Typed' /\ Protocol'
<1>1. UNCHANGED chans /\ UNCHANGED <<cur, sentData, disk>> /\ UNCHANGED notify
  BY DEF FileError, Timeout, SenderPanics, SenderCloses, SendFileReturns, GiveUp,
         chans, tcp, notes
<1>2. Leaves /\ result' \in {result, "err"}
  BY DEF FileError, Timeout, SenderPanics, SenderCloses, SendFileReturns, GiveUp,
         Leaves, Ending
<1> QED
  BY <1>1, <1>2, QuietStep

\* Nothing is on its way to either end but MsgClose, and the sender turns to file
\* g: nothing is due.
LEMMA NothingDue ==
    ASSUME ChanTyped, NEW g \in Files,
           \A e \in Ends, m \in Message : flow[e][m] > 0 => m = Msg("close", 0),
           UNCHANGED chans, cur' = g
    PROVE  /\ HeadsDue' = 0 /\ FilesDue' = 0 /\ EndsDue' = 0
           /\ OksDue' = 0 /\ ErrsDue' = 0 /\ AboutCurrent'
<1>1. flow' = flow
  BY DEF chans, flow
<1>2. "client" \in Ends /\ "server" \in Ends
  BY DEF Ends
<1>3. \A e \in Ends, m \in Message : m.type # "close" => flow[e][m] = 0
  <2>1. Msg("close", 0).type = "close"
    BY Kinds
  <2> QED
    BY <2>1, FlowParts
<1>4. /\ HeadsDue' = 0 /\ FilesDue' = 0 /\ EndsDue' = 0
      /\ OksDue' = 0 /\ ErrsDue' = 0
  BY <1>1, <1>2, <1>3, Kinds DEF HeadsDue, FilesDue, EndsDue, OksDue, ErrsDue
<1>5. AboutCurrent'
  BY <1>1, <1>2 DEF AboutCurrent
<1> QED
  BY <1>4, <1>5

LEMMA NotifiedStep ==
    ASSUME Typed, Protocol, Notified
    PROVE  Typed' /\ Protocol'
<1>1. /\ UNCHANGED chans /\ UNCHANGED disk /\ pc \in {"waitHead", "waitEnd"}
      /\ notify' \in {notify, <<>>}
  BY DEF Notified, chans, tcp
<1>2. CASE GiveUp
  <2>1. Leaves /\ result' \in {result, "err"} /\ UNCHANGED <<cur, sentData>>
    BY <1>2 DEF GiveUp, Leaves, Ending
  <2> QED
    BY <1>1, <2>1, QuietStep
<1>3. CASE ~ GiveUp
  <2>1. Ok(notify # <<>> /\ notify[1])
    BY <1>3, Zenon DEF Notified
  <2>2. notify # <<>> /\ notify[1]
    BY <2>1, Zenon DEF Ok
  <2>3. notify' = <<>>
    BY <2>2 DEF Notified
  <2>4. notify = <<TRUE>>
    <3>1. <<FALSE>>[1] = FALSE
      OBVIOUS
    <3>2. notify \in {<<>>, <<TRUE>>, <<FALSE>>}
      BY DEF Typed, ProtoTyped
    <3>3. notify # <<FALSE>>
      BY <2>2, <3>1, Zenon
    <3> QED
      BY <2>2, <3>2, <3>3
  <2>5. /\ HeadsDue \in Nat /\ FilesDue \in Nat /\ EndsDue \in Nat
        /\ OksDue \in Nat /\ ErrsDue \in Nat /\ Told = 1
    BY <2>2, DueNat
  <2>6. HeadsDue = 0 /\ EndsDue = 0 /\ OksDue = 0 /\ ErrsDue = 0
    BY <2>5 DEF Protocol, OneDue, Due
  <2>7. ChanTyped' /\ Bounded' /\ flow' = flow
    BY <1>1, SameFlow DEF Typed, chans, flow
  <2>8. Told' = 0
    BY <2>3 DEF Told
  <2>9. <<>> # <<TRUE>>
    OBVIOUS
  <2>10. CASE pc = "waitHead"
    <3>1. pc' = "data" /\ UNCHANGED <<cur, sentData, result>>
      BY <2>1, <2>10 DEF Notified
    <3>2. /\ HeadsDue' = 0 /\ FilesDue' = FilesDue /\ EndsDue' = 0
          /\ OksDue' = 0 /\ ErrsDue' = 0
      BY <2>6, <2>7, <3>1 DEF HeadsDue, FilesDue, EndsDue, OksDue, ErrsDue
    <3>3. Typed'
      BY <1>1, <2>3, <2>7, <3>1 DEF Typed, ProtoTyped, disk, Asking
    <3>4. OneDue'
      BY <2>8, <3>1, <3>2 DEF OneDue, Due
    <3>5. AboutCurrent'
      BY <2>7, <3>1 DEF Protocol, AboutCurrent
    <3>6. cur \notin complete
      BY <2>10 DEF Protocol, Completed
    <3>7. Amounts' /\ Completed' /\ Answered' /\ Concluded'
      BY <1>1, <3>1, <3>2, <3>6
      DEF Protocol, Amounts, Completed, Answered, Concluded, disk, Ending
    <3> QED
      BY <3>3, <3>4, <3>5, <3>7 DEF Protocol
  <2>11. CASE pc = "waitEnd"
    <3>1. NextFile
      BY <2>1, <2>11 DEF Notified
    <3>2. cur \in complete /\ stored[cur] = NData /\ fs = 0
      BY <2>4, <2>11 DEF Protocol, Answered, Completed
    <3>3. FilesDue = 0
      <4>1. sentData <= NData /\ sentData \in Nat /\ NData \in Nat
        BY SizesAssumption DEF Typed, ProtoTyped
      <4>2. NData + FilesDue <= sentData
        BY <3>2 DEF Protocol, Amounts
      <4> QED
        BY <2>5, <4>1, <4>2
    <3>4. cur \in Files /\ cur \in Nat /\ NFiles \in Nat /\ cur <= NFiles
      BY FilesNat, SizesAssumption DEF Typed, ProtoTyped
    <3>5. CASE cur = NFiles
      <4>1. pc' = "bye" /\ result' = "nil" /\ UNCHANGED <<cur, sentData>>
        BY <3>1, <3>5 DEF NextFile
      <4>2. /\ HeadsDue' = 0 /\ FilesDue' = 0 /\ EndsDue' = 0
            /\ OksDue' = 0 /\ ErrsDue' = 0
        BY <2>6, <2>7, <3>3, <4>1 DEF HeadsDue, FilesDue, EndsDue, OksDue, ErrsDue
      <4>3. Typed'
        BY <1>1, <2>3, <2>7, <4>1 DEF Typed, ProtoTyped, disk, Ending
      <4>4. OneDue'
        BY <2>8, <4>1, <4>2 DEF OneDue, Due
      <4>5. AboutCurrent'
        BY <2>7, <4>1 DEF Protocol, AboutCurrent
      <4>6. Amounts' /\ Completed'
        BY <1>1, <3>2, <3>3, <4>1, <4>2 DEF Protocol, Amounts, Completed, disk
      <4>7. Answered' /\ Concluded'
        BY <1>1, <3>2, <3>5, <4>1 DEF Protocol, Answered, Concluded, disk
      <4> QED
        BY <4>3, <4>4, <4>5, <4>6, <4>7 DEF Protocol
    <3>6. CASE cur # NFiles
      <4>1. pc' = "head" /\ cur' = cur + 1 /\ sentData' = 0 /\ UNCHANGED result
        BY <3>1, <3>6 DEF NextFile
      <4>2. cur + 1 \in Files
        BY <3>4, <3>6 DEF Files
      <4>3. \A e \in Ends, m \in Message : flow[e][m] > 0 => m = Msg("close", 0)
        BY <2>6, <3>3
        DEF Protocol, AboutCurrent, HeadsDue, FilesDue, EndsDue, OksDue, ErrsDue, Ends
      <4>4. /\ HeadsDue' = 0 /\ FilesDue' = 0 /\ EndsDue' = 0
            /\ OksDue' = 0 /\ ErrsDue' = 0 /\ AboutCurrent'
        BY <1>1, <4>1, <4>2, <4>3, NothingDue DEF Typed
      <4>5. Typed'
        <5>1. sentData' \in 0..NData
          BY <4>1, SizesAssumption
        <5>2. ProtoTyped'
          BY <1>1, <2>3, <4>1, <4>2, <5>1 DEF Typed, ProtoTyped, disk, Asking
        <5> QED
          BY <2>7, <5>2 DEF Typed
      <4>6. OneDue'
        BY <2>8, <4>1, <4>4 DEF OneDue, Due
      <4>7. Amounts'
        <5>1. \A f \in Files : (f > cur + 1 => f > cur)
                               /\ (f < cur + 1 => f < cur \/ f = cur)
                               /\ (f <= cur => f <= cur + 1) /\ cur + 1 > cur
          BY <3>4, FilesNat
        <5>2. stored[cur + 1] = 0
          BY <4>2, <5>1 DEF Protocol, Amounts
        <5>3. complete \subseteq Files
          BY DEF Typed, ProtoTyped
        <5> QED
          BY <1>1, <3>2, <4>1, <4>4, <5>1, <5>2, <5>3 DEF Protocol, Amounts, disk
      <4>8. Completed'
        <5>1. ~ (cur + 1 <= cur)
          BY <3>4
        <5> QED
          BY <1>1, <4>1, <5>1 DEF Protocol, Amounts, Completed, disk
      <4>9. Answered' /\ Concluded'
        BY <1>1, <4>1 DEF Protocol, Answered, Concluded, disk, Ending
      <4> QED
        BY <4>4, <4>5, <4>6, <4>7, <4>8, <4>9 DEF Protocol
    <3> QED
      BY <3>5, <3>6
  <2> QED
    BY <1>1, <2>10, <2>11
<1> QED
  BY <1>2, <1>3

-----------------------------------------------------------------------------
(* The goroutines that pass messages on, and what takes one away.          *)

Rest == <<pc, cur, sentData, result, notify, stored, complete, backup>>

LEMMA RestStep ==
    ASSUME Typed, Protocol, ChanTyped', Bounded', Keeps, UNCHANGED Rest,
           fs' \in {fs, 0}
    PROVE  Typed' /\ Protocol'
<1>1. Leaves /\ result' \in {result, "err"} /\ notify' \in {notify, <<>>}
      /\ UNCHANGED <<cur, sentData, stored, complete, backup>>
  BY DEF Rest, Leaves
<1> QED
  BY <1>1, LessStep

LEMMA PassingStep ==
    ASSUME Typed, Protocol, NEW e \in Ends, Passing(e)
    PROVE  Typed' /\ Protocol'
<1>1. UNCHANGED Rest /\ UNCHANGED fs
  BY DEF Passing, Stop, WriterStep, WriteMsg, WriterStops, WriterDone, ReaderStep,
         ReadMsg, PutMsg, ReaderStops, ReaderDone, HandlerStops, Rest, sender, notes,
         disk
<1>2. ChanTyped' /\ Bounded' /\ Keeps
  <2>1. CASE WriteMsg(e)
    BY <2>1, WriteFlow DEF Typed
  <2>2. CASE ReadMsg(e)
    BY <2>2, ReadFlow DEF Typed
  <2>3. CASE PutMsg(e)
    BY <2>3, PutFlow DEF Typed
  <2>4. CASE Stop(e) \/ WriterStops(e) \/ WriterDone(e) \/ ReaderStops(e)
             \/ ReaderDone(e) \/ HandlerStops(e)
    <3>1. UNCHANGED chans
      BY <2>4 DEF Stop, WriterStops, WriterDone, ReaderStops, ReaderDone, HandlerStops,
                  chans
    <3> QED
      BY <3>1, SameFlow DEF Typed
  <2> QED
    BY <2>1, <2>2, <2>3, <2>4 DEF Passing, WriterStep, ReaderStep
<1> QED
  BY <1>1, <1>2, RestStep

LEMMA ResetStep ==
    ASSUME Typed, Protocol, Reset
    PROVE  Typed' /\ Protocol'
<1>1. UNCHANGED Rest /\ UNCHANGED fs
  BY DEF Reset, Rest, sender, notes, disk
<1> QED
  BY <1>1, ResetFlow, RestStep DEF Typed

LEMMA HandlerDoneStep ==
    ASSUME Typed, Protocol, NEW e \in Ends, HandlerDone(e)
    PROVE  Typed' /\ Protocol'
<1>1. UNCHANGED Rest /\ fs' \in {fs, 0} /\ UNCHANGED chans
  BY DEF HandlerDone, Rest, sender, chans, tcp
<1>2. ChanTyped' /\ Bounded' /\ Keeps
  BY <1>1, SameFlow DEF Typed
<1> QED
  BY <1>1, <1>2, RestStep

\* A message is taken from recv of e, and nothing comes of it.
LEMMA TakeStep ==
    ASSUME Typed, Protocol, NEW e \in Ends, recv[e] # <<>>,
           recv' = [recv EXCEPT ![e] = Tail(recv[e])], UNCHANGED <<send, net, hand>>,
           UNCHANGED Rest, UNCHANGED fs
    PROVE  Typed' /\ Protocol'
<1>1. ChanTyped' /\ Bounded'
      /\ \A d \in Ends, m \in Message :
             flow'[d][m] = flow[d][m] - One(d = e /\ m = Head(recv[e]))
  BY TakeFlow DEF Typed
<1>2. Keeps
  <2>1. ASSUME NEW d \in Ends, NEW m \in Message
        PROVE  flow'[d][m] <= flow[d][m]
    <3>1. flow[d][m] \in Nat
      BY FlowParts DEF Typed
    <3>2. One(d = e /\ m = Head(recv[e])) \in {0, 1}
      BY DEF One
    <3> QED
      BY <1>1, <3>1, <3>2
  <2> QED
    BY <2>1 DEF Keeps
<1> QED
  BY <1>1, <1>2, RestStep

\* What there may be in recv.
LEMMA Received ==
    ASSUME Typed, Protocol, NEW e \in Ends, recv[e] # <<>>
    PROVE  /\ Head(recv[e]) \in Message /\ flow[e][Head(recv[e])] > 0
           /\ e = "server" => Head(recv[e]) \in {Msg("head", cur), Msg("file", cur),
                                                 Msg("end", cur), Msg("close", 0)}
           /\ e = "client" => Head(recv[e]) \in {Msg("ok", cur), Msg("err", 0),
                                                 Msg("close", 0)}
<1> DEFINE x == Head(recv[e])
<1>1. recv[e] \in Seq(Message)
  BY DEF Typed, ChanTyped
<1>2. x \in Message /\ Tail(recv[e]) \in Seq(Message)
      /\ Count(recv[e], x) = Count(Tail(recv[e]), x) + One(x = x)
  BY <1>1, CountTail
<1>3. Count(Tail(recv[e]), x) \in Nat /\ One(x = x) = 1
  BY <1>2, PlacesFinite DEF One
<1> HIDE DEF x
<1>4. flow[e][x] > 0
  <2>1. /\ flow[e][x] = Count(send[Peer(e)], x) + Count(net[e], x)
                            + Count(hand[e], x) + Count(recv[e], x)
        /\ Count(send[Peer(e)], x) \in Nat /\ Count(net[e], x) \in Nat
        /\ Count(hand[e], x) \in Nat
    BY <1>2, FlowParts DEF Typed
  <2> QED
    BY <1>2, <1>3, <2>1
<1>5. /\ e = "server" => x \in {Msg("head", cur), Msg("file", cur),
                                Msg("end", cur), Msg("close", 0)}
      /\ e = "client" => x \in {Msg("ok", cur), Msg("err", 0), Msg("close", 0)}
  BY <1>2, <1>4 DEF Protocol, AboutCurrent
<1> QED
  BY <1>2, <1>4, <1>5 DEF x

\* A handler that only returns, on the message it has taken.
LEMMA MsgCloseStep ==
    ASSUME Typed, Protocol, NEW e \in Ends, MsgClose(e)
    PROVE  Typed' /\ Protocol'
<1>1. /\ recv[e] # <<>> /\ recv' = [recv EXCEPT ![e] = Tail(recv[e])]
      /\ UNCHANGED <<send, net, hand>> /\ UNCHANGED Rest /\ UNCHANGED fs
  BY DEF MsgClose, GetMsg, Rest, sender, notes, disk
<1> QED
  BY <1>1, TakeStep

-----------------------------------------------------------------------------
(* The handlers, of the server and of the client.                          *)

LEMMA MessageKinds ==
    ASSUME Typed
    PROVE  /\ cur \in Files
           /\ Msg("head", cur).type = "head" /\ Msg("file", cur).type = "file"
           /\ Msg("end", cur).type = "end" /\ Msg("ok", cur).type = "ok"
           /\ Msg("err", 0).type = "err" /\ Msg("close", 0).type = "close"
           /\ Msg("head", cur).file = cur /\ Msg("end", cur).file = cur
<1>1. cur \in Files
  BY DEF Typed, ProtoTyped
<1> QED
  BY <1>1, Kinds

\* The server's handler takes x and answers y.
LEMMA AnswerDue ==
    ASSUME Typed, AboutCurrent, recv["server"] # <<>>,
           recv' = [recv EXCEPT !["server"] = Tail(recv["server"])],
           NEW y \in {Msg("ok", cur), Msg("err", 0), Msg("close", 0)},
           SendMsg("server", y), UNCHANGED <<net, hand, cur>>
    PROVE  LET x == Head(recv["server"]) IN
           /\ ChanTyped' /\ Bounded' /\ AboutCurrent'
           /\ HeadsDue' = HeadsDue - One(x = Msg("head", cur))
           /\ FilesDue' = FilesDue - One(x = Msg("file", cur))
           /\ EndsDue' = EndsDue - One(x = Msg("end", cur))
           /\ OksDue' = OksDue + One(y = Msg("ok", cur))
           /\ ErrsDue' = ErrsDue + One(y = Msg("err", 0))
<1> DEFINE x == Head(recv["server"])
<1>1. cur \in Files /\ "server" \in Ends /\ "client" \in Ends
      /\ Peer("server") = "client" /\ y \in Message
  BY Kinds DEF Typed, ProtoTyped, Ends, Peer
<1>2. /\ ChanTyped' /\ Bounded'
      /\ \A m \in Message :
             /\ flow'["server"][m] = flow["server"][m] - One(m = x)
             /\ flow'[Peer("server")][m] = flow[Peer("server")][m] + One(m = y)
  BY <1>1, AnswerFlow DEF Typed
<1> HIDE DEF x
<1>3. \A m \in Message : flow'["server"][m] = flow["server"][m] - One(m = x)
                         /\ flow["server"][m] \in Nat
  BY <1>1, <1>2, FlowParts DEF Typed
<1>4. \A m \in Message : flow'["client"][m] = flow["client"][m] + One(m = y)
                         /\ flow["client"][m] \in Nat
  BY <1>1, <1>2, FlowParts DEF Typed
<1>5. /\ HeadsDue' = HeadsDue - One(x = Msg("head", cur))
      /\ FilesDue' = FilesDue - One(x = Msg("file", cur))
      /\ EndsDue' = EndsDue - One(x = Msg("end", cur))
  BY <1>1, <1>3, Kinds DEF HeadsDue, FilesDue, EndsDue, One
<1>6. /\ OksDue' = OksDue + One(y = Msg("ok", cur))
      /\ ErrsDue' = ErrsDue + One(y = Msg("err", 0))
  BY <1>1, <1>4, Kinds DEF OksDue, ErrsDue, One
<1>7. AboutCurrent'
  <2>1. \A m \in Message : flow'["server"][m] > 0 => flow["server"][m] > 0
    BY <1>3 DEF One
  <2>2. \A m \in Message : flow'["client"][m] > 0 => flow["client"][m] > 0 \/ m = y
    BY <1>4 DEF One
  <2> QED
    BY <2>1, <2>2 DEF AboutCurrent
<1> QED
  BY <1>2, <1>5, <1>6, <1>7 DEF x

\* The handler of e takes x, and says nothing.
LEMMA TakeDue ==
    ASSUME Typed, AboutCurrent, NEW e \in Ends, recv[e] # <<>>,
           recv' = [recv EXCEPT ![e] = Tail(recv[e])],
           UNCHANGED <<send, net, hand, cur>>
    PROVE  LET x == Head(recv[e]) IN
           /\ ChanTyped' /\ Bounded' /\ AboutCurrent'
           /\ e = "server" =>
                  /\ HeadsDue' = HeadsDue - One(x = Msg("head", cur))
                  /\ FilesDue' = FilesDue - One(x = Msg("file", cur))
                  /\ EndsDue' = EndsDue - One(x = Msg("end", cur))
                  /\ OksDue' = OksDue /\ ErrsDue' = ErrsDue
           /\ e = "client" =>
                  /\ HeadsDue' = HeadsDue /\ FilesDue' = FilesDue
                  /\ EndsDue' = EndsDue
                  /\ OksDue' = OksDue - One(x = Msg("ok", cur))
                  /\ ErrsDue' = ErrsDue - One(x = Msg("err", 0))
<1> DEFINE x == Head(recv[e])
<1>1. cur \in Files /\ "server" \in Ends /\ "client" \in Ends /\ "client" # "server"
  BY DEF Typed, ProtoTyped, Ends
<1>2. /\ ChanTyped' /\ Bounded'
      /\ \A d \in Ends, m \in Message :
             flow'[d][m] = flow[d][m] - One(d = e /\ m = x)
  BY TakeFlow DEF Typed
<1> HIDE DEF x
<1>3. \A d \in Ends, m \in Message : flow[d][m] \in Nat
  BY FlowParts DEF Typed
<1>4. ASSUME NEW d \in Ends, NEW m \in Message
      PROVE  flow'[d][m] = IF d = e /\ m = x THEN flow[d][m] - 1 ELSE flow[d][m]
  <2>1. flow[d][m] \in Nat /\ flow'[d][m] = flow[d][m] - One(d = e /\ m = x)
    BY <1>2, <1>3
  <2> QED
    BY <2>1 DEF One
<1>5. AboutCurrent'
  <2>1. \A d \in Ends, m \in Message : flow'[d][m] > 0 => flow[d][m] > 0
    BY <1>3, <1>4
  <2> QED
    BY <1>1, <2>1 DEF AboutCurrent
<1>6. /\ HeadsDue \in Nat /\ FilesDue \in Nat /\ EndsDue \in Nat
      /\ OksDue \in Nat /\ ErrsDue \in Nat
  BY DueNat
<1>7. CASE e = "server"
  <2>1. /\ HeadsDue' = HeadsDue - One(x = Msg("head", cur))
        /\ FilesDue' = FilesDue - One(x = Msg("file", cur))
        /\ EndsDue' = EndsDue - One(x = Msg("end", cur))
        /\ OksDue' = OksDue /\ ErrsDue' = ErrsDue
    BY <1>1, <1>3, <1>4, <1>7, Kinds
    DEF HeadsDue, FilesDue, EndsDue, OksDue, ErrsDue, One
  <2> QED
    BY <1>1, <1>2, <1>5, <1>7, <2>1 DEF x
<1>8. CASE e = "client"
  <2>1. /\ HeadsDue' = HeadsDue /\ FilesDue' = FilesDue
        /\ EndsDue' = EndsDue
        /\ OksDue' = OksDue - One(x = Msg("ok", cur))
        /\ ErrsDue' = ErrsDue - One(x = Msg("err", 0))
    BY <1>1, <1>3, <1>4, <1>8, Kinds
    DEF HeadsDue, FilesDue, EndsDue, OksDue, ErrsDue, One
  <2> QED
    BY <1>1, <1>2, <1>5, <1>8, <2>1 DEF x
<1> QED
  BY <1>7, <1>8 DEF Ends

\* What is due once the server has answered the request of type t.
LEMMA AnsweredRequest ==
    ASSUME Typed, Protocol, NEW t \in {"head", "file", "end"}, GetMsg("server", t),
           NEW y \in {Msg("ok", cur), Msg("err", 0), Msg("close", 0)},
           SendMsg("server", y)
    PROVE  /\ Head(recv["server"]) = Msg(t, cur)
           /\ ChanTyped' /\ Bounded' /\ AboutCurrent'
           /\ HeadsDue' = HeadsDue - One(t = "head")
           /\ FilesDue' = FilesDue - One(t = "file")
           /\ EndsDue' = EndsDue - One(t = "end")
           /\ OksDue' = OksDue + One(y = Msg("ok", cur))
           /\ ErrsDue' = ErrsDue + One(y = Msg("err", 0))
           /\ HeadsDue >= One(t = "head") /\ FilesDue >= One(t = "file")
           /\ EndsDue >= One(t = "end")
<1> DEFINE x == Head(recv["server"])
<1>1. /\ recv["server"] # <<>> /\ x.type = t
      /\ recv' = [recv EXCEPT !["server"] = Tail(recv["server"])]
      /\ UNCHANGED <<net, hand, cur>> /\ "server" \in Ends
  BY DEF GetMsg, sender, Ends
<1>2. x = Msg(t, cur) /\ flow["server"][x] > 0
  BY <1>1, Received, MessageKinds
<1>3. One(x = Msg("head", cur)) = One(t = "head")
      /\ One(x = Msg("file", cur)) = One(t = "file")
      /\ One(x = Msg("end", cur)) = One(t = "end")
  BY <1>2, MessageKinds DEF One
<1>4. /\ ChanTyped' /\ Bounded' /\ AboutCurrent'
      /\ HeadsDue' = HeadsDue - One(t = "head")
      /\ FilesDue' = FilesDue - One(t = "file")
      /\ EndsDue' = EndsDue - One(t = "end")
      /\ OksDue' = OksDue + One(y = Msg("ok", cur))
      /\ ErrsDue' = ErrsDue + One(y = Msg("err", 0))
  BY <1>1, <1>3, AnswerDue DEF Protocol
<1>5. /\ HeadsDue >= One(t = "head") /\ FilesDue >= One(t = "file")
      /\ EndsDue >= One(t = "end")
  BY <1>2, DueNat DEF HeadsDue, FilesDue, EndsDue, One
<1> QED
  BY <1>2, <1>4, <1>5

\* A handler whose SendMsg panics, or that only took the message.
LEMMA PanicStep ==
    ASSUME Typed, Protocol, NEW e \in Ends, NEW t, GetMsg(e, t), UNCHANGED send,
           UNCHANGED <<notes, disk>>
    PROVE  Typed' /\ Protocol'
<1>1. /\ recv[e] # <<>> /\ recv' = [recv EXCEPT ![e] = Tail(recv[e])]
      /\ UNCHANGED <<send, net, hand>> /\ UNCHANGED Rest /\ UNCHANGED fs
  BY DEF GetMsg, Rest, sender, notes, disk
<1> QED
  BY <1>1, TakeStep

\* The client is not asked for anything.
LEMMA NotAsked ==
    ASSUME Typed, Protocol, NEW e \in Ends, NEW t \in {"head", "file", "end"},
           GetMsg(e, t)
    PROVE  e = "server"
<1>1. recv[e] # <<>> /\ Head(recv[e]).type = t
  BY DEF GetMsg
<1>2. e # "client"
  BY <1>1, Received, MessageKinds
<1> QED
  BY <1>2 DEF Ends

\* The server refuses a request, or ends with MsgClose.
LEMMA RefuseStep ==
    ASSUME Typed, Protocol, NEW t \in {"head", "file", "end"}, GetMsg("server", t),
           NEW y \in {Msg("err", 0), Msg("close", 0)}, SendMsg("server", y),
           t = "file" => y = Msg("close", 0),
           UNCHANGED <<notes, disk>>
    PROVE  Typed' /\ Protocol'
<1>1. UNCHANGED Rest /\ UNCHANGED fs
  BY DEF GetMsg, Rest, sender, notes, disk
<1>2. /\ HeadsDue \in Nat /\ FilesDue \in Nat /\ EndsDue \in Nat
      /\ OksDue \in Nat /\ ErrsDue \in Nat /\ Told \in {0, 1} /\ Told' = Told
  BY <1>1, DueNat DEF Told, Rest
<1>3. y # Msg("ok", cur)
  BY MessageKinds
<1>4. /\ ChanTyped' /\ Bounded' /\ AboutCurrent'
      /\ HeadsDue' = HeadsDue - One(t = "head")
      /\ FilesDue' = FilesDue - One(t = "file")
      /\ EndsDue' = EndsDue - One(t = "end")
      /\ OksDue' = OksDue + One(y = Msg("ok", cur))
      /\ ErrsDue' = ErrsDue + One(y = Msg("err", 0))
      /\ HeadsDue >= One(t = "head") /\ FilesDue >= One(t = "file")
      /\ EndsDue >= One(t = "end")
  BY AnsweredRequest
<1>5. /\ One(y = Msg("ok", cur)) = 0
      /\ One(y = Msg("err", 0)) \in {0, 1} /\ (t = "file" => One(y = Msg("err", 0)) = 0)
      /\ One(t = "head") \in {0, 1} /\ One(t = "file") \in {0, 1}
      /\ One(t = "end") \in {0, 1} /\ (t # "file" => One(t = "head") + One(t = "end") = 1)
  BY <1>3, MessageKinds DEF One
<1>6. Typed'
  BY <1>1, <1>4 DEF Typed, ProtoTyped, Rest
<1>7. PICK h \in Nat, f \in Nat, n \in Nat, k \in Nat, g \in Nat :
          h = HeadsDue /\ f = FilesDue /\ n = EndsDue /\ k = OksDue /\ g = ErrsDue
  BY <1>2
<1>8. PICK a \in Nat, b \in Nat, c \in Nat, o \in Nat, r \in Nat :
          /\ a = HeadsDue' /\ b = FilesDue' /\ c = EndsDue' /\ o = OksDue' /\ r = ErrsDue'
          /\ a <= h /\ b <= f /\ c <= n /\ o = k /\ a + c + r <= h + n + g
  <2>1. PICK p \in {0, 1}, q \in {0, 1}, s \in {0, 1}, u \in {0, 1} :
            /\ p = One(t = "head") /\ q = One(t = "file") /\ s = One(t = "end")
            /\ u = One(y = Msg("err", 0)) /\ u <= p + s
    <3>1. One(y = Msg("err", 0)) <= One(t = "head") + One(t = "end")
      BY <1>5
    <3> QED
      BY <1>5, <3>1
  <2>2. PICK a \in Nat, b \in Nat, c \in Nat, o \in Nat, r \in Nat :
            /\ a = HeadsDue' /\ b = FilesDue' /\ c = EndsDue' /\ o = OksDue'
            /\ r = ErrsDue'
    <3>1. cur' \in Files
      BY <1>6 DEF Typed, ProtoTyped
    <3> QED
      BY <1>4, <3>1, DueAfterNat
  <2>3. a = h - p /\ b = f - q /\ c = n - s /\ r = g + u
    BY <1>4, <1>7, <2>1, <2>2
  <2>4. o = k
    BY <1>4, <1>5, <1>7, <2>2
  <2>5. a <= h /\ b <= f /\ c <= n /\ a + c + r <= h + n + g
    <3>1. u <= p + s /\ p \in Nat /\ q \in Nat /\ s \in Nat /\ u \in Nat
      BY <2>1
    <3> QED
      BY <2>3, <3>1
  <2> QED
    BY <2>2, <2>4, <2>5
<1>9. OneDue'
  <2>1. Due' <= Due /\ Due' \in Nat /\ Due \in Nat
    <3>1. PICK w \in Nat : w = Told /\ w = Told'
      BY <1>2
    <3>2. Due = h + n + k + g + w
      BY <1>7, <3>1 DEF Due
    <3>3. Due' = a + c + o + r + w
      BY <1>8, <3>1 DEF Due
    <3>4. a + c + o + r + w <= h + n + k + g + w
      <4>1. o = k /\ a + c + r <= h + n + g
        BY <1>8
      <4> QED
        BY <4>1
    <3> QED
      BY <3>2, <3>3, <3>4
  <2>2. Due' <= 1 /\ (pc \in {"head", "data"} => Due' = 0)
    BY <2>1 DEF Protocol, OneDue
  <2>3. (HeadsDue' > 0 => HeadsDue > 0) /\ (EndsDue' > 0 => EndsDue > 0)
    BY <1>7, <1>8
  <2>4. pc' = pc
    BY <1>1 DEF Rest
  <2> QED
    BY <2>2, <2>3, <2>4 DEF Protocol, OneDue
<1>10. Amounts'
  <2>1. stored[cur] \in Nat /\ sentData \in Nat
    BY DEF Typed, ProtoTyped
  <2>2. stored[cur] + b <= sentData
    BY <1>7, <1>8, <2>1 DEF Protocol, Amounts
  <2> QED
    BY <1>1, <1>8, <2>2 DEF Protocol, Amounts, Rest
<1>11. Completed'
  <2>1. cur \in complete => HeadsDue' = 0 /\ EndsDue' = 0
    BY <1>7, <1>8 DEF Protocol, Completed
  <2> QED
    BY <1>1, <2>1 DEF Protocol, Completed, Rest
<1>12. Answered' /\ Concluded'
  <2>1. OksDue' = OksDue
    BY <1>7, <1>8
  <2> QED
    BY <1>1, <2>1 DEF Protocol, Answered, Concluded, Rest
<1> QED
  BY <1>4, <1>6, <1>9, <1>10, <1>11, <1>12 DEF Protocol

LEMMA MsgHeadStep ==
    ASSUME Typed, Protocol, NEW e \in Ends, MsgHead(e)
    PROVE  Typed' /\ Protocol'
<1>1. e = "server" /\ GetMsg("server", "head")
  BY NotAsked DEF MsgHead
<1>2. recv["server"] # <<>> /\ Head(recv["server"]) = Msg("head", cur)
      /\ File("server") = cur /\ cur \in Files
  <2>1. recv["server"] # <<>> /\ Head(recv["server"]).type = "head"
    BY <1>1 DEF GetMsg
  <2>2. Head(recv["server"]) = Msg("head", cur)
    BY <2>1, Received, MessageKinds DEF Ends
  <2> QED
    BY <2>1, <2>2, MessageKinds DEF File
<1>3. CASE /\ SendMsg("server", Msg("ok", cur))
           /\ fs' = cur /\ stored' = [stored EXCEPT ![cur] = 0]
           /\ UNCHANGED <<notes, complete, backup>>
  <2>1. UNCHANGED <<pc, cur, sentData, result, notify, complete, backup>>
    BY <1>1, <1>3 DEF GetMsg, sender, notes
  <2>2. /\ HeadsDue \in Nat /\ FilesDue \in Nat /\ EndsDue \in Nat
        /\ OksDue \in Nat /\ ErrsDue \in Nat /\ Told \in {0, 1} /\ Told' = Told
    BY <2>1, DueNat DEF Told
  <2>3. /\ ChanTyped' /\ Bounded' /\ AboutCurrent'
        /\ HeadsDue' = HeadsDue - 1 /\ FilesDue' = FilesDue - 0
        /\ EndsDue' = EndsDue - 0 /\ OksDue' = OksDue + 1 /\ ErrsDue' = ErrsDue + 0
        /\ HeadsDue >= 1
    <3>1. Msg("ok", cur) # Msg("err", 0)
      BY MessageKinds
    <3> QED
      BY <1>1, <1>3, <3>1, AnsweredRequest DEF One
  <2>4. HeadsDue = 1 /\ EndsDue = 0 /\ OksDue = 0 /\ ErrsDue = 0 /\ Told = 0
    BY <2>2, <2>3 DEF Protocol, OneDue, Due
  <2>5. /\ HeadsDue' = 0 /\ FilesDue' = FilesDue /\ EndsDue' = 0 /\ OksDue' = 1
        /\ ErrsDue' = 0 /\ Told' = 0
    BY <2>2, <2>3, <2>4
  <2>6. pc' \notin {"head", "data", "waitEnd"} /\ cur \notin complete
    BY <2>1, <2>2, <2>4 DEF Protocol, OneDue, Completed, Due
  <2>7. Typed'
    <3>1. stored' \in [Files -> Nat] /\ fs' \in Files \cup {0}
      BY <1>2, <1>3 DEF Typed, ProtoTyped
    <3> QED
      BY <2>1, <2>3, <3>1 DEF Typed, ProtoTyped
  <2>8. OneDue'
    BY <2>5, <2>6 DEF OneDue, Due
  <2>9. Amounts'
    <3>1. /\ stored'[cur] = 0
          /\ \A f \in Files : f # cur => stored'[f] = stored[f]
      BY <1>2, <1>3 DEF Typed, ProtoTyped
    <3>2. FilesDue <= sentData
      <4>1. stored[cur] \in Nat /\ sentData \in Nat
        BY <1>2 DEF Typed, ProtoTyped
      <4> QED
        BY <2>2, <4>1 DEF Protocol, Amounts
    <3>3. 0 + FilesDue = FilesDue
      BY <2>2
    <3>4. \A f \in Files : f > cur \/ f < cur => f # cur
      BY <1>2, FilesNat
    <3> QED
      BY <1>3, <2>1, <2>5, <3>1, <3>2, <3>3, <3>4 DEF Protocol, Amounts
  <2>10. Completed' /\ Answered' /\ Concluded'
    BY <2>1, <2>6 DEF Protocol, Completed, Answered, Concluded
  <2> QED
    BY <2>3, <2>7, <2>8, <2>9, <2>10 DEF Protocol
<1>4. CASE SendMsg("server", Msg("err", 0)) /\ UNCHANGED <<notes, disk>>
  BY <1>1, <1>4, RefuseStep
<1>5. CASE UNCHANGED send /\ UNCHANGED <<notes, disk>>
  BY <1>1, <1>5, PanicStep
<1> QED
  BY <1>1, <1>2, <1>3, <1>4, <1>5 DEF MsgHead, SendPanics, disk

LEMMA MsgFileStep ==
    ASSUME Typed, Protocol, NEW e \in Ends, MsgFile(e)
    PROVE  Typed' /\ Protocol'
<1>1. e = "server" /\ GetMsg("server", "file")
  BY NotAsked DEF MsgFile
<1>2. CASE /\ fs # 0 /\ stored' = [stored EXCEPT ![fs] = @ + 1]
           /\ UNCHANGED send /\ UNCHANGED <<notes, fs, complete, backup>>
  <2>1. UNCHANGED <<pc, cur, sentData, result, notify, complete, backup, fs>>
    BY <1>1, <1>2 DEF GetMsg, sender, notes
  <2>2. /\ HeadsDue \in Nat /\ FilesDue \in Nat /\ EndsDue \in Nat
        /\ OksDue \in Nat /\ ErrsDue \in Nat /\ Told \in {0, 1} /\ Told' = Told
    BY <2>1, DueNat DEF Told
  <2>3. recv["server"] # <<>> /\ Head(recv["server"]).type = "file"
        /\ recv' = [recv EXCEPT !["server"] = Tail(recv["server"])]
        /\ UNCHANGED <<send, net, hand, cur>> /\ "server" \in Ends
    BY <1>1, <1>2, <2>1 DEF GetMsg, Ends
  <2>4. Head(recv["server"]) = Msg("file", cur)
        /\ flow["server"][Msg("file", cur)] > 0
    BY <2>3, Received, MessageKinds
  <2>5. /\ ChanTyped' /\ Bounded' /\ AboutCurrent'
        /\ HeadsDue' = HeadsDue /\ FilesDue' = FilesDue - 1 /\ EndsDue' = EndsDue
        /\ OksDue' = OksDue /\ ErrsDue' = ErrsDue
    <3>1. Msg("file", cur) # Msg("head", cur) /\ Msg("file", cur) # Msg("end", cur)
      BY MessageKinds
    <3>2. /\ ChanTyped' /\ Bounded' /\ AboutCurrent'
          /\ HeadsDue' = HeadsDue - 0 /\ FilesDue' = FilesDue - 1
          /\ EndsDue' = EndsDue - 0 /\ OksDue' = OksDue /\ ErrsDue' = ErrsDue
      BY <2>3, <2>4, <3>1, TakeDue DEF Protocol, One
    <3> QED
      BY <2>2, <3>2
  <2>6. fs = cur /\ cur \notin complete /\ cur \in Files
    <3>1. cur \in Files /\ 0 \notin Files
      BY FilesNat DEF Typed, ProtoTyped
    <3> QED
      BY <1>2, <3>1 DEF Protocol, Amounts, Completed
  <2>7. /\ stored' \in [Files -> Nat] /\ stored'[cur] = stored[cur] + 1
        /\ \A f \in Files : f # cur => stored'[f] = stored[f]
    BY <1>2, <2>6 DEF Typed, ProtoTyped
  <2>8. Typed'
    BY <2>1, <2>5, <2>7 DEF Typed, ProtoTyped
  <2>9. OneDue'
    BY <2>1, <2>2, <2>5 DEF Protocol, OneDue, Due
  <2>10. Amounts'
    <3>1. stored'[cur] + FilesDue' <= sentData
      <4>1. PICK n \in Nat : n = FilesDue
        BY <2>2
      <4>2. PICK k \in Nat : k = stored[cur]
        BY <2>6 DEF Typed, ProtoTyped
      <4>3. k + n <= sentData /\ sentData \in Nat
        BY <4>1, <4>2 DEF Protocol, Amounts, Typed, ProtoTyped
      <4>4. FilesDue' = n - 1 /\ stored'[cur] = k + 1
        BY <2>5, <2>7, <4>1, <4>2
      <4>5. (k + 1) + (n - 1) <= sentData
        BY <4>3
      <4> QED
        BY <4>4, <4>5
    <3>2. \A f \in Files : f > cur \/ f < cur => f # cur
      BY <2>6, FilesNat
    <3> QED
      BY <2>1, <2>6, <2>7, <3>1, <3>2 DEF Protocol, Amounts
  <2>11. Completed' /\ Answered' /\ Concluded'
    BY <2>1, <2>5, <2>6 DEF Protocol, Completed, Answered, Concluded
  <2> QED
    BY <2>5, <2>8, <2>9, <2>10, <2>11 DEF Protocol
<1>3. CASE SendMsg("server", Msg("close", 0)) /\ UNCHANGED <<notes, disk>>
  BY <1>1, <1>3, RefuseStep
<1>4. CASE UNCHANGED send /\ UNCHANGED <<notes, disk>>
  BY <1>1, <1>4, PanicStep
<1> QED
  BY <1>1, <1>2, <1>3, <1>4 DEF MsgFile, SendPanics, disk

\* With the last file the backup is started or not, and the handler goes on or
\* returns.
LEMMA BackupStarts ==
    ASSUME NEW e \in Ends, StartBackup(e)
    PROVE  /\ backup' = backup \/ backup' = (backup \/ LastMark(File(e)))
           /\ HandlerGoesOn \/ HandlerReturns(e)
BY Zenon DEF StartBackup

LEMMA MsgEndStep ==
    ASSUME Typed, Protocol, NEW e \in Ends, MsgEnd(e)
    PROVE  Typed' /\ Protocol'
<1>1. e = "server" /\ GetMsg("server", "end")
  BY NotAsked DEF MsgEnd
<1>2. recv["server"] # <<>> /\ Head(recv["server"]) = Msg("end", cur)
      /\ File("server") = cur /\ cur \in Files
  <2>1. recv["server"] # <<>> /\ Head(recv["server"]).type = "end"
    BY <1>1 DEF GetMsg
  <2>2. Head(recv["server"]) = Msg("end", cur)
    BY <2>1, Received, MessageKinds DEF Ends
  <2> QED
    BY <2>1, <2>2, MessageKinds DEF File
<1>3. CASE /\ SizeMatches /\ SendMsg("server", Msg("ok", cur))
           /\ complete' = complete \cup {fs} /\ fs' = 0
           /\ backup' = backup \/ backup' = (backup \/ LastMark(cur))
           /\ UNCHANGED <<notes, stored>>
  <2>1. UNCHANGED <<pc, cur, sentData, result, notify, stored>>
    BY <1>1, <1>3 DEF GetMsg, sender, notes
  <2>2. /\ HeadsDue \in Nat /\ FilesDue \in Nat /\ EndsDue \in Nat
        /\ OksDue \in Nat /\ ErrsDue \in Nat /\ Told \in {0, 1} /\ Told' = Told
    BY <2>1, DueNat DEF Told
  <2>3. /\ ChanTyped' /\ Bounded' /\ AboutCurrent'
        /\ HeadsDue' = HeadsDue - 0 /\ FilesDue' = FilesDue - 0
        /\ EndsDue' = EndsDue - 1 /\ OksDue' = OksDue + 1 /\ ErrsDue' = ErrsDue + 0
        /\ EndsDue >= 1
    <3>1. Msg("ok", cur) # Msg("err", 0)
      BY MessageKinds
    <3> QED
      BY <1>1, <1>3, <3>1, AnsweredRequest DEF One
  <2>4. HeadsDue = 0 /\ EndsDue = 1 /\ OksDue = 0 /\ ErrsDue = 0 /\ Told = 0
    BY <2>2, <2>3 DEF Protocol, OneDue, Due
  <2>5. /\ HeadsDue' = 0 /\ FilesDue' = FilesDue /\ EndsDue' = 0 /\ OksDue' = 1
        /\ ErrsDue' = 0 /\ Told' = 0
    BY <2>2, <2>3, <2>4
  <2>6. pc' \notin {"head", "data", "waitHead"}
    BY <2>1, <2>2, <2>4 DEF Protocol, OneDue, Due
  <2>7. fs = cur /\ stored[cur] = NData
    BY <1>2, <1>3 DEF Protocol, Amounts, SizeMatches
  <2>8. complete' = complete \cup {cur}
    BY <1>3, <2>7
  <2>9. Typed'
    BY <1>2, <1>3, <2>1, <2>3, <2>8 DEF Typed, ProtoTyped
  <2>10. OneDue'
    BY <2>5, <2>6 DEF OneDue, Due
  <2>11. Amounts'
    <3>1. cur <= cur
      BY <1>2, FilesNat
    <3> QED
      BY <1>3, <2>1, <2>5, <2>8, <3>1 DEF Protocol, Amounts
  <2>12. Completed' /\ Answered'
    BY <1>3, <2>1, <2>5, <2>6, <2>7, <2>8 DEF Protocol, Completed, Answered
  <2>13. Concluded'
    <3>1. backup' => backup \/ cur = NFiles
      BY <1>3, Zenon DEF LastMark
    <3> QED
      BY <2>1, <2>8, <3>1 DEF Protocol, Concluded
  <2> QED
    BY <2>3, <2>9, <2>10, <2>11, <2>12, <2>13 DEF Protocol
<1>4. CASE SendMsg("server", Msg("err", 0)) /\ UNCHANGED <<notes, disk>>
  BY <1>1, <1>4, RefuseStep
<1>5. CASE UNCHANGED send /\ UNCHANGED <<notes, disk>>
  BY <1>1, <1>5, PanicStep
<1> QED
  BY <1>1, <1>2, <1>3, <1>4, <1>5, BackupStarts DEF MsgEnd, SendPanics, disk

LEMMA MsgNotifyStep ==
    ASSUME Typed, Protocol, NEW e \in Ends, MsgNotify(e)
    PROVE  Typed' /\ Protocol'
<1>1. PICK t \in {"ok", "err"} :
          GetMsg(e, t) /\ notify = <<>> /\ notify' = <<t = "ok">>
  BY DEF MsgNotify
<1>2. /\ recv[e] # <<>> /\ Head(recv[e]).type = t
      /\ recv' = [recv EXCEPT ![e] = Tail(recv[e])]
      /\ UNCHANGED <<send, net, hand, cur>> /\ UNCHANGED sender /\ UNCHANGED disk
  BY <1>1 DEF GetMsg, MsgNotify, sender
<1>3. /\ e = "client"
      /\ Head(recv[e]) = IF t = "ok" THEN Msg("ok", cur) ELSE Msg("err", 0)
      /\ flow[e][Head(recv[e])] > 0
  <2>1. e # "server"
    BY <1>2, Received, MessageKinds
  <2>2. e = "client"
    BY <2>1 DEF Ends
  <2> QED
    BY <1>2, <2>2, Received, MessageKinds
<1>4. UNCHANGED <<pc, cur, sentData, result, fs, stored, complete, backup>>
  BY <1>2 DEF sender, disk
<1>5. /\ HeadsDue \in Nat /\ FilesDue \in Nat /\ EndsDue \in Nat
      /\ OksDue \in Nat /\ ErrsDue \in Nat /\ Told = 0
  BY <1>1, DueNat DEF Told
<1>6. /\ ChanTyped' /\ Bounded' /\ AboutCurrent'
      /\ HeadsDue' = HeadsDue /\ FilesDue' = FilesDue /\ EndsDue' = EndsDue
      /\ OksDue' = OksDue - One(t = "ok") /\ ErrsDue' = ErrsDue - One(t = "err")
  <2>1. One(Head(recv[e]) = Msg("ok", cur)) = One(t = "ok")
        /\ One(Head(recv[e]) = Msg("err", 0)) = One(t = "err")
    BY <1>3, MessageKinds DEF One
  <2> QED
    BY <1>2, <1>3, <2>1, TakeDue DEF Protocol
<1>7. OksDue + ErrsDue > 0 /\ (t = "ok" => OksDue > 0)
  BY <1>3, <1>5 DEF OksDue, ErrsDue
<1>8. HeadsDue = 0 /\ EndsDue = 0 /\ OksDue + ErrsDue = 1
  BY <1>5, <1>7 DEF Protocol, OneDue, Due
<1>9. HeadsDue' = 0 /\ EndsDue' = 0 /\ OksDue' = 0 /\ ErrsDue' = 0
  <2>1. CASE t = "ok"
    <3>1. One(t = "ok") = 1 /\ One(t = "err") = 0 /\ OksDue > 0
      BY <1>7, <2>1 DEF One
    <3>2. OksDue = 1 /\ ErrsDue = 0
      BY <1>5, <1>8, <3>1
    <3> QED
      BY <1>6, <1>8, <3>1, <3>2
  <2>2. CASE t = "err"
    <3>1. One(t = "ok") = 0 /\ One(t = "err") = 1 /\ ErrsDue > 0
      BY <1>3, <2>2 DEF One, ErrsDue
    <3>2. OksDue = 0 /\ ErrsDue = 1
      BY <1>5, <1>8, <3>1
    <3> QED
      BY <1>6, <1>8, <3>1, <3>2
  <2> QED
    BY <2>1, <2>2
<1>10. Told' = 1 /\ notify' \in {<<TRUE>>, <<FALSE>>}
  BY <1>1 DEF Told
<1>11. pc \notin {"head", "data"}
  BY <1>5, <1>8 DEF Protocol, OneDue, Due
<1>12. Typed'
  BY <1>4, <1>6, <1>10 DEF Typed, ProtoTyped
<1>13. OneDue'
  BY <1>4, <1>9, <1>10, <1>11 DEF OneDue, Due
<1>14. Amounts' /\ Completed'
  BY <1>4, <1>6, <1>9 DEF Protocol, Amounts, Completed
<1>15. Answered'
  <2>1. notify' = <<TRUE>> => t = "ok"
    <3>1. notify'[1] = (t = "ok") /\ <<TRUE>>[1] = TRUE
      BY <1>1
    <3> QED
      BY <3>1, Zenon
  <2> QED
    BY <1>4, <1>7, <1>9, <2>1 DEF Protocol, Answered
<1>16. Concluded'
  BY <1>4 DEF Protocol, Concluded
<1> QED
  BY <1>6, <1>12, <1>13, <1>14, <1>15, <1>16 DEF Protocol

-----------------------------------------------------------------------------
(* Every step.                                                             *)

LEMMA FirstState ==
    ASSUME Init
    PROVE  Typed /\ Protocol
<1>1. /\ pc = "head" /\ cur = 1 /\ sentData = 0 /\ result = "nil" /\ notify = <<>>
      /\ fs = 0 /\ stored = [f \in Files |-> 0] /\ complete = {} /\ backup = FALSE
  BY DEF Init
<1>2. 1 \in Files /\ 0 \in 0..NData
  BY SizesAssumption DEF Files
<1>3. ChanTyped /\ Bounded
  <2>1. /\ send = [e \in Ends |-> <<>>] /\ recv = [e \in Ends |-> <<>>]
        /\ net = [e \in Ends |-> <<>>] /\ hand = [e \in Ends |-> <<>>]
    BY DEF Init
  <2>2. <<>> \in Seq(Message) /\ Len(<<>>) = 0
    OBVIOUS
  <2>3. ChanTyped
    BY <2>1, <2>2 DEF ChanTyped, InHand
  <2>4. Bounded
    BY <2>1, <2>2, CapsAssumption DEF Bounded
  <2> QED
    BY <2>3, <2>4
<1>4. ProtoTyped
  BY <1>1, <1>2 DEF ProtoTyped, Asking
<1>5. ASSUME NEW e \in Ends, NEW m \in Message PROVE flow[e][m] = 0
  <2>1. /\ Count(send[Peer(e)], m) = 0 /\ Count(net[e], m) = 0
        /\ Count(hand[e], m) = 0 /\ Count(recv[e], m) = 0
    BY Others, CountEmpty DEF Init
  <2> QED
    BY <2>1 DEF flow
<1>6. /\ HeadsDue = 0 /\ FilesDue = 0 /\ EndsDue = 0 /\ OksDue = 0 /\ ErrsDue = 0
  BY <1>1, <1>2, <1>5, Kinds
  DEF HeadsDue, FilesDue, EndsDue, OksDue, ErrsDue, Ends
<1>7. AboutCurrent
  <2>1. ~ (0 > 0)
    OBVIOUS
  <2> QED
    BY <1>5, <2>1 DEF AboutCurrent, Ends
<1>8. OneDue
  <2>1. Told = 0
    BY <1>1 DEF Told
  <2> QED
    BY <1>1, <1>6, <2>1 DEF OneDue, Due
<1>9. Amounts
  <2>1. \A f \in Files : ~ (f < 1)
    BY FilesNat
  <2> QED
    BY <1>1, <1>2, <1>6, <2>1 DEF Amounts
<1>10. Completed /\ Answered /\ Concluded
  BY <1>1 DEF Completed, Answered, Concluded, Ending
<1> QED
  BY <1>3, <1>4, <1>7, <1>8, <1>9, <1>10 DEF Typed, Protocol

LEMMA Stutter ==
    ASSUME Typed, Protocol, UNCHANGED vars
    PROVE  Typed' /\ Protocol'
<1>1. UNCHANGED chans /\ UNCHANGED Rest /\ UNCHANGED fs
  BY DEF vars, tcp, sender, notes, disk, chans, Rest
<1>2. ChanTyped' /\ Bounded' /\ Keeps
  BY <1>1, SameFlow DEF Typed
<1> QED
  BY <1>1, <1>2, RestStep

LEMMA EveryStep ==
    ASSUME Typed, Protocol, [Next]_vars
    PROVE  Typed' /\ Protocol'
<1>1. CASE SenderStep
  BY <1>1, SendHeadStep, NotifiedStep, SendDataStep, SendEndStep, SendCloseStep,
     SenderQuiet
  DEF SenderStep
<1>2. ASSUME NEW e \in Ends, WriterStep(e) \/ ReaderStep(e) \/ Stop(e)
      PROVE  Typed' /\ Protocol'
  BY <1>2, PassingStep DEF Passing
<1>3. ASSUME NEW e \in Ends, HandlerStep(e)
      PROVE  Typed' /\ Protocol'
  <2>1. CASE HandlerStops(e)
    BY <2>1, PassingStep DEF Passing
  <2> QED
    BY <1>3, <2>1, MsgHeadStep, MsgFileStep, MsgEndStep, MsgNotifyStep, MsgCloseStep,
       HandlerDoneStep
    DEF HandlerStep
<1>4. CASE Reset
  BY <1>4, ResetStep
<1>5. CASE UNCHANGED vars
  BY <1>5, Stutter
<1> QED
  BY <1>1, <1>2, <1>3, <1>4, <1>5 DEF Next

-----------------------------------------------------------------------------
(* The goroutines.                                                         *)

GoTyped ==
    /\ conn \in [Ends -> {"open", "closing", "closed"}]
    /\ sendClosed \in [Ends -> BOOLEAN] /\ recvClosed \in [Ends -> BOOLEAN]
    /\ writer \in [Ends -> Phases] /\ reader \in [Ends -> Phases]
    /\ handler \in [Ends -> Phases]

Flags == broken \in BOOLEAN /\ notifyClosed \in BOOLEAN /\ backup \in BOOLEAN

LEMMA CloseTyped ==
    ASSUME NEW e \in Ends, conn \in [Ends -> {"open", "closing", "closed"}], Close(e)
    PROVE  conn' \in [Ends -> {"open", "closing", "closed"}]
BY DEF Close

LEMMA GoStep ==
    ASSUME GoTyped, [Next]_vars
    PROVE  GoTyped'
<1>1. CASE SenderStep
  <2>1. CASE SenderCloses
    <3>1. "client" \in Ends
      BY DEF Ends
    <3> QED
      BY <2>1, <3>1, CloseTyped DEF GoTyped, SenderCloses
  <2>2. CASE ~ SenderCloses
    BY <1>1, <2>2
    DEF SenderStep, SendHead, Notified, Timeout, SendData, SendEnd, FileError,
        SendClose, SenderPanics, SendFileReturns, Sends, GoTyped, tcp
  <2> QED
    BY <2>1, <2>2
<1>2. ASSUME NEW e \in Ends, WriterStep(e) PROVE GoTyped'
  <2>1. CASE WriteMsg(e)
    <3>1. /\ conn' = conn \/ Close(e)
          /\ writer' = writer \/ writer' = [writer EXCEPT ![e] = "close"]
          /\ UNCHANGED <<sendClosed, recvClosed, reader, handler>>
      BY <2>1 DEF WriteMsg
    <3>2. conn' \in [Ends -> {"open", "closing", "closed"}]
      BY <3>1, CloseTyped DEF GoTyped
    <3>3. writer' \in [Ends -> Phases]
      BY <3>1 DEF GoTyped, Phases
    <3> QED
      BY <3>1, <3>2, <3>3 DEF GoTyped
  <2>2. CASE WriterStops(e)
    BY <2>2 DEF WriterStops, GoTyped, Phases
  <2>3. CASE WriterDone(e)
    BY <2>3 DEF WriterDone, GoTyped, Phases
  <2> QED
    BY <1>2, <2>1, <2>2, <2>3 DEF WriterStep
<1>3. ASSUME NEW e \in Ends, ReaderStep(e) PROVE GoTyped'
  <2>1. CASE ReadMsg(e) \/ PutMsg(e)
    BY <2>1 DEF ReadMsg, PutMsg, GoTyped
  <2>2. CASE ReaderStops(e)
    BY <2>2, CloseTyped DEF ReaderStops, GoTyped, Phases
  <2>3. CASE ReaderDone(e)
    BY <2>3 DEF ReaderDone, GoTyped, Phases
  <2> QED
    BY <1>3, <2>1, <2>2, <2>3 DEF ReaderStep
<1>4. ASSUME NEW e \in Ends, HandlerStep(e) PROVE GoTyped'
  <2>1. CASE HandlerDone(e)
    BY <2>1 DEF HandlerDone, GoTyped, Phases, tcp
  <2>2. CASE ~ HandlerDone(e)
    <3>1. HandlerReturns(e) \/ HandlerGoesOn
      BY <1>4, <2>2, BackupStarts, Zenon
      DEF HandlerStep, MsgHead, MsgFile, MsgEnd, MsgNotify, MsgClose, HandlerStops,
          SendPanics
    <3>2. UNCHANGED <<sendClosed, recvClosed, writer, reader>>
      BY <1>4, <2>2
      DEF HandlerStep, MsgHead, MsgFile, MsgEnd, MsgNotify, MsgClose, HandlerStops,
          GetMsg
    <3>3. conn' \in [Ends -> {"open", "closing", "closed"}]
      BY <3>1, CloseTyped DEF HandlerReturns, HandlerGoesOn, GoTyped
    <3>4. handler' \in [Ends -> Phases]
      BY <3>1 DEF HandlerReturns, HandlerGoesOn, GoTyped, Phases
    <3> QED
      BY <3>2, <3>3, <3>4 DEF GoTyped
  <2> QED
    BY <2>1, <2>2
<1>5. ASSUME NEW e \in Ends, Stop(e) PROVE GoTyped'
  BY <1>5 DEF Stop, GoTyped
<1>6. CASE Reset
  BY <1>6 DEF Reset, GoTyped, tcp
<1>7. CASE UNCHANGED vars
  BY <1>7 DEF vars, tcp, GoTyped
<1> QED
  BY <1>1, <1>2, <1>3, <1>4, <1>5, <1>6, <1>7 DEF Next

LEMMA FlagsStep ==
    ASSUME Flags, [Next]_vars
    PROVE  Flags'
<1>1. broken' \in {broken, TRUE}
  BY DEF Next, vars, SenderStep, SendHead, Notified, Timeout, SendData, SendEnd,
     FileError, SendClose, SenderPanics, SenderCloses, SendFileReturns, Sends,
     WriterStep, WriteMsg, WriterStops, WriterDone, ReaderStep, ReadMsg, PutMsg,
     ReaderStops, ReaderDone, HandlerStep, MsgHead, MsgFile, MsgEnd, MsgNotify,
     MsgClose, HandlerStops, HandlerDone, GetMsg, Stop, Reset
<1>2. notifyClosed' \in {notifyClosed, TRUE}
  BY DEF Next, vars, SenderStep, SendHead, Notified, Timeout, SendData, SendEnd,
     FileError, SendClose, SenderPanics, SenderCloses, SendFileReturns, Sends,
     WriterStep, WriteMsg, WriterStops, WriterDone, ReaderStep, ReadMsg, PutMsg,
     ReaderStops, ReaderDone, HandlerStep, MsgHead, MsgFile, MsgEnd, MsgNotify,
     MsgClose, HandlerStops, HandlerDone, Stop, Reset, notes
<1>3. backup' = backup \/ \E e \in Ends : backup' = (backup \/ LastMark(File(e)))
  BY BackupStarts DEF Next, vars, SenderStep, SendHead, Notified, Timeout, SendData, SendEnd,
     FileError, SendClose, SenderPanics, SenderCloses, SendFileReturns, Sends,
     WriterStep, WriteMsg, WriterStops, WriterDone, ReaderStep, ReadMsg, PutMsg,
     ReaderStops, ReaderDone, HandlerStep, MsgHead, MsgFile, MsgEnd, MsgNotify,
     MsgClose, HandlerStops, HandlerDone, Stop, Reset, disk
<1>4. backup' \in BOOLEAN
  BY <1>3, Zenon DEF Flags
<1>5. broken' \in BOOLEAN /\ notifyClosed' \in BOOLEAN
  BY <1>1, <1>2 DEF Flags
<1> QED
  BY <1>4, <1>5 DEF Flags

-----------------------------------------------------------------------------
(* The theorems.                                                           *)

Inv == Typed /\ Protocol /\ GoTyped /\ Flags

LEMMA StoredBound ==
    ASSUME Typed, Protocol
    PROVE  stored \in [Files -> 0..NData]
<1>1. /\ stored \in [Files -> Nat] /\ cur \in Files /\ sentData \in 0..NData
      /\ NData \in Nat /\ FilesDue \in Nat
  BY DueNat, SizesAssumption DEF Typed, ProtoTyped
<1>2. ASSUME NEW f \in Files PROVE stored[f] \in 0..NData
  <2>1. CASE f = cur
    <3>1. stored[cur] \in Nat /\ stored[cur] + FilesDue <= sentData
      BY <1>1 DEF Protocol, Amounts
    <3>2. stored[cur] <= NData
      BY <1>1, <3>1
    <3> QED
      BY <1>1, <2>1, <3>1, <3>2
  <2>2. CASE f # cur
    <3>1. f < cur \/ f > cur
      BY <1>1, <2>2, FilesNat
    <3>2. stored[f] = NData \/ stored[f] = 0
      BY <3>1 DEF Protocol, Amounts
    <3> QED
      BY <1>1, <3>2
  <2> QED
    BY <2>1, <2>2
<1> QED
  BY <1>1, <1>2

\* With the last file complete, all of them are, in full.
LEMMA AllStored ==
    ASSUME Typed, Protocol, NFiles \in complete
    PROVE  complete = Files /\ \A f \in Files : stored[f] = NData
<1>1. cur \in Files /\ complete \subseteq Files
  BY DEF Typed, ProtoTyped
<1>2. cur = NFiles
  <2>1. NFiles <= cur /\ cur <= NFiles /\ cur \in Nat /\ NFiles \in Nat
    BY <1>1, FilesNat DEF Protocol, Amounts
  <2> QED
    BY <2>1
<1>3. stored[cur] = NData
  BY <1>2 DEF Protocol, Completed
<1>4. ASSUME NEW f \in Files PROVE f \in complete /\ stored[f] = NData
  <2>1. f = cur \/ f < cur
    BY <1>1, <1>2, FilesNat
  <2> QED
    BY <1>2, <1>3, <2>1 DEF Protocol, Amounts
<1> QED
  BY <1>1, <1>4

LEMMA Invariant == Spec => []Inv
<1>1. Init => Inv
  <2> SUFFICES ASSUME Init PROVE Inv
    OBVIOUS
  <2>1. GoTyped
    BY DEF Init, GoTyped, Phases
  <2>2. Flags
    BY DEF Init, Flags
  <2> QED
    BY <2>1, <2>2, FirstState DEF Inv
<1>2. Inv /\ [Next]_vars => Inv'
  BY EveryStep, GoStep, FlagsStep DEF Inv
<1> QED
  BY <1>1, <1>2, PTL DEF Spec

(***************************************************************************)
(* The types of TypeOK: in particular send and recv never hold more than   *)
(* their capacity, and no file receives more messages than it has.         *)
(***************************************************************************)
THEOREM TypeCorrect == Spec => []TypeOK
<1>1. Inv => TypeOK
  <2> SUFFICES ASSUME Inv PROVE TypeOK
    OBVIOUS
  <2>1. stored \in [Files -> 0..NData]
    BY StoredBound DEF Inv
  <2> QED
    BY <2>1
    DEF Inv, Typed, ChanTyped, Bounded, ProtoTyped, GoTyped, Flags, TypeOK, InHand,
        Asking, Ending
<1> QED
  BY <1>1, Invariant, PTL

(***************************************************************************)
(* SendFile returns no error only if the receiver has every file in full,  *)
(* however many files and messages there are: an answer without a name is  *)
(* never taken for that of another request.                                *)
(***************************************************************************)
THEOREM SuccessCorrect == Spec => []SuccessMeansStored
<1>1. Inv => SuccessMeansStored
  BY AllStored DEF Inv, Protocol, Concluded, Ending, SuccessMeansStored
<1> QED
  BY <1>1, Invariant, PTL

(***************************************************************************)
(* The backup, which the last file alone starts, finds every file of the   *)
(* list, and in full.                                                      *)
(***************************************************************************)
THEOREM BackupCorrect == Spec => []BackupHasAll
<1>1. Inv => BackupHasAll
  BY AllStored DEF Inv, Protocol, Concluded, BackupHasAll
<1> QED
  BY <1>1, Invariant, PTL

-----------------------------------------------------------------------------
(* What is on its way to the sender.                                       *)

Coming == Len(send["server"]) + Len(net["client"]) + Len(hand["client"])
              + Len(recv["client"])

\* It is one message, and a server that runs has sent nothing but a favourable
\* answer, which it gives when it has read all that was sent of the file.
Lone ==
    /\ Coming <= 1
    /\ handler["server"] = "run" =>
           \A m \in Message : flow["client"][m] > 0 => m = Msg("ok", cur)
    /\ OksDue > 0 \/ HeadsDue > 0 => FilesDue = 0

LEMMA ComingNat ==
    ASSUME ChanTyped
    PROVE  /\ Len(send["server"]) \in Nat /\ Len(net["client"]) \in Nat
           /\ Len(hand["client"]) \in Nat /\ Len(recv["client"]) \in Nat
           /\ Coming \in Nat
<1>1. /\ send["server"] \in Seq(Message) /\ net["client"] \in Seq(Message)
      /\ hand["client"] \in Seq(Message) /\ recv["client"] \in Seq(Message)
  BY HandSeq DEF ChanTyped, Ends
<1>2. /\ Len(send["server"]) \in Nat /\ Len(net["client"]) \in Nat
      /\ Len(hand["client"]) \in Nat /\ Len(recv["client"]) \in Nat
  BY <1>1
<1>3. \A a, b, c, d \in Nat : a + b + c + d \in Nat
  OBVIOUS
<1> QED
  BY <1>2, <1>3, Zenon DEF Coming

LEMMA ComingNatAfter == (ChanTyped => Coming \in Nat)'
<1>1. ChanTyped => Coming \in Nat
  BY ComingNat
<1> QED
  BY <1>1, PTL

LEMMA HeadCount ==
    ASSUME NEW s \in Seq(Message), Len(s) > 0
    PROVE  Head(s) \in Message /\ Count(s, Head(s)) \in Nat /\ Count(s, Head(s)) > 0
<1> DEFINE x == Head(s)
<1>1. s # <<>>
  OBVIOUS
<1>2. x \in Message /\ Tail(s) \in Seq(Message)
      /\ Count(s, x) = Count(Tail(s), x) + One(x = x)
  BY <1>1, CountTail
<1>3. Count(Tail(s), x) \in Nat /\ One(x = x) = 1
  BY <1>2, PlacesFinite DEF One
<1> HIDE DEF x
<1>4. Count(s, x) \in Nat /\ Count(s, x) > 0
  BY <1>2, <1>3
<1> QED
  BY <1>2, <1>4 DEF x

\* A message that is on its way is in a flow.
LEMMA ComingFlow ==
    ASSUME ChanTyped, Coming # 0
    PROVE  \E m \in Message : flow["client"][m] > 0
<1>1. /\ send["server"] \in Seq(Message) /\ net["client"] \in Seq(Message)
      /\ hand["client"] \in Seq(Message) /\ recv["client"] \in Seq(Message)
  BY HandSeq DEF ChanTyped, Ends
<1>2. PICK s \in {send["server"], net["client"], hand["client"], recv["client"]} :
          Len(s) > 0
  <2>1. /\ Len(send["server"]) \in Nat /\ Len(net["client"]) \in Nat
        /\ Len(hand["client"]) \in Nat /\ Len(recv["client"]) \in Nat
    BY ComingNat
  <2>2. Len(send["server"]) # 0 \/ Len(net["client"]) # 0
        \/ Len(hand["client"]) # 0 \/ Len(recv["client"]) # 0
    <3>1. 0 + 0 + 0 + 0 = 0
      OBVIOUS
    <3> QED
      BY <3>1, Zenon DEF Coming
  <2>3. \A k \in Nat : k # 0 => k > 0
    OBVIOUS
  <2> QED
    BY <2>1, <2>2, <2>3
<1>3. s \in Seq(Message)
  BY <1>1, <1>2
<1>4. PICK m \in Message : m = Head(s) /\ Count(s, m) > 0 /\ Count(s, m) \in Nat
  BY <1>2, <1>3, HeadCount
<1>5. /\ flow["client"][m] = Count(send["server"], m) + Count(net["client"], m)
                                 + Count(hand["client"], m) + Count(recv["client"], m)
      /\ Count(send["server"], m) \in Nat /\ Count(net["client"], m) \in Nat
      /\ Count(hand["client"], m) \in Nat /\ Count(recv["client"], m) \in Nat
  <2>1. "client" \in Ends /\ Peer("client") = "server"
    BY DEF Ends, Peer
  <2> QED
    BY <2>1, FlowParts
<1>6. \/ Count(send["server"], m) > 0 \/ Count(net["client"], m) > 0
      \/ Count(hand["client"], m) > 0 \/ Count(recv["client"], m) > 0
  BY <1>2, <1>4
<1>7. flow["client"][m] > 0
  BY <1>5, <1>6
<1> QED
  BY <1>7

LEMMA Lengths ==
    /\ Len(<<>>) = 0
    /\ \A x : Len(<<x>>) = 1
    /\ \A s \in Seq(Message) : s # <<>> => Len(Tail(s)) = Len(s) - 1
    /\ \A s \in Seq(Message), x \in Message : Len(Append(s, x)) = Len(s) + 1
<1>1. ASSUME NEW s \in Seq(Message)
      PROVE  /\ s # <<>> => Len(Tail(s)) = Len(s) - 1
             /\ \A x \in Message : Len(Append(s, x)) = Len(s) + 1
  OBVIOUS
<1>2. \A x : Len(<<x>>) = 1
  OBVIOUS
<1> QED
  BY <1>1, <1>2

LEMMA ComingSum ==
    ASSUME ChanTyped, NEW a \in Int, NEW b \in Int, NEW c \in Int, NEW d \in Int,
           Len(send'["server"]) = Len(send["server"]) + a,
           Len(net'["client"]) = Len(net["client"]) + b,
           Len(hand'["client"]) = Len(hand["client"]) + c,
           Len(recv'["client"]) = Len(recv["client"]) + d
    PROVE  Coming' = Coming + (a + b + c + d)
<1>1. PICK i \in Nat : i = Len(send["server"])
  BY ComingNat
<1>2. PICK j \in Nat : j = Len(net["client"])
  BY ComingNat
<1>3. PICK k \in Nat : k = Len(hand["client"])
  BY ComingNat
<1>4. PICK l \in Nat : l = Len(recv["client"])
  BY ComingNat
<1>5. (i + a) + (j + b) + (k + c) + (l + d) = (i + j + k + l) + (a + b + c + d)
  OBVIOUS
<1>6. Coming = i + j + k + l
  BY <1>1, <1>2, <1>3, <1>4, Zenon DEF Coming
<1>7. Coming' = (i + a) + (j + b) + (k + c) + (l + d)
  BY <1>1, <1>2, <1>3, <1>4, Zenon DEF Coming
<1> QED
  BY <1>5, <1>6, <1>7, Zenon

LEMMA ComingLess ==
    ASSUME ChanTyped, NEW a \in Int, NEW b \in Int, NEW c \in Int, NEW d \in Int,
           Len(send'["server"]) = Len(send["server"]) + a,
           Len(net'["client"]) = Len(net["client"]) + b,
           Len(hand'["client"]) = Len(hand["client"]) + c,
           Len(recv'["client"]) = Len(recv["client"]) + d,
           a + b + c + d <= 0
    PROVE  Coming' <= Coming
<1>1. PICK n \in Nat : n = Coming
  BY ComingNat
<1>2. n + (a + b + c + d) <= n
  OBVIOUS
<1>3. Coming' = Coming + (a + b + c + d)
  BY ComingSum, Zenon
<1> QED
  BY <1>1, <1>2, <1>3, Zenon

LEMMA ComingSame ==
    ASSUME ChanTyped, Coming' = Coming
    PROVE  Coming' <= Coming
BY ComingNat

\* A goroutine passes on what is coming, and adds nothing to it.
LEMMA ComingPassed ==
    ASSUME ChanTyped, NEW e \in Ends, Passing(e)
    PROVE  Coming' <= Coming
<1>1. /\ send[e] \in Seq(Message) /\ net[e] \in Seq(Message)
      /\ hand[e] \in InHand /\ recv[e] \in Seq(Message)
      /\ net[Peer(e)] \in Seq(Message)
  BY Others DEF ChanTyped
<1>2. CASE UNCHANGED chans
  <2>1. Coming' = Coming
    BY <1>2 DEF chans, Coming
  <2> QED
    BY <2>1, ComingSame
<1>3. CASE WriteMsg(e)
  <2>1. /\ send[e] # <<>> /\ send' = [send EXCEPT ![e] = Tail(send[e])]
        /\ UNCHANGED <<hand, recv>>
        /\ \/ net' = [net EXCEPT ![Peer(e)] = Append(net[Peer(e)], Head(send[e]))]
           \/ net' = net
    BY <1>3 DEF WriteMsg
  <2>2. CASE e = "server"
    <3>1. Peer(e) = "client"
      BY <2>2 DEF Peer
    <3>2. Len(send'["server"]) = Len(send["server"]) - 1
      <4>1. send'["server"] = Tail(send["server"])
        BY <2>1, <2>2 DEF ChanTyped
      <4> QED
        BY <1>1, <2>1, <2>2, <4>1, Lengths
    <3>3. Len(net'["client"]) \in {Len(net["client"]), Len(net["client"]) + 1}
      <4>1. net'["client"] \in {net["client"],
                                Append(net["client"], Head(send["server"]))}
        BY <2>1, <2>2, <3>1 DEF ChanTyped
      <4>2. Head(send["server"]) \in Message
        BY <1>1, <2>1, <2>2
      <4> QED
        BY <1>1, <3>1, <4>1, <4>2, Lengths
    <3>4. PICK b \in {0, 1} : Len(net'["client"]) = Len(net["client"]) + b
      <4>1. Len(net["client"]) + 0 = Len(net["client"])
        BY ComingNat
      <4> QED
        BY <3>3, <4>1
    <3>5. /\ Len(send'["server"]) = Len(send["server"]) + (-1)
          /\ Len(hand'["client"]) = Len(hand["client"]) + 0
          /\ Len(recv'["client"]) = Len(recv["client"]) + 0
      BY <2>1, <3>2, ComingNat
    <3>6. (-1) + b + 0 + 0 <= 0 /\ b \in Int /\ -1 \in Int /\ 0 \in Int
      OBVIOUS
    <3> QED
      BY <3>4, <3>5, <3>6, ComingLess, Zenon
  <2>3. CASE e = "client"
    <3>1. send'["server"] = send["server"] /\ net'["client"] = net["client"]
      BY <2>1, <2>3 DEF ChanTyped, Peer, Ends
    <3>2. Coming' = Coming
      BY <2>1, <3>1 DEF Coming
    <3> QED
      BY <3>2, ComingSame
  <2> QED
    BY <2>2, <2>3 DEF Ends
<1>4. CASE ReadMsg(e)
  <2>1. /\ hand[e] = <<>> /\ net[e] # <<>> /\ UNCHANGED <<send, recv>>
        /\ hand' = [hand EXCEPT ![e] = <<Head(net[e])>>]
        /\ net' = [net EXCEPT ![e] = Tail(net[e])]
    BY <1>4 DEF ReadMsg
  <2>2. CASE e = "client"
    <3>1. hand'["client"] = <<Head(net["client"])>>
          /\ net'["client"] = Tail(net["client"])
      BY <2>1, <2>2 DEF ChanTyped
    <3>2. Len(hand'["client"]) = 1 /\ Len(hand["client"]) = 0
          /\ Len(net'["client"]) = Len(net["client"]) - 1
      BY <1>1, <2>1, <2>2, <3>1, Lengths
    <3>3. /\ Len(send'["server"]) = Len(send["server"]) + 0
          /\ Len(net'["client"]) = Len(net["client"]) + (-1)
          /\ Len(hand'["client"]) = Len(hand["client"]) + 1
          /\ Len(recv'["client"]) = Len(recv["client"]) + 0
      BY <2>1, <3>2, ComingNat
    <3>4. 0 + (-1) + 1 + 0 <= 0 /\ -1 \in Int /\ 0 \in Int /\ 1 \in Int
      OBVIOUS
    <3> QED
      BY <3>3, <3>4, ComingLess, Zenon
  <2>3. CASE e # "client"
    <3>1. hand'["client"] = hand["client"] /\ net'["client"] = net["client"]
      BY <2>1, <2>3 DEF ChanTyped, Ends
    <3>2. Coming' = Coming
      BY <2>1, <3>1 DEF Coming
    <3> QED
      BY <3>2, ComingSame
  <2> QED
    BY <2>2, <2>3
<1>5. CASE PutMsg(e)
  <2>1. PICK x \in Message : hand[e] = <<x>>
    BY <1>1, <1>5 DEF PutMsg, InHand
  <2>2. /\ recv' = [recv EXCEPT ![e] = Append(recv[e], x)]
        /\ hand' = [hand EXCEPT ![e] = <<>>] /\ UNCHANGED <<send, net>>
    BY <1>1, <1>5, <2>1, HandSeq DEF PutMsg
  <2>3. CASE e = "client"
    <3>1. hand'["client"] = <<>> /\ recv'["client"] = Append(recv["client"], x)
      BY <2>2, <2>3 DEF ChanTyped
    <3>2. Len(hand'["client"]) = 0 /\ Len(hand["client"]) = 1
          /\ Len(recv'["client"]) = Len(recv["client"]) + 1
      BY <1>1, <2>1, <2>3, <3>1, Lengths
    <3>3. /\ Len(send'["server"]) = Len(send["server"]) + 0
          /\ Len(net'["client"]) = Len(net["client"]) + 0
          /\ Len(hand'["client"]) = Len(hand["client"]) + (-1)
          /\ Len(recv'["client"]) = Len(recv["client"]) + 1
      BY <2>2, <3>2, ComingNat
    <3>4. 0 + 0 + (-1) + 1 <= 0 /\ -1 \in Int /\ 0 \in Int /\ 1 \in Int
      OBVIOUS
    <3> QED
      BY <3>3, <3>4, ComingLess, Zenon
  <2>4. CASE e # "client"
    <3>1. hand'["client"] = hand["client"] /\ recv'["client"] = recv["client"]
      BY <2>2, <2>4 DEF ChanTyped, Ends
    <3>2. Coming' = Coming
      BY <2>2, <3>1 DEF Coming
    <3> QED
      BY <3>2, ComingSame
  <2> QED
    BY <2>3, <2>4
<1>6. Stop(e) \/ WriterStops(e) \/ WriterDone(e) \/ ReaderStops(e)
      \/ ReaderDone(e) \/ HandlerStops(e) => UNCHANGED chans
  BY DEF Stop, WriterStops, WriterDone, ReaderStops, ReaderDone, HandlerStops, chans
<1> QED
  BY <1>2, <1>3, <1>4, <1>5, <1>6 DEF Passing, WriterStep, ReaderStep

LEMMA ComingTaken ==
    ASSUME ChanTyped, NEW e \in Ends, recv[e] # <<>>,
           recv' = [recv EXCEPT ![e] = Tail(recv[e])], UNCHANGED <<send, net, hand>>
    PROVE  Coming' <= Coming
<1>1. CASE e = "client"
  <2>1. recv["client"] \in Seq(Message) /\ recv'["client"] = Tail(recv["client"])
    BY <1>1 DEF ChanTyped
  <2>2. Len(recv'["client"]) = Len(recv["client"]) - 1
    BY <1>1, <2>1, Lengths
  <2>3. /\ Len(send'["server"]) = Len(send["server"]) + 0
        /\ Len(net'["client"]) = Len(net["client"]) + 0
        /\ Len(hand'["client"]) = Len(hand["client"]) + 0
        /\ Len(recv'["client"]) = Len(recv["client"]) + (-1)
    BY <2>2, ComingNat
  <2>4. 0 + 0 + 0 + (-1) <= 0 /\ -1 \in Int /\ 0 \in Int
    OBVIOUS
  <2> QED
    BY <2>3, <2>4, ComingLess, Zenon
<1>2. CASE e # "client"
  <2>1. recv'["client"] = recv["client"]
    BY <1>2 DEF ChanTyped, Ends
  <2>2. Coming' = Coming
    BY <2>1 DEF Coming
  <2> QED
    BY <2>2, ComingSame
<1> QED
  BY <1>1, <1>2

LEMMA TakeKeeps ==
    ASSUME ChanTyped, Bounded, NEW e \in Ends, recv[e] # <<>>,
           recv' = [recv EXCEPT ![e] = Tail(recv[e])], UNCHANGED <<send, net, hand>>
    PROVE  ChanTyped' /\ Keeps
<1>1. ChanTyped'
      /\ \A d \in Ends, m \in Message :
             flow'[d][m] = flow[d][m] - One(d = e /\ m = Head(recv[e]))
  BY TakeFlow
<1>2. ASSUME NEW d \in Ends, NEW m \in Message
      PROVE  flow'[d][m] <= flow[d][m]
  <2>1. flow[d][m] \in Nat
    BY FlowParts
  <2>2. One(d = e /\ m = Head(recv[e])) \in {0, 1}
    BY DEF One
  <2> QED
    BY <1>1, <2>1, <2>2
<1> QED
  BY <1>1, <1>2 DEF Keeps

\* Nothing is added to what is on its way, and the server's handler does not start.
LEMMA LoneLess ==
    ASSUME Typed, Lone, ChanTyped', Keeps, UNCHANGED cur, Coming' <= Coming,
           handler'["server"] = "run" => handler["server"] = "run"
    PROVE  Lone'
<1>1. Coming' <= 1
  <2>1. PICK n \in Nat : n = Coming
    BY ComingNat DEF Typed
  <2>2. PICK k \in Nat : k = Coming'
    BY ComingNatAfter
  <2>3. k <= n /\ n <= 1
    BY <2>1, <2>2 DEF Lone
  <2>4. k <= 1
    BY <2>3
  <2> QED
    BY <2>2, <2>4
<1>2. ASSUME handler'["server"] = "run", NEW m \in Message, flow'["client"][m] > 0
      PROVE  m = Msg("ok", cur')
  <2>1. flow["client"][m] \in Nat /\ flow'["client"][m] \in Nat
        /\ flow'["client"][m] <= flow["client"][m]
    BY FlowParts, FlowAfterNat DEF Typed, Keeps, Ends
  <2>2. flow["client"][m] > 0
    BY <1>2, <2>1
  <2> QED
    BY <1>2, <2>2 DEF Lone
<1>3. OksDue' > 0 \/ HeadsDue' > 0 => FilesDue' = 0
  <2>1. /\ HeadsDue \in Nat /\ FilesDue \in Nat /\ OksDue \in Nat
        /\ HeadsDue' \in Nat /\ FilesDue' \in Nat /\ OksDue' \in Nat
    BY DueNat, DueAfterNat DEF Typed, ProtoTyped
  <2>2. HeadsDue' <= HeadsDue /\ FilesDue' <= FilesDue /\ OksDue' <= OksDue
    BY LessDue
  <2>3. OksDue > 0 \/ HeadsDue > 0 => FilesDue = 0
    BY DEF Lone
  <2> QED
    BY <2>1, <2>2, <2>3
<1> QED
  BY <1>1, <1>2, <1>3 DEF Lone

\* The sender sends a message.
LEMMA LoneSent ==
    ASSUME Typed, Lone, NEW x \in Message, SendMsg("client", x),
           UNCHANGED <<net, hand, recv, handler, cur>>,
           OksDue' > 0 \/ HeadsDue' > 0 => FilesDue' = 0
    PROVE  Lone'
<1>1. "client" \in Ends /\ Peer("client") = "server" /\ "client" # "server"
  BY DEF Ends, Peer
<1>2. \A m \in Message : flow'["client"][m] = flow["client"][m]
  <2>1. \A m \in Message :
            flow'["client"][m] = flow["client"][m]
                                     + One("client" = "server" /\ m = x)
    BY <1>1, SendFlow DEF Typed
  <2>2. \A m \in Message : flow["client"][m] \in Nat
    BY <1>1, FlowParts DEF Typed
  <2> QED
    BY <2>1, <2>2 DEF One
<1>3. Coming' = Coming
  <2>1. send'["server"] = send["server"]
    BY DEF SendMsg, Typed, ChanTyped, Ends
  <2> QED
    BY <2>1 DEF Coming
<1> QED
  BY <1>2, <1>3 DEF Lone

LEMMA LoneSender ==
    ASSUME Typed, Protocol, Lone, Typed', Protocol', SenderStep
    PROVE  Lone'
<1>1. UNCHANGED handler
  BY DEF SenderStep, SendHead, Notified, Timeout, SendData, SendEnd, FileError,
         SendClose, SenderPanics, SenderCloses, SendFileReturns, Sends
<1>2. cur \in Files /\ Msg("head", cur) \in Message /\ Msg("file", cur) \in Message
      /\ Msg("end", cur) \in Message /\ Msg("close", 0) \in Message
  BY Kinds DEF Typed, ProtoTyped
<1>3. /\ HeadsDue' \in Nat /\ FilesDue' \in Nat /\ EndsDue' \in Nat
      /\ OksDue' \in Nat /\ ErrsDue' \in Nat /\ Told' \in {0, 1}
  BY DueAfterNat DEF Typed, ProtoTyped, Told
<1>4. pc' \in {"head", "data"} => HeadsDue' = 0 /\ OksDue' = 0 /\ ErrsDue' = 0
  <2> SUFFICES ASSUME pc' \in {"head", "data"}
               PROVE  HeadsDue' = 0 /\ OksDue' = 0 /\ ErrsDue' = 0
    OBVIOUS
  <2>1. HeadsDue' + EndsDue' + OksDue' + ErrsDue' + Told' = 0
    BY DEF Protocol, OneDue, Due
  <2>2. Told' \in Nat
    BY <1>3
  <2>3. \A a, b, c, d, f \in Nat :
            a + b + c + d + f = 0 => a = 0 /\ c = 0 /\ d = 0
    OBVIOUS
  <2> QED
    BY <1>3, <2>1, <2>2, <2>3, Zenon
<1>5. CASE SendHead
  <2>1. SendMsg("client", Msg("head", cur)) /\ UNCHANGED <<net, hand, recv, cur>>
        /\ pc' = "waitHead"
    BY <1>5 DEF SendHead, Sends
  <2>2. FilesDue' = 0
    <3>1. sentData' = 0 /\ stored'[cur'] + FilesDue' <= sentData'
      BY <2>1 DEF Protocol, Amounts
    <3>2. stored'[cur'] \in Nat
      BY DEF Typed, ProtoTyped
    <3> QED
      BY <1>3, <3>1, <3>2
  <2> QED
    BY <1>1, <1>2, <2>1, <2>2, LoneSent
<1>6. CASE SendData
  <2>1. SendMsg("client", Msg("file", cur)) /\ UNCHANGED <<net, hand, recv, cur>>
        /\ pc' = "data"
    BY <1>6 DEF SendData, Sends
  <2> QED
    BY <1>1, <1>2, <1>4, <2>1, LoneSent
<1>7. CASE SendEnd
  <2>1. SendMsg("client", Msg("end", cur)) /\ UNCHANGED <<net, hand, recv, cur>>
        /\ pc = "data"
    BY <1>7 DEF SendEnd, Sends
  <2>2. HeadsDue = 0 /\ OksDue = 0
    BY <2>1, DueNat DEF Protocol, OneDue, Due
  <2>3. HeadsDue' = HeadsDue + One(Msg("end", cur) = Msg("head", cur))
        /\ OksDue' = OksDue
    BY <1>2, <2>1, SentDue
  <2>4. HeadsDue' = 0 /\ OksDue' = 0
    BY <2>2, <2>3, MessageKinds DEF One
  <2> QED
    BY <1>1, <1>2, <2>1, <2>4, LoneSent
<1>8. CASE SendClose
  <2>1. SendMsg("client", Msg("close", 0)) /\ UNCHANGED <<net, hand, recv, cur>>
    BY <1>8 DEF SendClose, Sends
  <2>2. /\ HeadsDue' = HeadsDue + One(Msg("close", 0) = Msg("head", cur))
        /\ FilesDue' = FilesDue + One(Msg("close", 0) = Msg("file", cur))
        /\ OksDue' = OksDue
    BY <1>2, <2>1, SentDue
  <2>3. HeadsDue' = HeadsDue /\ FilesDue' = FilesDue /\ OksDue' = OksDue
    BY <2>2, MessageKinds, DueNat DEF One
  <2>4. OksDue' > 0 \/ HeadsDue' > 0 => FilesDue' = 0
    BY <2>3 DEF Lone
  <2> QED
    BY <1>1, <1>2, <2>1, <2>4, LoneSent
<1>9. CASE UNCHANGED chans
  <2>1. flow' = flow /\ Coming' = Coming
    BY <1>9 DEF chans, flow, Coming
  <2>2. CASE cur' = cur
    <3>1. HeadsDue' = HeadsDue /\ FilesDue' = FilesDue /\ OksDue' = OksDue
      BY <2>1, <2>2 DEF HeadsDue, FilesDue, OksDue
    <3> QED
      BY <1>1, <2>1, <2>2, <3>1 DEF Lone
  <2>3. CASE pc' = "head"
    <3>1. HeadsDue' = 0 /\ OksDue' = 0 /\ ErrsDue' = 0
      BY <1>4, <2>3
    <3>2. ASSUME handler'["server"] = "run", NEW m \in Message, flow'["client"][m] > 0
          PROVE  m = Msg("ok", cur')
      <4>1. m \in {Msg("ok", cur'), Msg("err", 0), Msg("close", 0)}
        BY <3>2 DEF Protocol, AboutCurrent
      <4>2. m = Msg("ok", cur)
        BY <1>1, <2>1, <3>2 DEF Lone
      <4> QED
        BY <4>1, <4>2, MessageKinds
    <3> QED
      BY <2>1, <3>1, <3>2 DEF Lone
  <2>4. cur' = cur \/ pc' = "head"
    BY DEF SenderStep, SendHead, Notified, Timeout, SendData, SendEnd, FileError,
           SendClose, SenderPanics, SenderCloses, SendFileReturns, Sends, GiveUp,
           NextFile
  <2> QED
    BY <2>2, <2>3, <2>4
<1>10. Notified \/ Timeout \/ FileError \/ SenderPanics \/ SenderCloses
       \/ SendFileReturns => UNCHANGED chans
  BY DEF Notified, Timeout, FileError, SenderPanics, SenderCloses, SendFileReturns,
         chans, tcp
<1> QED
  BY <1>5, <1>6, <1>7, <1>8, <1>9, <1>10 DEF SenderStep

LEMMA HandlerStaysStopped ==
    ASSUME GoTyped, NEW e \in Ends,
           \/ UNCHANGED handler
           \/ handler' = [handler EXCEPT ![e] = "close"]
           \/ handler' = [handler EXCEPT ![e] = "done"]
    PROVE  /\ handler'["server"] = "run" => handler["server"] = "run"
           /\ handler' = [handler EXCEPT ![e] = "close"] => handler'[e] # "run"
BY DEF GoTyped, Ends, Phases

\* A handler takes a message, and says nothing.
LEMMA LoneTaken ==
    ASSUME Typed, GoTyped, Lone, NEW e \in Ends, NEW t, GetMsg(e, t), UNCHANGED send,
           HandlerGoesOn \/ HandlerReturns(e)
    PROVE  Lone'
<1>1. /\ recv[e] # <<>> /\ recv' = [recv EXCEPT ![e] = Tail(recv[e])]
      /\ UNCHANGED <<net, hand, cur>>
  BY DEF GetMsg, sender
<1>2. ChanTyped' /\ Keeps /\ Coming' <= Coming
  BY <1>1, TakeKeeps, ComingTaken DEF Typed
<1>3. handler'["server"] = "run" => handler["server"] = "run"
  BY HandlerStaysStopped DEF HandlerGoesOn, HandlerReturns
<1> QED
  BY <1>1, <1>2, <1>3, LoneLess

\* The server answers a request: what it sends is alone.
LEMMA LoneAnswer ==
    ASSUME Typed, Protocol, GoTyped, Lone, Typed',
           NEW t \in {"head", "file", "end"}, GetMsg("server", t),
           NEW y \in {Msg("ok", cur), Msg("err", 0), Msg("close", 0)},
           SendMsg("server", y), t = "file" => y # Msg("ok", cur),
           y = Msg("ok", cur) => FilesDue = 0,
           y # Msg("ok", cur) => HandlerReturns("server")
    PROVE  Lone'
<1>1. handler["server"] = "run" /\ UNCHANGED <<net, hand, cur>>
      /\ recv["server"] # <<>>
      /\ recv' = [recv EXCEPT !["server"] = Tail(recv["server"])]
  BY DEF GetMsg, sender
<1>2. "server" \in Ends /\ "client" \in Ends /\ Peer("server") = "client"
      /\ "client" # "server" /\ y \in Message /\ Msg("ok", cur) \in Message
  BY Kinds DEF Ends, Peer, Typed, ProtoTyped
<1>3. /\ HeadsDue \in Nat /\ FilesDue \in Nat /\ EndsDue \in Nat
      /\ OksDue \in Nat /\ ErrsDue \in Nat /\ Told \in {0, 1}
      /\ HeadsDue' \in Nat /\ FilesDue' \in Nat
  BY DueNat, DueAfterNat DEF Typed, ProtoTyped
<1>4. /\ HeadsDue' = HeadsDue - One(t = "head")
      /\ FilesDue' = FilesDue - One(t = "file")
      /\ OksDue' = OksDue + One(y = Msg("ok", cur))
      /\ HeadsDue >= One(t = "head") /\ FilesDue >= One(t = "file")
      /\ EndsDue >= One(t = "end")
  BY AnsweredRequest
<1>5. OksDue = 0
  <2>1. CASE t = "file"
    <3>1. FilesDue >= 1
      BY <1>4, <2>1 DEF One
    <3>2. FilesDue # 0
      BY <1>3, <3>1
    <3>3. ~ (OksDue > 0)
      BY <3>2 DEF Lone
    <3> QED
      BY <1>3, <3>3
  <2>2. CASE t # "file"
    <3>1. HeadsDue >= 1 \/ EndsDue >= 1
      BY <1>4, <2>2 DEF One
    <3>2. HeadsDue + EndsDue + OksDue + ErrsDue + Told <= 1
      BY DEF Protocol, OneDue, Due
    <3> QED
      BY <1>3, <3>1, <3>2
  <2> QED
    BY <2>1, <2>2
<1>6. \A m \in Message : flow["client"][m] = 0
  <2>1. flow["client"][Msg("ok", cur)] = 0
    BY <1>5 DEF OksDue
  <2>2. ASSUME NEW m \in Message
        PROVE  flow["client"][m] = 0
    <3>1. flow["client"][m] \in Nat
      BY <1>2, FlowParts DEF Typed
    <3>2. flow["client"][m] > 0 => m = Msg("ok", cur)
      BY <1>1 DEF Lone
    <3>3. flow["client"][m] = 0 \/ flow["client"][m] > 0
      BY <3>1
    <3> QED
      BY <2>1, <3>2, <3>3
  <2> QED
    BY <2>2
<1>7. Coming = 0
  <2>1. ~ (0 > 0)
    OBVIOUS
  <2> QED
    BY <1>6, <2>1, ComingFlow DEF Typed
<1>8. Coming' <= 1
  <2>1. send["server"] \in Seq(Message)
        /\ send'["server"] = Append(send["server"], y)
    BY <1>2 DEF Typed, ChanTyped, SendMsg
  <2>2. recv'["client"] = recv["client"]
    BY <1>1, <1>2 DEF Typed, ChanTyped
  <2>3. /\ Len(send'["server"]) = Len(send["server"]) + 1
        /\ Len(net'["client"]) = Len(net["client"]) + 0
        /\ Len(hand'["client"]) = Len(hand["client"]) + 0
        /\ Len(recv'["client"]) = Len(recv["client"]) + 0
    BY <1>1, <1>2, <2>1, <2>2, Lengths, ComingNat DEF Typed
  <2>4. 1 \in Int /\ 0 \in Int
    OBVIOUS
  <2>5. Coming' = Coming + (1 + 0 + 0 + 0)
    BY <2>3, <2>4, ComingSum, Zenon DEF Typed
  <2> QED
    BY <1>7, <2>5
<1>9. ASSUME handler'["server"] = "run", NEW m \in Message, flow'["client"][m] > 0
      PROVE  m = Msg("ok", cur')
  <2>1. y = Msg("ok", cur)
    BY <1>2, <1>9, HandlerStaysStopped DEF HandlerReturns
  <2>2. flow'["client"][m] = flow["client"][m] + One(m = y)
    <3>1. \A n \in Message : /\ flow'["server"][n] = flow["server"][n]
                                                       - One(n = Head(recv["server"]))
                              /\ flow'[Peer("server")][n] = flow[Peer("server")][n]
                                                            + One(n = y)
      BY <1>1, <1>2, AnswerFlow DEF Typed
    <3> QED
      BY <1>2, <3>1
  <2>3. One(m = y) # 0
    BY <1>6, <1>9, <2>2 DEF One
  <2> QED
    BY <1>1, <2>1, <2>3 DEF One
<1>10. OksDue' > 0 \/ HeadsDue' > 0 => FilesDue' = 0
  <2>1. CASE y = Msg("ok", cur)
    <3>1. FilesDue = 0 /\ One(t = "file") = 0
      BY <2>1 DEF One
    <3> QED
      BY <1>4, <3>1
  <2>2. CASE y # Msg("ok", cur)
    <3>1. OksDue' = 0
      BY <1>4, <1>5, <2>2 DEF One
    <3>2. HeadsDue' <= HeadsDue /\ FilesDue' <= FilesDue
      BY <1>3, <1>4 DEF One
    <3>3. HeadsDue > 0 => FilesDue = 0
      BY DEF Lone
    <3> QED
      BY <1>3, <3>1, <3>2, <3>3
  <2> QED
    BY <2>1, <2>2
<1> QED
  BY <1>8, <1>9, <1>10 DEF Lone

\* MsgEnd is taken by the server, and asks about the current file, which is not
\* complete yet.
LEMMA EndAsked ==
    ASSUME Typed, Protocol, NEW e \in Ends, MsgEnd(e)
    PROVE  e = "server" /\ File("server") = cur /\ cur \notin complete
<1>1. e = "server" /\ GetMsg("server", "end")
  BY NotAsked DEF MsgEnd
<1>2. recv["server"] # <<>> /\ Head(recv["server"]).type = "end"
  BY <1>1 DEF GetMsg
<1>3. Head(recv["server"]) = Msg("end", cur) /\ EndsDue > 0
  BY <1>2, Received, MessageKinds DEF Ends, EndsDue
<1>4. EndsDue # 0
  <2>1. EndsDue \in Nat
    BY DueNat
  <2> QED
    BY <1>3, <2>1
<1>5. cur \notin complete
  BY <1>4 DEF Protocol, Completed
<1> QED
  BY <1>1, <1>3, <1>5, MessageKinds DEF File

LEMMA LoneHandler ==
    ASSUME Typed, Protocol, GoTyped, Lone, Typed', NEW e \in Ends,
           MsgHead(e) \/ MsgFile(e) \/ MsgEnd(e) \/ MsgNotify(e) \/ MsgClose(e)
    PROVE  Lone'
<1>1. CASE MsgHead(e)
  <2>1. e = "server" /\ GetMsg("server", "head")
    BY <1>1, NotAsked DEF MsgHead
  <2>2. File("server") = cur /\ HeadsDue > 0
    <3>1. recv["server"] # <<>> /\ Head(recv["server"]).type = "head"
      BY <2>1 DEF GetMsg
    <3> QED
      BY <3>1, Received, MessageKinds DEF Ends, File, HeadsDue
  <2>3. CASE SendMsg("server", Msg("ok", cur))
    BY <2>1, <2>2, <2>3, LoneAnswer, MessageKinds DEF Lone
  <2>4. CASE SendMsg("server", Msg("err", 0)) /\ HandlerReturns("server")
    BY <2>1, <2>4, LoneAnswer, MessageKinds
  <2>5. CASE UNCHANGED send /\ HandlerReturns("server")
    BY <2>1, <2>5, LoneTaken DEF Ends
  <2> QED
    BY <1>1, <2>1, <2>2, <2>3, <2>4, <2>5 DEF MsgHead, SendPanics
<1>2. CASE MsgFile(e)
  <2>1. e = "server" /\ GetMsg("server", "file")
    BY <1>2, NotAsked DEF MsgFile
  <2>2. CASE UNCHANGED send /\ (HandlerGoesOn \/ HandlerReturns("server"))
    BY <2>1, <2>2, LoneTaken DEF Ends
  <2>3. CASE SendMsg("server", Msg("close", 0)) /\ HandlerReturns("server")
    BY <2>1, <2>3, LoneAnswer, MessageKinds
  <2> QED
    BY <1>2, <2>1, <2>2, <2>3 DEF MsgFile, SendPanics
<1>3. CASE MsgEnd(e)
  <2>1. e = "server" /\ GetMsg("server", "end") /\ File("server") = cur
    BY <1>3, NotAsked, EndAsked DEF MsgEnd
  <2>2. CASE /\ SizeMatches /\ SendMsg("server", Msg("ok", cur))
             /\ HandlerGoesOn \/ HandlerReturns("server")
    <3>1. fs = cur /\ stored[cur] = NData
      BY <2>2 DEF SizeMatches, Protocol, Amounts
    <3>2. NData + FilesDue <= sentData /\ sentData \in 0..NData
      BY <3>1 DEF Protocol, Amounts, Typed, ProtoTyped
    <3>3. FilesDue = 0
      BY <3>2, DueNat, SizesAssumption
    <3> QED
      BY <2>1, <2>2, <3>3, LoneAnswer, MessageKinds
  <2>3. CASE SendMsg("server", Msg("err", 0)) /\ HandlerReturns("server")
    BY <2>1, <2>3, LoneAnswer, MessageKinds
  <2>4. CASE UNCHANGED send /\ HandlerReturns("server")
    BY <2>1, <2>4, LoneTaken DEF Ends
  <2> QED
    BY <1>3, <2>1, <2>2, <2>3, <2>4, BackupStarts DEF MsgEnd, SendPanics
<1>4. CASE MsgNotify(e)
  BY <1>4, LoneTaken DEF MsgNotify
<1>5. CASE MsgClose(e)
  BY <1>5, LoneTaken DEF MsgClose
<1> QED
  BY <1>1, <1>2, <1>3, <1>4, <1>5

LEMMA LoneStep ==
    ASSUME Typed, Protocol, GoTyped, Lone, Typed', Protocol', [Next]_vars
    PROVE  Lone'
<1>1. CASE SenderStep
  BY <1>1, LoneSender
<1>2. ASSUME NEW e \in Ends, WriterStep(e) \/ ReaderStep(e) \/ Stop(e) \/ HandlerStops(e)
      PROVE  Lone'
  <2>1. Passing(e)
    BY <1>2 DEF Passing
  <2>2. ChanTyped' /\ Keeps
    <3>1. CASE WriteMsg(e)
      BY <3>1, WriteFlow DEF Typed
    <3>2. CASE ReadMsg(e)
      BY <3>2, ReadFlow DEF Typed
    <3>3. CASE PutMsg(e)
      BY <3>3, PutFlow DEF Typed
    <3>4. CASE Stop(e) \/ WriterStops(e) \/ WriterDone(e) \/ ReaderStops(e)
               \/ ReaderDone(e) \/ HandlerStops(e)
      <4>1. UNCHANGED chans
        BY <3>4 DEF Stop, WriterStops, WriterDone, ReaderStops, ReaderDone,
                    HandlerStops, chans
      <4> QED
        BY <4>1, SameFlow DEF Typed
    <3> QED
      BY <2>1, <3>1, <3>2, <3>3, <3>4 DEF Passing, WriterStep, ReaderStep
  <2>3. Coming' <= Coming
    BY <2>1, ComingPassed DEF Typed
  <2>4. UNCHANGED cur
    BY <2>1
    DEF Passing, Stop, WriterStep, WriteMsg, WriterStops, WriterDone, ReaderStep,
        ReadMsg, PutMsg, ReaderStops, ReaderDone, HandlerStops, sender
  <2>5. UNCHANGED handler \/ handler' = [handler EXCEPT ![e] = "close"]
    BY <2>1
    DEF Passing, Stop, WriterStep, WriteMsg, WriterStops, WriterDone, ReaderStep,
        ReadMsg, PutMsg, ReaderStops, ReaderDone, HandlerStops, HandlerReturns
  <2> QED
    BY <2>2, <2>3, <2>4, <2>5, HandlerStaysStopped, LoneLess
<1>3. ASSUME NEW e \in Ends, HandlerDone(e)
      PROVE  Lone'
  <2>1. UNCHANGED <<chans, cur>> /\ handler' = [handler EXCEPT ![e] = "done"]
    BY <1>3 DEF HandlerDone, chans, tcp, sender
  <2>2. ChanTyped' /\ Keeps
    BY <2>1, SameFlow DEF Typed
  <2>3. Coming' = Coming
    BY <2>1 DEF Coming, chans
  <2> QED
    BY <2>1, <2>2, <2>3, ComingSame, HandlerStaysStopped, LoneLess DEF Typed
<1>4. CASE Reset
  <2>1. /\ net' = [e \in Ends |-> <<>>] /\ UNCHANGED <<send, hand, recv>>
        /\ UNCHANGED <<cur, handler>>
    BY <1>4 DEF Reset, tcp, sender
  <2>2. ChanTyped' /\ Keeps
    BY <1>4, ResetFlow DEF Typed
  <2>3. Coming' <= Coming
    <3>1. PICK n \in Nat : n = Len(net["client"])
      BY ComingNat DEF Typed
    <3>2. 0 = n + (- n) /\ - n \in Int /\ 0 \in Int /\ 0 + (- n) + 0 + 0 <= 0
      OBVIOUS
    <3>3. net'["client"] = <<>>
      BY <2>1 DEF Ends
    <3>4. Len(net'["client"]) = Len(net["client"]) + (- n)
      BY <3>1, <3>2, <3>3, Lengths
    <3>5. /\ Len(send'["server"]) = Len(send["server"]) + 0
          /\ Len(hand'["client"]) = Len(hand["client"]) + 0
          /\ Len(recv'["client"]) = Len(recv["client"]) + 0
      BY <2>1, ComingNat DEF Typed
    <3> QED
      BY <3>2, <3>4, <3>5, ComingLess, Zenon DEF Typed
  <2> QED
    BY <2>1, <2>2, <2>3, LoneLess
<1>5. CASE UNCHANGED vars
  <2>1. UNCHANGED <<chans, cur, handler>>
    BY <1>5 DEF vars, chans, tcp, sender
  <2>2. ChanTyped' /\ Keeps
    BY <2>1, SameFlow DEF Typed
  <2>3. Coming' = Coming
    BY <2>1 DEF Coming, chans
  <2> QED
    BY <2>1, <2>2, <2>3, ComingSame, LoneLess DEF Typed
<1>6. ASSUME NEW e \in Ends, HandlerStep(e)
      PROVE  Lone'
  BY <1>2, <1>3, <1>6, LoneHandler DEF HandlerStep
<1> QED
  BY <1>1, <1>2, <1>4, <1>5, <1>6 DEF Next

LEMMA LoneFirst ==
    ASSUME Init
    PROVE  Lone
<1>1. Typed /\ Protocol
  BY FirstState
<1>2. pc = "head" /\ sentData = 0
  BY DEF Init
<1>3. OksDue = 0 /\ HeadsDue = 0
  BY <1>1, <1>2, DueNat DEF Protocol, OneDue, Due
<1>4. \A m \in Message : flow["client"][m] = 0
  <2>1. ASSUME NEW m \in Message PROVE flow["client"][m] = 0
    <3>1. /\ Count(send[Peer("client")], m) = 0 /\ Count(net["client"], m) = 0
          /\ Count(hand["client"], m) = 0 /\ Count(recv["client"], m) = 0
      BY Others, CountEmpty DEF Init, Ends
    <3> QED
      BY <3>1 DEF flow, Ends
  <2> QED
    BY <2>1
<1>5. Coming = 0
  <2>1. ~ (0 > 0)
    OBVIOUS
  <2> QED
    BY <1>1, <1>4, <2>1, ComingFlow DEF Typed
<1>6. ~ (0 > 0) /\ 0 <= 1
  OBVIOUS
<1> QED
  BY <1>3, <1>4, <1>5, <1>6 DEF Lone

(***************************************************************************)
(* At most one message is on its way to the sender, and none that the      *)
(* handler would have to wait with: neither the sender's reader nor its    *)
(* handler ever blocks, whatever the capacities of the channels.           *)
(***************************************************************************)
THEOREM AnswersCorrect == Spec => []AnswersFit
<1>1. Init => Inv /\ Lone
  <2> SUFFICES ASSUME Init PROVE Inv /\ Lone
    OBVIOUS
  <2>1. GoTyped
    BY DEF Init, GoTyped, Phases
  <2>2. Flags
    BY DEF Init, Flags
  <2> QED
    BY <2>1, <2>2, FirstState, LoneFirst DEF Inv
<1>2. Inv /\ Lone /\ [Next]_vars => Inv' /\ Lone'
  BY EveryStep, GoStep, FlagsStep, LoneStep DEF Inv
<1>3. Inv /\ Lone => AnswersFit
  <2> SUFFICES ASSUME Inv, Lone PROVE AnswersFit
    OBVIOUS
  <2>1. Coming <= 1
    BY DEF Lone
  <2>2. ASSUME recv["client"] # <<>>, Head(recv["client"]).type \in {"ok", "err"}
        PROVE  notify = <<>>
    <3>1. Head(recv["client"]) \in {Msg("ok", cur), Msg("err", 0)}
          /\ flow["client"][Head(recv["client"])] > 0
      BY <2>2, Received, MessageKinds DEF Inv, Ends
    <3>2. OksDue > 0 \/ ErrsDue > 0
      BY <3>1 DEF OksDue, ErrsDue
    <3>3. HeadsDue + EndsDue + OksDue + ErrsDue + Told <= 1
      BY DEF Inv, Protocol, OneDue, Due
    <3>4. Told # 1
      BY <3>2, <3>3, DueNat DEF Inv
    <3> QED
      BY <3>4, DueNat DEF Inv
  <2> QED
    BY <2>1, <2>2 DEF AnswersFit, Coming
<1> QED
  BY <1>1, <1>2, <1>3, PTL DEF Spec

-----------------------------------------------------------------------------
(* The file transfer.                                                      *)

\* The files that are stored in full are the first ones of the list.
Prefix == IF cur \in complete THEN 1..cur ELSE 1..(cur - 1)

LEMMA InFullIs ==
    ASSUME Typed, Protocol
    PROVE  InFull = Prefix
<1>1. cur \in Files /\ complete \subseteq Files
  BY DEF Typed, ProtoTyped
<1>2. \A f \in Files : f < cur => f \in complete /\ stored[f] = NData
  BY DEF Protocol, Amounts
<1>3. \A f \in complete : f <= cur
  BY DEF Protocol, Amounts
<1>4. cur \in complete => stored[cur] = NData
  BY DEF Protocol, Completed
<1>5. NFiles \in Nat /\ cur \in Nat /\ cur >= 1 /\ cur <= NFiles
      /\ \A f : f \in Files <=> f \in Nat /\ f >= 1 /\ f <= NFiles
  BY <1>1, SizesAssumption DEF Files
<1>6. ASSUME NEW f
      PROVE  f \in InFull <=> f \in Prefix
  <2>1. CASE f \in Files
    <3>1. f < cur \/ f = cur \/ f > cur
      BY <1>5, <2>1
    <3>2. f > cur => f \notin complete
      BY <1>3, <1>5, <2>1
    <3>3. f \in Prefix <=> f < cur \/ (f = cur /\ cur \in complete)
      BY <1>5, <2>1 DEF Prefix
    <3>4. f \in InFull <=> f \in complete /\ stored[f] = NData
      BY DEF InFull
    <3>5. f < cur => f # cur /\ ~ (f > cur)
      BY <1>5, <2>1
    <3>6. f > cur => f # cur
      BY <1>5, <2>1
    <3> QED
      BY <1>2, <1>4, <2>1, <3>1, <3>2, <3>3, <3>4, <3>5, <3>6, Zenon
  <2>2. CASE f \notin Files
    <3>1. f \notin InFull
      BY <1>1, <2>2 DEF InFull
    <3>2. f \notin Prefix
      BY <1>5, <2>2 DEF Prefix
    <3> QED
      BY <3>1, <3>2
  <2> QED
    BY <2>1, <2>2
<1> QED
  BY <1>6

LEMMA InFullAfter == (Typed /\ Protocol => InFull = Prefix)'
<1>1. Typed /\ Protocol => InFull = Prefix
  BY InFullIs
<1> QED
  BY <1>1, PTL

\* Neither what is accepted nor which file the sender is asking about changes.
LEMMA SamePrefix ==
    ASSUME Typed, Protocol, Typed', Protocol', UNCHANGED <<cur, complete>>
    PROVE  InFull' = InFull
<1>1. Prefix' = Prefix
  BY DEF Prefix
<1> QED
  BY <1>1, InFullIs, InFullAfter

Unseen == UNCHANGED <<pc, cur, result, complete, backup>>

LEMMA UnseenStep ==
    ASSUME Typed, Protocol, Typed', Protocol', Unseen
    PROVE  UNCHANGED Promise!transferVars
BY SamePrefix DEF Unseen, Outcome, Promise!transferVars

\* A step of the sender that does not turn to the next file.
LEMMA SameFileStep ==
    ASSUME Typed, Protocol, Typed', Protocol', UNCHANGED <<cur, complete, backup>>,
           pc \notin {"done", "panic"}, pc' = "done" => pc = "wait" /\ UNCHANGED result
    PROVE  [Promise!Next]_(Promise!transferVars)
<1>1. InFull' = InFull /\ UNCHANGED <<cur, backup>>
  BY SamePrefix
<1>2. Outcome = "none"
  BY DEF Outcome
<1>3. CASE pc' \notin {"done", "panic"}
  <2>1. Outcome' = "none"
    BY <1>3 DEF Outcome
  <2> QED
    BY <1>1, <1>2, <2>1 DEF Promise!transferVars
<1>4. CASE Outcome' = "err"
  BY <1>1, <1>2, <1>4 DEF Promise!Next, Promise!Fail
<1>5. CASE pc' = "done" /\ result = "nil"
  <2>1. NFiles \in complete
    BY <1>5 DEF Protocol, Concluded, Ending
  <2>2. complete = Files /\ \A f \in Files : stored[f] = NData
    BY <2>1, AllStored
  <2>3. InFull = 1..NFiles
    BY <2>2 DEF InFull, Files
  <2>4. Outcome' = "ok"
    BY <1>5 DEF Outcome
  <2> QED
    BY <1>1, <1>2, <2>3, <2>4 DEF Promise!Next, Promise!Succeed
<1>6. pc' \in {"done", "panic"} =>
          Outcome' = "err" \/ (pc' = "done" /\ result = "nil")
  BY DEF Outcome
<1> QED
  BY <1>3, <1>4, <1>5, <1>6

\* The sender turns to the next file: the last one is complete.
LEMMA NextFileStep ==
    ASSUME Typed, Protocol, Typed', Protocol', UNCHANGED <<complete, backup>>,
           pc = "waitEnd", pc' = "head", cur' = cur + 1
    PROVE  Promise!Offer
<1>1. cur \in Files /\ cur' \in Files
  BY DEF Typed, ProtoTyped
<1>2. cur \in Nat /\ cur < NFiles /\ cur < cur'
  BY <1>1, FilesNat, SizesAssumption
<1>3. cur \in complete
  <2>1. \A f \in Files : f < cur' => f \in complete'
    BY DEF Protocol, Amounts
  <2> QED
    BY <1>1, <1>2, <2>1
<1>4. InFull = 1..cur
  BY <1>3, InFullIs DEF Prefix
<1>5. cur' \notin complete'
  BY DEF Protocol, Completed
<1>6. InFull' = 1..(cur' - 1)
  <2>1. InFull' = Prefix'
    BY InFullAfter
  <2> QED
    BY <1>5, <2>1 DEF Prefix
<1>7. cur' - 1 = cur
  BY <1>2
<1>8. Outcome = "none" /\ Outcome' = "none"
  BY DEF Outcome
<1> QED
  BY <1>2, <1>4, <1>6, <1>7, <1>8 DEF Promise!Offer

\* The receiver accepts the file that the sender is asking about.
LEMMA AcceptStep ==
    ASSUME Typed, Protocol, Typed', Protocol', UNCHANGED <<pc, cur, result>>,
           cur \notin complete, complete' = complete \cup {cur},
           backup' = backup \/ backup' = (backup \/ LastMark(cur))
    PROVE  Promise!Receive
<1>1. InFull = 1..(cur - 1)
  BY InFullIs DEF Prefix
<1>2. InFull' = 1..cur
  <2>1. InFull' = Prefix'
    BY InFullAfter
  <2> QED
    BY <2>1 DEF Prefix
<1>3. ~ backup
  <2>1. cur \in Files
    BY DEF Typed, ProtoTyped
  <2>2. CASE NFiles \in complete
    BY <2>1, <2>2, AllStored
  <2>3. backup => NFiles \in complete
    BY DEF Protocol, Concluded
  <2> QED
    BY <2>2, <2>3
<1>4. backup' \in {backup, cur = NFiles}
  BY <1>3, Zenon DEF LastMark
<1>5. Outcome' = Outcome
  BY DEF Outcome
<1> QED
  BY <1>1, <1>2, <1>4, <1>5 DEF Promise!Receive

LEMMA PromiseStep ==
    ASSUME Typed, Protocol, Typed', Protocol', [Next]_vars
    PROVE  [Promise!Next]_(Promise!transferVars)
<1>1. CASE Unseen
  BY <1>1, UnseenStep
<1>2. CASE SenderStep
  <2>1. UNCHANGED <<complete, backup>> /\ pc \notin {"done", "panic"}
    BY <1>2
    DEF SenderStep, SendHead, Notified, Timeout, SendData, SendEnd, FileError,
        SendClose, SenderPanics, SenderCloses, SendFileReturns, Sends, disk
  <2>2. CASE Notified /\ cur' # cur
    <3>1. pc = "waitEnd" /\ pc' = "head" /\ cur' = cur + 1
      BY <2>2 DEF Notified, NextFile, GiveUp
    <3> QED
      BY <2>1, <3>1, NextFileStep DEF Promise!Next
  <2>3. CASE cur' = cur
    <3>1. pc' = "done" => pc = "wait" /\ UNCHANGED result
      BY <1>2
      DEF SenderStep, SendHead, Notified, Timeout, SendData, SendEnd, FileError,
          SendClose, SenderPanics, SenderCloses, SendFileReturns, Sends, GiveUp,
          NextFile
    <3> QED
      BY <2>1, <2>3, <3>1, SameFileStep
  <2>4. Notified \/ cur' = cur
    BY <1>2
    DEF SenderStep, SendHead, Timeout, SendData, SendEnd, FileError, SendClose,
        SenderPanics, SenderCloses, SendFileReturns, Sends, GiveUp
  <2> QED
    BY <2>2, <2>3, <2>4
<1>3. ASSUME NEW e \in Ends, MsgEnd(e)
      PROVE  [Promise!Next]_(Promise!transferVars)
  <2>1. e = "server" /\ File("server") = cur /\ cur \notin complete
    BY <1>3, EndAsked
  <2>2. UNCHANGED <<pc, cur, result>>
    BY <1>3 DEF MsgEnd, GetMsg, sender
  <2>3. CASE UNCHANGED <<fs, complete, backup>>
    BY <2>2, <2>3, UnseenStep DEF Unseen
  <2>4. CASE /\ SizeMatches /\ complete' = complete \cup {fs}
             /\ backup' = backup \/ backup' = (backup \/ LastMark(cur))
    <3>1. fs = cur
      BY <2>4 DEF SizeMatches, Protocol, Amounts
    <3> QED
      BY <2>1, <2>2, <2>4, <3>1, AcceptStep DEF Promise!Next
  <2> QED
    BY <1>3, <2>1, <2>3, <2>4, BackupStarts DEF MsgEnd
<1>4. ASSUME NEW e \in Ends,
             WriterStep(e) \/ ReaderStep(e) \/ Stop(e) \/ MsgHead(e) \/ MsgFile(e)
             \/ MsgNotify(e) \/ MsgClose(e) \/ HandlerStops(e) \/ HandlerDone(e)
      PROVE  Unseen
  BY <1>4
  DEF WriterStep, WriteMsg, WriterStops, WriterDone, ReaderStep, ReadMsg, PutMsg,
      ReaderStops, ReaderDone, Stop, MsgHead, MsgFile, MsgNotify, MsgClose, GetMsg,
      HandlerStops, HandlerDone, sender, disk, Unseen
<1>5. CASE Reset \/ UNCHANGED vars
  BY <1>5, UnseenStep DEF Reset, vars, sender, disk, Unseen
<1> QED
  BY <1>1, <1>2, <1>3, <1>4, <1>5 DEF Next, HandlerStep

(***************************************************************************)
(* The messages, channels and goroutines of both ends implement            *)
(* FileTransfer: the files are received in the order of the list, none     *)
(* before the sender knows that the earlier ones were, the backup starts   *)
(* with the last, and "ok" is told only when every file is there.          *)
(***************************************************************************)
THEOREM TransferCorrect == Spec => ImplementsFileTransfer
<1>1. Init => Promise!Init
  <2> SUFFICES ASSUME Init PROVE Promise!Init
    OBVIOUS
  <2>1. cur = 1 /\ ~ backup /\ backup = FALSE
    BY DEF Init
  <2>2. InFull = {} /\ Outcome = "none"
    BY DEF Init, InFull, Outcome
  <2> QED
    BY <2>1, <2>2 DEF Promise!Init
<1>2. Inv /\ Inv' /\ [Next]_vars => [Promise!Next]_(Promise!transferVars)
  BY PromiseStep DEF Inv
<1> QED
  BY <1>1, <1>2, Invariant, PTL DEF Spec, ImplementsFileTransfer, Promise!Spec
=============================================================================
