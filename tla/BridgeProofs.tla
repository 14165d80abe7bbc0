---------------------------- MODULE BridgeProofs ----------------------------
(* Theorems about Bridge, for every set of points and connections, every   *)
(* queue size and every bound.                                             *)
EXTENDS Bridge, SequenceTheorems, TLAPS

-----------------------------------------------------------------------------
(* The ASDUs the bridge builds.                                            *)

\* What the callback and the loop put in a queue is an ASDU.
LEMMA AsduTypes ==
    ASSUME NEW p \in Points, NEW id \in Nat
    PROVE  /\ \A k \in Kinds : Control(k) \in Asdus
           /\ Data("interrogated", p, id) \in Asdus
           /\ Data("live", p, id) \in LiveAsdus
BY DEF Control, Data, Asdus, LiveAsdus, Kinds

\* ACT_CON, its negative form and ACT_TERM are ASDUs (Control).
LEMMA ControlTypes == \A k \in Kinds : Control(k) \in Asdus
BY DEF Control, Asdus

\* The empty store, reply or image has the type of any other (Nothing).
LEMMA NothingType == Nothing \in [Points -> Nat]
BY DEF Nothing

\* A connection's queue keeps its type and its bound, whether it accepts or
\* refuses an ASDU (SendTo).
LEMMA SendToType ==
    ASSUME TypeOK, NEW c \in Conns, NEW a \in Asdus, SendTo(c, a)
    PROVE  /\ hiQ' \in [Conns -> Seq(Asdus)]
           /\ \A d \in Conns : Len(hiQ'[d]) <= QueueSize
           /\ refused' \in [Conns -> BOOLEAN]
<1>1. CASE Accepts(c)
  <2>1. hiQ[c] \in Seq(Asdus) /\ Len(hiQ[c]) < QueueSize
    BY <1>1 DEF TypeOK, Accepts
  <2>2. Append(hiQ[c], a) \in Seq(Asdus) /\ Len(Append(hiQ[c], a)) = Len(hiQ[c]) + 1
    BY <2>1, AppendProperties
  <2>3. hiQ' = [hiQ EXCEPT ![c] = Append(hiQ[c], a)] /\ refused' = refused
    BY <1>1 DEF SendTo
  <2>4. Len(Append(hiQ[c], a)) <= QueueSize
    BY <2>1, <2>2, BoundsAssumption, LenProperties
  <2> HIDE DEF Asdus
  <2> QED BY <2>2, <2>3, <2>4 DEF TypeOK
<1>2. CASE ~Accepts(c)
  BY <1>2 DEF SendTo, TypeOK
<1> QED BY <1>1, <1>2

\* The event queue keeps its type and its bound, full or not (EnqueueLow).
LEMMA EnqueueLowType ==
    ASSUME TypeOK, NEW a \in LiveAsdus, EnqueueLow(a)
    PROVE  /\ lowQ' \in Seq(LiveAsdus)
           /\ Len(lowQ') <= QueueSize
           /\ dropped' \subseteq Points
<1>0. lowQ \in Seq(LiveAsdus) /\ Len(lowQ) <= QueueSize /\ dropped \subseteq Points /\ Len(lowQ) \in Nat
  BY LenProperties DEF TypeOK
<1>1. CASE Len(lowQ) < QueueSize
  <2>1. Append(lowQ, a) \in Seq(LiveAsdus) /\ Len(Append(lowQ, a)) = Len(lowQ) + 1
    BY <1>0, AppendProperties
  <2> QED BY <1>0, <1>1, <2>1, BoundsAssumption DEF EnqueueLow
<1>2. CASE ~(Len(lowQ) < QueueSize)
  <2>1. lowQ # <<>>
    BY <1>0, <1>2, BoundsAssumption
  <2>2. /\ Tail(lowQ) \in Seq(LiveAsdus) /\ Len(Tail(lowQ)) = Len(lowQ) - 1
        /\ Head(lowQ) \in LiveAsdus
    BY <1>0, <2>1, HeadTailProperties
  <2>3. Append(Tail(lowQ), a) \in Seq(LiveAsdus) /\ Len(Append(Tail(lowQ), a)) = Len(Tail(lowQ)) + 1
    BY <2>2, AppendProperties
  <2>4. Head(lowQ).key \in Points
    BY <2>2 DEF LiveAsdus
  <2>5. lowQ' = Append(Tail(lowQ), a)
        /\ dropped' = (dropped \cup ({Head(lowQ).key} \ KeysIn(Tail(lowQ)))) \ {a.key}
    BY <1>2 DEF EnqueueLow
  <2>6. Len(lowQ') = Len(lowQ)
    BY <1>0, <2>2, <2>3, <2>5
  <2> QED BY <1>0, <2>3, <2>4, <2>5, <2>6
<1> QED BY <1>1, <1>2

-----------------------------------------------------------------------------
(* Type correctness.                                                       *)

\* The state main sets up is well typed.
LEMMA TypeInit == Init => TypeOK
BY NothingType, BoundsAssumption DEF Init, TypeOK, LoopStates, GiStates, NoMessage

\* A message handed to the loop, by any source, keeps the types.
LEMMA TypeReceive == ASSUME TypeOK, NEW m \in Messages, Receive(m) PROVE TypeOK'
BY DEF Receive, TypeOK, After, LoopStates, storeVars, giVars, masterVars, queueVars, connVars

\* A step of the message loop keeps the types.
LEMMA TypeLoop == TypeOK /\ (ReceiveFresh \/ LoopNext \/ Terminated) => TypeOK'
<1> SUFFICES ASSUME TypeOK, ReceiveFresh \/ LoopNext \/ Terminated PROVE TypeOK'
  OBVIOUS
<1> USE DEF storeVars, loopVars, giVars, masterVars, queueVars, connVars
<1>1. CASE ReceiveFresh
  <2>1. Len(log) + 1 \in Nat \ {0}
    BY LenProperties DEF TypeOK
  <2>2. \A p \in Points : [key |-> p, id |-> Len(log) + 1] \in Messages
    BY <2>1 DEF Messages
  <2> QED BY <1>1, <2>2, TypeReceive DEF ReceiveFresh
<1>2. CASE Insert
  <2>1. cur \in Messages
    BY <1>2 DEF Insert, TypeOK
  <2>2. store' \in [Points -> Nat]
    BY <1>2, <2>1 DEF Insert, TypeOK, Messages
  <2>3. log' \in Seq(Messages)
    BY <1>2, <2>1, AppendProperties DEF Insert, TypeOK
  <2> QED BY <1>2, <2>1, <2>2, <2>3 DEF Insert, TypeOK, After, LoopStates
<1>3. CASE Dispatch
  <2>1. cur \in Messages
    BY <1>3 DEF Dispatch, TypeOK
  <2>2. Data("live", cur.key, cur.id) \in LiveAsdus
    BY <2>1, AsduTypes DEF Messages
  <2>3. /\ lowQ' \in Seq(LiveAsdus)
        /\ Len(lowQ') <= QueueSize
        /\ dropped' \subseteq Points
    <3>1. CASE GiOnly
      BY <1>3, <3>1 DEF Dispatch, TypeOK
    <3>2. CASE ~GiOnly
      BY <1>3, <2>2, <3>2, EnqueueLowType DEF Dispatch
    <3> QED BY <3>1, <3>2
  <2> QED BY <1>3, <2>1, <2>3 DEF Dispatch, TypeOK, After, LoopStates
<1>4. CASE AckOk
  BY <1>4 DEF AckOk, TypeOK, After, LoopStates
<1>5. CASE AckFails
  BY <1>5 DEF AckFails, TypeOK, After, LoopStates
<1>6. CASE Stopped
  BY <1>6, NothingType, BoundsAssumption DEF Stopped, ForgetAll, TypeOK, LoopStates
<1>7. CASE SourceEnds
  BY <1>7 DEF SourceEnds, TypeOK, LoopStates
<1>8. CASE SourceRebuilt
  BY <1>8 DEF SourceRebuilt, TypeOK, LoopStates
<1>9. CASE CtrlC
  BY <1>9 DEF CtrlC, TypeOK, LoopStates
<1>10. CASE Terminated
  BY <1>10 DEF Terminated, vars, TypeOK
<1> QED
  BY <1>1, <1>2, <1>3, <1>4, <1>5, <1>6, <1>7, <1>8, <1>9, <1>10 DEF LoopNext, LoopStep

\* A step of a connection, of its callback or of its master keeps the types.
LEMMA TypeConn == ASSUME TypeOK, NEW c \in Conns, ConnNext(c) PROVE TypeOK'
<1> USE DEF storeVars, loopVars, giVars, masterVars, queueVars, connVars
<1>1. CASE GiLock(c)
  <2>1. todo' \in [Conns -> SUBSET Points]
    BY <1>1 DEF GiLock, TypeOK
  <2> QED BY <1>1, <2>1 DEF GiLock, TypeOK, GiStates
<1>2. CASE GiUnlock(c)
  BY <1>2 DEF GiUnlock, TypeOK, GiStates
<1>3. CASE GiTerm(c)
  <2>1. /\ hiQ' \in [Conns -> Seq(Asdus)]
        /\ \A d \in Conns : Len(hiQ'[d]) <= QueueSize
        /\ refused' \in [Conns -> BOOLEAN]
    BY <1>3, SendToType, ControlTypes DEF GiTerm, Kinds
  <2>2. gi' \in [Conns -> GiStates] /\ gi_responses' \in Nat
    BY <1>3 DEF GiTerm, TypeOK, GiStates
  <2>3. UNCHANGED <<todo, asked, reply, gis, lowQ, dropped, store, storeLock, log, loop, cur,
                    messages_dispatched, view, open, synced, conn, connects>>
    BY <1>3 DEF GiTerm
  <2> QED BY <2>1, <2>2, <2>3 DEF TypeOK
<1>4. ASSUME NEW p \in Points, GiReplay(c, p) PROVE TypeOK'
  <2>1. store[p] \in Nat
    BY DEF TypeOK
  <2>2. /\ hiQ' \in [Conns -> Seq(Asdus)]
        /\ \A d \in Conns : Len(hiQ'[d]) <= QueueSize
        /\ refused' \in [Conns -> BOOLEAN]
    BY <1>4, <2>1, SendToType, AsduTypes DEF GiReplay
  <2>3. reply' \in [Conns -> [Points -> Nat]] /\ todo' \in [Conns -> SUBSET Points]
    BY <1>4, <2>1 DEF GiReplay, TypeOK
  <2>4. dropped' \subseteq Points
    BY <1>4 DEF GiReplay, TypeOK
  <2> QED BY <1>4, <2>2, <2>3, <2>4 DEF GiReplay, TypeOK, GiStates
<1>5. CASE StationInterrogation(c)
  <2>1. /\ hiQ' \in [Conns -> Seq(Asdus)]
        /\ \A d \in Conns : Len(hiQ'[d]) <= QueueSize
        /\ refused' \in [Conns -> BOOLEAN]
    BY <1>5, SendToType, ControlTypes DEF StationInterrogation, Kinds
  <2>2. asked' \in [Conns -> Nat] /\ reply' \in [Conns -> [Points -> Nat]]
    BY <1>5, NothingType, LenProperties DEF StationInterrogation, TypeOK
  <2> QED BY <1>5, <2>1, <2>2 DEF StationInterrogation, TypeOK, GiStates
<1>6. CASE GroupInterrogation(c)
  <2>1. /\ hiQ' \in [Conns -> Seq(Asdus)]
        /\ \A d \in Conns : Len(hiQ'[d]) <= QueueSize
        /\ refused' \in [Conns -> BOOLEAN]
    BY <1>6, SendToType, ControlTypes DEF GroupInterrogation, Kinds
  <2> QED BY <1>6, <2>1 DEF GroupInterrogation, TypeOK
<1>7. CASE Connect(c)
  BY <1>7 DEF Connect, TypeOK
<1>8. CASE StartDT(c)
  BY <1>8, NothingType, BoundsAssumption DEF StartDT, ForgetAll, TypeOK
<1>9. CASE Disconnect(c)
  BY <1>9, NothingType, BoundsAssumption DEF Disconnect, Forget, TypeOK
<1>10. CASE DeliverHigh(c)
  <2>1. /\ hiQ[c] \in Seq(Asdus) /\ hiQ[c] # <<>>
        /\ Len(hiQ[c]) \in Nat /\ Len(hiQ[c]) <= QueueSize
    BY <1>10, LenProperties DEF DeliverHigh, TypeOK
  <2>2. Head(hiQ[c]) \in Asdus /\ Tail(hiQ[c]) \in Seq(Asdus) /\ Len(Tail(hiQ[c])) = Len(hiQ[c]) - 1
    BY <2>1, HeadTailProperties
  <2>3. hiQ' \in [Conns -> Seq(Asdus)] /\ \A d \in Conns : Len(hiQ'[d]) <= QueueSize
    BY <1>10, <2>1, <2>2, BoundsAssumption DEF DeliverHigh, TypeOK
  <2>4. view' \in [Conns -> [Points -> Nat]]
    BY <1>10, <2>2 DEF DeliverHigh, TypeOK, Asdus
  <2>5. open' \in [Conns -> BOOLEAN] /\ synced' \in [Conns -> BOOLEAN]
    BY <1>10, Zenon DEF DeliverHigh, TypeOK
  <2> QED BY <1>10, <2>3, <2>4, <2>5 DEF DeliverHigh, TypeOK
<1>11. CASE DeliverLow(c)
  <2>1. lowQ \in Seq(LiveAsdus) /\ lowQ # <<>> /\ Len(lowQ) \in Nat /\ Len(lowQ) <= QueueSize
    BY <1>11, LenProperties DEF DeliverLow, TypeOK
  <2>2. Head(lowQ) \in LiveAsdus /\ Tail(lowQ) \in Seq(LiveAsdus) /\ Len(Tail(lowQ)) = Len(lowQ) - 1
    BY <2>1, HeadTailProperties
  <2>3. view' \in [Conns -> [Points -> Nat]]
    BY <1>11, <2>2 DEF DeliverLow, TypeOK, LiveAsdus
  <2>4. lowQ' \in Seq(LiveAsdus) /\ Len(lowQ') <= QueueSize
    BY <1>11, <2>1, <2>2, BoundsAssumption DEF DeliverLow
  <2> QED BY <1>11, <2>3, <2>4 DEF DeliverLow, TypeOK
<1> QED
  BY <1>1, <1>2, <1>3, <1>4, <1>5, <1>6, <1>7, <1>8, <1>9, <1>10, <1>11 DEF ConnNext, GiStep

\* Every step of the bridge, its callbacks and its masters keeps the types.
LEMMA TypeStep == TypeOK /\ [Next]_vars => TypeOK'
<1> SUFFICES ASSUME TypeOK, [Next]_vars PROVE TypeOK'
  OBVIOUS
<1>1. CASE ReceiveFresh \/ LoopNext \/ Terminated
  BY <1>1, TypeLoop
<1>2. CASE \E c \in Conns : ConnNext(c)
  BY <1>2, TypeConn
<1>3. CASE UNCHANGED vars
  BY <1>3 DEF vars, storeVars, loopVars, giVars, masterVars, queueVars, connVars, TypeOK
<1> QED BY <1>1, <1>2, <1>3 DEF Next

\* In every reachable state the loop, the callbacks, the queues and the
\* masters' images are well formed, and no queue outgrows IEC104_QUEUE_SIZE.
THEOREM TypeCorrect == Spec => []TypeOK
BY TypeInit, TypeStep, PTL DEF Spec
-----------------------------------------------------------------------------
(* What a sequence of insertions makes of the store.                       *)

\* The store starts empty.
LEMMA StoreOfEmpty == ASSUME NEW l PROVE StoreOf(l, 0) = Nothing
BY DEF StoreOf, Written, Nothing

\* What the store was depends on the insertions made until then only.
LEMMA StoreOfPrefix ==
    ASSUME NEW l, NEW k, NEW n \in Nat, \A i \in 1..n : k[i] = l[i]
    PROVE  StoreOf(k, n) = StoreOf(l, n)
<1>1. IdsOf(k, n) = IdsOf(l, n)
  BY DEF IdsOf
<1>2. \A p, id : LastWrite(k, n, p, id) <=> LastWrite(l, n, p, id)
  BY DEF LastWrite
<1>3. \A p \in Points : Written(k, n, p) <=> Written(l, n, p)
  BY DEF Written
<1>4. \A p \in Points : LastId(k, n, p) = LastId(l, n, p)
  BY <1>1, <1>2 DEF LastId
<1> QED BY <1>3, <1>4 DEF StoreOf

\* An insertion is the update that Insert makes of the store.
LEMMA StoreOfAppend ==
    ASSUME NEW l \in Seq(Messages), NEW m \in Messages
    PROVE  StoreOf(Append(l, m), Len(l) + 1) = [StoreOf(l, Len(l)) EXCEPT ![m.key] = m.id]
<1> DEFINE a == Append(l, m)
           n == Len(l)
<1>0. n \in Nat /\ a[n + 1] = m /\ \A i \in 1..n : a[i] = l[i]
  BY LenProperties, AppendProperties
<1> HIDE DEF a, n
<1>1. ASSUME NEW p \in Points, p = m.key
      PROVE  StoreOf(a, n + 1)[p] = m.id
  <2>1. m.id \in IdsOf(a, n + 1)
    BY <1>0 DEF IdsOf
  <2>2. LastWrite(a, n + 1, p, m.id)
    BY <1>0, <1>1 DEF LastWrite
  <2>3. ASSUME NEW id, LastWrite(a, n + 1, p, id) PROVE id = m.id
    <3>1. PICK i \in 1..(n + 1) : a[i].id = id /\ \A j \in (i + 1)..(n + 1) : a[j].key # p
      BY <2>3 DEF LastWrite
    <3>2. i = n + 1
      BY <1>0, <1>1, <3>1
    <3> QED BY <1>0, <3>1, <3>2
  <2>4. LastId(a, n + 1, p) = m.id
    BY <2>1, <2>2, <2>3 DEF LastId
  <2>5. Written(a, n + 1, p)
    BY <1>0, <1>1 DEF Written
  <2> QED BY <2>4, <2>5 DEF StoreOf
<1>2. ASSUME NEW p \in Points, p # m.key
      PROVE  StoreOf(a, n + 1)[p] = StoreOf(a, n)[p]
  <2>1. Written(a, n + 1, p) <=> Written(a, n, p)
    BY <1>0, <1>2 DEF Written
  <2>2. \A id : LastWrite(a, n + 1, p, id) <=> LastWrite(a, n, p, id)
    BY <1>0, <1>2 DEF LastWrite
  <2>3. \A id : LastWrite(a, n, p, id) => id \in IdsOf(a, n)
    BY DEF LastWrite, IdsOf
  <2>4. IdsOf(a, n) \subseteq IdsOf(a, n + 1)
    BY <1>0 DEF IdsOf
  <2>5. LastId(a, n + 1, p) = LastId(a, n, p)
    <3>1. \A id : (id \in IdsOf(a, n + 1) /\ LastWrite(a, n + 1, p, id))
                  <=> (id \in IdsOf(a, n) /\ LastWrite(a, n, p, id))
      BY <2>2, <2>3, <2>4
    <3> QED BY <3>1 DEF LastId
  <2> QED BY <2>1, <2>5 DEF StoreOf
<1>3. StoreOf(a, n) = StoreOf(l, n)
  BY <1>0, StoreOfPrefix
<1>4. m.key \in Points
  BY DEF Messages
<1>5. StoreOf(a, n + 1) = [StoreOf(l, n) EXCEPT ![m.key] = m.id]
  <2> DEFINE f == StoreOf(a, n + 1)
             g == StoreOf(l, n)
  <2>1. f = [p \in Points |-> f[p]] /\ g = [p \in Points |-> g[p]]
    BY DEF StoreOf
  <2>2. \A p \in Points : f[p] = IF p = m.key THEN m.id ELSE g[p]
    BY <1>1, <1>2, <1>3
  <2> HIDE DEF f, g
  <2>3. f = [g EXCEPT ![m.key] = m.id]
    BY <1>4, <2>1, <2>2
  <2> QED BY <2>3 DEF f, g
<1> QED BY <1>5 DEF a, n
-----------------------------------------------------------------------------
(* An interrogation hands over a snapshot.                                 *)

\* Nothing was asked and nothing is cached at the start.
LEMMA SnapshotInit == Init => SnapshotInv
<1> SUFFICES ASSUME Init PROVE SnapshotInv
  OBVIOUS
<1>1. Len(log) = 0 /\ store = StoreOf(log, 0)
  BY StoreOfEmpty DEF Init
<1>2. \A c \in Conns : asked[c] = 0 /\ reply[c] = StoreOf(log, 0) /\ gi[c] = "idle"
  BY StoreOfEmpty DEF Init
<1>3. 0 \in 0..Len(log)
  BY <1>1
<1>4. GiReplyIsSnapshot
  BY <1>2, <1>3 DEF GiReplyIsSnapshot
<1>5. storeLock \notin Conns
  BY NamesAssumption DEF Init
<1>6. /\ \A c \in Conns : gi[c] = "replay" <=> storeLock = c
      /\ \A c \in Conns : asked[c] <= Len(log)
  BY <1>1, <1>2, <1>5
<1> QED BY <1>1, <1>2, <1>4, <1>6 DEF SnapshotInv

\* Steps that touch neither the store nor a replay.
LEMMA SnapshotFrame ==
    ASSUME SnapshotInv, UNCHANGED <<store, storeLock, log, gi, todo, asked, reply>>
    PROVE  SnapshotInv'
BY DEF SnapshotInv, GiReplyIsSnapshot

\* Insert: the mutex is free, so no replay is under way, and every snapshot
\* handed over before remains one.
LEMMA SnapshotInsert == ASSUME TypeOK, SnapshotInv, Insert PROVE SnapshotInv'
<1> USE DEF storeVars, loopVars, giVars, masterVars, queueVars, connVars
<1>1. cur \in Messages /\ log \in Seq(Messages) /\ Len(log) \in Nat
  BY LenProperties DEF Insert, TypeOK
<1>2. /\ log' = Append(log, cur) /\ store' = [store EXCEPT ![cur.key] = cur.id]
      /\ UNCHANGED <<storeLock, gi, todo, asked, reply>> /\ storeLock = Free
  BY DEF Insert
<1>3. Len(log') = Len(log) + 1 /\ \A i \in 1..Len(log) : log'[i] = log[i]
  BY <1>1, <1>2, AppendProperties
<1>4. store' = StoreOf(log', Len(log'))
  <2>1. store = StoreOf(log, Len(log))
    BY DEF SnapshotInv
  <2>2. StoreOf(Append(log, cur), Len(log) + 1) = [StoreOf(log, Len(log)) EXCEPT ![cur.key] = cur.id]
    BY <1>1, StoreOfAppend
  <2> QED BY <1>2, <1>3, <2>1, <2>2, Zenon
<1>5. \A c \in Conns : gi[c] # "replay"
  BY <1>2, NamesAssumption DEF SnapshotInv
<1>6. \A n \in 0..Len(log) : StoreOf(log', n) = StoreOf(log, n)
  <2> TAKE n \in 0..Len(log)
  <2>1. n \in Nat /\ \A i \in 1..n : log'[i] = log[i]
    BY <1>1, <1>3
  <2> QED BY <2>1, StoreOfPrefix
<1>7. ASSUME NEW c \in Conns, gi[c] \in {"term", "idle"}
      PROVE  \E n \in asked[c]..Len(log') : reply[c] = StoreOf(log', n)
  <2>1. PICK n \in asked[c]..Len(log) : reply[c] = StoreOf(log, n)
    BY <1>7 DEF SnapshotInv, GiReplyIsSnapshot
  <2>2. asked[c] \in Nat
    BY DEF TypeOK
  <2>3. n \in asked[c]..Len(log') /\ n \in 0..Len(log)
    BY <1>1, <1>3, <2>1, <2>2
  <2> QED BY <1>6, <2>1, <2>3
<1>8. GiReplyIsSnapshot'
  BY <1>2, <1>7 DEF GiReplyIsSnapshot
<1>9. \A c \in Conns : asked[c] <= Len(log')
  <2> TAKE c \in Conns
  <2>1. asked[c] \in Nat /\ asked[c] <= Len(log)
    BY DEF TypeOK, SnapshotInv
  <2> QED BY <1>1, <1>3, <2>1
<1> QED BY <1>2, <1>4, <1>5, <1>8, <1>9 DEF SnapshotInv

\* StationInterrogation: nothing is handed over yet.
LEMMA SnapshotRequest ==
    ASSUME TypeOK, SnapshotInv, NEW c \in Conns, StationInterrogation(c)
    PROVE  SnapshotInv'
<1> USE DEF storeVars, loopVars, giVars, masterVars, queueVars, connVars
<1>1. /\ gi' = [gi EXCEPT ![c] = "lock"] /\ reply' = [reply EXCEPT ![c] = Nothing]
      /\ asked' = [asked EXCEPT ![c] = Len(log)] /\ gi[c] = "idle"
      /\ UNCHANGED <<store, storeLock, log, todo>>
  BY DEF StationInterrogation
<1>2. Len(log) \in Nat
  BY LenProperties DEF TypeOK
<1>3. /\ gi'[c] = "lock" /\ reply'[c] = Nothing /\ asked'[c] = Len(log)
      /\ \A d \in Conns \ {c} : gi'[d] = gi[d] /\ reply'[d] = reply[d] /\ asked'[d] = asked[d]
  BY <1>1 DEF TypeOK
<1>4. GiReplyIsSnapshot'
  BY <1>1, <1>3 DEF SnapshotInv, GiReplyIsSnapshot
<1> QED BY <1>1, <1>2, <1>3, <1>4 DEF SnapshotInv

\* GiLock: the points left out of the replay are the ones the store lacks.
LEMMA SnapshotLock ==
    ASSUME TypeOK, SnapshotInv, NEW c \in Conns, GiLock(c)
    PROVE  SnapshotInv'
<1> USE DEF storeVars, loopVars, giVars, masterVars, queueVars, connVars
<1>1. /\ gi' = [gi EXCEPT ![c] = "replay"] /\ storeLock' = c /\ storeLock = Free
      /\ todo' = [todo EXCEPT ![c] = {p \in Points : store[p] # 0}] /\ gi[c] = "lock"
      /\ UNCHANGED <<store, log, asked, reply>>
  BY DEF GiLock
<1>2. /\ gi'[c] = "replay" /\ todo'[c] = {p \in Points : store[p] # 0}
      /\ \A d \in Conns \ {c} : gi'[d] = gi[d] /\ todo'[d] = todo[d]
  BY <1>1 DEF TypeOK
<1>3. \A d \in Conns : gi[d] # "replay"
  BY <1>1, NamesAssumption DEF SnapshotInv
<1>4. \A p \in Points \ todo'[c] : reply[c][p] = store[p]
  BY <1>1, <1>2 DEF SnapshotInv, Nothing
<1>5. GiReplyIsSnapshot'
  BY <1>1, <1>2 DEF SnapshotInv, GiReplyIsSnapshot
<1> QED BY <1>1, <1>2, <1>3, <1>4, <1>5 DEF SnapshotInv

\* GiReplay: one more point agrees with the store.
LEMMA SnapshotReplay ==
    ASSUME TypeOK, SnapshotInv, NEW c \in Conns, NEW p \in Points, GiReplay(c, p)
    PROVE  SnapshotInv'
<1> USE DEF storeVars, loopVars, giVars, masterVars, queueVars, connVars
<1>1. /\ todo' = [todo EXCEPT ![c] = todo[c] \ {p}] /\ reply' = [reply EXCEPT ![c][p] = store[p]]
      /\ gi[c] = "replay" /\ UNCHANGED <<store, storeLock, log, gi, asked>>
  BY DEF GiReplay
<1>2. /\ todo'[c] = todo[c] \ {p}
      /\ \A q \in Points : reply'[c][q] = IF q = p THEN store[p] ELSE reply[c][q]
      /\ \A d \in Conns \ {c} : todo'[d] = todo[d] /\ reply'[d] = reply[d]
  BY <1>1 DEF TypeOK
<1>3. \A q \in Points \ todo'[c] : reply'[c][q] = store[q]
  BY <1>1, <1>2 DEF SnapshotInv
<1>4. \A d \in Conns : gi[d] # "replay" => d # c
  BY <1>1
<1>5. GiReplyIsSnapshot'
  BY <1>1, <1>2 DEF SnapshotInv, GiReplyIsSnapshot
<1> QED BY <1>1, <1>2, <1>3, <1>5 DEF SnapshotInv

\* GiUnlock: everything handed over agrees with the store of this instant.
LEMMA SnapshotUnlock ==
    ASSUME TypeOK, SnapshotInv, NEW c \in Conns, GiUnlock(c)
    PROVE  SnapshotInv'
<1> USE DEF storeVars, loopVars, giVars, masterVars, queueVars, connVars
<1>1. /\ gi' = [gi EXCEPT ![c] = "term"] /\ storeLock' = Free /\ todo[c] = {}
      /\ gi[c] = "replay" /\ UNCHANGED <<store, log, asked, reply, todo>>
  BY DEF GiUnlock
<1>2. gi'[c] = "term" /\ \A d \in Conns \ {c} : gi'[d] = gi[d]
  BY <1>1 DEF TypeOK
<1>3. reply[c] = StoreOf(log, Len(log))
  <2>1. \A p \in Points : reply[c][p] = store[p]
    BY <1>1 DEF SnapshotInv
  <2>2. reply[c] = store
    BY <2>1 DEF TypeOK
  <2> QED BY <2>2 DEF SnapshotInv
<1>4. Len(log) \in asked[c]..Len(log)
  BY LenProperties DEF TypeOK, SnapshotInv
<1>5. GiReplyIsSnapshot'
  BY <1>1, <1>2, <1>3, <1>4 DEF SnapshotInv, GiReplyIsSnapshot
<1>6. \A d \in Conns : gi'[d] = "replay" <=> storeLock' = d
  <2>1. storeLock = c
    BY <1>1 DEF SnapshotInv
  <2> QED BY <1>1, <1>2, <2>1, NamesAssumption DEF SnapshotInv
<1> QED BY <1>1, <1>2, <1>5, <1>6 DEF SnapshotInv

\* GiTerm: the reply is complete already.
LEMMA SnapshotTerm ==
    ASSUME TypeOK, SnapshotInv, NEW c \in Conns, GiTerm(c)
    PROVE  SnapshotInv'
<1> USE DEF storeVars, loopVars, giVars, masterVars, queueVars, connVars
<1>1. /\ gi' = [gi EXCEPT ![c] = "idle"] /\ gi[c] = "term"
      /\ UNCHANGED <<store, storeLock, log, todo, asked, reply>>
  BY DEF GiTerm
<1>2. gi'[c] = "idle" /\ \A d \in Conns \ {c} : gi'[d] = gi[d]
  BY <1>1 DEF TypeOK
<1>3. GiReplyIsSnapshot'
  BY <1>1, <1>2 DEF SnapshotInv, GiReplyIsSnapshot
<1> QED BY <1>1, <1>2, <1>3 DEF SnapshotInv

\* Every step keeps the inductive invariant; only the steps named above touch
\* what it speaks of.
LEMMA SnapshotStep == TypeOK /\ SnapshotInv /\ [Next]_vars => SnapshotInv'
<1> SUFFICES ASSUME TypeOK, SnapshotInv, [Next]_vars PROVE SnapshotInv'
  OBVIOUS
<1> USE DEF storeVars, loopVars, giVars, masterVars, queueVars, connVars
<1>1. CASE ReceiveFresh \/ Dispatch \/ AckOk \/ AckFails \/ Stopped
           \/ SourceEnds \/ SourceRebuilt \/ CtrlC \/ Terminated
  BY <1>1, SnapshotFrame
     DEF ReceiveFresh, Receive, Dispatch, AckOk, AckFails, Stopped, SourceEnds, SourceRebuilt,
         CtrlC, Terminated, vars
<1>2. CASE Insert
  BY <1>2, SnapshotInsert
<1>3. ASSUME NEW c \in Conns, ConnNext(c) PROVE SnapshotInv'
  <2>1. CASE GroupInterrogation(c) \/ Connect(c) \/ StartDT(c) \/ Disconnect(c)
             \/ DeliverHigh(c) \/ DeliverLow(c)
    BY <2>1, SnapshotFrame
       DEF GroupInterrogation, Connect, StartDT, Disconnect, DeliverHigh, DeliverLow
  <2>2. CASE GiStep(c) \/ StationInterrogation(c)
    BY <2>2, SnapshotRequest, SnapshotLock, SnapshotReplay, SnapshotUnlock, SnapshotTerm
       DEF GiStep
  <2> QED BY <1>3, <2>1, <2>2 DEF ConnNext
<1>4. CASE UNCHANGED vars
  BY <1>4, SnapshotFrame DEF vars
<1> QED BY <1>1, <1>2, <1>3, <1>4 DEF Next, LoopNext, LoopStep

\* Every finished General Interrogation handed over the data store as it was
\* at one instant after its request, whatever the message loop and the other
\* connections did meanwhile.
THEOREM InterrogationIsAtomic == Spec => []GiReplyIsSnapshot
<1>1. SnapshotInv => GiReplyIsSnapshot
  BY DEF SnapshotInv
<1> QED BY <1>1, SnapshotInit, SnapshotStep, TypeCorrect, PTL DEF Spec

-----------------------------------------------------------------------------
(* Bridge implements PointStore.                                           *)

\* Initially both are empty and idle.
LEMMA RefineInit == Init => Abstract!Init
BY DEF Init, Abstract!Init, Abstract!Blank, Phase, Answer, Nothing

\* A step that touches neither the store nor a callback's progress or reply is
\* no step of the abstract store.
LEMMA RefineFrame ==
    ASSUME UNCHANGED <<store, gi, reply>>
    PROVE  UNCHANGED Abstract!vars
BY DEF Abstract!vars, Phase, Answer

\* Insert is the write of one point.
LEMMA RefineInsert == ASSUME TypeOK, Insert PROVE \E p \in Points : Abstract!Write(p)
<1>1. cur \in Messages
  BY DEF TypeOK, Insert
<1>2. cur.key \in Points /\ cur.id \in Nat
  BY <1>1 DEF Messages
<1>3. store' = [store EXCEPT ![cur.key] = cur.id] /\ UNCHANGED <<gi, reply>>
  BY DEF Insert, giVars
<1>4. store' \in [Points -> Nat] /\ \A q \in Points \ {cur.key} : store'[q] = store[q]
  BY <1>2, <1>3 DEF TypeOK
<1>5. Abstract!Write(cur.key)
  BY <1>3, <1>4 DEF Abstract!Write, Phase, Answer
<1> QED BY <1>2, <1>5

\* A station interrogation is the request.
LEMMA RefineRequest ==
    ASSUME TypeOK, NEW c \in Conns, StationInterrogation(c)
    PROVE  Abstract!Ask(c)
<1>1. /\ gi[c] = "idle" /\ gi' = [gi EXCEPT ![c] = "lock"]
      /\ reply' = [reply EXCEPT ![c] = Nothing] /\ store' = store
  BY DEF StationInterrogation, storeVars
<1>2. gi'[c] = "lock" /\ \A d \in Conns \ {c} : gi'[d] = gi[d] /\ reply'[d] = reply[d]
  BY <1>1 DEF TypeOK
<1>3. Phase(c) = "idle" /\ Phase(c)' = "asked" /\ Answer(c)' = Nothing
  BY <1>1, <1>2 DEF Phase, Answer
<1>4. \A d \in Conns \ {c} : Phase(d)' = Phase(d) /\ Answer(d)' = Answer(d)
  BY <1>2 DEF Phase, Answer
<1> QED BY <1>1, <1>3, <1>4 DEF Abstract!Ask, Abstract!Blank, Nothing

\* Taking the mutex and replaying a point are invisible: there is no answer yet.
LEMMA RefineReplay ==
    ASSUME TypeOK, NEW c \in Conns, GiLock(c) \/ \E p \in Points : GiReplay(c, p)
    PROVE  UNCHANGED Abstract!vars
<1>1. /\ gi[c] \in {"lock", "replay"} /\ gi'[c] \in {"lock", "replay"} /\ store' = store
      /\ \A d \in Conns \ {c} : gi'[d] = gi[d] /\ reply'[d] = reply[d]
  BY DEF GiLock, GiReplay, TypeOK, storeVars
<1>2. \A d \in Conns : Phase(d)' = Phase(d) /\ Answer(d)' = Answer(d)
  BY <1>1 DEF Phase, Answer
<1> QED BY <1>1, <1>2 DEF Abstract!vars

\* Releasing the mutex is the answer: every point was handed over as the store
\* still holds it.
LEMMA RefineUnlock ==
    ASSUME TypeOK, SnapshotInv, NEW c \in Conns, GiUnlock(c)
    PROVE  Abstract!Answer(c)
<1>1. /\ gi[c] = "replay" /\ gi' = [gi EXCEPT ![c] = "term"] /\ todo[c] = {}
      /\ UNCHANGED <<store, reply>>
  BY DEF GiUnlock
<1>2. gi'[c] = "term" /\ \A d \in Conns \ {c} : gi'[d] = gi[d]
  BY <1>1 DEF TypeOK
<1>3. reply[c] = store
  <2>1. \A p \in Points : reply[c][p] = store[p]
    BY <1>1 DEF SnapshotInv
  <2> QED BY <2>1 DEF TypeOK
<1>4. Phase(c) = "asked" /\ Phase(c)' = "answered" /\ Answer(c)' = store
  BY <1>1, <1>2, <1>3 DEF Phase, Answer
<1>5. \A d \in Conns \ {c} : Phase(d)' = Phase(d) /\ Answer(d)' = Answer(d)
  BY <1>1, <1>2 DEF Phase, Answer
<1> QED BY <1>1, <1>4, <1>5 DEF Abstract!Answer

\* GiTerm is the end of the interrogation.
LEMMA RefineTerm ==
    ASSUME TypeOK, NEW c \in Conns, GiTerm(c)
    PROVE  Abstract!Finish(c)
<1>1. /\ gi[c] = "term" /\ gi' = [gi EXCEPT ![c] = "idle"]
      /\ UNCHANGED <<store, reply>>
  BY DEF GiTerm, storeVars
<1>2. gi'[c] = "idle" /\ \A d \in Conns \ {c} : gi'[d] = gi[d]
  BY <1>1 DEF TypeOK
<1>3. Phase(c) = "answered" /\ Phase(c)' = "idle" /\ Answer(c)' = Answer(c)
  BY <1>1, <1>2 DEF Phase, Answer
<1>4. \A d \in Conns \ {c} : Phase(d)' = Phase(d) /\ Answer(d)' = Answer(d)
  BY <1>1, <1>2 DEF Phase, Answer
<1> QED BY <1>1, <1>3, <1>4 DEF Abstract!Finish

\* Every step of Bridge is a step of PointStore or none.
LEMMA RefineStep == TypeOK /\ SnapshotInv /\ [Next]_vars => [Abstract!Next]_(Abstract!vars)
<1> SUFFICES ASSUME TypeOK, SnapshotInv, [Next]_vars
             PROVE  Abstract!Next \/ UNCHANGED Abstract!vars
  OBVIOUS
<1>1. CASE ReceiveFresh \/ Dispatch \/ AckOk \/ AckFails \/ Stopped
           \/ SourceEnds \/ SourceRebuilt \/ CtrlC \/ Terminated
  BY <1>1, RefineFrame
     DEF ReceiveFresh, Receive, Dispatch, AckOk, AckFails, Stopped, SourceEnds, SourceRebuilt,
         CtrlC, Terminated, vars, storeVars, giVars
<1>2. CASE Insert
  BY <1>2, RefineInsert DEF Abstract!Next
<1>3. ASSUME NEW c \in Conns, ConnNext(c) PROVE Abstract!Next \/ UNCHANGED Abstract!vars
  <2>1. CASE GroupInterrogation(c) \/ Connect(c) \/ StartDT(c) \/ Disconnect(c)
             \/ DeliverHigh(c) \/ DeliverLow(c)
    BY <2>1, RefineFrame
       DEF GroupInterrogation, Connect, StartDT, Disconnect, DeliverHigh, DeliverLow, storeVars,
           giVars
  <2>2. CASE StationInterrogation(c) \/ GiUnlock(c) \/ GiTerm(c)
    BY <2>2, RefineRequest, RefineUnlock, RefineTerm DEF Abstract!Next
  <2>3. CASE GiLock(c) \/ \E p \in Points : GiReplay(c, p)
    BY <2>3, RefineReplay
  <2> QED BY <1>3, <2>1, <2>2, <2>3 DEF ConnNext, GiStep
<1>4. CASE UNCHANGED vars
  BY <1>4, RefineFrame DEF vars, storeVars, giVars
<1> QED BY <1>1, <1>2, <1>3, <1>4 DEF Next, LoopNext, LoopStep

\* The message loop, the store's mutex and the callbacks, with every point
\* replayed in a step of its own, implement a store that is written and
\* interrogated atomically.
THEOREM StoreIsAtomic == Spec => ImplementsPointStore
BY RefineInit, RefineStep, SnapshotInit, SnapshotStep, TypeCorrect, PTL
   DEF Spec, ImplementsPointStore, Abstract!Spec

-----------------------------------------------------------------------------
(* The image of the active master.                                         *)

\* A queue holds an ASDU of this kind for p; a queue holds an ACT_TERM.
Has(q, kind, p) == \E k \in 1..Len(q) : q[k].kind = kind /\ q[k].key = p

HasTerm(q) == \E k \in 1..Len(q) : q[k].kind = "act_term"

\* No later ASDU of q is of the kind and the point of the k-th.
Newest(q, k) ==
    \A j \in (k + 1)..Len(q) : ~(q[j].kind = q[k].kind /\ q[j].key = q[k].key)

\* A live update of p is on its way to the active master, or was displaced.
Coming(p) == Has(lowQ, "live", p) \/ p \in dropped \/ InHand(p)

OneActive == \A c, d \in Conns : conn[c] = "active" /\ conn[d] = "active" => c = d

\* Every value in a queue was cached: 0, "nothing known", is never sent.
SentInv ==
    /\ loop = "dispatch" => store[cur.key] = cur.id
    /\ \A c \in Conns : \A p \in todo[c] : store[p] # 0
    /\ \A k \in 1..Len(lowQ) : lowQ[k].id # 0
    /\ \A c \in Conns : \A k \in 1..Len(hiQ[c]) :
            hiQ[c][k].kind = "interrogated" => hiQ[c][k].key \in Points /\ hiQ[c][k].id # 0

\* The newest live update of a point is the cached value, or a newer one is
\* in the loop's hands.
LiveInv ==
    \A k \in 1..Len(lowQ) : Newest(lowQ, k) =>
        lowQ[k].id = store[lowQ[k].key] \/ InHand(lowQ[k].key)

\* The newest interrogated value of a point is the cached one, unless a live
\* update that will follow it says otherwise.
AnsweredInv ==
    \A c \in Conns : conn[c] = "active" => \A k \in 1..Len(hiQ[c]) :
        hiQ[c][k].kind = "interrogated" /\ Newest(hiQ[c], k) =>
            hiQ[c][k].id = store[hiQ[c][k].key] \/ Coming(hiQ[c][k].key)

\* A value the active master has seen is the cached one, unless a queue holds
\* what corrects it.
SeenInv ==
    \A c \in Conns : conn[c] = "active" => \A p \in Points :
        \/ view[c][p] = store[p] \/ view[c][p] = 0
        \/ Has(hiQ[c], "interrogated", p) \/ Coming(p)

\* From the moment an interrogation has replayed p, the active master knows of
\* p, or a queue will tell it, if p is cached and nothing was refused.
KnownInv ==
    \A c \in Conns : conn[c] = "active" /\ ~refused[c] => \A p \in Points :
        \/ synced[c] \/ HasTerm(hiQ[c]) \/ gi[c] = "term"
        \/ gi[c] = "replay" /\ p \notin todo[c]
        => \/ view[c][p] # 0 \/ store[p] = 0
           \/ Has(hiQ[c], "interrogated", p) \/ Coming(p)

ImageInv == OneActive /\ SentInv /\ LiveInv /\ AnsweredInv /\ SeenInv /\ KnownInv

\* What a queue holds after one more ASDU.
LEMMA AppendHas ==
    ASSUME NEW S, NEW q \in Seq(S), NEW a \in S
    PROVE  /\ \A kind, p : Has(Append(q, a), kind, p) <=> (Has(q, kind, p) \/ (a.kind = kind /\ a.key = p))
           /\ HasTerm(Append(q, a)) <=> (HasTerm(q) \/ a.kind = "act_term")
<1>1. PICK n \in Nat : n = Len(q)
  BY LenProperties
<1>2. PICK r : r = Append(q, a)
  OBVIOUS
<1>3. Len(r) = n + 1 /\ (\A i \in 1..n : r[i] = q[i]) /\ r[n + 1] = a
  BY <1>1, <1>2, AppendProperties
<1>4. \A i : i \in 1..(n + 1) <=> (i \in 1..n \/ i = n + 1)
  OBVIOUS
<1> QED BY <1>1, <1>2, <1>3, <1>4 DEF Has, HasTerm

\* What a queue holds once its first ASDU has left.
LEMMA TailHas ==
    ASSUME NEW S, NEW q \in Seq(S), q # <<>>
    PROVE  /\ \A kind, p : Has(q, kind, p)
                <=> (Has(Tail(q), kind, p) \/ (Head(q).kind = kind /\ Head(q).key = p))
           /\ HasTerm(q) <=> (HasTerm(Tail(q)) \/ Head(q).kind = "act_term")
<1>1. PICK n \in Nat : n = Len(q)
  BY LenProperties
<1>2. PICK r : r = Tail(q)
  OBVIOUS
<1>3. n # 0 /\ Len(r) = n - 1 /\ (\A i \in 1..(n - 1) : r[i] = q[i + 1]) /\ Head(q) = q[1]
  BY <1>1, <1>2, HeadTailProperties, EmptySeq
<1>4. \A i \in 1..n : i = 1 \/ (i - 1 \in 1..(n - 1) /\ r[i - 1] = q[i])
  BY <1>3
<1>5. \A i \in 1..(n - 1) : i + 1 \in 1..n
  OBVIOUS
<1>6. 1 \in 1..n
  BY <1>3
<1>7. ASSUME NEW kind, NEW p
      PROVE  Has(q, kind, p) <=> (Has(r, kind, p) \/ (q[1].kind = kind /\ q[1].key = p))
  <2>1. Has(q, kind, p) => (Has(r, kind, p) \/ (q[1].kind = kind /\ q[1].key = p))
    BY <1>1, <1>3, <1>4 DEF Has
  <2>2. Has(r, kind, p) => Has(q, kind, p)
    BY <1>1, <1>3, <1>5 DEF Has
  <2> QED BY <1>1, <1>6, <2>1, <2>2 DEF Has
<1>8. HasTerm(q) <=> (HasTerm(r) \/ q[1].kind = "act_term")
  <2>1. HasTerm(q) => (HasTerm(r) \/ q[1].kind = "act_term")
    BY <1>1, <1>3, <1>4 DEF HasTerm
  <2>2. HasTerm(r) => HasTerm(q)
    BY <1>1, <1>3, <1>5 DEF HasTerm
  <2> QED BY <1>1, <1>6, <2>1, <2>2 DEF HasTerm
<1> QED BY <1>2, <1>3, <1>7, <1>8

\* Which ASDUs are the newest of their points after one more.
LEMMA AppendNewest ==
    ASSUME NEW S, NEW q \in Seq(S), NEW a \in S,
           NEW k \in 1..Len(Append(q, a)), Newest(Append(q, a), k)
    PROVE  \/ Append(q, a)[k] = a
           \/ /\ k \in 1..Len(q) /\ Append(q, a)[k] = q[k] /\ Newest(q, k)
              /\ ~(a.kind = q[k].kind /\ a.key = q[k].key)
<1>1. PICK n \in Nat : n = Len(q)
  BY LenProperties
<1>2. PICK r : r = Append(q, a)
  OBVIOUS
<1>3. Len(r) = n + 1 /\ (\A i \in 1..n : r[i] = q[i]) /\ r[n + 1] = a
  BY <1>1, <1>2, AppendProperties
<1>4. k \in 1..(n + 1) /\ \A j \in (k + 1)..(n + 1) : ~(r[j].kind = r[k].kind /\ r[j].key = r[k].key)
  BY <1>2, <1>3 DEF Newest
<1>5. CASE k = n + 1
  BY <1>2, <1>3, <1>5
<1>6. CASE k \in 1..n
  <2>1. r[k] = q[k] /\ n + 1 \in (k + 1)..(n + 1)
    BY <1>3, <1>6
  <2>2. ~(a.kind = q[k].kind /\ a.key = q[k].key)
    BY <1>3, <1>4, <2>1
  <2>3. ASSUME NEW j \in (k + 1)..n PROVE ~(q[j].kind = q[k].kind /\ q[j].key = q[k].key)
    <3>1. j \in 1..n /\ j \in (k + 1)..(n + 1)
      BY <1>6
    <3> QED BY <1>3, <1>4, <2>1, <3>1
  <2> QED BY <1>1, <1>2, <1>6, <2>1, <2>2, <2>3 DEF Newest
<1> QED BY <1>4, <1>5, <1>6

\* Which ASDUs are the newest of their points once the first has left; the
\* first was, or a later one replaces it.
LEMMA TailNewest ==
    ASSUME NEW S, NEW q \in Seq(S), q # <<>>
    PROVE  /\ \A k \in 1..Len(Tail(q)) :
                /\ k + 1 \in 1..Len(q) /\ Tail(q)[k] = q[k + 1]
                /\ Newest(Tail(q), k) => Newest(q, k + 1)
           /\ 1 \in 1..Len(q) /\ Head(q) = q[1]
           /\ Newest(q, 1) \/ Has(Tail(q), Head(q).kind, Head(q).key)
<1>1. PICK n \in Nat : n = Len(q)
  BY LenProperties
<1>2. PICK r : r = Tail(q)
  OBVIOUS
<1>3. n # 0 /\ Len(r) = n - 1 /\ (\A i \in 1..(n - 1) : r[i] = q[i + 1]) /\ Head(q) = q[1]
  BY <1>1, <1>2, HeadTailProperties, EmptySeq
<1>4. ASSUME NEW k \in 1..(n - 1)
      PROVE  k + 1 \in 1..n /\ r[k] = q[k + 1] /\ (Newest(r, k) => Newest(q, k + 1))
  <2>1. k + 1 \in 1..n /\ r[k] = q[k + 1]
    BY <1>3
  <2>2. ASSUME NEW j \in (k + 2)..n PROVE j - 1 \in (k + 1)..(n - 1) /\ r[j - 1] = q[j]
    <3>1. j - 1 \in 1..(n - 1) /\ j - 1 \in (k + 1)..(n - 1) /\ (j - 1) + 1 = j
      OBVIOUS
    <3> QED BY <1>3, <3>1
  <2>3. ASSUME Newest(r, k) PROVE Newest(q, k + 1)
    <3>1. \A j \in (k + 1)..(n - 1) : ~(r[j].kind = r[k].kind /\ r[j].key = r[k].key)
      BY <1>3, <2>3 DEF Newest
    <3>2. \A j \in (k + 2)..n : ~(q[j].kind = q[k + 1].kind /\ q[j].key = q[k + 1].key)
      BY <2>1, <2>2, <3>1
    <3>3. (k + 1) + 1 = k + 2
      OBVIOUS
    <3> QED BY <1>1, <3>2, <3>3 DEF Newest
  <2> QED BY <2>1, <2>3
<1>5. ASSUME ~Newest(q, 1) PROVE Has(r, q[1].kind, q[1].key)
  <2>1. PICK j \in 2..n : q[j].kind = q[1].kind /\ q[j].key = q[1].key
    BY <1>1, <1>5 DEF Newest
  <2>2. PICK i \in 1..(n - 1) : i + 1 = j
    BY <2>1
  <2>3. r[i] = q[j]
    BY <1>3, <2>2
  <2> QED BY <1>3, <2>1, <2>2, <2>3 DEF Has
<1> QED BY <1>1, <1>2, <1>3, <1>4, <1>5

\* The points of the event queue are those it has a live update of (KeysIn).
LEMMA LiveKeys ==
    ASSUME NEW q \in Seq(LiveAsdus)
    PROVE  \A p : p \in KeysIn(q) <=> Has(q, "live", p)
<1>1. \A a \in LiveAsdus : a.kind = "live"
  BY DEF LiveAsdus
<1>2. \A k \in 1..Len(q) : q[k] \in LiveAsdus
  BY ElementOfSeq
<1>3. \A k \in 1..Len(q) : q[k].kind = "live"
  BY <1>1, <1>2
<1> QED BY <1>3 DEF KeysIn, Has

\* What leaves the store, the event queue and the loop's message alone, and
\* the active connection as it was or just started, keeps the image.
LEMMA ImageKept ==
    ASSUME ImageInv, OneActive', UNCHANGED <<store, lowQ, dropped, todo>>,
           \/ UNCHANGED <<loop, cur>>
           \/ loop # "dispatch" /\ loop' # "dispatch",
           \A c \in Conns : hiQ'[c] = hiQ[c] \/ hiQ'[c] = <<>>,
           \A c \in Conns : conn'[c] = "active" =>
                \/ /\ conn[c] = "active" /\ hiQ'[c] = hiQ[c] /\ view'[c] = view[c]
                   /\ synced'[c] = synced[c] /\ refused'[c] = refused[c] /\ gi'[c] = gi[c]
                \/ /\ hiQ'[c] = <<>> /\ view'[c] = Nothing
                   /\ synced'[c] = FALSE /\ gi'[c] = "idle"
    PROVE  ImageInv'
<1>0. Len(<<>>) = 0 /\ \A k : k \notin 1..0
  OBVIOUS
<1>1. SentInv'
  BY <1>0 DEF ImageInv, SentInv
<1>2. \A p : InHand(p)' <=> InHand(p)
  BY DEF InHand
<1>3. \A p : Coming(p)' <=> Coming(p)
  BY <1>2 DEF Coming
<1>4. LiveInv'
  BY <1>2 DEF ImageInv, LiveInv
<1>5. AnsweredInv'
  BY <1>0, <1>3 DEF ImageInv, AnsweredInv
<1>6. SeenInv'
  <2> SUFFICES ASSUME NEW c \in Conns, conn'[c] = "active", NEW p \in Points
               PROVE  \/ view'[c][p] = store'[p] \/ view'[c][p] = 0
                      \/ Has(hiQ'[c], "interrogated", p) \/ Coming(p)'
    BY DEF SeenInv
  <2>1. CASE view'[c] = Nothing
    BY <2>1 DEF Nothing
  <2>2. CASE conn[c] = "active" /\ hiQ'[c] = hiQ[c] /\ view'[c] = view[c]
    BY <1>3, <2>2 DEF ImageInv, SeenInv
  <2> QED BY <2>1, <2>2
<1>7. KnownInv'
  <2> SUFFICES ASSUME NEW c \in Conns, conn'[c] = "active", ~refused'[c], NEW p \in Points,
                      \/ synced'[c] \/ HasTerm(hiQ'[c]) \/ gi'[c] = "term"
                      \/ gi'[c] = "replay" /\ p \notin todo'[c]
               PROVE  \/ view'[c][p] # 0 \/ store'[p] = 0
                      \/ Has(hiQ'[c], "interrogated", p) \/ Coming(p)'
    BY DEF KnownInv
  <2>1. CASE hiQ'[c] = <<>> /\ synced'[c] = FALSE /\ gi'[c] = "idle"
    BY <1>0, <2>1 DEF HasTerm
  <2>2. CASE /\ conn[c] = "active" /\ hiQ'[c] = hiQ[c] /\ view'[c] = view[c]
             /\ synced'[c] = synced[c] /\ refused'[c] = refused[c] /\ gi'[c] = gi[c]
    BY <1>3, <2>2 DEF ImageInv, KnownInv
  <2> QED BY <2>1, <2>2
<1> QED BY <1>1, <1>4, <1>5, <1>6, <1>7 DEF ImageInv

\* Initially nothing is cached, queued or active.
LEMMA ImageInit == Init => ImageInv
BY DEF Init, ImageInv, OneActive, SentInv, LiveInv, AnsweredInv, SeenInv, KnownInv

\* The message in hand now differs from the cached value it replaces, and is
\* on its way to the master.
LEMMA ImageInsert == ASSUME TypeOK, ImageInv, Insert PROVE ImageInv'
<1>1. cur \in Messages /\ store \in [Points -> Nat] /\ todo \in [Conns -> SUBSET Points]
  BY DEF Insert, TypeOK
<1>2. cur.key \in Points /\ cur.id \in Nat /\ cur.id # 0
  BY <1>1 DEF Messages
<1>3. /\ UNCHANGED <<cur, lowQ, dropped, todo, hiQ, conn, view, synced, refused, gi>>
      /\ loop' = "dispatch" /\ loop = "insert"
      /\ store' = [store EXCEPT ![cur.key] = cur.id]
  BY DEF Insert, After, giVars, masterVars, queueVars, connVars
<1>4. /\ store'[cur.key] = cur.id
      /\ \A p \in Points : p # cur.key => store'[p] = store[p]
  BY <1>1, <1>2, <1>3
<1>5. \A p : InHand(p)' <=> p = cur.key
  BY <1>3 DEF InHand
<1>6. \A p : Coming(p) => Coming(p)'
  BY <1>3 DEF Coming, InHand
<1>7. \A p : p = cur.key => Coming(p)'
  BY <1>5 DEF Coming
<1>8. lowQ \in Seq(LiveAsdus)
  BY DEF TypeOK
<1>9. \A k \in 1..Len(lowQ) : lowQ[k].key \in Points
  <2>1. \A k \in 1..Len(lowQ) : lowQ[k] \in LiveAsdus
    BY <1>8, ElementOfSeq
  <2> QED BY <2>1 DEF LiveAsdus
<1>10. OneActive'
  BY <1>3 DEF ImageInv, OneActive
<1>11. SentInv'
  BY <1>1, <1>2, <1>3, <1>4 DEF ImageInv, SentInv
<1>12. LiveInv'
  <2> SUFFICES ASSUME NEW k \in 1..Len(lowQ), Newest(lowQ, k)
               PROVE  lowQ[k].id = store'[lowQ[k].key] \/ InHand(lowQ[k].key)'
    BY <1>3 DEF LiveInv
  <2>1. lowQ[k].key \in Points
    BY <1>9
  <2>2. lowQ[k].id = store[lowQ[k].key] \/ InHand(lowQ[k].key)
    BY DEF ImageInv, LiveInv
  <2> QED BY <1>3, <1>4, <1>5, <2>1, <2>2 DEF InHand
<1>13. AnsweredInv'
  <2> SUFFICES ASSUME NEW c \in Conns, conn[c] = "active", NEW k \in 1..Len(hiQ[c]),
                      hiQ[c][k].kind = "interrogated", Newest(hiQ[c], k)
               PROVE  hiQ[c][k].id = store'[hiQ[c][k].key] \/ Coming(hiQ[c][k].key)'
    BY <1>3 DEF AnsweredInv
  <2>1. hiQ[c][k].key \in Points
    BY DEF ImageInv, SentInv
  <2>2. hiQ[c][k].id = store[hiQ[c][k].key] \/ Coming(hiQ[c][k].key)
    BY DEF ImageInv, AnsweredInv
  <2> QED BY <1>3, <1>4, <1>6, <1>7, <2>1, <2>2
<1>14. SeenInv'
  BY <1>3, <1>4, <1>6, <1>7 DEF ImageInv, SeenInv
<1>15. KnownInv'
  BY <1>3, <1>4, <1>6, <1>7 DEF ImageInv, KnownInv
<1> QED BY <1>10, <1>11, <1>12, <1>13, <1>14, <1>15 DEF ImageInv

\* A live update joins the event queue: it is the newest of its point, the
\* others keep their place, and a displaced point is marked (EnqueueLow).
LEMMA EnqueueLowKeeps ==
    ASSUME TypeOK, NEW a \in LiveAsdus, EnqueueLow(a)
    PROVE  /\ \A p : Has(lowQ, "live", p) \/ p \in dropped
                        => Has(lowQ', "live", p) \/ p \in dropped'
           /\ Has(lowQ', "live", a.key)
           /\ \A k \in 1..Len(lowQ') : lowQ'[k] = a \/ \E i \in 1..Len(lowQ) : lowQ'[k] = lowQ[i]
           /\ \A k \in 1..Len(lowQ') : Newest(lowQ', k) =>
                \/ lowQ'[k] = a
                \/ \E i \in 1..Len(lowQ) :
                        Newest(lowQ, i) /\ lowQ'[k] = lowQ[i] /\ lowQ[i].key # a.key
<1>1. lowQ \in Seq(LiveAsdus) /\ Len(lowQ) \in Nat /\ Len(lowQ) <= QueueSize
  BY LenProperties DEF TypeOK
<1>2. \A x \in LiveAsdus : x.kind = "live"
  BY DEF LiveAsdus
<1>3. PICK r \in Seq(LiveAsdus) :
        /\ lowQ' = Append(r, a)
        /\ \A p : Has(lowQ, "live", p) \/ p \in dropped
                    => Has(r, "live", p) \/ p \in dropped' \/ p = a.key
        /\ \A k \in 1..Len(r) : \E i \in 1..Len(lowQ) :
                r[k] = lowQ[i] /\ (Newest(r, k) => Newest(lowQ, i))
  <2>1. CASE Len(lowQ) < QueueSize
    <3>1. lowQ' = Append(lowQ, a) /\ dropped' = dropped \ {a.key}
      BY <2>1 DEF EnqueueLow
    <3> QED BY <1>1, <3>1
  <2>2. CASE ~(Len(lowQ) < QueueSize)
    <3>1. lowQ' = Append(Tail(lowQ), a)
          /\ dropped' = (dropped \cup ({Head(lowQ).key} \ KeysIn(Tail(lowQ)))) \ {a.key}
      BY <2>2 DEF EnqueueLow
    <3>2. lowQ # <<>>
      BY <1>1, <2>2, BoundsAssumption
    <3>3. PICK r \in Seq(LiveAsdus) : r = Tail(lowQ)
      BY <1>1, <3>2, HeadTailProperties
    <3>4. \A p : Has(lowQ, "live", p) => Has(r, "live", p) \/ Head(lowQ).key = p
      BY <1>1, <3>2, <3>3, TailHas
    <3>5. \A p : p \in KeysIn(r) <=> Has(r, "live", p)
      BY LiveKeys
    <3>6. \A p : Has(lowQ, "live", p) \/ p \in dropped
                    => Has(r, "live", p) \/ p \in dropped' \/ p = a.key
      BY <3>1, <3>3, <3>4, <3>5
    <3>7. \A k \in 1..Len(r) : k + 1 \in 1..Len(lowQ) /\ r[k] = lowQ[k + 1]
                                /\ (Newest(r, k) => Newest(lowQ, k + 1))
      BY <1>1, <3>2, <3>3, TailNewest
    <3> QED BY <3>1, <3>3, <3>6, <3>7
  <2> QED BY <2>1, <2>2
<1>4. \A p : Has(lowQ', "live", p) <=> (Has(r, "live", p) \/ (a.kind = "live" /\ a.key = p))
  BY <1>3, AppendHas
<1>5. \A k \in 1..Len(lowQ') : Newest(lowQ', k) =>
        \/ lowQ'[k] = a
        \/ /\ k \in 1..Len(r) /\ lowQ'[k] = r[k] /\ Newest(r, k)
           /\ ~(a.kind = r[k].kind /\ a.key = r[k].key)
  BY <1>3, AppendNewest
<1>6. \A k \in 1..Len(r) : r[k].kind = a.kind
  <2>1. \A k \in 1..Len(r) : r[k] \in LiveAsdus
    BY ElementOfSeq
  <2> QED BY <1>2, <2>1
<1>7. \A k \in 1..Len(lowQ') : lowQ'[k] = a \/ (k \in 1..Len(r) /\ lowQ'[k] = r[k])
  <2>1. PICK n \in Nat : n = Len(r)
    BY LenProperties
  <2>2. Len(lowQ') = n + 1 /\ (\A i \in 1..n : lowQ'[i] = r[i]) /\ lowQ'[n + 1] = a
    BY <1>3, <2>1, AppendProperties
  <2>3. \A k : k \in 1..(n + 1) => k \in 1..n \/ k = n + 1
    OBVIOUS
  <2> QED BY <2>1, <2>2, <2>3
<1>8. a.kind = "live"
  BY <1>2
<1>9. \A k \in 1..Len(lowQ') : Newest(lowQ', k) =>
        \/ lowQ'[k] = a
        \/ \E i \in 1..Len(lowQ) : Newest(lowQ, i) /\ lowQ'[k] = lowQ[i] /\ lowQ[i].key # a.key
  <2> SUFFICES ASSUME NEW k \in 1..Len(lowQ'), Newest(lowQ', k), lowQ'[k] # a
               PROVE \E i \in 1..Len(lowQ) : Newest(lowQ, i) /\ lowQ'[k] = lowQ[i] /\ lowQ[i].key # a.key
    OBVIOUS
  <2>1. /\ k \in 1..Len(r) /\ lowQ'[k] = r[k] /\ Newest(r, k)
        /\ ~(a.kind = r[k].kind /\ a.key = r[k].key)
    BY <1>5
  <2>2. PICK i \in 1..Len(lowQ) : r[k] = lowQ[i] /\ (Newest(r, k) => Newest(lowQ, i))
    BY <1>3, <2>1
  <2> QED BY <1>6, <2>1, <2>2
<1>10. \A k \in 1..Len(lowQ') : lowQ'[k] = a \/ \E i \in 1..Len(lowQ) : lowQ'[k] = lowQ[i]
  BY <1>3, <1>7
<1>11. \A p : Has(lowQ, "live", p) \/ p \in dropped => Has(lowQ', "live", p) \/ p \in dropped'
  BY <1>3, <1>4, <1>8
<1>12. Has(lowQ', "live", a.key)
  BY <1>4, <1>8
<1> QED BY <1>9, <1>10, <1>11, <1>12

\* The message in hand becomes the newest live update of its point.
LEMMA ImageDispatch == ASSUME TypeOK, ImageInv, ~GiOnly, Dispatch PROVE ImageInv'
<1>1. cur \in Messages /\ loop = "dispatch" /\ loop' = "ack"
  BY DEF Dispatch, TypeOK, After
<1>2. cur.key \in Points /\ cur.id \in Nat /\ cur.id # 0 /\ store[cur.key] = cur.id
  BY <1>1 DEF Messages, ImageInv, SentInv
<1>3. PICK a \in LiveAsdus : a = Data("live", cur.key, cur.id)
  BY <1>2, AsduTypes
<1>4. a.key = cur.key /\ a.id = cur.id
  BY <1>3 DEF Data
<1>5. /\ UNCHANGED <<cur, store, todo, hiQ, conn, view, synced, refused, gi>>
      /\ EnqueueLow(a)
  BY <1>3 DEF Dispatch, storeVars, giVars, masterVars, connVars
<1>6. /\ \A p : Has(lowQ, "live", p) \/ p \in dropped
                        => Has(lowQ', "live", p) \/ p \in dropped'
      /\ Has(lowQ', "live", a.key)
      /\ \A k \in 1..Len(lowQ') : lowQ'[k] = a \/ \E i \in 1..Len(lowQ) : lowQ'[k] = lowQ[i]
      /\ \A k \in 1..Len(lowQ') : Newest(lowQ', k) =>
                \/ lowQ'[k] = a
                \/ \E i \in 1..Len(lowQ) :
                        Newest(lowQ, i) /\ lowQ'[k] = lowQ[i] /\ lowQ[i].key # a.key
  BY <1>5, EnqueueLowKeeps
<1>7. \A p : InHand(p) => p = cur.key
  BY DEF InHand
<1>8. \A p : Coming(p) => Coming(p)'
  BY <1>4, <1>6, <1>7 DEF Coming
<1>9. OneActive'
  BY <1>5 DEF ImageInv, OneActive
<1>10. SentInv'
  <2>1. \A k \in 1..Len(lowQ') : lowQ'[k].id # 0
    BY <1>2, <1>4, <1>6 DEF ImageInv, SentInv
  <2> QED BY <1>1, <1>5, <2>1 DEF ImageInv, SentInv
<1>11. LiveInv'
  <2> SUFFICES ASSUME NEW k \in 1..Len(lowQ'), Newest(lowQ', k)
               PROVE  lowQ'[k].id = store'[lowQ'[k].key]
    BY DEF LiveInv
  <2>1. CASE lowQ'[k] = a
    BY <1>2, <1>4, <1>5, <2>1
  <2>2. CASE \E i \in 1..Len(lowQ) : Newest(lowQ, i) /\ lowQ'[k] = lowQ[i] /\ lowQ[i].key # a.key
    BY <1>4, <1>5, <1>7, <2>2 DEF ImageInv, LiveInv
  <2> QED BY <1>6, <2>1, <2>2
<1>12. AnsweredInv'
  <2> SUFFICES ASSUME NEW c \in Conns, conn[c] = "active", NEW k \in 1..Len(hiQ[c]),
                      hiQ[c][k].kind = "interrogated", Newest(hiQ[c], k)
               PROVE  hiQ[c][k].id = store[hiQ[c][k].key] \/ Coming(hiQ[c][k].key)'
    BY <1>5 DEF AnsweredInv
  <2>1. hiQ[c][k].id = store[hiQ[c][k].key] \/ Coming(hiQ[c][k].key)
    BY DEF ImageInv, AnsweredInv
  <2> QED BY <1>5, <1>8, <2>1
<1>13. SeenInv'
  BY <1>5, <1>8 DEF ImageInv, SeenInv
<1>14. KnownInv'
  BY <1>5, <1>8 DEF ImageInv, KnownInv
<1> QED BY <1>9, <1>10, <1>11, <1>12, <1>13, <1>14 DEF ImageInv

\* A sink appends to the queue of its own active connection or marks the
\* refusal; no other queue is touched (SendTo).
LEMMA SendToKeeps ==
    ASSUME TypeOK, NEW c \in Conns, NEW a \in Asdus, SendTo(c, a)
    PROVE  /\ \A d \in Conns : d # c => hiQ'[d] = hiQ[d] /\ refused'[d] = refused[d]
           /\ \/ Accepts(c) /\ hiQ'[c] = Append(hiQ[c], a) /\ refused'[c] = refused[c]
              \/ ~Accepts(c) /\ hiQ'[c] = hiQ[c] /\ refused'[c] = TRUE
<1>1. hiQ \in [Conns -> Seq(Asdus)] /\ refused \in [Conns -> BOOLEAN]
  BY DEF TypeOK
<1>2. CASE Accepts(c)
  <2>1. hiQ' = [hiQ EXCEPT ![c] = Append(hiQ[c], a)] /\ refused' = refused
    BY <1>2 DEF SendTo
  <2> QED BY <1>1, <1>2, <2>1
<1>3. CASE ~Accepts(c)
  <2>1. refused' = [refused EXCEPT ![c] = TRUE] /\ hiQ' = hiQ
    BY <1>3 DEF SendTo
  <2> QED BY <1>1, <1>3, <2>1
<1> QED BY <1>2, <1>3

\* ACT_CON, its negative form and ACT_TERM change no value; ACT_TERM follows
\* a whole replay.
LEMMA ImageControl ==
    ASSUME TypeOK, ImageInv, NEW c \in Conns, NEW a \in Asdus, SendTo(c, a),
           a.kind # "interrogated", a.kind = "act_term" => gi[c] = "term",
           UNCHANGED <<store, loop, cur, lowQ, dropped, conn, view, synced, todo>>,
           \A d \in Conns : d # c => gi'[d] = gi[d],
           gi'[c] \in {"idle", "lock"}
    PROVE  ImageInv'
<1>1. /\ \A d \in Conns : d # c => hiQ'[d] = hiQ[d] /\ refused'[d] = refused[d]
      /\ \/ hiQ'[c] = Append(hiQ[c], a) /\ refused'[c] = refused[c]
         \/ hiQ'[c] = hiQ[c] /\ refused'[c] = TRUE
  BY SendToKeeps
<1>2. PICK q \in Seq(Asdus) : q = hiQ[c]
  BY DEF TypeOK
<1>3. /\ \A kind, p : Has(Append(q, a), kind, p) <=> (Has(q, kind, p) \/ (a.kind = kind /\ a.key = p))
      /\ HasTerm(Append(q, a)) <=> (HasTerm(q) \/ a.kind = "act_term")
  BY AppendHas
<1>4. \A d \in Conns, p \in Points :
        Has(hiQ'[d], "interrogated", p) <=> Has(hiQ[d], "interrogated", p)
  BY <1>1, <1>2, <1>3
<1>5. \A p : InHand(p)' <=> InHand(p)
  BY DEF InHand
<1>6. \A p : Coming(p)' <=> Coming(p)
  BY <1>5 DEF Coming
<1>7. \A k \in 1..Len(Append(q, a)) : Append(q, a)[k].kind = "interrogated" =>
        /\ k \in 1..Len(q) /\ Append(q, a)[k] = q[k]
        /\ Newest(Append(q, a), k) => Newest(q, k)
  <2>1. PICK n \in Nat : n = Len(q)
    BY LenProperties
  <2>2. PICK r : r = Append(q, a)
    OBVIOUS
  <2>3. Len(r) = n + 1 /\ (\A i \in 1..n : r[i] = q[i]) /\ r[n + 1] = a
    BY <2>1, <2>2, AppendProperties
  <2>4. \A k : k \in 1..(n + 1) => k \in 1..n \/ k = n + 1
    OBVIOUS
  <2>5. \A k \in 1..Len(r) : Newest(r, k) => r[k] = a \/ Newest(q, k)
    BY <2>2, AppendNewest
  <2> QED BY <2>1, <2>2, <2>3, <2>4, <2>5
<1>8. OneActive'
  BY DEF ImageInv, OneActive
<1>9. SentInv'
  <2>1. ASSUME NEW d \in Conns, NEW k \in 1..Len(hiQ'[d]), hiQ'[d][k].kind = "interrogated"
        PROVE  hiQ'[d][k].key \in Points /\ hiQ'[d][k].id # 0
    <3>1. k \in 1..Len(hiQ[d]) /\ hiQ'[d][k] = hiQ[d][k]
      BY <1>1, <1>2, <1>7, <2>1
    <3> QED BY <2>1, <3>1 DEF ImageInv, SentInv
  <2> QED BY <2>1 DEF ImageInv, SentInv
<1>10. LiveInv'
  BY <1>5 DEF ImageInv, LiveInv
<1>11. AnsweredInv'
  <2> SUFFICES ASSUME NEW d \in Conns, conn[d] = "active", NEW k \in 1..Len(hiQ'[d]),
                      hiQ'[d][k].kind = "interrogated", Newest(hiQ'[d], k)
               PROVE  hiQ'[d][k].id = store[hiQ'[d][k].key] \/ Coming(hiQ[d][k].key)'
    BY DEF AnsweredInv
  <2>1. k \in 1..Len(hiQ[d]) /\ hiQ'[d][k] = hiQ[d][k] /\ Newest(hiQ[d], k)
    BY <1>1, <1>2, <1>7
  <2>2. hiQ[d][k].id = store[hiQ[d][k].key] \/ Coming(hiQ[d][k].key)
    BY <2>1 DEF ImageInv, AnsweredInv
  <2> QED BY <1>6, <2>1, <2>2
<1>12. SeenInv'
  BY <1>4, <1>6 DEF ImageInv, SeenInv
<1>13. KnownInv'
  <2> SUFFICES ASSUME NEW d \in Conns, conn[d] = "active", ~refused'[d], NEW p \in Points,
                      \/ synced[d] \/ HasTerm(hiQ'[d]) \/ gi'[d] = "term"
                      \/ gi'[d] = "replay" /\ p \notin todo[d]
               PROVE  \/ view[d][p] # 0 \/ store[p] = 0
                      \/ Has(hiQ'[d], "interrogated", p) \/ Coming(p)'
    BY DEF KnownInv
  <2>1. /\ ~refused[d]
        /\ \/ synced[d] \/ HasTerm(hiQ[d]) \/ gi[d] = "term"
           \/ gi[d] = "replay" /\ p \notin todo[d]
    BY <1>1, <1>2, <1>3
  <2> QED BY <1>4, <1>6, <2>1 DEF ImageInv, KnownInv
<1> QED BY <1>8, <1>9, <1>10, <1>11, <1>12, <1>13 DEF ImageInv

\* A callback starts or ends its replay: at the start only the points that
\* are not cached need no answer.
LEMMA ImageLock ==
    ASSUME TypeOK, ImageInv, NEW c \in Conns, GiLock(c) \/ GiUnlock(c)
    PROVE  ImageInv'
<1>1. UNCHANGED <<store, loop, cur, lowQ, dropped, conn, view, synced, refused, hiQ>>
  BY DEF GiLock, GiUnlock, loopVars, masterVars, queueVars, connVars
<1>2. store \in [Points -> Nat] /\ gi \in [Conns -> GiStates] /\ todo \in [Conns -> SUBSET Points]
  BY DEF TypeOK
<1>3. \A d \in Conns : d # c => gi'[d] = gi[d] /\ todo'[d] = todo[d]
  BY <1>2 DEF GiLock, GiUnlock
<1>4. \/ gi'[c] = "replay" /\ todo'[c] = {p \in Points : store[p] # 0}
      \/ gi'[c] = "term" /\ gi[c] = "replay" /\ todo[c] = {} /\ todo'[c] = {}
  BY <1>2 DEF GiLock, GiUnlock
<1>5. \A p : Coming(p)' <=> Coming(p)
  BY <1>1 DEF Coming, InHand
<1>6. OneActive' /\ LiveInv'
  BY <1>1 DEF ImageInv, OneActive, LiveInv, InHand
<1>7. SentInv'
  <2>1. \A d \in Conns : \A p \in todo'[d] : store[p] # 0
    BY <1>3, <1>4 DEF ImageInv, SentInv
  <2> QED BY <1>1, <2>1 DEF ImageInv, SentInv
<1>8. AnsweredInv'
  BY <1>1, <1>5 DEF ImageInv, AnsweredInv
<1>9. SeenInv'
  BY <1>1, <1>5 DEF ImageInv, SeenInv
<1>10. KnownInv'
  <2> SUFFICES ASSUME NEW d \in Conns, conn[d] = "active", ~refused[d], NEW p \in Points,
                      \/ synced[d] \/ HasTerm(hiQ[d]) \/ gi'[d] = "term"
                      \/ gi'[d] = "replay" /\ p \notin todo'[d]
               PROVE  \/ view[d][p] # 0 \/ store[p] = 0
                      \/ Has(hiQ[d], "interrogated", p) \/ Coming(p)'
    BY <1>1 DEF KnownInv
  <2>1. CASE \/ synced[d] \/ HasTerm(hiQ[d]) \/ gi[d] = "term"
             \/ gi[d] = "replay" /\ p \notin todo[d]
    BY <1>5, <2>1 DEF ImageInv, KnownInv
  <2>2. CASE d = c /\ gi'[c] = "replay" /\ todo'[c] = {x \in Points : store[x] # 0} /\ p \notin todo'[c]
    BY <2>2
  <2> QED BY <1>3, <1>4, <2>1, <2>2
<1> QED BY <1>6, <1>7, <1>8, <1>9, <1>10 DEF ImageInv

\* A replayed value is the cached one and the newest of its queue, or the
\* connection has refused it.
LEMMA ImageReplay ==
    ASSUME TypeOK, ImageInv, NEW c \in Conns, NEW p \in Points, GiReplay(c, p)
    PROVE  ImageInv'
<1>1. /\ UNCHANGED <<store, loop, cur, lowQ, conn, view, synced, gi>>
      /\ p \in todo[c] /\ todo' = [todo EXCEPT ![c] = todo[c] \ {p}]
      /\ SendTo(c, Data("interrogated", p, store[p]))
      /\ dropped' = IF Accepts(c) THEN dropped \ {p} ELSE dropped
  BY DEF GiReplay, storeVars, loopVars, masterVars, connVars
<1>2. store[p] \in Nat /\ store[p] # 0 /\ todo \in [Conns -> SUBSET Points]
  BY <1>1 DEF TypeOK, ImageInv, SentInv
<1>3. PICK a \in Asdus : a = Data("interrogated", p, store[p])
  BY <1>2, AsduTypes
<1>4. a.kind = "interrogated" /\ a.key = p /\ a.id = store[p]
  BY <1>3 DEF Data
<1>5. PICK q \in Seq(Asdus) : q = hiQ[c]
  BY DEF TypeOK
<1>6. /\ \A d \in Conns : d # c => hiQ'[d] = hiQ[d] /\ refused'[d] = refused[d]
      /\ \/ Accepts(c) /\ hiQ'[c] = Append(q, a) /\ refused'[c] = refused[c]
         \/ ~Accepts(c) /\ hiQ'[c] = q /\ refused'[c] = TRUE
  BY <1>1, <1>3, <1>5, SendToKeeps
<1>7. /\ \A kind, x : Has(Append(q, a), kind, x) <=> (Has(q, kind, x) \/ (a.kind = kind /\ a.key = x))
      /\ HasTerm(Append(q, a)) <=> (HasTerm(q) \/ a.kind = "act_term")
  BY AppendHas
<1>8. \A x : InHand(x)' <=> InHand(x)
  BY <1>1 DEF InHand
<1>9. \A x : Coming(x) => Coming(x)' \/ (x = p /\ Accepts(c))
  BY <1>1, <1>8 DEF Coming
<1>10. \A d \in Conns : conn[d] = "active" /\ Accepts(c) => d = c
  BY DEF Accepts, ImageInv, OneActive
<1>11. \A d \in Conns : d # c => todo'[d] = todo[d]
  BY <1>1, <1>2
<1>12. todo'[c] = todo[c] \ {p}
  BY <1>1, <1>2
<1>13. OneActive'
  BY <1>1 DEF ImageInv, OneActive
<1>14. LiveInv'
  BY <1>1, <1>8 DEF ImageInv, LiveInv
<1>15. SentInv'
  <2>1. ASSUME NEW d \in Conns, NEW k \in 1..Len(hiQ'[d]), hiQ'[d][k].kind = "interrogated"
        PROVE  hiQ'[d][k].key \in Points /\ hiQ'[d][k].id # 0
    <3>1. hiQ'[d][k] = a \/ (k \in 1..Len(hiQ[d]) /\ hiQ'[d][k] = hiQ[d][k])
      <4>1. CASE d = c /\ hiQ'[c] = Append(q, a)
        <5>1. PICK n \in Nat : n = Len(q)
          BY LenProperties
        <5>2. PICK r : r = Append(q, a)
          OBVIOUS
        <5>3. Len(r) = n + 1 /\ (\A i \in 1..n : r[i] = q[i]) /\ r[n + 1] = a
          BY <5>1, <5>2, AppendProperties
        <5>4. \A i : i \in 1..(n + 1) => i \in 1..n \/ i = n + 1
          OBVIOUS
        <5> QED BY <1>5, <4>1, <5>1, <5>2, <5>3, <5>4
      <4>2. CASE hiQ'[d] = hiQ[d]
        BY <4>2
      <4> QED BY <1>5, <1>6, <4>1, <4>2
    <3> QED BY <1>2, <1>4, <2>1, <3>1 DEF ImageInv, SentInv
  <2>2. \A d \in Conns : \A x \in todo'[d] : store[x] # 0
    BY <1>11, <1>12 DEF ImageInv, SentInv
  <2> QED BY <1>1, <2>1, <2>2 DEF ImageInv, SentInv
<1>16. AnsweredInv'
  <2> SUFFICES ASSUME NEW d \in Conns, conn[d] = "active", NEW k \in 1..Len(hiQ'[d]),
                      hiQ'[d][k].kind = "interrogated", Newest(hiQ'[d], k)
               PROVE  hiQ'[d][k].id = store[hiQ'[d][k].key] \/ Coming(hiQ[d][k].key)'
    BY <1>1 DEF AnsweredInv
  <2>1. CASE hiQ'[d][k] = a
    BY <1>4, <2>1
  <2>2. CASE /\ k \in 1..Len(hiQ[d]) /\ hiQ'[d][k] = hiQ[d][k] /\ Newest(hiQ[d], k)
             /\ (Accepts(c) => hiQ[d][k].key # p)
    <3>1. PICK x : x = hiQ[d][k].key
      OBVIOUS
    <3>2. hiQ[d][k].id = store[x] \/ Coming(x)
      BY <2>2, <3>1 DEF ImageInv, AnsweredInv
    <3>3. hiQ[d][k].id = store[x] \/ Coming(x)'
      BY <1>9, <2>2, <3>1, <3>2
    <3> QED BY <2>2, <3>1, <3>3
  <2>3. CASE d = c /\ Accepts(c) /\ hiQ'[c] = Append(q, a)
    <3>1. \/ Append(q, a)[k] = a
          \/ /\ k \in 1..Len(q) /\ Append(q, a)[k] = q[k] /\ Newest(q, k)
             /\ ~(a.kind = q[k].kind /\ a.key = q[k].key)
      BY <2>3, AppendNewest
    <3> QED BY <1>4, <1>5, <2>1, <2>2, <2>3, <3>1
  <2>4. CASE ~Accepts(c) /\ hiQ'[d] = hiQ[d]
    BY <2>2, <2>4
  <2> QED BY <1>5, <1>6, <1>10, <2>3, <2>4
<1>17. SeenInv'
  <2> SUFFICES ASSUME NEW d \in Conns, conn[d] = "active", NEW x \in Points
               PROVE  \/ view[d][x] = store[x] \/ view[d][x] = 0
                      \/ Has(hiQ'[d], "interrogated", x) \/ Coming(x)'
    BY <1>1 DEF SeenInv
  <2>1. \/ view[d][x] = store[x] \/ view[d][x] = 0
        \/ Has(hiQ[d], "interrogated", x) \/ Coming(x)
    BY DEF ImageInv, SeenInv
  <2> QED BY <1>4, <1>5, <1>6, <1>7, <1>9, <1>10, <2>1
<1>18. KnownInv'
  <2> SUFFICES ASSUME NEW d \in Conns, conn[d] = "active", ~refused'[d], NEW x \in Points,
                      \/ synced[d] \/ HasTerm(hiQ'[d]) \/ gi[d] = "term"
                      \/ gi[d] = "replay" /\ x \notin todo'[d]
               PROVE  \/ view[d][x] # 0 \/ store[x] = 0
                      \/ Has(hiQ'[d], "interrogated", x) \/ Coming(x)'
    BY <1>1 DEF KnownInv
  <2>1. CASE d = c /\ x = p
    BY <1>4, <1>6, <1>7, <2>1
  <2>2. CASE ~(d = c /\ x = p)
    <3>1. /\ ~refused[d]
          /\ \/ synced[d] \/ HasTerm(hiQ[d]) \/ gi[d] = "term"
             \/ gi[d] = "replay" /\ x \notin todo[d]
      BY <1>4, <1>5, <1>6, <1>7, <1>11, <1>12, <2>2
    <3>2. \/ view[d][x] # 0 \/ store[x] = 0
          \/ Has(hiQ[d], "interrogated", x) \/ Coming(x)
      BY <3>1 DEF ImageInv, KnownInv
    <3> QED BY <1>5, <1>6, <1>7, <1>9, <1>10, <2>2, <3>2
  <2> QED BY <2>1, <2>2
<1> QED BY <1>13, <1>14, <1>15, <1>16, <1>17, <1>18 DEF ImageInv

\* The master takes the first ASDU of its queue: a value it now has is the
\* cached one, unless a later ASDU of a queue corrects it.
LEMMA ImageHigh ==
    ASSUME TypeOK, ImageInv, NEW c \in Conns, DeliverHigh(c)
    PROVE  ImageInv'
<1>1. PICK q \in Seq(Asdus) : q = hiQ[c]
  BY DEF TypeOK
<1>2. q # <<>> /\ conn[c] = "active"
  BY <1>1 DEF DeliverHigh
<1>3. PICK r, a : r = Tail(q) /\ a = Head(q)
  OBVIOUS
<1>4. /\ UNCHANGED <<store, loop, cur, lowQ, dropped, conn, refused, gi, todo>>
      /\ hiQ' = [hiQ EXCEPT ![c] = r]
      /\ view' = IF a.kind = "interrogated" THEN [view EXCEPT ![c][a.key] = a.id] ELSE view
      /\ synced' = [synced EXCEPT ![c] = synced[c] \/ (open[c] /\ a.kind = "act_term")]
  BY <1>1, <1>3 DEF DeliverHigh, storeVars, loopVars, giVars, connVars
<1>5. /\ \A kind, p : Has(q, kind, p) <=> (Has(r, kind, p) \/ (a.kind = kind /\ a.key = p))
      /\ HasTerm(q) <=> (HasTerm(r) \/ a.kind = "act_term")
  BY <1>2, <1>3, TailHas
<1>6. /\ \A k \in 1..Len(r) : k + 1 \in 1..Len(q) /\ r[k] = q[k + 1]
                                /\ (Newest(r, k) => Newest(q, k + 1))
      /\ 1 \in 1..Len(q) /\ a = q[1]
      /\ Newest(q, 1) \/ Has(r, a.kind, a.key)
  BY <1>2, <1>3, TailNewest
<1>7. hiQ \in [Conns -> Seq(Asdus)] /\ view \in [Conns -> [Points -> Nat]] /\ synced \in [Conns -> BOOLEAN]
  BY DEF TypeOK
<1>8. /\ hiQ'[c] = r /\ \A d \in Conns : d # c => hiQ'[d] = hiQ[d]
      /\ synced'[c] = (synced[c] \/ (open[c] /\ a.kind = "act_term"))
  BY <1>4, <1>7
<1>9. a.kind = "interrogated" =>
        /\ a.key \in Points /\ a.id # 0
        /\ a.id = store[a.key] \/ Has(r, "interrogated", a.key) \/ Coming(a.key)
  <2> SUFFICES ASSUME a.kind = "interrogated"
               PROVE  /\ a.key \in Points /\ a.id # 0
                      /\ a.id = store[a.key] \/ Has(r, "interrogated", a.key) \/ Coming(a.key)
    OBVIOUS
  <2>1. a.key \in Points /\ a.id # 0
    BY <1>1, <1>6 DEF ImageInv, SentInv
  <2>2. CASE Newest(q, 1)
    BY <1>1, <1>2, <1>6, <2>1, <2>2 DEF ImageInv, AnsweredInv
  <2> QED BY <1>6, <2>1, <2>2
<1>10. \A p \in Points :
        view'[c][p] = IF a.kind = "interrogated" /\ a.key = p THEN a.id ELSE view[c][p]
  BY <1>4, <1>7, <1>9
<1>11. \A d \in Conns : conn[d] = "active" => d = c
  BY <1>2 DEF ImageInv, OneActive
<1>12. \A p : InHand(p)' <=> InHand(p)
  BY <1>4 DEF InHand
<1>13. \A p : Coming(p)' <=> Coming(p)
  BY <1>4, <1>12 DEF Coming
<1>14. OneActive'
  BY <1>4 DEF ImageInv, OneActive
<1>15. LiveInv'
  BY <1>4, <1>12 DEF ImageInv, LiveInv
<1>16. SentInv'
  <2>1. ASSUME NEW d \in Conns, NEW k \in 1..Len(hiQ'[d]), hiQ'[d][k].kind = "interrogated"
        PROVE  hiQ'[d][k].key \in Points /\ hiQ'[d][k].id # 0
    <3>1. CASE d = c
      <4>1. k + 1 \in 1..Len(q) /\ hiQ'[d][k] = q[k + 1]
        BY <1>6, <1>8, <3>1
      <4> QED BY <1>1, <2>1, <3>1, <4>1 DEF ImageInv, SentInv
    <3>2. CASE d # c
      BY <1>8, <2>1, <3>2 DEF ImageInv, SentInv
    <3> QED BY <3>1, <3>2
  <2> QED BY <1>4, <2>1 DEF ImageInv, SentInv
<1>17. AnsweredInv'
  <2> SUFFICES ASSUME NEW k \in 1..Len(r), r[k].kind = "interrogated", Newest(r, k)
               PROVE  r[k].id = store[r[k].key] \/ Coming(r[k].key)
    BY <1>4, <1>8, <1>11, <1>13 DEF AnsweredInv
  <2>1. k + 1 \in 1..Len(q) /\ r[k] = q[k + 1] /\ Newest(q, k + 1)
    BY <1>6
  <2> QED BY <1>1, <1>2, <2>1 DEF ImageInv, AnsweredInv
<1>18. SeenInv'
  <2> SUFFICES ASSUME NEW p \in Points
               PROVE  \/ view'[c][p] = store[p] \/ view'[c][p] = 0
                      \/ Has(r, "interrogated", p) \/ Coming(p)
    BY <1>4, <1>8, <1>11, <1>13 DEF SeenInv
  <2>1. \/ view[c][p] = store[p] \/ view[c][p] = 0
        \/ Has(q, "interrogated", p) \/ Coming(p)
    BY <1>1, <1>2 DEF ImageInv, SeenInv
  <2>2. CASE a.kind = "interrogated" /\ a.key = p
    BY <1>9, <1>10, <2>2
  <2>3. CASE ~(a.kind = "interrogated" /\ a.key = p)
    BY <1>5, <1>10, <2>1, <2>3
  <2> QED BY <2>2, <2>3
<1>19. KnownInv'
  <2> SUFFICES ASSUME ~refused[c], NEW p \in Points,
                      \/ synced'[c] \/ HasTerm(r) \/ gi[c] = "term"
                      \/ gi[c] = "replay" /\ p \notin todo[c]
               PROVE  \/ view'[c][p] # 0 \/ store[p] = 0
                      \/ Has(r, "interrogated", p) \/ Coming(p)
    BY <1>4, <1>8, <1>11, <1>13 DEF KnownInv
  <2>1. \/ synced[c] \/ HasTerm(q) \/ gi[c] = "term"
        \/ gi[c] = "replay" /\ p \notin todo[c]
    BY <1>5, <1>8
  <2>2. \/ view[c][p] # 0 \/ store[p] = 0
        \/ Has(q, "interrogated", p) \/ Coming(p)
    BY <1>1, <1>2, <2>1 DEF ImageInv, KnownInv
  <2> QED BY <1>5, <1>9, <1>10, <2>2
<1> QED BY <1>14, <1>15, <1>16, <1>17, <1>18, <1>19 DEF ImageInv

\* The master takes a live update: the cached value, unless a later one is
\* still queued or in hand.
LEMMA ImageLow ==
    ASSUME TypeOK, ImageInv, NEW c \in Conns, DeliverLow(c)
    PROVE  ImageInv'
<1>1. PICK q \in Seq(LiveAsdus) : q = lowQ
  BY DEF TypeOK
<1>2. q # <<>> /\ conn[c] = "active" /\ hiQ[c] = <<>>
  BY <1>1 DEF DeliverLow
<1>3. PICK r, a : r = Tail(q) /\ a = Head(q)
  OBVIOUS
<1>4. /\ UNCHANGED <<store, loop, cur, dropped, conn, refused, gi, todo, hiQ, synced>>
      /\ lowQ' = r /\ view' = [view EXCEPT ![c][a.key] = a.id]
  BY <1>1, <1>3 DEF DeliverLow, storeVars, loopVars, giVars, connVars
<1>5. \A p : Has(q, "live", p) => Has(r, "live", p) \/ a.key = p
  BY <1>2, <1>3, TailHas
<1>6. /\ \A k \in 1..Len(r) : k + 1 \in 1..Len(q) /\ r[k] = q[k + 1]
                                /\ (Newest(r, k) => Newest(q, k + 1))
      /\ 1 \in 1..Len(q) /\ a = q[1]
      /\ Newest(q, 1) \/ Has(r, a.kind, a.key)
  BY <1>2, <1>3, TailNewest
<1>7. a \in LiveAsdus
  BY <1>2, <1>3, HeadTailProperties
<1>8. a.kind = "live" /\ a.key \in Points
  BY <1>7 DEF LiveAsdus
<1>9. a.id # 0
  BY <1>1, <1>6 DEF ImageInv, SentInv
<1>10. \A p : InHand(p)' <=> InHand(p)
  BY <1>4 DEF InHand
<1>11. \A p : Coming(p) => Coming(p)' \/ p = a.key
  BY <1>1, <1>4, <1>5, <1>10 DEF Coming
<1>12. \A p : p = a.key => a.id = store[p] \/ Coming(p)'
  <2>1. CASE Newest(q, 1)
    <3>1. a.id = store[a.key] \/ InHand(a.key)
      BY <1>1, <1>6, <2>1 DEF ImageInv, LiveInv
    <3> QED BY <1>10, <3>1 DEF Coming
  <2>2. CASE Has(r, a.kind, a.key)
    BY <1>4, <1>8, <2>2 DEF Coming
  <2> QED BY <1>6, <2>1, <2>2
<1>13. \A p \in Points : view'[c][p] = IF a.key = p THEN a.id ELSE view[c][p]
  <2>1. view \in [Conns -> [Points -> Nat]]
    BY DEF TypeOK
  <2> QED BY <1>4, <1>8, <2>1
<1>14. \A d \in Conns : conn[d] = "active" => d = c
  BY <1>2 DEF ImageInv, OneActive
<1>15. OneActive'
  BY <1>4 DEF ImageInv, OneActive
<1>16. SentInv'
  <2>1. \A k \in 1..Len(r) : r[k].id # 0
    BY <1>1, <1>6 DEF ImageInv, SentInv
  <2> QED BY <1>4, <2>1 DEF ImageInv, SentInv
<1>17. LiveInv'
  <2> SUFFICES ASSUME NEW k \in 1..Len(r), Newest(r, k)
               PROVE  r[k].id = store[r[k].key] \/ InHand(r[k].key)
    BY <1>4, <1>10 DEF LiveInv
  <2>1. k + 1 \in 1..Len(q) /\ r[k] = q[k + 1] /\ Newest(q, k + 1)
    BY <1>6
  <2> QED BY <1>1, <2>1 DEF ImageInv, LiveInv
<1>18. AnsweredInv'
  <2>1. Len(<<>>) = 0 /\ \A k : k \notin 1..0
    OBVIOUS
  <2> QED BY <1>2, <1>4, <1>14, <2>1 DEF AnsweredInv
<1>19. SeenInv'
  <2> SUFFICES ASSUME NEW p \in Points
               PROVE  \/ view'[c][p] = store[p] \/ view'[c][p] = 0
                      \/ Has(hiQ[c], "interrogated", p) \/ Coming(p)'
    BY <1>4, <1>14 DEF SeenInv
  <2>1. \/ view[c][p] = store[p] \/ view[c][p] = 0
        \/ Has(hiQ[c], "interrogated", p) \/ Coming(p)
    BY <1>2 DEF ImageInv, SeenInv
  <2> QED BY <1>11, <1>12, <1>13, <2>1
<1>20. KnownInv'
  <2> SUFFICES ASSUME ~refused[c], NEW p \in Points,
                      \/ synced[c] \/ HasTerm(hiQ[c]) \/ gi[c] = "term"
                      \/ gi[c] = "replay" /\ p \notin todo[c]
               PROVE  \/ view'[c][p] # 0 \/ store[p] = 0
                      \/ Has(hiQ[c], "interrogated", p) \/ Coming(p)'
    BY <1>4, <1>14 DEF KnownInv
  <2>1. \/ view[c][p] # 0 \/ store[p] = 0
        \/ Has(hiQ[c], "interrogated", p) \/ Coming(p)
    BY <1>2 DEF ImageInv, KnownInv
  <2> QED BY <1>9, <1>11, <1>12, <1>13, <2>1
<1> QED BY <1>15, <1>16, <1>17, <1>18, <1>19, <1>20 DEF ImageInv

\* A step that leaves what the invariant reads alone but for the loop's place.
LEMMA ImageFrame ==
    ASSUME ImageInv,
           UNCHANGED <<store, lowQ, dropped, todo, hiQ, conn, view, synced, refused, gi>>,
           UNCHANGED <<loop, cur>> \/ (loop # "dispatch" /\ loop' # "dispatch")
    PROVE  ImageInv'
<1>1. OneActive'
  BY DEF ImageInv, OneActive
<1> QED BY <1>1, ImageKept

\* Connections that come, go, start and fail over: one that starts knows
\* nothing yet, and at most one is active.
LEMMA ImageLink ==
    ASSUME TypeOK, ImageInv, NEW c \in Conns, Connect(c) \/ StartDT(c) \/ Disconnect(c)
    PROVE  ImageInv'
<1>1. /\ conn \in [Conns -> {"closed", "open", "active"}] /\ hiQ \in [Conns -> Seq(Asdus)]
      /\ view \in [Conns -> [Points -> Nat]] /\ synced \in [Conns -> BOOLEAN]
      /\ refused \in [Conns -> BOOLEAN]
  BY DEF TypeOK
<1>2. UNCHANGED <<store, lowQ, dropped, todo, loop, cur, gi>>
  BY DEF Connect, StartDT, Disconnect, storeVars, loopVars, giVars, queueVars
<1>3. CASE Connect(c)
  <2>1. UNCHANGED <<hiQ, view, synced, refused>> /\ conn' = [conn EXCEPT ![c] = "open"]
    BY <1>3 DEF Connect, masterVars, queueVars
  <2>2. \A d \in Conns : conn'[d] = "active" => conn[d] = "active"
    BY <1>1, <2>1
  <2>3. OneActive'
    BY <2>2 DEF ImageInv, OneActive
  <2> QED BY <1>2, <2>1, <2>2, <2>3, ImageKept
<1>4. CASE StartDT(c)
  <2>1. /\ gi[c] = "idle"
        /\ \A d \in Conns : /\ conn'[d] = "active" => d = c
                            /\ hiQ'[d] = <<>> /\ view'[d] = Nothing /\ synced'[d] = FALSE
    BY <1>4 DEF StartDT, ForgetAll
  <2>2. OneActive'
    BY <2>1 DEF OneActive
  <2> QED BY <1>2, <2>1, <2>2, ImageKept
<1>5. CASE Disconnect(c)
  <2>1. conn' = [conn EXCEPT ![c] = "closed"] /\ Forget(c)
    BY <1>5 DEF Disconnect
  <2>2. /\ hiQ'[c] = <<>> /\ conn'[c] = "closed"
        /\ \A d \in Conns : d # c =>
            /\ conn'[d] = conn[d] /\ hiQ'[d] = hiQ[d] /\ view'[d] = view[d]
            /\ synced'[d] = synced[d] /\ refused'[d] = refused[d]
    BY <1>1, <2>1 DEF Forget
  <2>3. OneActive'
    BY <2>2 DEF ImageInv, OneActive
  <2> QED BY <1>2, <2>2, <2>3, ImageKept
<1> QED BY <1>3, <1>4, <1>5

\* Every step of a connection, of its callback or of its master.
LEMMA ImageConn ==
    ASSUME TypeOK, ImageInv, NEW c \in Conns, ConnNext(c)
    PROVE  ImageInv'
<1>1. CASE GiLock(c) \/ GiUnlock(c)
  BY <1>1, ImageLock
<1>2. ASSUME NEW p \in Points, GiReplay(c, p) PROVE ImageInv'
  BY <1>2, ImageReplay
<1>3. CASE GiTerm(c) \/ StationInterrogation(c) \/ GroupInterrogation(c)
  <2>1. gi \in [Conns -> GiStates]
    BY DEF TypeOK
  <2>2. PICK kind \in {"act_term", "act_con", "neg_con"} :
            /\ SendTo(c, Control(kind)) /\ (kind = "act_term" => gi[c] = "term")
            /\ gi'[c] \in {"idle", "lock"} /\ \A d \in Conns : d # c => gi'[d] = gi[d]
    BY <1>3, <2>1 DEF GiTerm, StationInterrogation, GroupInterrogation
  <2>3. PICK a \in Asdus : a = Control(kind)
    BY ControlTypes DEF Kinds
  <2>4. a.kind = kind
    BY <2>3 DEF Control
  <2>5. UNCHANGED <<store, loop, cur, lowQ, dropped, conn, view, synced, todo>>
    BY <1>3 DEF GiTerm, StationInterrogation, GroupInterrogation, storeVars, loopVars,
                masterVars, connVars
  <2> QED BY <2>2, <2>3, <2>4, <2>5, ImageControl
<1>4. CASE Connect(c) \/ StartDT(c) \/ Disconnect(c)
  BY <1>4, ImageLink
<1>5. CASE DeliverHigh(c)
  BY <1>5, ImageHigh
<1>6. CASE DeliverLow(c)
  BY <1>6, ImageLow
<1> QED BY <1>1, <1>2, <1>3, <1>4, <1>5, <1>6 DEF ConnNext, GiStep

\* A message received from any source is not yet anyone's.
LEMMA ImageReceive == ASSUME ImageInv, NEW m, Receive(m) PROVE ImageInv'
BY ImageFrame DEF Receive, After, storeVars, giVars, masterVars, queueVars, connVars

\* Every step of the message loop and of the shutdown.
LEMMA ImageLoop == ASSUME TypeOK, ImageInv, ~GiOnly, LoopNext PROVE ImageInv'
<1>1. CASE Insert
  BY <1>1, ImageInsert
<1>2. CASE Dispatch
  BY <1>2, ImageDispatch
<1>3. CASE AckOk \/ AckFails \/ SourceEnds \/ SourceRebuilt \/ CtrlC
  BY <1>3, ImageFrame DEF AckOk, AckFails, SourceEnds, SourceRebuilt, CtrlC, After,
     storeVars, giVars, masterVars, queueVars, connVars
<1>4. CASE Stopped
  <2>1. /\ UNCHANGED <<store, lowQ, dropped, todo>> /\ loop # "dispatch" /\ loop' # "dispatch"
        /\ \A c \in Conns : conn'[c] = "closed" /\ hiQ'[c] = <<>>
    BY <1>4 DEF Stopped, ForgetAll, storeVars, giVars
  <2>2. OneActive'
    BY <2>1 DEF OneActive
  <2> QED BY <2>1, <2>2, ImageKept
<1> QED BY <1>1, <1>2, <1>3, <1>4 DEF LoopNext, LoopStep

\* The inductive step: without GI-only mode every step keeps the image.
LEMMA ImageStep == TypeOK /\ (GiOnly \/ ImageInv) /\ [Next]_vars => (GiOnly \/ ImageInv)'
<1> SUFFICES ASSUME TypeOK, ImageInv, ~GiOnly, [Next]_vars PROVE ImageInv'
  OBVIOUS
<1>1. CASE ReceiveFresh
  BY <1>1, ImageReceive DEF ReceiveFresh
<1>2. CASE LoopNext
  BY <1>2, ImageLoop
<1>3. ASSUME NEW c \in Conns, ConnNext(c) PROVE ImageInv'
  BY <1>3, ImageConn
<1>4. CASE UNCHANGED vars
  BY <1>4, ImageFrame DEF vars, storeVars, loopVars, giVars, masterVars, queueVars, connVars
<1> QED BY <1>1, <1>2, <1>3, <1>4 DEF Next, Terminated

\* With both queues drained, what could still correct the image is what was
\* displaced and what is in hand.
LEMMA ImageConverges == GiOnly \/ ImageInv => MasterImageConverges
<1> SUFFICES ASSUME ImageInv, NEW c \in Conns, Drained(c), NEW p \in Points
             PROVE  \/ view[c][p] = store[p]
                    \/ view[c][p] = 0 /\ (~synced[c] \/ refused[c])
                    \/ p \in dropped \/ InHand(p)
  BY DEF MasterImageConverges
<1>1. conn[c] = "active" /\ hiQ[c] = <<>> /\ lowQ = <<>>
  BY DEF Drained
<1>2. ~Has(<<>>, "interrogated", p) /\ ~Has(<<>>, "live", p)
  BY DEF Has
<1>3. Coming(p) => p \in dropped \/ InHand(p)
  BY <1>1, <1>2 DEF Coming
<1>4. view[c][p] = store[p] \/ view[c][p] = 0 \/ Coming(p)
  BY <1>1, <1>2 DEF ImageInv, SeenInv
<1>5. synced[c] /\ ~refused[c] => view[c][p] # 0 \/ store[p] = 0 \/ Coming(p)
  BY <1>1, <1>2 DEF ImageInv, KnownInv
<1> QED BY <1>3, <1>4, <1>5

\* The active master ends with the cached values but for what a full queue
\* displaced or refused, however interrogations, live updates and failovers
\* interleave (handle_incoming_message, install_interrogation_handler).
THEOREM ImageIsCurrent == Spec => []MasterImageConverges
<1>1. Init => GiOnly \/ ImageInv
  BY ImageInit
<1> QED BY <1>1, TypeInit, TypeStep, ImageStep, ImageConverges, PTL DEF Spec

-----------------------------------------------------------------------------
(* The frame of an interrogation.                                          *)

\* A master that is between ACT_CON and ACT_TERM (o), or not, is between the
\* two once it has seen the first k - 1 ASDUs of q.
OpenBefore(o, q, k) ==
    \/ o /\ \A j \in 1..(k - 1) : q[j].kind # "act_term"
    \/ \E i \in 1..(k - 1) : /\ q[i].kind = "act_con"
                             /\ \A j \in (i + 1)..(k - 1) : q[j].kind # "act_term"

\* Unless something was refused, every part of an interrogation lies within
\* its frame, and a callback that runs has opened it.
FrameInv ==
    \A c \in Conns : conn[c] = "active" /\ ~refused[c] =>
        /\ \A k \in 1..Len(hiQ[c]) : hiQ[c][k].kind \in {"interrogated", "act_term"} =>
                OpenBefore(open[c], hiQ[c], k)
        /\ gi[c] # "idle" => OpenBefore(open[c], hiQ[c], Len(hiQ[c]) + 1)

\* One more ASDU leaves the frame of those before it alone; it opens a frame
\* or leaves the one it is in open, unless it is ACT_TERM.
LEMMA AppendFrame ==
    ASSUME NEW S, NEW q \in Seq(S), NEW a \in S, NEW o
    PROVE  /\ \A k \in 1..(Len(q) + 1) : OpenBefore(o, q, k) => OpenBefore(o, Append(q, a), k)
           /\ a.kind = "act_con" \/ (a.kind # "act_term" /\ OpenBefore(o, q, Len(q) + 1))
                => OpenBefore(o, Append(q, a), Len(Append(q, a)) + 1)
<1>1. PICK n \in Nat : n = Len(q)
  BY LenProperties
<1>2. PICK r : r = Append(q, a)
  OBVIOUS
<1>3. Len(r) = n + 1 /\ (\A i \in 1..n : r[i] = q[i]) /\ r[n + 1] = a
  BY <1>1, <1>2, AppendProperties
<1>4. ASSUME NEW k \in 1..(n + 1), OpenBefore(o, q, k) PROVE OpenBefore(o, r, k)
  <2>1. \A i \in 1..(k - 1) : r[i] = q[i]
    BY <1>3
  <2>2. \A i \in 1..(k - 1) : \A j \in (i + 1)..(k - 1) : j \in 1..(k - 1)
    OBVIOUS
  <2> QED BY <1>4, <2>1, <2>2 DEF OpenBefore
<1>5. (n + 2) - 1 = n + 1 /\ (n + 1) - 1 = n /\ (n + 1) + 1 = n + 2
  OBVIOUS
<1>6. ASSUME a.kind = "act_con" PROVE OpenBefore(o, r, n + 2)
  <2>1. n + 1 \in 1..(n + 1) /\ \A j : j \notin ((n + 1) + 1)..(n + 1)
    OBVIOUS
  <2> QED BY <1>3, <1>5, <1>6, <2>1 DEF OpenBefore
<1>7. ASSUME a.kind # "act_term", OpenBefore(o, q, n + 1) PROVE OpenBefore(o, r, n + 2)
  <2>1. \A j : j \in 1..(n + 1) => j \in 1..n \/ j = n + 1
    OBVIOUS
  <2>2. CASE o /\ \A j \in 1..n : q[j].kind # "act_term"
    <3>1. \A j \in 1..(n + 1) : r[j].kind # "act_term"
      BY <1>3, <1>7, <2>1, <2>2
    <3> QED BY <1>5, <2>2, <3>1 DEF OpenBefore
  <2>3. ASSUME NEW i \in 1..n, q[i].kind = "act_con", \A j \in (i + 1)..n : q[j].kind # "act_term"
        PROVE  OpenBefore(o, r, n + 2)
    <3>1. i \in 1..(n + 1) /\ r[i].kind = "act_con"
      BY <1>3, <2>3
    <3>2. ASSUME NEW j \in (i + 1)..(n + 1) PROVE r[j].kind # "act_term"
      <4>1. j = n + 1 \/ (j \in (i + 1)..n /\ j \in 1..n)
        OBVIOUS
      <4> QED BY <1>3, <1>7, <2>3, <4>1
    <3> QED BY <1>5, <3>1, <3>2 DEF OpenBefore
  <2> QED BY <1>5, <1>7, <2>2, <2>3 DEF OpenBefore
<1> QED BY <1>1, <1>2, <1>3, <1>4, <1>5, <1>6, <1>7

\* Once the master has seen the first ASDU, the others are in the same frame.
LEMMA TailFrame ==
    ASSUME NEW S, NEW q \in Seq(S), q # <<>>, NEW o, NEW k \in 1..Len(q),
           OpenBefore(o, q, k + 1)
    PROVE  OpenBefore(Head(q).kind = "act_con" \/ (o /\ Head(q).kind # "act_term"), Tail(q), k)
<1>1. PICK n \in Nat : n = Len(q)
  BY LenProperties
<1>2. PICK r : r = Tail(q)
  OBVIOUS
<1>3. n # 0 /\ Len(r) = n - 1 /\ (\A i \in 1..(n - 1) : r[i] = q[i + 1]) /\ Head(q) = q[1]
  BY <1>1, <1>2, HeadTailProperties, EmptySeq
<1>4. (k + 1) - 1 = k /\ k \in 1..n /\ 1 \in 1..k
  BY <1>1
<1>5. \A i \in 1..(k - 1) : r[i] = q[i + 1] /\ i + 1 \in 1..k
  BY <1>3, <1>4
<1>6. PICK b : b = (q[1].kind = "act_con" \/ (o /\ q[1].kind # "act_term"))
  OBVIOUS
<1>7. CASE o /\ \A j \in 1..k : q[j].kind # "act_term"
  <2>1. b /\ \A j \in 1..(k - 1) : r[j].kind # "act_term"
    BY <1>4, <1>5, <1>6, <1>7
  <2> QED BY <1>2, <1>3, <1>6, <2>1 DEF OpenBefore
<1>8. ASSUME NEW i \in 1..k, q[i].kind = "act_con", \A j \in (i + 1)..k : q[j].kind # "act_term"
      PROVE  OpenBefore(b, r, k)
  <2>1. CASE i = 1
    <3>1. b
      BY <1>6, <1>8, <2>1
    <3>2. \A j \in 1..(k - 1) : j + 1 \in (i + 1)..k
      BY <2>1
    <3>3. \A j \in 1..(k - 1) : r[j].kind # "act_term"
      BY <1>5, <1>8, <3>2
    <3> QED BY <3>1, <3>3 DEF OpenBefore
  <2>2. CASE i # 1
    <3>1. PICK h \in 1..(k - 1) : h + 1 = i
      BY <1>4, <2>2
    <3>2. r[h].kind = "act_con"
      BY <1>5, <1>8, <3>1
    <3>3. ASSUME NEW j \in (h + 1)..(k - 1) PROVE r[j].kind # "act_term"
      <4>1. j \in 1..(k - 1) /\ j + 1 \in (i + 1)..k
        BY <3>1
      <4> QED BY <1>5, <1>8, <4>1
    <3> QED BY <3>2, <3>3 DEF OpenBefore
  <2> QED BY <2>1, <2>2
<1> QED BY <1>2, <1>3, <1>4, <1>6, <1>7, <1>8 DEF OpenBefore

\* Steps that leave the connection as it was, or just started.
LEMMA FrameKept ==
    ASSUME FrameInv,
           \A c \in Conns : conn'[c] = "active" /\ ~refused'[c] =>
                \/ /\ conn[c] = "active" /\ ~refused[c] /\ hiQ'[c] = hiQ[c] /\ open'[c] = open[c]
                   /\ gi[c] = "idle" => gi'[c] = "idle"
                \/ hiQ'[c] = <<>> /\ gi'[c] = "idle"
    PROVE  FrameInv'
<1>0. Len(<<>>) = 0 /\ \A k : k \notin 1..0
  OBVIOUS
<1> SUFFICES ASSUME NEW c \in Conns, conn'[c] = "active", ~refused'[c]
             PROVE  /\ \A k \in 1..Len(hiQ'[c]) : hiQ'[c][k].kind \in {"interrogated", "act_term"} =>
                            OpenBefore(open'[c], hiQ'[c], k)
                    /\ gi'[c] # "idle" => OpenBefore(open'[c], hiQ'[c], Len(hiQ'[c]) + 1)
  BY DEF FrameInv
<1>1. CASE hiQ'[c] = <<>> /\ gi'[c] = "idle"
  BY <1>0, <1>1
<1>2. CASE /\ conn[c] = "active" /\ ~refused[c] /\ hiQ'[c] = hiQ[c] /\ open'[c] = open[c]
           /\ gi[c] = "idle" => gi'[c] = "idle"
  BY <1>2 DEF FrameInv
<1> QED BY <1>1, <1>2

\* What the callback sends opens the frame, or lies within it.
LEMMA FrameSend ==
    ASSUME TypeOK, FrameInv, NEW c \in Conns, NEW a \in Asdus, SendTo(c, a),
           UNCHANGED <<conn, open>>,
           \A d \in Conns : d # c => gi'[d] = gi[d],
           \/ a.kind = "act_con"
           \/ a.kind = "neg_con" /\ gi'[c] = "idle"
           \/ a.kind = "interrogated" /\ gi[c] # "idle"
           \/ a.kind = "act_term" /\ gi[c] # "idle" /\ gi'[c] = "idle"
    PROVE  FrameInv'
<1>1. PICK q \in Seq(Asdus) : q = hiQ[c]
  BY DEF TypeOK
<1>2. /\ \A d \in Conns : d # c => hiQ'[d] = hiQ[d] /\ refused'[d] = refused[d]
      /\ \/ Accepts(c) /\ hiQ'[c] = Append(q, a) /\ refused'[c] = refused[c]
         \/ ~Accepts(c) /\ hiQ'[c] = q /\ refused'[c] = TRUE
  BY <1>1, SendToKeeps
<1> SUFFICES ASSUME NEW d \in Conns, conn[d] = "active", ~refused'[d]
             PROVE  /\ \A k \in 1..Len(hiQ'[d]) : hiQ'[d][k].kind \in {"interrogated", "act_term"} =>
                            OpenBefore(open[d], hiQ'[d], k)
                    /\ gi'[d] # "idle" => OpenBefore(open[d], hiQ'[d], Len(hiQ'[d]) + 1)
  BY DEF FrameInv
<1>3. CASE d # c
  BY <1>2, <1>3 DEF FrameInv
<1>4. CASE d = c
  <2>1. hiQ'[c] = Append(q, a) /\ ~refused[c]
    BY <1>2, <1>4
  <2>2. /\ \A k \in 1..Len(q) : q[k].kind \in {"interrogated", "act_term"} => OpenBefore(open[c], q, k)
        /\ gi[c] # "idle" => OpenBefore(open[c], q, Len(q) + 1)
    BY <1>1, <1>4, <2>1 DEF FrameInv
  <2>3. PICK o : o = open[c]
    OBVIOUS
  <2>4. PICK n \in Nat : n = Len(q)
    BY LenProperties
  <2>5. PICK r : r = Append(q, a)
    OBVIOUS
  <2>6. Len(r) = n + 1 /\ (\A i \in 1..n : r[i] = q[i]) /\ r[n + 1] = a
    BY <2>4, <2>5, AppendProperties
  <2>7. /\ \A k \in 1..(n + 1) : OpenBefore(o, q, k) => OpenBefore(o, r, k)
        /\ a.kind = "act_con" \/ (a.kind # "act_term" /\ OpenBefore(o, q, n + 1))
                => OpenBefore(o, r, Len(r) + 1)
    BY <2>4, <2>5, AppendFrame
  <2>8. ASSUME NEW k \in 1..Len(r), r[k].kind \in {"interrogated", "act_term"}
        PROVE  OpenBefore(o, r, k)
    <3>1. k \in 1..(n + 1) /\ (k \in 1..n \/ k = n + 1)
      BY <2>6
    <3>2. CASE k \in 1..n
      BY <2>2, <2>3, <2>4, <2>6, <2>7, <2>8, <3>1, <3>2
    <3>3. CASE k = n + 1
      BY <2>2, <2>3, <2>4, <2>6, <2>7, <2>8, <3>1, <3>3
    <3> QED BY <3>1, <3>2, <3>3
  <2>9. gi'[c] # "idle" => OpenBefore(o, r, Len(r) + 1)
    BY <2>2, <2>3, <2>4, <2>7
  <2> QED BY <1>4, <2>1, <2>3, <2>5, <2>8, <2>9
<1> QED BY <1>3, <1>4

\* The master takes the first ASDU of its queue.
LEMMA FrameHigh ==
    ASSUME TypeOK, FrameInv, NEW c \in Conns, DeliverHigh(c)
    PROVE  FrameInv'
<1>1. PICK q \in Seq(Asdus) : q = hiQ[c]
  BY DEF TypeOK
<1>2. PICK r, a, o, b : /\ r = Tail(q) /\ a = Head(q) /\ o = open[c]
                        /\ b = (a.kind = "act_con" \/ (o /\ a.kind # "act_term"))
  OBVIOUS
<1>3. /\ q # <<>> /\ conn[c] = "active" /\ UNCHANGED <<conn, refused, gi>>
      /\ hiQ' = [hiQ EXCEPT ![c] = r] /\ open' = [open EXCEPT ![c] = b]
  BY <1>1, <1>2 DEF DeliverHigh, giVars, connVars
<1>4. hiQ'[c] = r /\ open'[c] = b /\ \A d \in Conns : d # c => hiQ'[d] = hiQ[d] /\ open'[d] = open[d]
  <2>1. hiQ \in [Conns -> Seq(Asdus)] /\ open \in [Conns -> BOOLEAN]
    BY DEF TypeOK
  <2> QED BY <1>3, <2>1
<1>5. PICK n \in Nat : n = Len(q)
  BY LenProperties
<1>6. n # 0 /\ Len(r) = n - 1 /\ \A i \in 1..(n - 1) : r[i] = q[i + 1]
  BY <1>2, <1>3, <1>5, HeadTailProperties, EmptySeq
<1>7. \A k \in 1..n : OpenBefore(o, q, k + 1) => OpenBefore(b, r, k)
  BY <1>2, <1>3, <1>5, TailFrame
<1> SUFFICES ASSUME NEW d \in Conns, conn[d] = "active", ~refused[d]
             PROVE  /\ \A k \in 1..Len(hiQ'[d]) : hiQ'[d][k].kind \in {"interrogated", "act_term"} =>
                            OpenBefore(open'[d], hiQ'[d], k)
                    /\ gi[d] # "idle" => OpenBefore(open'[d], hiQ'[d], Len(hiQ'[d]) + 1)
  BY <1>3 DEF FrameInv
<1>8. CASE d # c
  BY <1>4, <1>8 DEF FrameInv
<1>9. CASE d = c
  <2>1. /\ \A k \in 1..n : q[k].kind \in {"interrogated", "act_term"} => OpenBefore(o, q, k)
        /\ gi[c] # "idle" => OpenBefore(o, q, n + 1)
    BY <1>1, <1>2, <1>5, <1>9 DEF FrameInv
  <2>2. ASSUME NEW k \in 1..(n - 1), r[k].kind \in {"interrogated", "act_term"}
        PROVE  OpenBefore(b, r, k)
    <3>1. k + 1 \in 1..n /\ k \in 1..n
      OBVIOUS
    <3> QED BY <1>6, <1>7, <2>1, <2>2, <3>1
  <2>3. gi[c] # "idle" => OpenBefore(b, r, n)
    <3>1. n \in 1..n
      BY <1>6
    <3> QED BY <1>7, <2>1, <3>1
  <2>4. Len(r) + 1 = n
    BY <1>6
  <2> QED BY <1>4, <1>6, <1>9, <2>2, <2>3, <2>4
<1> QED BY <1>8, <1>9

\* The inductive step.
LEMMA FrameStep == TypeOK /\ FrameInv /\ [Next]_vars => FrameInv'
<1> SUFFICES ASSUME TypeOK, FrameInv, [Next]_vars PROVE FrameInv'
  OBVIOUS
<1>0. /\ conn \in [Conns -> {"closed", "open", "active"}] /\ hiQ \in [Conns -> Seq(Asdus)]
      /\ open \in [Conns -> BOOLEAN] /\ refused \in [Conns -> BOOLEAN]
      /\ gi \in [Conns -> GiStates]
  BY DEF TypeOK
<1>1. CASE ReceiveFresh \/ Insert \/ Dispatch \/ AckOk \/ AckFails \/ SourceEnds \/ SourceRebuilt
           \/ CtrlC \/ UNCHANGED vars
  <2>1. UNCHANGED <<conn, refused, hiQ, open, gi>>
    BY <1>1 DEF ReceiveFresh, Receive, Insert, Dispatch, AckOk, AckFails, SourceEnds, SourceRebuilt,
       CtrlC, vars, giVars, masterVars, queueVars, connVars
  <2> QED BY <2>1, FrameKept
<1>2. CASE Stopped
  <2>1. \A c \in Conns : conn'[c] = "closed"
    BY <1>2 DEF Stopped
  <2> QED BY <2>1, FrameKept
<1>3. ASSUME NEW c \in Conns, ConnNext(c) PROVE FrameInv'
  <2>1. CASE GiLock(c) \/ GiUnlock(c)
    <3>1. UNCHANGED <<conn, refused, hiQ, open>>
      BY <2>1 DEF GiLock, GiUnlock, masterVars, queueVars, connVars
    <3>2. gi[c] # "idle" /\ \A d \in Conns : d # c => gi'[d] = gi[d]
      BY <1>0, <2>1 DEF GiLock, GiUnlock
    <3> QED BY <3>1, <3>2, FrameKept
  <2>2. ASSUME NEW p \in Points, GiReplay(c, p) PROVE FrameInv'
    <3>1. PICK a \in Asdus : a = Data("interrogated", p, store[p])
      BY AsduTypes DEF TypeOK
    <3>2. SendTo(c, a) /\ UNCHANGED <<conn, open, gi>> /\ gi[c] = "replay"
      BY <2>2, <3>1 DEF GiReplay, masterVars, connVars
    <3>3. a.kind = "interrogated"
      BY <3>1 DEF Data
    <3> QED BY <3>2, <3>3, FrameSend
  <2>3. CASE GiTerm(c) \/ StationInterrogation(c) \/ GroupInterrogation(c)
    <3>1. PICK kind \in {"act_term", "act_con", "neg_con"} :
            /\ SendTo(c, Control(kind)) /\ UNCHANGED <<conn, open>>
            /\ \A d \in Conns : d # c => gi'[d] = gi[d]
            /\ \/ kind = "act_con"
               \/ kind = "neg_con" /\ gi'[c] = "idle"
               \/ kind = "act_term" /\ gi[c] # "idle" /\ gi'[c] = "idle"
      BY <1>0, <2>3 DEF GiTerm, StationInterrogation, GroupInterrogation, masterVars, connVars
    <3>2. PICK a \in Asdus : a = Control(kind)
      BY ControlTypes DEF Kinds
    <3>3. a.kind = kind
      BY <3>2 DEF Control
    <3> QED BY <3>1, <3>2, <3>3, FrameSend
  <2>4. CASE Connect(c)
    <3>1. UNCHANGED <<refused, hiQ, open, gi>> /\ conn' = [conn EXCEPT ![c] = "open"]
      BY <2>4 DEF Connect, giVars, masterVars, queueVars
    <3>2. \A d \in Conns : conn'[d] = "active" => conn[d] = "active"
      BY <1>0, <3>1
    <3> QED BY <3>1, <3>2, FrameKept
  <2>5. CASE StartDT(c)
    <3>1. /\ gi' = gi /\ gi[c] = "idle"
          /\ \A d \in Conns : hiQ'[d] = <<>> /\ (conn'[d] = "active" => d = c)
      BY <2>5 DEF StartDT, ForgetAll, giVars
    <3> QED BY <3>1, FrameKept
  <2>6. CASE Disconnect(c)
    <3>1. conn' = [conn EXCEPT ![c] = "closed"] /\ Forget(c) /\ gi' = gi
      BY <2>6 DEF Disconnect, giVars
    <3>2. /\ conn'[c] = "closed"
          /\ \A d \in Conns : d # c => /\ conn'[d] = conn[d] /\ hiQ'[d] = hiQ[d]
                                       /\ open'[d] = open[d] /\ refused'[d] = refused[d]
      BY <1>0, <3>1 DEF Forget
    <3> QED BY <3>1, <3>2, FrameKept
  <2>7. CASE DeliverHigh(c)
    BY <2>7, FrameHigh
  <2>8. CASE DeliverLow(c)
    <3>1. UNCHANGED <<conn, refused, hiQ, open, gi>>
      BY <2>8 DEF DeliverLow, giVars, connVars
    <3> QED BY <3>1, FrameKept
  <2> QED BY <1>3, <2>1, <2>2, <2>3, <2>4, <2>5, <2>6, <2>7, <2>8 DEF ConnNext, GiStep
<1> QED BY <1>1, <1>2, <1>3 DEF Next, LoopNext, LoopStep, Terminated

\* No failover, refusal or second interrogation lets an interrogated value or
\* an ACT_TERM reach a master outside the frame its ACT_CON opened
\* (install_interrogation_handler).
THEOREM InterrogationsAreFramed == Spec => GiBracketed
<1>1. Init => FrameInv
  BY DEF Init, FrameInv
<1>2. ASSUME TypeOK, FrameInv, NEW c \in Conns, DeliverHigh(c), ~refused[c],
             Head(hiQ[c]).kind \in {"interrogated", "act_term"}
      PROVE  open[c]
  <2>1. PICK q \in Seq(Asdus) : q = hiQ[c]
    BY <1>2 DEF TypeOK
  <2>2. q # <<>> /\ conn[c] = "active"
    BY <1>2, <2>1 DEF DeliverHigh
  <2>3. 1 \in 1..Len(q) /\ Head(q) = q[1]
    BY <2>2, TailNewest
  <2>4. OpenBefore(open[c], q, 1)
    BY <1>2, <2>1, <2>2, <2>3 DEF FrameInv
  <2>5. \A i : i \notin 1..(1 - 1)
    OBVIOUS
  <2> QED BY <2>4, <2>5 DEF OpenBefore
<1>3. TypeOK /\ FrameInv =>
        [\A c \in Conns :
            /\ DeliverHigh(c)
            /\ Head(hiQ[c]).kind \in {"interrogated", "act_term"}
            /\ ~refused[c]
            => open[c]]_vars
  BY <1>2
<1> QED BY <1>1, <1>3, TypeInit, TypeStep, FrameStep, PTL DEF Spec, GiBracketed
=============================================================================
