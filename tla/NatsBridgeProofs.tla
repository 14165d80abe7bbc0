-------------------------- MODULE NatsBridgeProofs --------------------------
(* Theorems about NatsBridge, for any number of messages, redeliveries,    *)
(* lost acknowledgements and crashes.                                      *)
EXTENDS NatsBridge, BridgeProofs

-----------------------------------------------------------------------------
(* The consumer's state.                                                   *)

Entries == [key : Points, valid : BOOLEAN]

\* Only messages of the stream are delivered, prefetched or acknowledged.
NatsTypes ==
    /\ stream \in Seq(Entries)
    /\ delivered \in 0..Len(stream)
    /\ acked \subseteq 1..Len(stream)
    /\ inbox \in Seq(Nat) /\ \A i \in 1..Len(inbox) : inbox[i] \in 1..Len(stream)
    /\ cur.id \in 0..Len(stream)
    /\ early \in Nat /\ ackLosses \in Nat /\ crashes \in Nat

\* The message at the head of the inbox is one of the stream.
LEMMA HeadOfInbox ==
    ASSUME NatsTypes, inbox # <<>>
    PROVE  /\ Head(inbox) \in 1..Len(stream) /\ stream[Head(inbox)] \in Entries
           /\ Tail(inbox) \in Seq(Nat)
           /\ \A i \in 1..Len(Tail(inbox)) : Tail(inbox)[i] \in 1..Len(stream)
<1>1. PICK n \in Nat : n = Len(stream)
  BY LenProperties DEF NatsTypes
<1>2. inbox \in Seq(Nat) /\ Len(inbox) \in Nat \ {0} /\ Head(inbox) = inbox[1]
  BY LenProperties, EmptySeq DEF NatsTypes
<1>3. /\ Tail(inbox) \in Seq(Nat) /\ Len(Tail(inbox)) = Len(inbox) - 1
      /\ \A i \in 1..Len(Tail(inbox)) : Tail(inbox)[i] = inbox[i + 1]
  BY <1>2, HeadTailProperties
<1>4. Head(inbox) \in 1..n
  BY <1>1, <1>2 DEF NatsTypes
<1>5. stream[Head(inbox)] \in Entries
  BY <1>1, <1>4, ElementOfSeq DEF NatsTypes
<1>6. ASSUME NEW i \in 1..Len(Tail(inbox)) PROVE Tail(inbox)[i] \in 1..n
  <2>1. i + 1 \in 1..Len(inbox)
    BY <1>2, <1>3
  <2> QED BY <1>1, <1>3, <2>1 DEF NatsTypes
<1> QED BY <1>1, <1>3, <1>4, <1>5, <1>6

\* A (re)delivery appends a message of the stream to the inbox.
LEMMA InboxGrows ==
    ASSUME NatsTypes, NEW s \in 1..Len(stream)
    PROVE  /\ Append(inbox, s) \in Seq(Nat)
           /\ \A i \in 1..Len(Append(inbox, s)) : Append(inbox, s)[i] \in 1..Len(stream)
<1>1. PICK n \in Nat : n = Len(stream)
  BY LenProperties DEF NatsTypes
<1>2. s \in Nat /\ inbox \in Seq(Nat) /\ Len(inbox) \in Nat
  BY <1>1, LenProperties DEF NatsTypes
<1>3. /\ Append(inbox, s) \in Seq(Nat) /\ Len(Append(inbox, s)) = Len(inbox) + 1
      /\ \A i \in 1..Len(inbox) : Append(inbox, s)[i] = inbox[i]
      /\ Append(inbox, s)[Len(inbox) + 1] = s
  BY <1>2, AppendProperties
<1> QED BY <1>1, <1>2, <1>3 DEF NatsTypes

\* Initially the stream is empty.
LEMMA NatsTypesInit == NatsInit => NatsTypes
BY DEF NatsInit, NatsTypes, Init, NoMessage

\* The server's steps: publishing and delivering.
LEMMA NatsTypesServer ==
    ASSUME TypeOK, NatsTypes,
           \/ \E p \in Points, valid \in BOOLEAN : Publish(p, valid)
           \/ DeliverNew
           \/ \E s \in 1..MaxMsgs : Redeliver(s) \/ RedeliverEarly(s)
    PROVE  TypeOK' /\ NatsTypes'
<1>0. TypeOK' /\ cur' = cur
  BY DEF Publish, DeliverNew, Redeliver, RedeliverEarly, TypeOK, vars, storeVars, loopVars,
         giVars, masterVars, queueVars, connVars
<1>1. PICK n \in Nat : n = Len(stream)
  BY LenProperties DEF NatsTypes
<1>2. ASSUME NEW p \in Points, NEW valid \in BOOLEAN, Publish(p, valid) PROVE NatsTypes'
  <2>1. [key |-> p, valid |-> valid] \in Entries
    BY DEF Entries
  <2>2. stream' \in Seq(Entries) /\ Len(stream') = n + 1
    BY <1>1, <1>2, <2>1, AppendProperties DEF Publish, NatsTypes
  <2>3. \A i : i \in 1..n => i \in 1..Len(stream')
    BY <2>2
  <2>4. UNCHANGED <<delivered, acked, inbox, cur, early, ackLosses, crashes>>
    BY <1>0, <1>2 DEF Publish
  <2> QED BY <1>1, <2>2, <2>3, <2>4 DEF NatsTypes
<1>3. CASE DeliverNew
  <2>1. delivered \in Nat /\ delivered < n
    BY <1>1, <1>3 DEF DeliverNew, NatsTypes
  <2>2. delivered + 1 \in 1..Len(stream) /\ delivered' = delivered + 1
    BY <1>1, <1>3, <2>1 DEF DeliverNew
  <2> QED BY <1>0, <1>1, <1>3, <2>1, <2>2, InboxGrows DEF DeliverNew, NatsTypes
<1>4. ASSUME NEW s \in 1..MaxMsgs, Redeliver(s) \/ RedeliverEarly(s) PROVE NatsTypes'
  <2>1. s \in 1..delivered /\ inbox' = Append(inbox, s) /\ early' \in Nat
        /\ UNCHANGED <<stream, delivered, acked, ackLosses, crashes>>
    BY <1>4 DEF Redeliver, RedeliverEarly, Unacked, NatsTypes
  <2>2. s \in 1..Len(stream)
    BY <1>1, <2>1 DEF NatsTypes
  <2> QED BY <1>0, <2>1, <2>2, InboxGrows DEF NatsTypes
<1> QED BY <1>0, <1>2, <1>3, <1>4

\* An acknowledgement that arrives, or gets lost, of a message of the stream.
LEMMA AckTypes ==
    ASSUME NatsTypes, NEW s \in 1..Len(stream), AckArrives(s) \/ AckLost
    PROVE  acked' \subseteq 1..Len(stream) /\ ackLosses' \in Nat
<1>1. CASE AckArrives(s)
  BY <1>1 DEF AckArrives, NatsTypes
<1>2. CASE AckLost
  BY <1>2 DEF AckLost, NatsTypes
<1> QED BY <1>1, <1>2

\* The loop's steps, with the source that feeds it.
LEMMA NatsTypesLoop ==
    ASSUME TypeOK, NatsTypes, LoopWork \/ NatsSourceEnds \/ NatsSourceRebuilt
    PROVE  TypeOK' /\ NatsTypes'
<1>0. PICK n \in Nat : n = Len(stream)
  BY LenProperties DEF NatsTypes
<1>1. CASE TakeValid
  <2>1. /\ Head(inbox) \in 1..n /\ stream[Head(inbox)] \in Entries
        /\ Tail(inbox) \in Seq(Nat)
        /\ \A i \in 1..Len(Tail(inbox)) : Tail(inbox)[i] \in 1..n
    BY <1>0, <1>1, HeadOfInbox DEF TakeValid
  <2>2. [key |-> stream[Head(inbox)].key, id |-> Head(inbox)] \in Messages
    BY <2>1 DEF Messages, Entries
  <2>3. TypeOK' /\ cur'.id = Head(inbox)
    BY <1>1, <2>2, TypeReceive DEF TakeValid, Receive
  <2> QED BY <1>0, <1>1, <2>1, <2>3 DEF TakeValid, NatsTypes
<1>2. CASE SkipInvalid
  <2>1. /\ Head(inbox) \in 1..n
        /\ Tail(inbox) \in Seq(Nat)
        /\ \A i \in 1..Len(Tail(inbox)) : Tail(inbox)[i] \in 1..n
    BY <1>0, <1>2, HeadOfInbox DEF SkipInvalid
  <2>2. acked' \subseteq 1..n /\ ackLosses' \in Nat
    BY <1>0, <1>2, <2>1, AckTypes DEF SkipInvalid
  <2>3. UNCHANGED vars /\ UNCHANGED <<stream, delivered, early, crashes>> /\ inbox' = Tail(inbox)
    BY <1>2 DEF SkipInvalid
  <2>4. TypeOK' /\ cur' = cur
    BY <2>3 DEF TypeOK, vars, storeVars, loopVars, giVars, masterVars, queueVars, connVars
  <2> QED BY <1>0, <2>1, <2>2, <2>3, <2>4 DEF NatsTypes
<1>3. CASE NatsInsert \/ NatsDispatch
  <2>1. TypeOK' /\ cur' = cur
    BY <1>3, TypeLoop DEF NatsInsert, NatsDispatch, LoopNext, LoopStep, Insert, Dispatch
  <2> QED BY <1>3, <2>1 DEF NatsInsert, NatsDispatch, natsVars, NatsTypes
<1>4. CASE NatsAck
  <2>1. TypeOK' /\ cur' = NoMessage /\ loop = "ack"
    BY <1>4, TypeLoop DEF NatsAck, LoopNext, LoopStep, AckOk, AckFails
  <2>2. cur.id \in 1..n
    BY <1>0, <2>1 DEF TypeOK, Messages, NatsTypes
  <2>3. acked' \subseteq 1..n /\ ackLosses' \in Nat
    BY <1>0, <1>4, <2>2, AckTypes DEF NatsAck
  <2> QED BY <1>0, <1>4, <2>1, <2>3 DEF NatsAck, NatsTypes, NoMessage
<1>5. CASE NatsSourceEnds \/ NatsSourceRebuilt
  <2>1. TypeOK' /\ cur' = cur
    BY <1>5, TypeLoop DEF NatsSourceEnds, NatsSourceRebuilt, LoopNext, SourceEnds, SourceRebuilt
  <2>2. UNCHANGED <<stream, delivered, acked, early, ackLosses, crashes>>
        /\ (inbox' = inbox \/ inbox' = <<>>)
    BY <1>5 DEF NatsSourceEnds, NatsSourceRebuilt, natsVars
  <2>3. inbox' \in Seq(Nat) /\ \A i \in 1..Len(inbox') : inbox'[i] \in 1..Len(stream)
    <3>1. CASE inbox' = inbox
      BY <3>1 DEF NatsTypes
    <3>2. CASE inbox' = <<>>
      <4>1. <<>> \in Seq(Nat) /\ Len(<<>>) = 0 /\ 1..0 = {}
        OBVIOUS
      <4> QED BY <3>2, <4>1
    <3> QED BY <2>2, <3>1, <3>2
  <2>4. NatsTypes'
    BY <2>1, <2>2, <2>3 DEF NatsTypes
  <2> QED BY <2>1, <2>4
<1> QED BY <1>1, <1>2, <1>3, <1>4, <1>5 DEF LoopWork

\* A process that is started again is in its initial state; the stream, what
\* was acknowledged and the bounds' counters survive.
LEMMA NatsTypesCrash == ASSUME TypeOK, NatsTypes, CrashRestart PROVE TypeOK' /\ NatsTypes'
<1>1. TypeOK'
  BY NothingType, BoundsAssumption DEF CrashRestart, ForgetAll, TypeOK, LoopStates, GiStates,
     NoMessage
<1>2. NatsTypes'
  BY LenProperties DEF CrashRestart, NatsTypes, NoMessage
<1> QED BY <1>1, <1>2

\* Every step keeps the types.
LEMMA NatsTypesStep == TypeOK /\ NatsTypes /\ [NatsNext]_allVars => TypeOK' /\ NatsTypes'
<1> SUFFICES ASSUME TypeOK, NatsTypes, [NatsNext]_allVars PROVE TypeOK' /\ NatsTypes'
  OBVIOUS
<1>1. ASSUME NEW c \in Conns, ConnNext(c), UNCHANGED natsVars PROVE TypeOK' /\ NatsTypes'
  <2>1. cur' = cur
    BY <1>1 DEF ConnNext, GiStep, GiLock, GiReplay, GiUnlock, GiTerm, StationInterrogation,
       GroupInterrogation, Connect, StartDT, Disconnect, DeliverHigh, DeliverLow, loopVars
  <2> QED BY <1>1, <2>1, TypeConn DEF natsVars, NatsTypes
<1>2. CASE UNCHANGED allVars
  BY <1>2 DEF allVars, natsVars, vars, storeVars, loopVars, giVars, masterVars, queueVars,
              connVars, TypeOK, NatsTypes
<1> QED BY <1>1, <1>2, NatsTypesServer, NatsTypesLoop, NatsTypesCrash DEF NatsNext

-----------------------------------------------------------------------------
(* An acknowledged message was handled.                                    *)

\* Inductive: the loop acknowledges what it has dispatched, and what is
\* acknowledged in the server's eyes is invalid or was handled.
AckInv ==
    /\ loop = "ack" => cur.id \in handled
    /\ AckedMeansHandled

\* Every step keeps it: an acknowledgement is sent by SkipInvalid for an
\* invalid message and by NatsAck after NatsDispatch.
LEMMA AckStep == TypeOK /\ NatsTypes /\ AckInv /\ [NatsNext]_allVars => AckInv'
<1> SUFFICES ASSUME TypeOK, NatsTypes, AckInv, [NatsNext]_allVars PROVE AckInv'
  OBVIOUS
<1>1. ASSUME NEW p \in Points, NEW valid \in BOOLEAN, Publish(p, valid) PROVE AckInv'
  <2>1. UNCHANGED <<loop, cur, acked, handled>>
    BY <1>1 DEF Publish, vars, loopVars
  <2>2. \A s \in acked : stream'[s] = stream[s]
    BY <1>1, AppendProperties DEF Publish, NatsTypes
  <2> QED BY <2>1, <2>2 DEF AckInv, AckedMeansHandled
<1>2. CASE DeliverNew \/ \E s \in 1..MaxMsgs : Redeliver(s) \/ RedeliverEarly(s)
  <2>1. UNCHANGED <<loop, cur, acked, handled, stream>>
    BY <1>2 DEF DeliverNew, Redeliver, RedeliverEarly, vars, loopVars
  <2> QED BY <2>1 DEF AckInv, AckedMeansHandled
<1>3. CASE TakeValid \/ NatsInsert \/ NatsSourceEnds \/ NatsSourceRebuilt \/ CrashRestart
  <2>1. UNCHANGED <<acked, handled, stream>> /\ loop' # "ack"
    BY <1>3 DEF TakeValid, NatsInsert, NatsSourceEnds, NatsSourceRebuilt, CrashRestart, Receive,
                Insert, SourceEnds, SourceRebuilt, After, natsVars
  <2> QED BY <2>1 DEF AckInv, AckedMeansHandled
<1>4. CASE SkipInvalid
  <2>1. /\ UNCHANGED <<loop, cur, handled, stream>> /\ ~stream[Head(inbox)].valid
        /\ acked' \subseteq acked \cup {Head(inbox)}
    BY <1>4 DEF SkipInvalid, AckArrives, AckLost, vars, loopVars
  <2> QED BY <2>1 DEF AckInv, AckedMeansHandled
<1>5. CASE NatsDispatch
  <2>1. UNCHANGED <<cur, acked, stream>> /\ handled' = handled \cup {cur.id}
    BY <1>5 DEF NatsDispatch, Dispatch
  <2> QED BY <2>1 DEF AckInv, AckedMeansHandled
<1>6. CASE NatsAck
  <2>1. /\ loop = "ack" /\ loop' # "ack" /\ UNCHANGED <<handled, stream>>
        /\ acked' \subseteq acked \cup {cur.id}
    BY <1>6 DEF NatsAck, AckOk, AckFails, AckArrives, AckLost, After
  <2> QED BY <2>1 DEF AckInv, AckedMeansHandled
<1>7. ASSUME NEW c \in Conns, ConnNext(c), UNCHANGED natsVars PROVE AckInv'
  <2>1. UNCHANGED <<loop, cur, acked, handled, stream>>
    BY <1>7 DEF ConnNext, GiStep, GiLock, GiReplay, GiUnlock, GiTerm, StationInterrogation,
       GroupInterrogation, Connect, StartDT, Disconnect, DeliverHigh, DeliverLow, loopVars, natsVars
  <2> QED BY <2>1 DEF AckInv, AckedMeansHandled
<1>8. CASE UNCHANGED allVars
  BY <1>8 DEF allVars, natsVars, vars, loopVars, AckInv, AckedMeansHandled
<1> QED BY <1>1, <1>2, <1>3, <1>4, <1>5, <1>6, <1>7, <1>8 DEF NatsNext, LoopWork

\* No crash, redelivery, lost or failed acknowledgement loses a message: what
\* the server counts as acknowledged was cached and dispatched first, or was
\* invalid (NatsSource::into_messages, handle_incoming_message).
THEOREM AckIsLast == NatsSpec => []AckedMeansHandled
<1>1. NatsInit => TypeOK /\ AckInv
  BY TypeInit DEF NatsInit, Init, AckInv, AckedMeansHandled
<1>2. AckInv => AckedMeansHandled
  BY DEF AckInv
<1> QED BY <1>1, <1>2, NatsTypesInit, NatsTypesStep, AckStep, PTL DEF NatsSpec

-----------------------------------------------------------------------------
(* Interrogations through crashes, and redelivered messages.               *)

\* Messages that arrive again, out of order or after a crash leave an
\* interrogation a snapshot of the store of this incarnation.
LEMMA NatsSnapshotStep ==
    TypeOK /\ NatsTypes /\ SnapshotInv /\ [NatsNext]_allVars => SnapshotInv'
<1> SUFFICES ASSUME TypeOK, NatsTypes, SnapshotInv, [NatsNext]_allVars PROVE SnapshotInv'
  OBVIOUS
<1>1. CASE NatsInsert
  BY <1>1, SnapshotInsert DEF NatsInsert
<1>2. CASE CrashRestart
  <2>1. /\ store' = Nothing /\ storeLock' = Free /\ log' = <<>>
        /\ gi' = [c \in Conns |-> "idle"] /\ asked' = [c \in Conns |-> 0]
        /\ reply' = [c \in Conns |-> Nothing]
    BY <1>2 DEF CrashRestart
  <2>2. /\ Len(log') = 0 /\ store' = StoreOf(log', 0)
        /\ \A c \in Conns : asked'[c] = 0 /\ reply'[c] = StoreOf(log', 0) /\ gi'[c] = "idle"
    BY <2>1, StoreOfEmpty
  <2>3. GiReplyIsSnapshot'
    BY <2>2 DEF GiReplyIsSnapshot
  <2>4. \A c \in Conns : gi'[c] = "replay" <=> storeLock' = c
    BY <2>1, <2>2, NamesAssumption
  <2> QED BY <2>2, <2>3, <2>4 DEF SnapshotInv
<1>3. ASSUME NEW c \in Conns, ConnNext(c) PROVE SnapshotInv'
  BY <1>3, SnapshotStep DEF Next
<1>4. CASE \/ \E p \in Points, valid \in BOOLEAN : Publish(p, valid)
           \/ DeliverNew \/ SkipInvalid \/ UNCHANGED allVars
           \/ \E s \in 1..MaxMsgs : Redeliver(s) \/ RedeliverEarly(s)
  BY <1>4, SnapshotFrame DEF Publish, DeliverNew, SkipInvalid, Redeliver, RedeliverEarly, allVars,
     vars, storeVars, giVars
<1>5. CASE TakeValid \/ NatsDispatch \/ NatsAck \/ NatsSourceEnds \/ NatsSourceRebuilt
  BY <1>5, SnapshotFrame DEF TakeValid, Receive, NatsDispatch, Dispatch, NatsAck, AckOk, AckFails,
     NatsSourceEnds, SourceEnds, NatsSourceRebuilt, SourceRebuilt, storeVars, giVars
<1> QED BY <1>1, <1>2, <1>3, <1>4, <1>5 DEF NatsNext, LoopWork

\* With a source that delivers messages again and in another order, and a
\* process that crashes at any moment, an interrogation still hands over the
\* store as it was at one instant (replay_cached_values).
THEOREM InterrogationIsAtomicWithNats == NatsSpec => []GiReplyIsSnapshot
<1>1. NatsInit => TypeOK /\ SnapshotInv
  BY TypeInit, SnapshotInit DEF NatsInit
<1>2. SnapshotInv => GiReplyIsSnapshot
  BY DEF SnapshotInv
<1> QED BY <1>1, <1>2, NatsTypesInit, NatsTypesStep, NatsSnapshotStep, PTL DEF NatsSpec

-----------------------------------------------------------------------------
(* The master's image through crashes, and redelivered messages.           *)

\* Messages that arrive again or out of order are cached and forwarded in the
\* order they arrive in; a crash takes the store, the queues and the images.
LEMMA NatsImageStep ==
    TypeOK /\ (GiOnly \/ ImageInv) /\ [NatsNext]_allVars => (GiOnly \/ ImageInv)'
<1> SUFFICES ASSUME TypeOK, ImageInv, ~GiOnly, [NatsNext]_allVars PROVE ImageInv'
  OBVIOUS
<1>1. CASE TakeValid
  BY <1>1, ImageReceive DEF TakeValid
<1>2. CASE NatsInsert \/ NatsDispatch \/ NatsAck \/ NatsSourceEnds \/ NatsSourceRebuilt
  BY <1>2, ImageLoop DEF NatsInsert, NatsDispatch, NatsAck, NatsSourceEnds, NatsSourceRebuilt,
     LoopNext, LoopStep
<1>3. CASE \/ \E p \in Points, valid \in BOOLEAN : Publish(p, valid)
           \/ DeliverNew \/ SkipInvalid \/ UNCHANGED allVars
           \/ \E s \in 1..MaxMsgs : Redeliver(s) \/ RedeliverEarly(s)
  BY <1>3, ImageFrame DEF Publish, DeliverNew, SkipInvalid, Redeliver, RedeliverEarly, allVars,
     vars, storeVars, loopVars, giVars, masterVars, queueVars, connVars
<1>4. CASE CrashRestart
  <2>1. /\ \A c \in Conns : conn'[c] = "closed" /\ hiQ'[c] = <<>> /\ todo'[c] = {}
        /\ lowQ' = <<>> /\ loop' = "next"
    BY <1>4 DEF CrashRestart, ForgetAll
  <2>2. Len(<<>>) = 0 /\ \A k : k \notin 1..0
    OBVIOUS
  <2> QED BY <2>1, <2>2 DEF ImageInv, OneActive, SentInv, LiveInv, AnsweredInv, SeenInv, KnownInv
<1>5. ASSUME NEW c \in Conns, ConnNext(c) PROVE ImageInv'
  BY <1>5, ImageConn
<1> QED BY <1>1, <1>2, <1>3, <1>4, <1>5 DEF NatsNext, LoopWork

\* The active master ends with the cached values of this incarnation, however
\* often and in whatever order JetStream delivers, and through crashes
\* (handle_incoming_message, install_interrogation_handler).
THEOREM ImageIsCurrentWithNats == NatsSpec => []MasterImageConverges
<1>1. NatsInit => TypeOK /\ (GiOnly \/ ImageInv)
  BY TypeInit, ImageInit DEF NatsInit
<1> QED
  BY <1>1, NatsTypesInit, NatsTypesStep, NatsImageStep, ImageConverges, PTL DEF NatsSpec
=============================================================================
