----------------------------- MODULE NatsBridge -----------------------------
(***************************************************************************)
(* The bridge fed by a JetStream durable pull consumer (source.rs,         *)
(* NatsSource): explicit acknowledgements that may fail or get lost,       *)
(* redelivery, messages prefetched by the client, a source that ends and   *)
(* is rebuilt, and a process that crashes and restarts.                    *)
(*                                                                         *)
(* A message is known by its stream sequence number, so a larger           *)
(* identifier is a more recent message.                                    *)
(***************************************************************************)
EXTENDS Bridge

CONSTANTS
    MaxInbox,       \* bound: messages the pull stream has prefetched
    MaxEarly,       \* bound: redeliveries of a message still in the client
    MaxAckLosses,   \* bound: acknowledgements that fail or get lost
    MaxCrashes      \* bound: crashes of the bridge

ASSUME NatsAssumption ==
    /\ MaxInbox \in Nat \ {0}
    /\ MaxEarly \in Nat
    /\ MaxAckLosses \in Nat
    /\ MaxCrashes \in Nat

VARIABLES
    stream,     \* the JetStream stream: key and validity of each message
    delivered,  \* the consumer has delivered 1..delivered at least once
    acked,      \* messages whose acknowledgement the server has
    inbox,      \* delivered to the client, not yet taken by the loop
    handled,    \* observed: messages some incarnation cached and dispatched
    early, ackLosses, crashes  \* how often each bounded event happened

natsVars == <<stream, delivered, acked, inbox, handled, early, ackLosses, crashes>>
allVars  == <<vars, natsVars>>

NatsInit ==
    /\ Init
    /\ stream = <<>> /\ delivered = 0 /\ acked = {} /\ inbox = <<>>
    /\ handled = {}
    /\ early = 0 /\ ackLosses = 0 /\ crashes = 0

-----------------------------------------------------------------------------
(* The JetStream server (external).                                        *)

\* A publisher sends a valid message, or one that fails parsing or validation.
Publish(p, valid) ==
    /\ Len(stream) < MaxMsgs
    /\ stream' = Append(stream, [key |-> p, valid |-> valid])
    /\ UNCHANGED <<vars, delivered, acked, inbox, handled, early, ackLosses, crashes>>

\* A subscription exists while the loop runs.
Subscribed == loop # "rebuild" /\ Len(inbox) < MaxInbox

DeliverNew ==
    /\ Subscribed /\ delivered < Len(stream)
    /\ delivered' = delivered + 1
    /\ inbox' = Append(inbox, delivered + 1)
    /\ UNCHANGED <<vars, stream, acked, handled, early, ackLosses, crashes>>

Unacked(s) == s \in 1..delivered /\ s \notin acked

InClient(s) == cur.id = s \/ \E i \in 1..Len(inbox) : inbox[i] = s

\* AckWait expires for a message the client no longer has.
Redeliver(s) ==
    /\ Subscribed /\ Unacked(s) /\ ~InClient(s)
    /\ inbox' = Append(inbox, s)
    /\ UNCHANGED <<vars, stream, delivered, acked, handled, early, ackLosses, crashes>>

\* AckWait expires although the message still waits in, or is handled by, the
\* client.
RedeliverEarly(s) ==
    /\ Subscribed /\ Unacked(s) /\ InClient(s)
    /\ early < MaxEarly
    /\ early' = early + 1
    /\ inbox' = Append(inbox, s)
    /\ UNCHANGED <<vars, stream, delivered, acked, handled, ackLosses, crashes>>

\* An acknowledgement of s reaches the server, or does not.
AckArrives(s) == acked' = acked \cup {s} /\ UNCHANGED ackLosses

AckLost ==
    /\ ackLosses < MaxAckLosses
    /\ ackLosses' = ackLosses + 1
    /\ UNCHANGED acked

-----------------------------------------------------------------------------
(* NatsSource::into_messages and the loop it feeds.                        *)

\* A valid message is handed to the loop, which will acknowledge it.
TakeValid ==
    /\ inbox # <<>>
    /\ stream[Head(inbox)].valid
    /\ Receive([key |-> stream[Head(inbox)].key, id |-> Head(inbox)])
    /\ inbox' = Tail(inbox)
    /\ UNCHANGED <<stream, delivered, acked, handled, early, ackLosses, crashes>>

\* Mutant: skipped without an acknowledgement.
SkipUnacked ==
    /\ loop = "next" /\ inbox # <<>>
    /\ ~stream[Head(inbox)].valid
    /\ inbox' = Tail(inbox)
    /\ UNCHANGED <<vars, stream, delivered, acked, handled, early, ackLosses, crashes>>

\* Any other is acknowledged and skipped, whether or not that works.
SkipInvalid ==
    /\ loop = "next" /\ inbox # <<>>
    /\ ~stream[Head(inbox)].valid
    /\ inbox' = Tail(inbox)
    /\ AckArrives(Head(inbox)) \/ AckLost
    /\ UNCHANGED <<vars, stream, delivered, handled, early, crashes>>

NatsInsert == Insert /\ UNCHANGED natsVars

NatsDispatch ==
    /\ Dispatch
    /\ handled' = handled \cup {cur.id}
    /\ UNCHANGED <<stream, delivered, acked, inbox, early, ackLosses, crashes>>

\* ack() publishes and returns: Ok says nothing of the server.
NatsAck ==
    /\ \/ AckOk /\ (AckArrives(cur.id) \/ AckLost)
       \/ AckFails /\ AckLost
    /\ UNCHANGED <<stream, delivered, inbox, handled, early, crashes>>

NatsSourceEnds ==
    /\ SourceEnds
    /\ inbox' = <<>>
    /\ UNCHANGED <<stream, delivered, acked, handled, early, ackLosses, crashes>>

\* from_config opens the same durable consumer again.
NatsSourceRebuilt == SourceRebuilt /\ UNCHANGED natsVars

\* The process dies and is started again: the store is in memory only.
CrashRestart ==
    /\ crashes < MaxCrashes
    /\ crashes' = crashes + 1
    /\ inbox' = <<>>
    /\ store' = Nothing /\ storeLock' = Free /\ log' = <<>>
    /\ loop' = "next" /\ cur' = NoMessage /\ messages_dispatched' = 0
    /\ gi' = [c \in Conns |-> "idle"] /\ todo' = [c \in Conns |-> {}]
    /\ asked' = [c \in Conns |-> 0] /\ reply' = [c \in Conns |-> Nothing]
    /\ gi_responses' = 0
    /\ ForgetAll
    /\ lowQ' = <<>> /\ dropped' = {}
    /\ conn' = [c \in Conns |-> "closed"]
    /\ UNCHANGED <<gis, connects, stream, delivered, acked, handled, early, ackLosses>>

LoopWork == TakeValid \/ SkipInvalid \/ NatsInsert \/ NatsDispatch \/ NatsAck

NatsNext ==
    \/ \E p \in Points, valid \in BOOLEAN : Publish(p, valid)
    \/ DeliverNew
    \/ \E s \in 1..MaxMsgs : Redeliver(s) \/ RedeliverEarly(s)
    \/ LoopWork
    \/ NatsSourceEnds \/ NatsSourceRebuilt \/ CrashRestart
    \/ \E c \in Conns : ConnNext(c) /\ UNCHANGED natsVars

NatsSpec == NatsInit /\ [][NatsNext]_allVars

(***************************************************************************)
(* Fairness: the server delivers and, after AckWait, redelivers; the loop, *)
(* the rebuild and the GI callbacks (which hold the store's mutex) go on.  *)
(* That the source does not end for ever is the strong fairness of the     *)
(* loop's next step.                                                       *)
(***************************************************************************)
NatsFairness ==
    /\ SF_allVars(DeliverNew) /\ WF_allVars(NatsSourceRebuilt)
    /\ \A s \in 1..MaxMsgs : SF_allVars(Redeliver(s))
    /\ SF_allVars(TakeValid \/ SkipInvalid)
    /\ WF_allVars(NatsInsert) /\ WF_allVars(NatsDispatch) /\ WF_allVars(NatsAck)
    /\ \A c \in Conns : WF_allVars(GiStep(c) /\ UNCHANGED natsVars)

-----------------------------------------------------------------------------
(* Properties.                                                             *)

\* A crash, a redelivery or a lost acknowledgement never loses a message: a
\* valid message the server counts as acknowledged was cached and dispatched
\* first (handle_incoming_message acknowledges last).
AckedMeansHandled ==
    \A s \in acked : stream[s].valid => s \in handled

\* Every published message is acknowledged in the end, through failed and
\* lost acknowledgements, crashes and rebuilt sources: a valid one after it
\* was dispatched, an invalid one without being redelivered for ever
\* (NatsSource::into_messages).
EveryMessageAcked ==
    \A s \in 1..MaxMsgs : s <= Len(stream) ~> s \in acked

\* README.md, "replays the most recent value for every cached IOA": within one
\* incarnation the store never replaces a message by an older one.
CacheNeverGoesBack ==
    [][\A p \in Points : crashes' = crashes => store'[p] >= store[p]]_allVars
=============================================================================
