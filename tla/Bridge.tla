------------------------------- MODULE Bridge -------------------------------
(***************************************************************************)
(* The core of iec104bridge (main.rs): the data store, the message loop    *)
(* that writes it and forwards live updates, and the General Interrogation *)
(* (GI) callback that lib60870 runs on the thread of each IEC-104 master   *)
(* connection.                                                             *)
(*                                                                         *)
(* A message is a point (its resolved (CA, IOA) key) and an identifier     *)
(* that stands for its contents; 0 stands for "no message".  How the       *)
(* contents become an ASDU is the subject of module Dispatch.              *)
(*                                                                         *)
(* Threads and atomicity.  The message loop is one tokio task; it gives up *)
(* control at the data store's mutex, at the server's mutex and at the     *)
(* await of the acknowledgement, so each of those is a step.  A GI callback *)
(* holds the data store's mutex from the first to the last replayed point. *)
(***************************************************************************)
EXTENDS Integers, Sequences, FiniteSets

CONSTANTS
    Points,     \* the (CA, IOA) keys
    Conns,      \* the master connections
    QueueSize,  \* IEC104_QUEUE_SIZE: capacity of either lib60870 queue
    GiOnly,     \* IEC104_GI_ONLY
    MaxMsgs,    \* bound: messages the input source yields
    MaxGi,      \* bound: station and group interrogations
    MaxConnects,\* bound: connection requests
    NoPoint,    \* the "point" of a control ASDU
    Free        \* the owner of an unlocked mutex

ASSUME BoundsAssumption ==
    /\ QueueSize \in Nat \ {0}
    /\ MaxMsgs \in Nat
    /\ MaxGi \in Nat
    /\ MaxConnects \in Nat
    /\ GiOnly \in BOOLEAN

ASSUME NamesAssumption == NoPoint \notin Points /\ Free \notin Conns

VARIABLES
    store,      \* data_store: the cached message of each point, 0 if none
    storeLock,  \* owner of the data store's mutex between two steps
    loop,       \* where the message loop is
    cur,        \* the message being handled
    messages_dispatched, \* Metrics::messages_dispatched
    gi_responses,        \* Metrics::gi_responses
    conn,       \* lib60870: state of each connection
    hiQ,        \* lib60870: high-priority queue of each connection
    lowQ,       \* lib60870: the server's low-priority (event) queue
    gi,         \* where the GI callback of each connection is
    todo,       \* the points a callback has still to replay
    \* What is observed, and never read by the code:
    log,        \* every message inserted in the store, in order
    asked,      \* Len(log) when the latest GI of a connection arrived
    reply,      \* what the latest GI of a connection handed to its sink
    view,       \* the image each master has built since its STARTDT
    open,       \* a master has seen ACT_CON, and no ACT_TERM since
    synced,     \* a master has seen a whole GI reply since its STARTDT
    refused,    \* an ASDU for the connection was refused since its STARTDT
    dropped,    \* points whose newest live update was displaced unsent
    connects,   \* connection requests so far
    gis         \* interrogations so far

storeVars  == <<store, storeLock, log>>
loopVars   == <<loop, cur, messages_dispatched>>
giVars     == <<gi, todo, asked, reply, gi_responses, gis>>
masterVars == <<view, open, synced>>
queueVars  == <<hiQ, lowQ, refused, dropped>>
connVars   == <<conn, connects>>
vars == <<storeVars, loopVars, giVars, masterVars, queueVars, connVars>>

Messages  == [key : Points, id : Nat \ {0}]
NoMessage == [key |-> NoPoint, id |-> 0]

Kinds == {"act_con", "neg_con", "act_term", "interrogated", "live"}
Asdus == [kind : Kinds, key : Points \cup {NoPoint}, id : Nat]
LiveAsdus == [kind : {"live"}, key : Points, id : Nat]

Control(kind) == [kind |-> kind, key |-> NoPoint, id |-> 0]
Data(kind, p, id) == [kind |-> kind, key |-> p, id |-> id]

LoopStates == {"next", "insert", "dispatch", "ack", "rebuild", "stopping", "stopped"}
GiStates   == {"idle", "lock", "replay", "term"}

Nothing == [p \in Points |-> 0]

Init ==
    /\ store = Nothing /\ storeLock = Free /\ log = <<>>
    /\ loop = "next" /\ cur = NoMessage /\ messages_dispatched = 0
    /\ gi = [c \in Conns |-> "idle"]
    /\ todo = [c \in Conns |-> {}]
    /\ asked = [c \in Conns |-> 0]
    /\ reply = [c \in Conns |-> Nothing]
    /\ gi_responses = 0 /\ gis = 0
    /\ view = [c \in Conns |-> Nothing]
    /\ open = [c \in Conns |-> FALSE]
    /\ synced = [c \in Conns |-> FALSE]
    /\ hiQ = [c \in Conns |-> <<>>] /\ lowQ = <<>>
    /\ refused = [c \in Conns |-> FALSE] /\ dropped = {}
    /\ conn = [c \in Conns |-> "closed"] /\ connects = 0

-----------------------------------------------------------------------------
(* The message loop: run_message_loop and handle_incoming_message.         *)

\* Mutants: the live update before the cache; the acknowledgement before the
\* live update.
DispatchFirst(step) ==
    CASE step = "next"     -> "dispatch"
      [] step = "dispatch" -> "insert"
      [] step = "insert"   -> "ack"
      [] step = "ack"      -> "next"

AckFirst(step) ==
    CASE step = "next"     -> "insert"
      [] step = "insert"   -> "ack"
      [] step = "ack"      -> "dispatch"
      [] step = "dispatch" -> "next"

\* The order in which handle_incoming_message works: first the cache, then
\* the live update, last the acknowledgement.
After(step) ==
    CASE step = "next"     -> "insert"
      [] step = "insert"   -> "dispatch"
      [] step = "dispatch" -> "ack"
      [] step = "ack"      -> "next"

\* messages.next() yields a valid message.
Receive(m) ==
    /\ loop = "next"
    /\ loop' = After("next")
    /\ cur' = m
    /\ UNCHANGED <<messages_dispatched, storeVars, giVars, masterVars, queueVars, connVars>>

\* Mutant: the store is written without its mutex.
InsertUnlocked ==
    /\ loop = "insert"
    /\ store' = [store EXCEPT ![cur.key] = cur.id]
    /\ log' = Append(log, cur)
    /\ loop' = After("insert")
    /\ UNCHANGED <<storeLock, cur, messages_dispatched, giVars, masterVars, queueVars, connVars>>

\* The message replaces whatever the store holds for its point.
Insert ==
    /\ loop = "insert"
    /\ storeLock = Free
    /\ store' = [store EXCEPT ![cur.key] = cur.id]
    /\ log' = Append(log, cur)
    /\ loop' = After("insert")
    /\ UNCHANGED <<storeLock, cur, messages_dispatched, giVars, masterVars, queueVars, connVars>>

\* lib60870's event queue: at its limit, the oldest entry makes room.
KeysIn(q) == {q[i].key : i \in 1..Len(q)}

EnqueueLow(a) ==
    IF Len(lowQ) < QueueSize
    THEN /\ lowQ' = Append(lowQ, a)
         /\ dropped' = dropped \ {a.key}
    ELSE /\ lowQ' = Append(Tail(lowQ), a)
         /\ dropped' = (dropped \cup ({Head(lowQ).key} \ KeysIn(Tail(lowQ)))) \ {a.key}

\* LiveSink, under the server's mutex; nothing is sent in GI-only mode.
Dispatch ==
    /\ loop = "dispatch"
    /\ loop' = After("dispatch")
    /\ IF GiOnly THEN UNCHANGED <<lowQ, dropped>>
                 ELSE EnqueueLow(Data("live", cur.key, cur.id))
    /\ UNCHANGED <<cur, messages_dispatched, hiQ, refused, storeVars, giVars, masterVars, connVars>>

\* Mutant: not counted.
AckOkUncounted ==
    /\ loop = "ack"
    /\ loop' = After("ack")
    /\ cur' = NoMessage
    /\ UNCHANGED <<messages_dispatched, storeVars, giVars, masterVars, queueVars, connVars>>

\* The acknowledgement succeeds, and only then is the message counted.
AckOk ==
    /\ loop = "ack"
    /\ loop' = After("ack")
    /\ cur' = NoMessage
    /\ messages_dispatched' = messages_dispatched + (IF GiOnly THEN 0 ELSE 1)
    /\ UNCHANGED <<storeVars, giVars, masterVars, queueVars, connVars>>

\* The acknowledgement fails: logged, nothing is undone.
AckFails ==
    /\ loop = "ack"
    /\ loop' = After("ack")
    /\ cur' = NoMessage
    /\ UNCHANGED <<messages_dispatched, storeVars, giVars, masterVars, queueVars, connVars>>

\* The source ends; the server, its queues and the store are left alone.
SourceEnds ==
    /\ loop = "next"
    /\ loop' = "rebuild"
    /\ UNCHANGED <<cur, messages_dispatched, storeVars, giVars, masterVars, queueVars, connVars>>

SourceRebuilt ==
    /\ loop = "rebuild"
    /\ loop' = "next"
    /\ UNCHANGED <<cur, messages_dispatched, storeVars, giVars, masterVars, queueVars, connVars>>

\* Ctrl-C: the supervisor takes the server's mutex and calls stop().
CtrlC ==
    /\ loop \in {"next", "rebuild"}
    /\ loop' = "stopping"
    /\ UNCHANGED <<cur, messages_dispatched, storeVars, giVars, masterVars, queueVars, connVars>>

-----------------------------------------------------------------------------
(* The interrogation callback of a connection.                             *)

ServerUp == loop \notin {"stopping", "stopped"}

\* ConnectionSink, ACT_CON and ACT_TERM: in order on the connection's own
\* queue; a full queue or an inactive connection refuses.
Accepts(c) == conn[c] = "active" /\ Len(hiQ[c]) < QueueSize

SendTo(c, a) ==
    IF Accepts(c)
    THEN hiQ' = [hiQ EXCEPT ![c] = Append(@, a)] /\ UNCHANGED refused
    ELSE refused' = [refused EXCEPT ![c] = TRUE] /\ UNCHANGED hiQ

\* Any other qualifier than QOI_STATION: a negative confirmation, no more.
GroupInterrogation(c) ==
    /\ ServerUp /\ conn[c] = "active" /\ gi[c] = "idle"
    /\ gis < MaxGi
    /\ gis' = gis + 1
    /\ SendTo(c, Control("neg_con"))
    /\ UNCHANGED <<gi, todo, asked, reply, gi_responses, lowQ, dropped, storeVars, loopVars, masterVars, connVars>>

\* Mutant: no ACT_CON.
InterrogationUnconfirmed(c) ==
    /\ ServerUp /\ conn[c] = "active" /\ gi[c] = "idle"
    /\ gis < MaxGi
    /\ gis' = gis + 1
    /\ gi' = [gi EXCEPT ![c] = "lock"]
    /\ asked' = [asked EXCEPT ![c] = Len(log)]
    /\ reply' = [reply EXCEPT ![c] = Nothing]
    /\ UNCHANGED <<hiQ, refused, todo, gi_responses, lowQ, dropped, storeVars, loopVars, masterVars, connVars>>

\* A station interrogation starts with ACT_CON.
StationInterrogation(c) ==
    /\ ServerUp /\ conn[c] = "active" /\ gi[c] = "idle"
    /\ gis < MaxGi
    /\ gis' = gis + 1
    /\ SendTo(c, Control("act_con"))
    /\ gi' = [gi EXCEPT ![c] = "lock"]
    /\ asked' = [asked EXCEPT ![c] = Len(log)]
    /\ reply' = [reply EXCEPT ![c] = Nothing]
    /\ UNCHANGED <<todo, gi_responses, lowQ, dropped, storeVars, loopVars, masterVars, connVars>>

\* Mutant: the callback also needs the server's mutex, which stop() holds.
GiLockBoth(c) ==
    /\ gi[c] = "lock"
    /\ storeLock = Free /\ loop # "stopping"
    /\ storeLock' = c
    /\ todo' = [todo EXCEPT ![c] = {p \in Points : store[p] # 0}]
    /\ gi' = [gi EXCEPT ![c] = "replay"]
    /\ UNCHANGED <<asked, reply, gi_responses, gis, store, log, loopVars, masterVars, queueVars, connVars>>

\* replay_cached_values takes the data store's mutex ...
GiLock(c) ==
    /\ gi[c] = "lock"
    /\ storeLock = Free
    /\ storeLock' = c
    /\ todo' = [todo EXCEPT ![c] = {p \in Points : store[p] # 0}]
    /\ gi' = [gi EXCEPT ![c] = "replay"]
    /\ UNCHANGED <<asked, reply, gi_responses, gis, store, log, loopVars, masterVars, queueVars, connVars>>

\* ... sends every cached point, in the HashMap's arbitrary order ...
GiReplay(c, p) ==
    /\ gi[c] = "replay"
    /\ p \in todo[c]
    /\ todo' = [todo EXCEPT ![c] = @ \ {p}]
    /\ reply' = [reply EXCEPT ![c][p] = store[p]]
    /\ SendTo(c, Data("interrogated", p, store[p]))
    /\ dropped' = IF Accepts(c) THEN dropped \ {p} ELSE dropped
    /\ UNCHANGED <<gi, asked, gi_responses, gis, lowQ, storeVars, loopVars, masterVars, connVars>>

\* Mutant: the mutex stays locked.
GiUnlockForgotten(c) ==
    /\ gi[c] = "replay"
    /\ todo[c] = {}
    /\ gi' = [gi EXCEPT ![c] = "term"]
    /\ UNCHANGED <<storeLock, todo, asked, reply, gi_responses, gis, store, log, loopVars, masterVars, queueVars, connVars>>

\* ... and releases it.
GiUnlock(c) ==
    /\ gi[c] = "replay"
    /\ todo[c] = {}
    /\ storeLock' = Free
    /\ gi' = [gi EXCEPT ![c] = "term"]
    /\ UNCHANGED <<todo, asked, reply, gi_responses, gis, store, log, loopVars, masterVars, queueVars, connVars>>

\* Mutant: the callback returns without ACT_TERM.
GiTermForgotten(c) ==
    /\ gi[c] = "term"
    /\ gi_responses' = gi_responses + 1
    /\ gi' = [gi EXCEPT ![c] = "idle"]
    /\ UNCHANGED <<hiQ, refused, todo, asked, reply, gis, lowQ, dropped, storeVars, loopVars, masterVars, connVars>>

\* The interrogation is counted, truncated or not, and ACT_TERM ends it.
GiTerm(c) ==
    /\ gi[c] = "term"
    /\ gi_responses' = gi_responses + 1
    /\ SendTo(c, Control("act_term"))
    /\ gi' = [gi EXCEPT ![c] = "idle"]
    /\ UNCHANGED <<todo, asked, reply, gis, lowQ, dropped, storeVars, loopVars, masterVars, connVars>>

-----------------------------------------------------------------------------
(* lib60870 and the masters (external).                                    *)

\* Every connection request is accepted; data flows only after STARTDT.
Connect(c) ==
    /\ ServerUp /\ conn[c] = "closed"
    /\ connects < MaxConnects
    /\ connects' = connects + 1
    /\ conn' = [conn EXCEPT ![c] = "open"]
    /\ UNCHANGED <<storeVars, loopVars, giVars, masterVars, queueVars>>

\* Only the active master has an image: one that is deactivated, or connects
\* anew, must take nothing it was told before for current.
Forget(c) ==
    /\ hiQ' = [hiQ EXCEPT ![c] = <<>>]
    /\ view' = [view EXCEPT ![c] = Nothing]
    /\ open' = [open EXCEPT ![c] = FALSE]
    /\ synced' = [synced EXCEPT ![c] = FALSE]
    /\ refused' = [refused EXCEPT ![c] = FALSE]

ForgetAll ==
    /\ hiQ' = [c \in Conns |-> <<>>]
    /\ view' = [c \in Conns |-> Nothing]
    /\ open' = [c \in Conns |-> FALSE]
    /\ synced' = [c \in Conns |-> FALSE]
    /\ refused' = [c \in Conns |-> FALSE]

\* STARTDT activates a connection and deactivates the one active before it.
StartDT(c) ==
    /\ ServerUp /\ conn[c] = "open" /\ gi[c] = "idle"
    /\ conn' = [d \in Conns |-> IF d = c THEN "active"
                                ELSE IF conn[d] = "active" THEN "open" ELSE conn[d]]
    /\ ForgetAll
    /\ UNCHANGED <<connects, lowQ, dropped, storeVars, loopVars, giVars>>

\* A connection closes; its own thread notices between two callbacks.
Disconnect(c) ==
    /\ ServerUp /\ conn[c] # "closed" /\ gi[c] = "idle"
    /\ conn' = [conn EXCEPT ![c] = "closed"]
    /\ Forget(c)
    /\ UNCHANGED <<connects, lowQ, dropped, storeVars, loopVars, giVars>>

\* The active master receives the next ASDU of its own queue.
DeliverHigh(c) ==
    /\ conn[c] = "active" /\ hiQ[c] # <<>>
    /\ hiQ' = [hiQ EXCEPT ![c] = Tail(@)]
    /\ LET a == Head(hiQ[c]) IN
        /\ view' = IF a.kind = "interrogated" THEN [view EXCEPT ![c][a.key] = a.id] ELSE view
        /\ open' = [open EXCEPT ![c] = a.kind = "act_con" \/ (@ /\ a.kind # "act_term")]
        /\ synced' = [synced EXCEPT ![c] = @ \/ (open[c] /\ a.kind = "act_term")]
    /\ UNCHANGED <<lowQ, refused, dropped, storeVars, loopVars, giVars, connVars>>

\* Live updates go to the active master once its own queue is empty.
DeliverLow(c) ==
    /\ conn[c] = "active" /\ hiQ[c] = <<>> /\ lowQ # <<>>
    /\ lowQ' = Tail(lowQ)
    /\ view' = [view EXCEPT ![c][Head(lowQ).key] = Head(lowQ).id]
    /\ UNCHANGED <<open, synced, hiQ, refused, dropped, storeVars, loopVars, giVars, connVars>>

\* stop() returns when no callback runs any more, with every connection closed.
Stopped ==
    /\ loop = "stopping"
    /\ \A c \in Conns : gi[c] = "idle"
    /\ loop' = "stopped"
    /\ conn' = [c \in Conns |-> "closed"]
    /\ ForgetAll
    /\ UNCHANGED <<cur, messages_dispatched, connects, lowQ, dropped, storeVars, giVars>>

-----------------------------------------------------------------------------
\* A source that yields each message once, the newest last.
ReceiveFresh ==
    /\ Len(log) < MaxMsgs
    /\ \E p \in Points : Receive([key |-> p, id |-> Len(log) + 1])

LoopStep == Insert \/ Dispatch \/ AckOk \/ AckFails \/ Stopped

LoopNext == LoopStep \/ SourceEnds \/ SourceRebuilt \/ CtrlC

GiStep(c) ==
    \/ GiLock(c) \/ GiUnlock(c) \/ GiTerm(c)
    \/ \E p \in Points : GiReplay(c, p)

ConnNext(c) ==
    \/ GiStep(c) \/ StationInterrogation(c) \/ GroupInterrogation(c)
    \/ Connect(c) \/ StartDT(c) \/ Disconnect(c)
    \/ DeliverHigh(c) \/ DeliverLow(c)

\* After Ctrl-C the process is gone.
Terminated == loop = "stopped" /\ UNCHANGED vars

Next == ReceiveFresh \/ LoopNext \/ Terminated \/ \E c \in Conns : ConnNext(c)

Spec == Init /\ [][Next]_vars

(***************************************************************************)
(* Fairness.  The runtime keeps polling the loop's task and the operating  *)
(* system keeps running lib60870's threads; an acknowledgement ends, well  *)
(* or badly; a connected master keeps reading.  Nothing is assumed of the  *)
(* source, of Ctrl-C or of what masters choose to ask.                     *)
(***************************************************************************)
Fairness ==
    /\ WF_vars(LoopStep)
    /\ \A c \in Conns : WF_vars(GiStep(c)) /\ WF_vars(DeliverHigh(c))

FairSpec == Spec /\ Fairness

-----------------------------------------------------------------------------
(* Properties.                                                             *)

\* Type invariant: every variable of the loop, the callbacks, the queues and
\* the masters' images has the shape main.rs and lib60870 give it, the loop
\* has a message in hand exactly while it handles one, and no queue outgrows
\* IEC104_QUEUE_SIZE.
TypeOK ==
    /\ store \in [Points -> Nat]
    /\ storeLock \in Conns \cup {Free}
    /\ loop \in LoopStates
    /\ cur \in IF loop \in {"insert", "dispatch", "ack"} THEN Messages ELSE {NoMessage}
    /\ messages_dispatched \in Nat /\ gi_responses \in Nat
    /\ conn \in [Conns -> {"closed", "open", "active"}]
    /\ hiQ \in [Conns -> Seq(Asdus)] /\ \A c \in Conns : Len(hiQ[c]) <= QueueSize
    /\ lowQ \in Seq(LiveAsdus) /\ Len(lowQ) <= QueueSize
    /\ gi \in [Conns -> GiStates]
    /\ todo \in [Conns -> SUBSET Points]
    /\ log \in Seq(Messages)
    /\ asked \in [Conns -> Nat]
    /\ reply \in [Conns -> [Points -> Nat]]
    /\ view \in [Conns -> [Points -> Nat]]
    /\ open \in [Conns -> BOOLEAN]
    /\ synced \in [Conns -> BOOLEAN]
    /\ refused \in [Conns -> BOOLEAN]
    /\ dropped \subseteq Points
    /\ connects \in Nat /\ gis \in Nat

\* The contents of a store after the first n insertions of l.
IdsOf(l, n) == {l[i].id : i \in 1..n}

LastWrite(l, n, p, id) ==
    \E i \in 1..n : l[i].key = p /\ l[i].id = id /\ \A j \in (i + 1)..n : l[j].key # p

Written(l, n, p) == \E i \in 1..n : l[i].key = p

LastId(l, n, p) == CHOOSE id \in IdsOf(l, n) : LastWrite(l, n, p, id)

StoreOf(l, n) == [p \in Points |-> IF Written(l, n, p) THEN LastId(l, n, p) ELSE 0]

\* A finished interrogation handed to its sink the whole store as it was at
\* ONE instant between the request and the end of the replay: never a mix of
\* two moments, never a state older than the request, whatever the message
\* loop or other callbacks did meanwhile (replay_cached_values).
GiReplyIsSnapshot ==
    \A c \in Conns : gi[c] \in {"term", "idle"} =>
        \E n \in asked[c]..Len(log) : reply[c] = StoreOf(log, n)

\* What makes it so, as an inductive invariant: the callback that replays owns
\* the store's mutex, the store is what the insertions made it, and what the
\* callback has handed over so far is what the store still holds.
SnapshotInv ==
    /\ \A c \in Conns : gi[c] = "replay" <=> storeLock = c
    /\ store = StoreOf(log, Len(log))
    /\ \A c \in Conns : asked[c] <= Len(log)
    /\ \A c \in Conns : gi[c] = "lock" => reply[c] = Nothing
    /\ \A c \in Conns : gi[c] = "replay" =>
            \A p \in Points \ todo[c] : reply[c][p] = store[p]
    /\ GiReplyIsSnapshot

(* Refinement: a callback answers at the moment it releases the mutex.     *)
Phase(c) ==
    CASE gi[c] \in {"lock", "replay"} -> "asked"
      [] gi[c] = "term"               -> "answered"
      [] gi[c] = "idle"               -> "idle"

Answer(c) == IF gi[c] \in {"term", "idle"} THEN reply[c] ELSE Nothing

Abstract ==
    INSTANCE PointStore WITH
        Values <- Nat, Empty <- 0,
        mem    <- store,
        phase  <- [c \in Conns |-> Phase(c)],
        answer <- [c \in Conns |-> Answer(c)]

\* Masters and the source see the store as a memory that is written and
\* interrogated in single steps, although a replay takes many, a mutex stands
\* between them, and connections fail over or the server stops in the middle
\* (handle_incoming_message, replay_cached_values).
ImplementsPointStore == Abstract!Spec

Drained(c) == conn[c] = "active" /\ hiQ[c] = <<>> /\ lowQ = <<>>

InHand(p) == loop = "dispatch" /\ cur.key = p

\* Once its queues have drained, the image of the active master holds no
\* outdated value: each point has the cached one, except for a live update the
\* full event queue displaced or the loop has not sent yet.  A master may know
\* nothing of a point only until it has seen a whole, untruncated GI reply
\* (handle_incoming_message against install_interrogation_handler).
MasterImageConverges ==
    ~GiOnly => \A c \in Conns : Drained(c) => \A p \in Points :
        \/ view[c][p] = store[p]
        \/ view[c][p] = 0 /\ (~synced[c] \/ refused[c])
        \/ p \in dropped \/ InHand(p)

\* A master whose connection refused nothing gets the interrogated values and
\* ACT_TERM only after ACT_CON (install_interrogation_handler).
GiBracketed ==
    [][\A c \in Conns :
        /\ DeliverHigh(c)
        /\ Head(hiQ[c]).kind \in {"interrogated", "act_term"}
        /\ ~refused[c]
        => open[c]]_vars

\* An interrogation on a connection that stays active ends, for the master,
\* with ACT_TERM, unless its queue refused part of the reply.
GiTerminates ==
    \A c \in Conns :
        gi[c] = "lock" ~> synced[c] \/ refused[c] \/ conn[c] # "active"

\* stop() returns: no callback keeps it waiting on a mutex it holds.
ShutdownCompletes == loop = "stopping" ~> loop = "stopped"

\* A received message is cached, dispatched and answered, even while masters
\* interrogate: the loop never waits for ever for the data store.
HandlerReturns == loop = "insert" ~> loop = "next"
=============================================================================
