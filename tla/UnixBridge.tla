----------------------------- MODULE UnixBridge -----------------------------
(***************************************************************************)
(* The bridge fed by its local Unix socket (source.rs, UnixSocketSource):  *)
(* one task per client reads lines, answers the faulty ones itself and     *)
(* forwards the valid ones through a bounded channel to the message loop,  *)
(* which answers "ok" as the acknowledgement.  Both write through the      *)
(* client's writer mutex, and a write waits for room in the socket.        *)
(*                                                                         *)
(* A client is one connection.  A line is known by its position in lines;  *)
(* its kind is the first check of process_unix_socket_line that it fails.  *)
(*                                                                         *)
(* No master connects here: what masters do to the loop is the subject of  *)
(* Bridge, where HandlerReturns says that they do not hold it up.          *)
(* Nor does the source end: the accept loop keeps a sender of the channel. *)
(***************************************************************************)
EXTENDS Bridge

CONSTANTS
    Clients,         \* the connections to the socket
    PeerCreds,       \* the credentials peers may have: uid and gid
    allowed_uid,     \* UNIX_SOCKET_ALLOWED_UID, or AnyId
    allowed_gid,     \* UNIX_SOCKET_ALLOWED_GID, or AnyId
    AnyId,
    Backlog,         \* UNIX_SOCKET_BACKLOG: capacity of the channel
    ReplyRoom,       \* replies a client's socket holds unread
    Deaf,            \* clients that may stop reading their replies
    SentKinds,       \* the kinds of lines clients send
    MaxAcceptErrors  \* bound: failures of accept()

ASSUME UnixAssumption ==
    /\ Backlog \in Nat \ {0}
    /\ ReplyRoom \in Nat \ {0}
    /\ MaxAcceptErrors \in Nat
    /\ Deaf \subseteq Clients
    /\ SentKinds \subseteq {"valid", "unparsable", "invalid", "garbled"}

VARIABLES
    lines,      \* every line sent, by any client
    client,     \* a client's end of its connection
    peer,       \* PeerCred of each client, AnyId before it connects
    inbox,      \* lines a client has sent and its task has not read
    task,       \* where the task of each client is
    hand,       \* the line a task has in hand, 0 if none
    writer,     \* the writer mutex: who holds it, then who waits, in order
    chan,       \* the channel: lines, and 0 for an accept error
    acceptor,   \* where the accept loop is
    acceptErrors,
    wire,       \* replies written and not read yet
    got,        \* replies the client has read
    handled     \* observed: lines cached and dispatched

clientVars == <<lines, client, peer, got>>
taskVars   == <<inbox, task, hand>>
acceptVars == <<acceptor, acceptErrors>>
unixVars   == <<clientVars, taskVars, acceptVars, writer, chan, wire, handled>>
allVars    == <<vars, unixVars>>

\* "invalid" stands for a line that is too long as well as for a message that
\* fails validation, "unparsable" for an empty line too, "garbled" for a line
\* that is not UTF-8.
LineKinds  == {"valid", "unparsable", "invalid", "garbled"}
TaskStates == {"none", "authorize", "refused", "read", "reply", "forward", "ended"}

\* The reply to a line of each kind; a line that is not UTF-8 gets none.
ReplyTo(kind) ==
    CASE kind = "valid"      -> "ok"
      [] kind = "unparsable" -> "error parse"
      [] kind = "invalid"    -> "error validation"

Reply(n) == [line |-> n, text |-> ReplyTo(lines[n].kind)]

UnixInit ==
    /\ Init
    /\ lines = <<>> /\ chan = <<>> /\ handled = {}
    /\ client = [k \in Clients |-> "absent"]
    /\ peer = [k \in Clients |-> AnyId]
    /\ inbox = [k \in Clients |-> <<>>]
    /\ task = [k \in Clients |-> "none"]
    /\ hand = [k \in Clients |-> 0]
    /\ writer = [k \in Clients |-> <<>>]
    /\ acceptor = "accept" /\ acceptErrors = 0
    /\ wire = [k \in Clients |-> <<>>]
    /\ got = [k \in Clients |-> <<>>]

-----------------------------------------------------------------------------
(* The clients (external).                                                 *)

ClientSends(k, kind, p) ==
    /\ client[k] = "open" /\ task[k] \notin {"refused", "ended"}
    /\ Len(lines) < MaxMsgs
    /\ lines' = Append(lines, [client |-> k, kind |-> kind, key |-> p])
    /\ inbox' = [inbox EXCEPT ![k] = Append(@, Len(lines) + 1)]
    /\ UNCHANGED <<vars, client, peer, got, task, hand, acceptVars, writer, chan, wire, handled>>

ClientReads(k) ==
    /\ client[k] \in {"open", "eof"} /\ wire[k] # <<>>
    /\ got' = [got EXCEPT ![k] = Append(@, Head(wire[k]))]
    /\ wire' = [wire EXCEPT ![k] = Tail(@)]
    /\ UNCHANGED <<vars, lines, client, peer, taskVars, acceptVars, writer, chan, handled>>

\* A client ends its requests and still reads replies, or goes altogether.
ClientHalfCloses(k) ==
    /\ client[k] = "open"
    /\ client' = [client EXCEPT ![k] = "eof"]
    /\ UNCHANGED <<vars, lines, peer, got, taskVars, acceptVars, writer, chan, wire, handled>>

ClientCloses(k) ==
    /\ client[k] \in {"open", "eof"}
    /\ client' = [client EXCEPT ![k] = "gone"]
    /\ wire' = [wire EXCEPT ![k] = <<>>]
    /\ UNCHANGED <<vars, lines, peer, got, taskVars, acceptVars, writer, chan, handled>>

-----------------------------------------------------------------------------
(* run_unix_socket_accept_loop.                                            *)

AcceptClient(k, cred) ==
    /\ acceptor = "accept" /\ client[k] = "absent"
    /\ peer' = [peer EXCEPT ![k] = cred]
    /\ client' = [client EXCEPT ![k] = "open"]
    /\ task' = [task EXCEPT ![k] = "authorize"]
    /\ UNCHANGED <<vars, lines, got, inbox, hand, acceptVars, writer, chan, wire, handled>>

AcceptFails ==
    /\ acceptor = "accept" /\ acceptErrors < MaxAcceptErrors
    /\ acceptor' = "error"
    /\ acceptErrors' = acceptErrors + 1
    /\ UNCHANGED <<vars, clientVars, taskVars, writer, chan, wire, handled>>

\* The error waits for room in the channel, whose receiver lives as long as
\* the message loop.
SendAcceptError ==
    /\ acceptor = "error"
    /\ \/ /\ ServerUp /\ Len(chan) < Backlog
          /\ chan' = Append(chan, 0)
          /\ acceptor' = "accept"
       \/ /\ ~ServerUp
          /\ acceptor' = "ended"
          /\ UNCHANGED chan
    /\ UNCHANGED <<vars, clientVars, taskVars, acceptErrors, writer, wire, handled>>

-----------------------------------------------------------------------------
(* handle_unix_client.                                                     *)

Write(k, r) == wire' = [wire EXCEPT ![k] = Append(@, r)]

\* Mutant: either will do.
AuthorizedByEither(k) ==
    \/ allowed_uid \in {AnyId, peer[k].uid}
    \/ allowed_gid \in {AnyId, peer[k].gid}

\* Both restrictions must hold.
Authorized(k) ==
    /\ allowed_uid \in {AnyId, peer[k].uid}
    /\ allowed_gid \in {AnyId, peer[k].gid}

\* A refused client is told so and dropped.
Authorize(k) ==
    /\ task[k] = "authorize"
    /\ IF Authorized(k)
       THEN task' = [task EXCEPT ![k] = "read"] /\ UNCHANGED wire
       ELSE /\ task' = [task EXCEPT ![k] = "refused"]
            /\ IF client[k] = "gone" THEN UNCHANGED wire
               ELSE Write(k, [line |-> 0, text |-> "error unauthorized"])
    /\ UNCHANGED <<vars, clientVars, inbox, hand, acceptVars, writer, chan, handled>>

\* A garbled line ends the task; a faulty one makes it ask for the writer.
ReadLine(k) ==
    /\ task[k] = "read" /\ inbox[k] # <<>>
    /\ inbox' = [inbox EXCEPT ![k] = Tail(@)]
    /\ LET n == Head(inbox[k])
           kind == lines[n].kind
           Then(t, h) == task' = [task EXCEPT ![k] = t] /\ hand' = [hand EXCEPT ![k] = h]
       IN  \/ kind = "garbled" /\ Then("ended", 0) /\ UNCHANGED writer
           \/ kind = "valid" /\ Then("forward", n) /\ UNCHANGED writer
           \/ /\ kind \in {"unparsable", "invalid"}
              /\ Then("reply", n)
              /\ writer' = [writer EXCEPT ![k] = Append(@, "task")]
    /\ UNCHANGED <<vars, clientVars, acceptVars, chan, wire, handled>>

ReadEof(k) ==
    /\ task[k] = "read" /\ inbox[k] = <<>>
    /\ client[k] \in {"eof", "gone"}
    /\ task' = [task EXCEPT ![k] = "ended"]
    /\ UNCHANGED <<vars, clientVars, inbox, hand, acceptVars, writer, chan, wire, handled>>

\* write_all by the mutex's holder: it ends, well or badly, once the socket
\* has room or the client has gone.
Holds(k, who) == writer[k] # <<>> /\ Head(writer[k]) = who

CanWrite(k) == client[k] # "gone" /\ Len(wire[k]) < ReplyRoom

Release(k) == writer' = [writer EXCEPT ![k] = Tail(@)]

\* Mutants: the faulty line is answered and forwarded all the same; the
\* mutex is kept.
ReplyAndForward(k) ==
    /\ task[k] = "reply" /\ Holds(k, "task")
    /\ CanWrite(k)
    /\ Write(k, Reply(hand[k])) /\ Release(k)
    /\ task' = [task EXCEPT ![k] = "forward"]
    /\ UNCHANGED <<vars, clientVars, inbox, hand, acceptVars, chan, handled>>

ReplyKeepsWriter(k) ==
    /\ task[k] = "reply" /\ Holds(k, "task")
    /\ CanWrite(k)
    /\ Write(k, Reply(hand[k]))
    /\ task' = [task EXCEPT ![k] = "read"]
    /\ hand' = [hand EXCEPT ![k] = 0]
    /\ UNCHANGED <<vars, clientVars, inbox, acceptVars, writer, chan, handled>>

TaskReplies(k) ==
    /\ task[k] = "reply" /\ Holds(k, "task")
    /\ \/ /\ CanWrite(k)
          /\ Write(k, Reply(hand[k]))
          /\ task' = [task EXCEPT ![k] = "read"]
       \/ /\ client[k] = "gone"
          /\ task' = [task EXCEPT ![k] = "ended"]
          /\ UNCHANGED wire
    /\ Release(k)
    /\ hand' = [hand EXCEPT ![k] = 0]
    /\ UNCHANGED <<vars, clientVars, inbox, acceptVars, chan, handled>>

\* Mutants: a channel without a limit; a line that finds it full is put back
\* behind the client's other lines.
ForwardUnbounded(k) ==
    /\ task[k] = "forward" /\ ServerUp
    /\ chan' = Append(chan, hand[k])
    /\ task' = [task EXCEPT ![k] = "read"]
    /\ hand' = [hand EXCEPT ![k] = 0]
    /\ UNCHANGED <<vars, clientVars, inbox, acceptVars, writer, wire, handled>>

ForwardLater(k) ==
    /\ task[k] = "forward" /\ ServerUp
    /\ IF Len(chan) < Backlog
       THEN chan' = Append(chan, hand[k]) /\ UNCHANGED inbox
       ELSE inbox' = [inbox EXCEPT ![k] = Append(@, hand[k])] /\ UNCHANGED chan
    /\ task' = [task EXCEPT ![k] = "read"]
    /\ hand' = [hand EXCEPT ![k] = 0]
    /\ UNCHANGED <<vars, clientVars, acceptVars, writer, wire, handled>>

\* The task waits for room in the channel; without a receiver it ends.
Forward(k) ==
    /\ task[k] = "forward"
    /\ \/ /\ ServerUp /\ Len(chan) < Backlog
          /\ chan' = Append(chan, hand[k])
          /\ task' = [task EXCEPT ![k] = "read"]
       \/ /\ ~ServerUp
          /\ task' = [task EXCEPT ![k] = "ended"]
          /\ UNCHANGED chan
    /\ hand' = [hand EXCEPT ![k] = 0]
    /\ UNCHANGED <<vars, clientVars, inbox, acceptVars, writer, wire, handled>>

-----------------------------------------------------------------------------
(* The message loop on this source.                                        *)

TakeMessage ==
    /\ chan # <<>> /\ Head(chan) # 0
    /\ Receive([key |-> lines[Head(chan)].key, id |-> Head(chan)])
    /\ chan' = Tail(chan)
    /\ UNCHANGED <<clientVars, taskVars, acceptVars, writer, wire, handled>>

\* A receive error is logged and skipped.
SkipError ==
    /\ loop = "next" /\ chan # <<>> /\ Head(chan) = 0
    /\ chan' = Tail(chan)
    /\ UNCHANGED <<vars, clientVars, taskVars, acceptVars, writer, wire, handled>>

UnixInsert == Insert /\ UNCHANGED unixVars

UnixDispatch ==
    /\ Dispatch
    /\ handled' = handled \cup {cur.id}
    /\ UNCHANGED <<clientVars, taskVars, acceptVars, writer, chan, wire>>

\* message_with_ack: the loop, too, waits for the writer and for room.
AckAsks(k) ==
    /\ loop = "ack" /\ lines[cur.id].client = k
    /\ "loop" \notin {writer[k][i] : i \in DOMAIN writer[k]}
    /\ writer' = [writer EXCEPT ![k] = Append(@, "loop")]
    /\ UNCHANGED <<vars, clientVars, taskVars, acceptVars, chan, wire, handled>>

AckReplies(k) ==
    /\ Holds(k, "loop")
    /\ \/ CanWrite(k) /\ AckOk /\ Write(k, Reply(cur.id))
       \/ client[k] = "gone" /\ AckFails /\ UNCHANGED wire
    /\ Release(k)
    /\ UNCHANGED <<clientVars, taskVars, acceptVars, chan, handled>>

\* The stream goes with the loop, and what it holds with the stream.
UnixCtrlC ==
    /\ CtrlC
    /\ chan' = <<>>
    /\ UNCHANGED <<clientVars, taskVars, acceptVars, writer, wire, handled>>

\* main returns, and the runtime's tasks are gone.
UnixStopped ==
    /\ Stopped
    /\ task' = [k \in Clients |-> "ended"] /\ hand' = [k \in Clients |-> 0]
    /\ writer' = [k \in Clients |-> <<>>]
    /\ acceptor' = "ended"
    /\ UNCHANGED <<clientVars, inbox, acceptErrors, chan, wire, handled>>

TaskStep(k) ==
    \/ Authorize(k) \/ ReadLine(k) \/ ReadEof(k) \/ TaskReplies(k) \/ Forward(k)

LoopWork ==
    \/ TakeMessage \/ SkipError \/ UnixInsert \/ UnixDispatch \/ UnixStopped
    \/ \E k \in Clients : AckAsks(k) \/ AckReplies(k)

UnixNext ==
    \/ \E k \in Clients :
        \/ \E kind \in SentKinds, p \in Points : ClientSends(k, kind, p)
        \/ ClientReads(k) \/ ClientHalfCloses(k) \/ ClientCloses(k)
        \/ TaskStep(k)
        \/ \E cred \in PeerCreds : AcceptClient(k, cred)
    \/ AcceptFails \/ SendAcceptError \/ LoopWork \/ UnixCtrlC
    \/ Terminated /\ UNCHANGED unixVars

UnixSpec == UnixInit /\ [][UnixNext]_allVars

(***************************************************************************)
(* Fairness: the runtime polls every task that can go on, and every client *)
(* that is not Deaf goes on reading its replies.  Clients send a bounded   *)
(* number of lines, so a task that waits for the channel or the writer     *)
(* cannot be overtaken for ever.                                           *)
(***************************************************************************)
UnixFairSpec ==
    /\ UnixSpec
    /\ WF_allVars(LoopWork) /\ WF_allVars(SendAcceptError)
    /\ \A k \in Clients : WF_allVars(TaskStep(k))
    /\ \A k \in Clients \ Deaf : WF_allVars(ClientReads(k))

-----------------------------------------------------------------------------
(* Properties.                                                             *)

Replies(k) == got[k] \o wire[k]

Said(k, n) == {i \in 1..Len(Replies(k)) : Replies(k)[i].line = n}

Sent(n) == n \in 1..Len(lines)

Answered(n) == Said(lines[n].client, n) # {}

\* Type invariant: no channel outgrows UNIX_SOCKET_BACKLOG, and a writer
\* mutex is held or awaited by the client's task and the message loop only.
UnixTypeOK ==
    /\ TypeOK
    /\ lines \in Seq([client : Clients, kind : LineKinds, key : Points])
    /\ client \in [Clients -> {"absent", "open", "eof", "gone"}]
    /\ task \in [Clients -> TaskStates]
    /\ hand \in [Clients -> 0..Len(lines)]
    /\ \A k \in Clients : inbox[k] \in Seq(1..Len(lines))
    /\ writer \in [Clients -> {<<>>, <<"task">>, <<"loop">>, <<"task", "loop">>, <<"loop", "task">>}]
    /\ chan \in Seq(0..Len(lines)) /\ Len(chan) <= Backlog
    /\ acceptor \in {"accept", "error", "ended"} /\ acceptErrors \in Nat
    /\ \A k \in Clients : Len(wire[k]) <= ReplyRoom
    /\ handled \subseteq 1..Len(lines)

\* README.md: a client is told "ok" only after its message was cached and
\* dispatched (handle_incoming_message acknowledges last).
OkMeansHandled ==
    \A k \in Clients : \A i \in 1..Len(Replies(k)) :
        Replies(k)[i].text = "ok" => Replies(k)[i].line \in handled

\* A peer that fails either restriction never gets a value into the cache,
\* even if it sends before its credentials are read (authorize_unix_client).
RefusedNeverCached ==
    \A i \in 1..Len(log) : LET k == lines[log[i].id].client IN
        /\ allowed_uid # AnyId => peer[k].uid = allowed_uid
        /\ allowed_gid # AnyId => peer[k].gid = allowed_gid

\* The values of one client reach the cache in the order it sent them,
\* whatever the other clients do (forward_unix_client_lines).
ClientOrderKept ==
    \A i, j \in 1..Len(log) :
        i < j /\ lines[log[i].id].client = lines[log[j].id].client
        => log[i].id < log[j].id

Pending(n) ==
    LET k == lines[n].client IN
    Cardinality({i \in 1..Len(inbox[k]) : inbox[k][i] = n})
      + (IF hand[k] = n THEN 1 ELSE 0)
      + Cardinality({i \in 1..Len(chan) : chan[i] = n})
      + (IF cur.id = n THEN 1 ELSE 0)

Garbled(n) ==
    \E m \in 1..n : lines[m].client = lines[n].client /\ lines[m].kind = "garbled"

\* However the task and the loop take turns at the writer, a line is answered
\* at most once and to the client that sent it, and one answered with an error
\* never reaches the cache; a line of a client that stays and whose task is
\* alive is not lost: until it is answered, it is in exactly one place on its
\* way (process_unix_socket_line).
OneReplyPerLine ==
    /\ \A k \in Clients : \A n \in 1..Len(lines) :
        /\ Cardinality(Said(k, n)) <= 1
        /\ Said(k, n) # {} => lines[n].client = k
        /\ lines[n].kind # "valid" => \A i \in 1..Len(log) : log[i].id # n
    /\ ServerUp => \A n \in 1..Len(lines) :
        client[lines[n].client] # "gone" /\ task[lines[n].client] # "refused" /\ ~Garbled(n)
        => Pending(n) = IF Answered(n) THEN 0 ELSE 1

Excused(n) ==
    LET k == lines[n].client IN
    ~ServerUp \/ client[k] = "gone" \/ task[k] = "refused" \/ k \in Deaf

\* Every line of an authorized client that reads and stays is answered, also
\* after the client has half-closed, unless it or an earlier one is not UTF-8
\* or the bridge stops (process_unix_socket_line, message_with_ack).
EveryLineAnswered ==
    \A n \in 1..MaxMsgs :
        Sent(n) ~> Sent(n) /\ (Answered(n) \/ Excused(n) \/ Garbled(n))
=============================================================================
