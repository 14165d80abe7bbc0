-------------------------- MODULE UnixBridgeProofs --------------------------
(* Theorems about UnixBridge, for any number of clients and lines and any  *)
(* capacity of the channel and of the sockets.                             *)
EXTENDS UnixBridge, BridgeProofs, QueueTheorems, FiniteSetTheorems

-----------------------------------------------------------------------------
(* The writer mutex.                                                       *)

Writers == {<<>>, <<"task">>, <<"loop">>, <<"task", "loop">>, <<"loop", "task">>}

TaskIn(w) == w \in {<<"task">>, <<"task", "loop">>, <<"loop", "task">>}
LoopIn(w) == w \in {<<"loop">>, <<"task", "loop">>, <<"loop", "task">>}

\* Appending to a sequence of one.
LEMMA AppendToOne == ASSUME NEW a, NEW b PROVE Append(<<a>>, b) = <<a, b>>
<1> DEFINE S == {a, b}
<1>1. <<a>> \in Seq(S) /\ <<a, b>> \in Seq(S) /\ Len(<<a>>) = 1 /\ Len(<<a, b>>) = 2
  OBVIOUS
<1>2. /\ Append(<<a>>, b) \in Seq(S) /\ Len(Append(<<a>>, b)) = 2
      /\ Append(<<a>>, b)[1] = a /\ Append(<<a>>, b)[2] = b
  BY <1>1, AppendProperties
<1>3. ASSUME NEW i \in 1..Len(Append(<<a>>, b)) PROVE Append(<<a>>, b)[i] = <<a, b>>[i]
  <2>1. i = 1 \/ i = 2
    BY <1>2
  <2> QED BY <1>2, <2>1
<1> QED BY <1>1, <1>2, <1>3, SeqEqual

\* Who asks for the writer mutex is in its queue ...
LEMMA WriterAsks ==
    ASSUME NEW w \in Writers
    PROVE  /\ ~TaskIn(w) => /\ Append(w, "task") \in Writers /\ TaskIn(Append(w, "task"))
                            /\ LoopIn(Append(w, "task")) <=> LoopIn(w)
           /\ ~LoopIn(w) => /\ Append(w, "loop") \in Writers /\ LoopIn(Append(w, "loop"))
                            /\ TaskIn(Append(w, "loop")) <=> TaskIn(w)
           /\ "loop" \notin {w[i] : i \in DOMAIN w} => ~LoopIn(w)
<1>1. CASE w = <<>>
  <2>1. Append(w, "task") = <<"task">> /\ Append(w, "loop") = <<"loop">>
    BY <1>1
  <2> QED BY <1>1, <2>1 DEF Writers, TaskIn, LoopIn
<1>2. CASE w = <<"task">>
  <2>1. Append(w, "loop") = <<"task", "loop">>
    BY <1>2, AppendToOne
  <2> QED BY <1>2, <2>1 DEF Writers, TaskIn, LoopIn
<1>3. CASE w = <<"loop">>
  <2>1. Append(w, "task") = <<"loop", "task">> /\ w[1] = "loop" /\ 1 \in DOMAIN w
    BY <1>3, AppendToOne
  <2> QED BY <1>3, <2>1 DEF Writers, TaskIn, LoopIn
<1>4. CASE w = <<"task", "loop">>
  <2>1. w[2] = "loop" /\ 2 \in DOMAIN w
    BY <1>4
  <2> QED BY <1>4, <2>1 DEF Writers, TaskIn, LoopIn
<1>5. CASE w = <<"loop", "task">>
  <2>1. w[1] = "loop" /\ 1 \in DOMAIN w
    BY <1>5
  <2> QED BY <1>5, <2>1 DEF Writers, TaskIn, LoopIn
<1> QED BY <1>1, <1>2, <1>3, <1>4, <1>5 DEF Writers

\* ... and leaves it on release.
LEMMA WriterLeaves ==
    ASSUME NEW w \in Writers, w # <<>>
    PROVE  /\ Tail(w) \in Writers
           /\ Head(w) = "task" => TaskIn(w) /\ ~TaskIn(Tail(w)) /\ (LoopIn(Tail(w)) <=> LoopIn(w))
           /\ Head(w) = "loop" => LoopIn(w) /\ ~LoopIn(Tail(w)) /\ (TaskIn(Tail(w)) <=> TaskIn(w))
<1>2. CASE w = <<"task">>
  BY <1>2 DEF Writers, TaskIn, LoopIn
<1>3. CASE w = <<"loop">>
  BY <1>3 DEF Writers, TaskIn, LoopIn
<1>4. CASE w = <<"task", "loop">>
  BY <1>4 DEF Writers, TaskIn, LoopIn
<1>5. CASE w = <<"loop", "task">>
  BY <1>5 DEF Writers, TaskIn, LoopIn
<1> QED BY <1>2, <1>3, <1>4, <1>5 DEF Writers

-----------------------------------------------------------------------------
(* Where lines are.                                                        *)

LineSet  == [client : Clients, kind : LineKinds, key : Points]
ReplySet == [line : Nat, text : {"error unauthorized"} \cup {ReplyTo(kind) : kind \in LineKinds}]

UnixTypes ==
    /\ lines \in Seq(LineSet)
    /\ client \in [Clients -> {"absent", "open", "eof", "gone"}]
    /\ peer = [k \in Clients |-> peer[k]]
    /\ task \in [Clients -> TaskStates]
    /\ hand \in [Clients -> Nat] /\ inbox \in [Clients -> Seq(Nat)]
    /\ writer \in [Clients -> Writers]
    /\ chan \in Seq(Nat) /\ Len(chan) <= Backlog
    /\ acceptor \in {"accept", "error", "ended"} /\ acceptErrors \in Nat
    /\ wire \in [Clients -> Seq(ReplySet)] /\ got \in [Clients -> Seq(ReplySet)]

IsLine(n)       == n \in 1..Len(lines)
LineAt(l, n, k) == n \in 1..Len(l) /\ l[n].client = k
LineOf(n, k)    == LineAt(lines, n, k)

\* A line that a task has forwarded.
Passed(n) ==
    /\ IsLine(n) /\ lines[n].kind = "valid"
    /\ Authorized(lines[n].client)
    /\ task[lines[n].client] \notin {"none", "authorize", "refused"}

\* Inductive: a task has a line in hand while it answers or forwards it, and
\* only valid lines of authorized clients get past it.
PlaceInv ==
    /\ \A n \in 1..Len(lines) : client[lines[n].client] # "absent"
    /\ \A k \in Clients : task[k] \in {"read", "reply", "forward"} =>
          Authorized(k) /\ client[k] # "absent"
    /\ \A k \in Clients : task[k] = "authorize" => client[k] # "absent"
    /\ \A k \in Clients : \A i \in 1..Len(inbox[k]) : LineOf(inbox[k][i], k)
    /\ \A k \in Clients :
          /\ task[k] = "reply" =>
                LineOf(hand[k], k) /\ lines[hand[k]].kind \in {"unparsable", "invalid"}
          /\ task[k] = "forward" => LineOf(hand[k], k) /\ lines[hand[k]].kind = "valid"
          /\ task[k] \notin {"reply", "forward"} => hand[k] = 0
    /\ \A i \in 1..Len(chan) : chan[i] # 0 => Passed(chan[i])
    /\ cur.id # 0 => Passed(cur.id)
    /\ \A i \in 1..Len(log) : Passed(log[i].id)
    /\ \A n \in handled : IsLine(n)

\* Inductive: who is in the queue of a writer mutex, and why a refusal finds
\* room in the socket.
WriterInv ==
    /\ \A k \in Clients : TaskIn(writer[k]) <=> task[k] = "reply"
    /\ \A k \in Clients : LoopIn(writer[k]) => loop = "ack" /\ LineOf(cur.id, k)
    /\ \A k \in Clients : Len(wire[k]) <= ReplyRoom
    /\ \A k \in Clients : client[k] = "absent" \/ task[k] = "authorize" => wire[k] = <<>>

Basics == TypeOK /\ UnixTypes /\ PlaceInv /\ WriterInv

\* The first element of a queue, and what remains.
LEMMA TakeFirst ==
    ASSUME NEW S, NEW s \in Seq(S), s # <<>>
    PROVE  /\ Len(s) \in Nat \ {0} /\ Head(s) \in S /\ Head(s) = s[1] /\ 1 \in 1..Len(s)
           /\ Tail(s) \in Seq(S) /\ Len(Tail(s)) = Len(s) - 1
           /\ \A i \in 1..Len(Tail(s)) : i + 1 \in 1..Len(s) /\ Tail(s)[i] = s[i + 1]
<1>1. Len(s) \in Nat \ {0}
  BY LenProperties, EmptySeq
<1>2. Head(s) \in S /\ Tail(s) \in Seq(S) /\ Len(Tail(s)) = Len(s) - 1
      /\ \A i \in 1..Len(Tail(s)) : Tail(s)[i] = s[i + 1]
  BY HeadTailProperties
<1>3. Head(s) = s[1] /\ 1 \in 1..Len(s)
  BY <1>1
<1> QED BY <1>1, <1>2, <1>3

\* A queue with one more element at its end.
LEMMA AddLast ==
    ASSUME NEW S, NEW s \in Seq(S), NEW e \in S
    PROVE  /\ Append(s, e) \in Seq(S) /\ Len(Append(s, e)) = Len(s) + 1 /\ Len(s) \in Nat
           /\ \A i \in 1..Len(s) : Append(s, e)[i] = s[i]
           /\ Append(s, e)[Len(s) + 1] = e
           /\ \A i \in 1..Len(Append(s, e)) : i \in 1..Len(s) \/ i = Len(s) + 1
<1>1. Len(s) \in Nat
  BY LenProperties
<1>2. Append(s, e) \in Seq(S) /\ Len(Append(s, e)) = Len(s) + 1
      /\ (\A i \in 1..Len(s) : Append(s, e)[i] = s[i]) /\ Append(s, e)[Len(s) + 1] = e
  BY AppendProperties
<1> QED BY <1>1, <1>2

\* The reply to a line.
LEMMA ReplyType ==
    ASSUME UnixTypes, NEW n, IsLine(n)
    PROVE  Reply(n) \in ReplySet /\ Reply(n).line = n /\ Reply(n).text = ReplyTo(lines[n].kind)
<1>1. lines[n] \in LineSet /\ n \in Nat
  BY ElementOfSeq, LenProperties DEF UnixTypes, IsLine
<1> QED BY <1>1 DEF Reply, ReplySet, LineSet

\* A step that leaves the loop, the store and the masters alone.
LEMMA TypeSame == ASSUME TypeOK, UNCHANGED vars PROVE TypeOK'
BY DEF TypeOK, vars, storeVars, loopVars, giVars, masterVars, queueVars, connVars

-----------------------------------------------------------------------------
(* One step of any part, and the types.                                    *)

\* The steps of the clients, the accept loop and the tasks do not touch the
\* loop, the store or the server.
Outside ==
    \/ \E k \in Clients :
        \/ \E kind \in SentKinds, p \in Points : ClientSends(k, kind, p)
        \/ ClientReads(k) \/ ClientHalfCloses(k) \/ ClientCloses(k) \/ TaskStep(k)
        \/ \E cred \in PeerCreds : AcceptClient(k, cred)
    \/ AcceptFails \/ SendAcceptError

\* What the loop takes from the channel is a message.
LEMMA MessageTaken ==
    ASSUME Basics, chan # <<>>, Head(chan) # 0
    PROVE  /\ [key |-> lines[Head(chan)].key, id |-> Head(chan)] \in Messages
           /\ Passed(Head(chan)) /\ Head(chan) = chan[1] /\ 1 \in 1..Len(chan)
<1>1. Head(chan) = chan[1] /\ 1 \in 1..Len(chan) /\ Head(chan) \in Nat
  BY TakeFirst DEF Basics, UnixTypes
<1>2. Passed(Head(chan))
  BY <1>1 DEF Basics, PlaceInv
<1>3. lines[Head(chan)] \in LineSet
  BY <1>2, ElementOfSeq DEF Passed, IsLine, Basics, UnixTypes
<1> QED BY <1>1, <1>2, <1>3 DEF Messages, LineSet

\* The loop, the store and the server keep their types.
LEMMA CoreTypes == Basics /\ [UnixNext]_allVars => TypeOK'
<1> SUFFICES ASSUME Basics, UnixNext \/ UNCHANGED allVars PROVE TypeOK'
  OBVIOUS
<1> USE DEF Basics
<1>1. CASE Outside \/ SkipError \/ (\E k \in Clients : AckAsks(k)) \/ UNCHANGED allVars
  <2>1. UNCHANGED vars
    BY <1>1 DEF Outside, ClientSends, ClientReads, ClientHalfCloses, ClientCloses, TaskStep,
         AcceptClient, AcceptFails, SendAcceptError, Authorize, ReadLine, ReadEof, TaskReplies,
         Forward, SkipError, AckAsks, allVars
  <2> QED BY <2>1, TypeSame
<1>2. CASE TakeMessage
  <2>1. chan # <<>> /\ Head(chan) # 0 /\ Receive([key |-> lines[Head(chan)].key, id |-> Head(chan)])
    BY <1>2 DEF TakeMessage
  <2> QED BY <2>1, MessageTaken, TypeReceive
<1>3. CASE UnixInsert \/ UnixDispatch \/ UnixStopped \/ UnixCtrlC \/ Terminated
           \/ \E k \in Clients : AckReplies(k)
  <2>1. LoopNext \/ Terminated
    BY <1>3 DEF UnixInsert, UnixDispatch, UnixStopped, UnixCtrlC, AckReplies, LoopNext, LoopStep
  <2> QED BY <2>1, TypeLoop
<1> QED BY <1>1, <1>2, <1>3 DEF UnixNext, LoopWork, Outside

\* The clients, the tasks and the queues keep theirs.
LEMMA ClientTypes ==
    ASSUME Basics, NEW k \in Clients,
           \/ \E kind \in SentKinds, p \in Points : ClientSends(k, kind, p)
           \/ ClientReads(k) \/ ClientHalfCloses(k) \/ ClientCloses(k)
           \/ \E cred \in PeerCreds : AcceptClient(k, cred)
    PROVE  UnixTypes'
<1> USE DEF Basics, clientVars, taskVars, acceptVars
<1>1. ASSUME NEW kind \in SentKinds, NEW p \in Points, ClientSends(k, kind, p) PROVE UnixTypes'
  <2>1. [client |-> k, kind |-> kind, key |-> p] \in LineSet /\ Len(lines) + 1 \in Nat
    BY UnixAssumption, LenProperties DEF LineSet, LineKinds, UnixTypes
  <2>2. lines' \in Seq(LineSet)
    BY <1>1, <2>1, AppendProperties DEF ClientSends, UnixTypes
  <2>3. Append(inbox[k], Len(lines) + 1) \in Seq(Nat)
    BY <2>1, AppendProperties DEF UnixTypes
  <2> QED BY <1>1, <2>2, <2>3 DEF ClientSends, UnixTypes
<1>2. CASE ClientReads(k)
  <2>1. wire[k] \in Seq(ReplySet) /\ wire[k] # <<>> /\ got[k] \in Seq(ReplySet)
    BY <1>2 DEF ClientReads, UnixTypes
  <2>2. Tail(wire[k]) \in Seq(ReplySet) /\ Append(got[k], Head(wire[k])) \in Seq(ReplySet)
    BY <2>1, TakeFirst, AppendProperties
  <2> QED BY <1>2, <2>2 DEF ClientReads, UnixTypes
<1>3. CASE ClientHalfCloses(k)
  BY <1>3 DEF ClientHalfCloses, UnixTypes
<1>4. CASE ClientCloses(k)
  <2>1. <<>> \in Seq(ReplySet)
    OBVIOUS
  <2> QED BY <1>4, <2>1 DEF ClientCloses, UnixTypes
<1>5. ASSUME NEW cred \in PeerCreds, AcceptClient(k, cred) PROVE UnixTypes'
  BY <1>5 DEF AcceptClient, UnixTypes, TaskStates
<1> QED BY <1>1, <1>2, <1>3, <1>4, <1>5

\* What read_line does with the line it takes.
LEMMA LineRead ==
    ASSUME NEW k \in Clients, ReadLine(k), NEW n, n = Head(inbox[k])
    PROVE  /\ task[k] = "read" /\ inbox[k] # <<>>
           /\ inbox' = [inbox EXCEPT ![k] = Tail(inbox[k])]
           /\ \/ /\ lines[n].kind = "garbled"
                 /\ task' = [task EXCEPT ![k] = "ended"] /\ hand' = [hand EXCEPT ![k] = 0]
                 /\ writer' = writer
              \/ /\ lines[n].kind = "valid"
                 /\ task' = [task EXCEPT ![k] = "forward"] /\ hand' = [hand EXCEPT ![k] = n]
                 /\ writer' = writer
              \/ /\ lines[n].kind \in {"unparsable", "invalid"}
                 /\ task' = [task EXCEPT ![k] = "reply"] /\ hand' = [hand EXCEPT ![k] = n]
                 /\ writer' = [writer EXCEPT ![k] = Append(writer[k], "task")]
           /\ UNCHANGED <<vars, clientVars, acceptVars, chan, wire, handled>>
BY DEF ReadLine

\* The tasks keep the types (handle_unix_client).
LEMMA TaskTypes == ASSUME Basics, NEW k \in Clients, TaskStep(k) PROVE UnixTypes'
<1> USE DEF Basics, clientVars, taskVars, acceptVars
<1>1. CASE Authorize(k)
  <2>1. [line |-> 0, text |-> "error unauthorized"] \in ReplySet
    BY DEF ReplySet
  <2>2. Append(wire[k], [line |-> 0, text |-> "error unauthorized"]) \in Seq(ReplySet)
    BY <2>1, AppendProperties DEF UnixTypes
  <2>3. wire' \in [Clients -> Seq(ReplySet)]
    BY <1>1, <2>2 DEF Authorize, Write, UnixTypes
  <2> QED BY <1>1, <2>3 DEF Authorize, UnixTypes, TaskStates
<1>2. CASE ReadLine(k)
  <2>1. inbox[k] \in Seq(Nat) /\ inbox[k] # <<>> /\ writer[k] \in Writers /\ task[k] = "read"
    BY <1>2 DEF ReadLine, UnixTypes
  <2>2. Tail(inbox[k]) \in Seq(Nat) /\ Head(inbox[k]) \in Nat
    BY <2>1, TakeFirst
  <2>3. Append(writer[k], "task") \in Writers
    BY <2>1, WriterAsks DEF WriterInv
  <2>4. task' \in [Clients -> TaskStates] /\ hand' \in [Clients -> Nat]
    <3>0. hand \in [Clients -> Nat] /\ task \in [Clients -> TaskStates]
      BY DEF UnixTypes
    <3>1. hand' = [hand EXCEPT ![k] = 0] \/ hand' = [hand EXCEPT ![k] = Head(inbox[k])]
      BY <1>2, LineRead
    <3>2. \E s \in {"ended", "forward", "reply"} : task' = [task EXCEPT ![k] = s]
      BY <1>2, LineRead
    <3>3. PICK h \in Nat : hand' = [hand EXCEPT ![k] = h]
      BY <2>2, <3>1
    <3>4. hand' \in [Clients -> Nat]
      BY <3>0, <3>3
    <3> QED BY <3>0, <3>2, <3>4 DEF TaskStates
  <2>5. writer' \in [Clients -> Writers]
    BY <1>2, <2>3 DEF ReadLine, UnixTypes
  <2>6. inbox' \in [Clients -> Seq(Nat)]
    BY <1>2, <2>2 DEF ReadLine, UnixTypes
  <2> QED BY <1>2, <2>4, <2>5, <2>6 DEF ReadLine, UnixTypes
<1>3. CASE ReadEof(k)
  BY <1>3 DEF ReadEof, UnixTypes, TaskStates
<1>4. CASE TaskReplies(k)
  <2>1. writer[k] \in Writers /\ writer[k] # <<>> /\ task[k] = "reply"
    BY <1>4 DEF TaskReplies, Holds, UnixTypes
  <2>2. Tail(writer[k]) \in Writers
    BY <2>1, WriterLeaves
  <2>3. Reply(hand[k]) \in ReplySet
    BY <2>1, ReplyType DEF PlaceInv, LineOf, LineAt, IsLine
  <2>4. Append(wire[k], Reply(hand[k])) \in Seq(ReplySet)
    BY <2>3, AppendProperties DEF UnixTypes
  <2>5. wire' \in [Clients -> Seq(ReplySet)]
    BY <1>4, <2>4 DEF TaskReplies, Write, UnixTypes
  <2>6. writer' \in [Clients -> Writers]
    BY <1>4, <2>2 DEF TaskReplies, Release, UnixTypes
  <2>7. task' \in [Clients -> TaskStates] /\ hand' \in [Clients -> Nat]
    BY <1>4 DEF TaskReplies, UnixTypes, TaskStates
  <2> QED BY <1>4, <2>5, <2>6, <2>7 DEF TaskReplies, UnixTypes
<1>5. CASE Forward(k)
  <2>1. Append(chan, hand[k]) \in Seq(Nat) /\ Len(Append(chan, hand[k])) = Len(chan) + 1 /\ Len(chan) \in Nat
    BY AppendProperties, LenProperties DEF UnixTypes
  <2>2. chan' \in Seq(Nat) /\ Len(chan') <= Backlog
    <3>1. chan' = chan \/ (chan' = Append(chan, hand[k]) /\ Len(chan) < Backlog)
      BY <1>5 DEF Forward
    <3>2. Backlog \in Nat /\ chan \in Seq(Nat) /\ Len(chan) <= Backlog
      BY UnixAssumption DEF UnixTypes
    <3>3. Len(Append(chan, hand[k])) <= Backlog \/ ~(Len(chan) < Backlog)
      BY <2>1, <3>2
    <3> QED BY <2>1, <3>1, <3>2, <3>3
  <2> QED BY <1>5, <2>2 DEF Forward, UnixTypes, TaskStates
<1> QED BY <1>1, <1>2, <1>3, <1>4, <1>5 DEF TaskStep

\* So do the accept loop and the message loop.
LEMMA LoopTypes ==
    ASSUME Basics,
           \/ AcceptFails \/ SendAcceptError \/ LoopWork \/ UnixCtrlC
           \/ UNCHANGED unixVars
    PROVE  UnixTypes'
<1> USE DEF Basics, clientVars, taskVars, acceptVars
<1>1. CASE AcceptFails
  BY <1>1, UnixAssumption DEF AcceptFails, UnixTypes
<1>2. CASE SendAcceptError
  <2>1. Append(chan, 0) \in Seq(Nat) /\ Len(Append(chan, 0)) = Len(chan) + 1 /\ Len(chan) \in Nat
    BY AppendProperties, LenProperties DEF UnixTypes
  <2>2. chan' \in Seq(Nat) /\ Len(chan') <= Backlog
    <3>1. chan' = chan \/ (chan' = Append(chan, 0) /\ Len(chan) < Backlog)
      BY <1>2 DEF SendAcceptError
    <3>2. Backlog \in Nat /\ chan \in Seq(Nat) /\ Len(chan) <= Backlog
      BY UnixAssumption DEF UnixTypes
    <3>3. Len(Append(chan, 0)) <= Backlog \/ ~(Len(chan) < Backlog)
      BY <2>1, <3>2
    <3> QED BY <2>1, <3>1, <3>2, <3>3
  <2> QED BY <1>2, <2>2 DEF SendAcceptError, UnixTypes
<1>3. CASE TakeMessage \/ SkipError
  <2>1. chan' = Tail(chan) /\ chan # <<>>
    BY <1>3 DEF TakeMessage, SkipError
  <2>2. Tail(chan) \in Seq(Nat) /\ Len(Tail(chan)) = Len(chan) - 1 /\ Len(chan) \in Nat
    BY <2>1, TakeFirst DEF UnixTypes
  <2>3. chan' \in Seq(Nat) /\ Len(chan') <= Backlog
    BY <2>1, <2>2, UnixAssumption DEF UnixTypes
  <2> QED BY <1>3, <2>3 DEF TakeMessage, SkipError, UnixTypes
<1>4. CASE UnixInsert \/ UnixDispatch \/ UNCHANGED unixVars
  BY <1>4 DEF UnixInsert, UnixDispatch, unixVars, UnixTypes
<1>5. CASE UnixCtrlC
  BY <1>5, UnixAssumption DEF UnixCtrlC, UnixTypes
<1>6. CASE UnixStopped
  BY <1>6 DEF UnixStopped, UnixTypes, TaskStates, Writers
<1>7. ASSUME NEW k \in Clients, AckAsks(k) PROVE UnixTypes'
  <2>1. Append(writer[k], "loop") \in Writers
    BY <1>7, WriterAsks DEF AckAsks, UnixTypes
  <2> QED BY <1>7, <2>1 DEF AckAsks, UnixTypes
<1>8. ASSUME NEW k \in Clients, AckReplies(k) PROVE UnixTypes'
  <2>1. writer[k] \in Writers /\ writer[k] # <<>> /\ Head(writer[k]) = "loop"
    BY <1>8 DEF AckReplies, Holds, UnixTypes
  <2>2. Tail(writer[k]) \in Writers /\ LoopIn(writer[k])
    BY <2>1, WriterLeaves
  <2>3. Reply(cur.id) \in ReplySet
    BY <2>2, ReplyType DEF WriterInv, LineOf, LineAt, IsLine
  <2>4. Append(wire[k], Reply(cur.id)) \in Seq(ReplySet)
    BY <2>3, AppendProperties DEF UnixTypes
  <2>5. wire' \in [Clients -> Seq(ReplySet)]
    BY <1>8, <2>4 DEF AckReplies, Write, UnixTypes
  <2>6. writer' \in [Clients -> Writers]
    BY <1>8, <2>2 DEF AckReplies, Release, UnixTypes
  <2> QED BY <1>8, <2>5, <2>6 DEF AckReplies, UnixTypes
<1> QED BY <1>1, <1>2, <1>3, <1>4, <1>5, <1>6, <1>7, <1>8 DEF LoopWork

\* So does every step.
LEMMA UnixTypesStep == Basics /\ [UnixNext]_allVars => UnixTypes'
BY ClientTypes, TaskTypes, LoopTypes DEF UnixNext, allVars

-----------------------------------------------------------------------------
(* Which step changes what.                                                *)

Sends(k) == \E kind \in SentKinds, p \in Points : ClientSends(k, kind, p)
Accepted(k) == \E cred \in PeerCreds : AcceptClient(k, cred)

\* Each variable is written by few of the steps.
LEMMA WhoWrites ==
    ASSUME [UnixNext]_allVars
    PROVE  /\ lines' = lines \/ \E k \in Clients : Sends(k)
           /\ inbox' = inbox \/ \E k \in Clients : Sends(k) \/ ReadLine(k)
           /\ chan' = chan \/ SendAcceptError \/ TakeMessage \/ SkipError \/ UnixCtrlC
              \/ \E k \in Clients : Forward(k)
           /\ <<loop, cur, log, handled>>' = <<loop, cur, log, handled>> \/ TakeMessage
              \/ UnixInsert \/ UnixDispatch \/ UnixCtrlC \/ UnixStopped
              \/ \E k \in Clients : AckReplies(k)
           /\ <<client, peer>>' = <<client, peer>>
              \/ \E k \in Clients : Accepted(k) \/ ClientHalfCloses(k) \/ ClientCloses(k)
           /\ <<task, hand>>' = <<task, hand>> \/ UnixStopped
              \/ \E k \in Clients : Accepted(k) \/ TaskStep(k)
           /\ writer' = writer \/ UnixStopped
              \/ \E k \in Clients : ReadLine(k) \/ TaskReplies(k) \/ AckAsks(k) \/ AckReplies(k)
           /\ <<wire, got>>' = <<wire, got>>
              \/ \E k \in Clients : \/ ClientReads(k) \/ ClientCloses(k) \/ Authorize(k)
                                    \/ TaskReplies(k) \/ AckReplies(k)
<1> USE DEF clientVars, taskVars, acceptVars, vars, loopVars, storeVars, Sends, Accepted, TaskStep
<1>1. CASE \E k \in Clients : Sends(k)
  BY <1>1 DEF ClientSends
<1>2. CASE \E k \in Clients : ClientReads(k) \/ ClientHalfCloses(k) \/ ClientCloses(k) \/ Accepted(k)
  BY <1>2 DEF ClientReads, ClientHalfCloses, ClientCloses, AcceptClient
<1>3. CASE AcceptFails \/ SendAcceptError
  BY <1>3 DEF AcceptFails, SendAcceptError
<1>4. CASE \E k \in Clients : Authorize(k) \/ ReadLine(k) \/ ReadEof(k)
  BY <1>4 DEF Authorize, ReadLine, ReadEof
<1>5. CASE \E k \in Clients : TaskReplies(k) \/ Forward(k)
  BY <1>5 DEF TaskReplies, Forward
<1>6. CASE TakeMessage \/ SkipError
  BY <1>6 DEF TakeMessage, SkipError
<1>7. CASE UnixInsert \/ UnixDispatch \/ UnixCtrlC
  BY <1>7 DEF UnixInsert, UnixDispatch, UnixCtrlC, unixVars
<1>8. CASE UnixStopped
  BY <1>8 DEF UnixStopped
<1>9. CASE \E k \in Clients : AckAsks(k) \/ AckReplies(k)
  BY <1>9 DEF AckAsks, AckReplies
<1>10. CASE UNCHANGED allVars \/ (Terminated /\ UNCHANGED unixVars)
  BY <1>10 DEF allVars, unixVars, Terminated
<1> QED BY <1>1, <1>2, <1>3, <1>4, <1>5, <1>6, <1>7, <1>8, <1>9, <1>10 DEF UnixNext, LoopWork

\* A line stays what it is.
LEMMA LineStays ==
    ASSUME Basics, [UnixNext]_allVars, NEW n, IsLine(n)
    PROVE  n \in 1..Len(lines') /\ lines'[n] = lines[n] /\ lines[n] \in LineSet
<1>0. lines \in Seq(LineSet) /\ lines[n] \in LineSet /\ Len(lines) \in Nat
  BY ElementOfSeq, LenProperties DEF Basics, UnixTypes, IsLine
<1>1. CASE lines' = lines
  BY <1>0, <1>1 DEF IsLine
<1>2. ASSUME NEW k \in Clients, Sends(k) PROVE n \in 1..Len(lines') /\ lines'[n] = lines[n]
  <2>1. PICK kind \in SentKinds, p \in Points :
             lines' = Append(lines, [client |-> k, kind |-> kind, key |-> p])
    BY <1>2 DEF Sends, ClientSends
  <2>2. [client |-> k, kind |-> kind, key |-> p] \in LineSet
    BY UnixAssumption DEF LineSet, LineKinds
  <2> QED BY <1>0, <2>1, <2>2, AddLast DEF IsLine
<1> QED BY <1>0, <1>1, <1>2, WhoWrites

\* A client that has connected stays connected, half-closed or gone, and its
\* credentials stay.
LEMMA ClientStays ==
    ASSUME Basics, [UnixNext]_allVars, NEW k \in Clients, client[k] # "absent"
    PROVE  client'[k] # "absent" /\ peer'[k] = peer[k] /\ (Authorized(k)' <=> Authorized(k))
<1>0. client \in [Clients -> {"absent", "open", "eof", "gone"}] /\ peer = [c \in Clients |-> peer[c]]
  BY DEF Basics, UnixTypes
<1>1. client'[k] # "absent" /\ peer'[k] = peer[k]
  <2>1. CASE <<client, peer>>' = <<client, peer>>
    BY <2>1
  <2>2. ASSUME NEW c \in Clients, Accepted(c) \/ ClientHalfCloses(c) \/ ClientCloses(c)
        PROVE  client'[k] # "absent" /\ peer'[k] = peer[k]
    <3>1. CASE Accepted(c)
      <4>1. PICK cred \in PeerCreds : AcceptClient(c, cred)
        BY <3>1 DEF Accepted
      <4> QED BY <1>0, <4>1 DEF AcceptClient
    <3>2. CASE ClientHalfCloses(c)
      BY <1>0, <3>2 DEF ClientHalfCloses
    <3>3. CASE ClientCloses(c)
      BY <1>0, <3>3 DEF ClientCloses
    <3> QED BY <2>2, <3>1, <3>2, <3>3
  <2> QED BY <2>1, <2>2, WhoWrites
<1> QED BY <1>1 DEF Authorized

\* A task that is past the check of its peer stays past it.
LEMMA TaskStays ==
    ASSUME Basics, [UnixNext]_allVars, NEW k \in Clients, client[k] # "absent",
           task[k] \notin {"none", "authorize", "refused"}
    PROVE  task'[k] \notin {"none", "authorize", "refused"}
<1>0. task \in [Clients -> TaskStates]
  BY DEF Basics, UnixTypes
<1>1. CASE <<task, hand>>' = <<task, hand>>
  BY <1>1
<1>2. CASE UnixStopped
  BY <1>2 DEF UnixStopped
<1>3. ASSUME NEW c \in Clients, Accepted(c) \/ TaskStep(c)
      PROVE  task'[k] \notin {"none", "authorize", "refused"}
  <2>1. CASE Accepted(c)
    <3>1. PICK cred \in PeerCreds : AcceptClient(c, cred)
      BY <2>1 DEF Accepted
    <3> QED BY <1>0, <3>1 DEF AcceptClient
  <2>2. CASE Authorize(c)
    BY <1>0, <2>2 DEF Authorize
  <2>3. CASE ReadLine(c)
    <3>1. \E s \in {"ended", "forward", "reply"} : task' = [task EXCEPT ![c] = s]
      BY <2>3, LineRead
    <3> QED BY <1>0, <3>1
  <2>4. CASE ReadEof(c)
    BY <1>0, <2>4 DEF ReadEof
  <2>5. CASE TaskReplies(c)
    BY <1>0, <2>5 DEF TaskReplies
  <2>6. CASE Forward(c)
    BY <1>0, <2>6 DEF Forward
  <2> QED BY <1>3, <2>1, <2>2, <2>3, <2>4, <2>5, <2>6 DEF TaskStep
<1> QED BY <1>1, <1>2, <1>3, WhoWrites

\* A line that was forwarded stays one.
LEMMA PassedStays ==
    ASSUME Basics, [UnixNext]_allVars, NEW n, Passed(n)
    PROVE  Passed(n)'
<1>1. IsLine(n) /\ n \in 1..Len(lines') /\ lines'[n] = lines[n] /\ lines[n] \in LineSet
  BY LineStays DEF Passed
<1>2. lines[n].client \in Clients /\ client[lines[n].client] # "absent"
  BY <1>1 DEF LineSet, IsLine, Basics, PlaceInv
<1>3. lines'[n].kind = "valid"
  BY <1>1 DEF Passed
<1>4. Authorized(lines[n].client)'
  <2>1. peer'[lines[n].client] = peer[lines[n].client]
    BY <1>2, ClientStays
  <2> QED BY <1>1, <2>1 DEF Passed, Authorized
<1>5. task'[lines'[n].client] \notin {"none", "authorize", "refused"}
  BY <1>1, <1>2, TaskStays DEF Passed
<1> QED BY <1>1, <1>3, <1>4, <1>5 DEF Passed, IsLine

-----------------------------------------------------------------------------
(* The places of lines, step by step.                                      *)

\* The line a client has just sent.
LEMMA NewLine ==
    ASSUME Basics, NEW k \in Clients, Sends(k)
    PROVE  /\ client[k] = "open" /\ task[k] \notin {"refused", "ended"}
           /\ Len(lines) \in Nat /\ Len(lines') = Len(lines) + 1
           /\ LineAt(lines', Len(lines) + 1, k)
           /\ \A n \in 1..Len(lines') : IsLine(n) \/ n = Len(lines) + 1
           /\ inbox' = [inbox EXCEPT ![k] = Append(inbox[k], Len(lines) + 1)]
           /\ UNCHANGED <<vars, client, peer, got, task, hand, acceptVars, writer, chan, wire, handled>>
<1>1. PICK kind \in SentKinds, p \in Points : ClientSends(k, kind, p)
  BY DEF Sends
<1> DEFINE l == [client |-> k, kind |-> kind, key |-> p]
<1>2. l \in LineSet /\ l.client = k /\ lines \in Seq(LineSet)
  BY UnixAssumption DEF LineSet, LineKinds, Basics, UnixTypes
<1>3. /\ lines' = Append(lines, l) /\ client[k] = "open" /\ task[k] \notin {"refused", "ended"}
      /\ inbox' = [inbox EXCEPT ![k] = Append(inbox[k], Len(lines) + 1)]
      /\ UNCHANGED <<vars, client, peer, got, task, hand, acceptVars, writer, chan, wire, handled>>
  BY <1>1 DEF ClientSends
<1> HIDE DEF l
<1>4. /\ Len(lines') = Len(lines) + 1 /\ Len(lines) \in Nat /\ lines'[Len(lines) + 1] = l
      /\ \A i \in 1..Len(lines') : i \in 1..Len(lines) \/ i = Len(lines) + 1
  BY <1>2, <1>3, AddLast
<1>5. Len(lines) + 1 \in 1..Len(lines')
  BY <1>4
<1>6. LineAt(lines', Len(lines) + 1, k) /\ \A n \in 1..Len(lines') : IsLine(n) \/ n = Len(lines) + 1
  BY <1>2, <1>4, <1>5 DEF IsLine, LineAt
<1> QED BY <1>2, <1>3, <1>4, <1>6

\* Only a client that has connected has sent a line.
LEMMA PlaceOfSenders ==
    ASSUME Basics, [UnixNext]_allVars
    PROVE  \A n \in 1..Len(lines') : client'[lines'[n].client] # "absent"
<1>1. ASSUME NEW n, IsLine(n) PROVE client'[lines'[n].client] # "absent"
  <2>1. lines'[n] = lines[n] /\ lines[n].client \in Clients
    BY <1>1, LineStays DEF LineSet
  <2>2. client[lines[n].client] # "absent"
    BY <1>1 DEF Basics, PlaceInv, IsLine
  <2> QED BY <2>1, <2>2, ClientStays
<1>2. CASE lines' = lines
  BY <1>1, <1>2 DEF IsLine
<1>3. ASSUME NEW k \in Clients, Sends(k)
      PROVE  \A n \in 1..Len(lines') : client'[lines'[n].client] # "absent"
  BY <1>1, <1>3, NewLine DEF LineAt
<1> QED BY <1>2, <1>3, WhoWrites

\* Only the task of an authorized client reads, answers or forwards.
LEMMA PlaceOfTasks ==
    ASSUME Basics, [UnixNext]_allVars, NEW k \in Clients, task'[k] \in {"read", "reply", "forward"}
    PROVE  Authorized(k)' /\ client'[k] # "absent"
<1>0. task \in [Clients -> TaskStates]
  BY DEF Basics, UnixTypes
<1>1. CASE task[k] \in {"read", "reply", "forward"}
  BY <1>1, ClientStays DEF Basics, PlaceInv
<1>2. CASE task[k] \notin {"read", "reply", "forward"}
  <2>1. ~UnixStopped
    BY DEF UnixStopped
  <2>2. PICK c \in Clients : Accepted(c) \/ TaskStep(c)
    BY <1>2, <2>1, WhoWrites
  <2>3. Authorize(k) /\ Authorized(k)
    <3>1. CASE Accepted(c)
      <4>1. PICK cred \in PeerCreds : AcceptClient(c, cred)
        BY <3>1 DEF Accepted
      <4> QED BY <1>0, <1>2, <4>1 DEF AcceptClient
    <3>2. CASE Authorize(c)
      BY <1>0, <1>2, <3>2 DEF Authorize
    <3>3. CASE ReadLine(c)
      <4>1. task[c] = "read" /\ \E s \in {"ended", "forward", "reply"} : task' = [task EXCEPT ![c] = s]
        BY <3>3, LineRead
      <4> QED BY <1>0, <1>2, <4>1
    <3>4. CASE ReadEof(c)
      BY <1>0, <1>2, <3>4 DEF ReadEof
    <3>5. CASE TaskReplies(c)
      BY <1>0, <1>2, <3>5 DEF TaskReplies
    <3>6. CASE Forward(c)
      BY <1>0, <1>2, <3>6 DEF Forward
    <3> QED BY <2>2, <3>1, <3>2, <3>3, <3>4, <3>5, <3>6 DEF TaskStep
  <2>4. UNCHANGED <<client, peer>>
    BY <2>3 DEF Authorize, clientVars
  <2>5. client[k] # "absent"
    BY <2>3 DEF Basics, PlaceInv, Authorize
  <2> QED BY <2>3, <2>4, <2>5 DEF Authorized
<1> QED BY <1>1, <1>2

\* A task that checks its peer has a client.
LEMMA PlaceOfNewTasks ==
    ASSUME Basics, [UnixNext]_allVars, NEW k \in Clients, task'[k] = "authorize"
    PROVE  client'[k] # "absent"
<1>0. task \in [Clients -> TaskStates] /\ client \in [Clients -> {"absent", "open", "eof", "gone"}]
  BY DEF Basics, UnixTypes
<1>1. CASE task[k] = "authorize"
  BY <1>1, ClientStays DEF Basics, PlaceInv
<1>2. CASE task[k] # "authorize"
  <2>1. ~UnixStopped
    BY DEF UnixStopped
  <2>2. PICK c \in Clients : Accepted(c) \/ TaskStep(c)
    BY <1>2, <2>1, WhoWrites
  <2>3. ~TaskStep(c)
    <3>1. TaskStep(c) => \E s \in TaskStates \ {"authorize"} : task' = [task EXCEPT ![c] = s]
      <4>1. ReadLine(c) => \E s \in {"ended", "forward", "reply"} : task' = [task EXCEPT ![c] = s]
        BY LineRead
      <4> QED BY <4>1 DEF TaskStep, Authorize, ReadEof, TaskReplies, Forward, TaskStates
    <3> QED BY <1>0, <1>2, <3>1
  <2>4. PICK cred \in PeerCreds : AcceptClient(c, cred)
    BY <2>2, <2>3 DEF Accepted
  <2> QED BY <1>0, <1>2, <2>4 DEF AcceptClient
<1> QED BY <1>1, <1>2

\* A client's inbox holds lines of that client.
LEMMA PlaceOfInbox ==
    ASSUME Basics, [UnixNext]_allVars, NEW k \in Clients, NEW i \in 1..Len(inbox'[k])
    PROVE  LineAt(lines', inbox'[k][i], k)
<1>0. inbox \in [Clients -> Seq(Nat)] /\ inbox[k] \in Seq(Nat)
  BY DEF Basics, UnixTypes
<1>1. ASSUME NEW j \in 1..Len(inbox[k]) PROVE LineAt(lines', inbox[k][j], k)
  <2>1. LineOf(inbox[k][j], k)
    BY DEF Basics, PlaceInv
  <2> QED BY <2>1, LineStays DEF LineOf, LineAt, IsLine
<1>2. CASE inbox'[k] = inbox[k]
  BY <1>1, <1>2
<1>3. ASSUME NEW c \in Clients, Sends(c) PROVE LineAt(lines', inbox'[k][i], k)
  <2>1. inbox' = [inbox EXCEPT ![c] = Append(inbox[c], Len(lines) + 1)] /\ Len(lines) + 1 \in Nat
    BY <1>3, NewLine
  <2>2. CASE c # k
    BY <1>0, <1>2, <2>1, <2>2
  <2>3. CASE c = k
    <3>1. LineAt(lines', Len(lines) + 1, k)
      BY <1>3, <2>3, NewLine DEF LineOf
    <3>2. inbox'[k] = Append(inbox[k], Len(lines) + 1)
      BY <1>0, <2>1, <2>3
    <3>3. (i \in 1..Len(inbox[k]) /\ inbox'[k][i] = inbox[k][i]) \/ inbox'[k][i] = Len(lines) + 1
      BY <1>0, <2>1, <3>2, AddLast
    <3> QED BY <1>1, <3>1, <3>3
  <2> QED BY <2>2, <2>3
<1>4. ASSUME NEW c \in Clients, ReadLine(c) PROVE LineAt(lines', inbox'[k][i], k)
  <2>1. inbox' = [inbox EXCEPT ![c] = Tail(inbox[c])] /\ inbox[c] # <<>>
    BY <1>4, LineRead
  <2>2. CASE c # k
    BY <1>0, <1>2, <2>1, <2>2
  <2>3. CASE c = k
    <3>1. inbox'[k] = Tail(inbox[k]) /\ inbox[k] # <<>>
      BY <1>0, <2>1, <2>3
    <3>2. i + 1 \in 1..Len(inbox[k]) /\ inbox'[k][i] = inbox[k][i + 1]
      BY <1>0, <3>1, TakeFirst
    <3> QED BY <1>1, <3>2
  <2> QED BY <2>2, <2>3
<1> QED BY <1>2, <1>3, <1>4, WhoWrites

\* A task answers what is faulty and forwards what is valid.
LEMMA PlaceOfHands ==
    ASSUME Basics, [UnixNext]_allVars, NEW k \in Clients
    PROVE  /\ task'[k] = "reply" =>
                LineAt(lines', hand'[k], k) /\ lines'[hand'[k]].kind \in {"unparsable", "invalid"}
           /\ task'[k] = "forward" => LineAt(lines', hand'[k], k) /\ lines'[hand'[k]].kind = "valid"
           /\ task'[k] \notin {"reply", "forward"} => hand'[k] = 0
<1> DEFINE Goal ==
           /\ task'[k] = "reply" =>
                LineAt(lines', hand'[k], k) /\ lines'[hand'[k]].kind \in {"unparsable", "invalid"}
           /\ task'[k] = "forward" => LineAt(lines', hand'[k], k) /\ lines'[hand'[k]].kind = "valid"
           /\ task'[k] \notin {"reply", "forward"} => hand'[k] = 0
<1>0. task \in [Clients -> TaskStates] /\ hand \in [Clients -> Nat]
  BY DEF Basics, UnixTypes
<1>1. CASE task'[k] = task[k] /\ hand'[k] = hand[k]
  <2>1. /\ task[k] = "reply" => LineOf(hand[k], k) /\ lines[hand[k]].kind \in {"unparsable", "invalid"}
        /\ task[k] = "forward" => LineOf(hand[k], k) /\ lines[hand[k]].kind = "valid"
        /\ task[k] \notin {"reply", "forward"} => hand[k] = 0
    BY DEF Basics, PlaceInv
  <2>2. LineOf(hand[k], k) => LineAt(lines', hand[k], k) /\ lines'[hand[k]] = lines[hand[k]]
    BY LineStays DEF LineOf, LineAt, IsLine
  <2>3. task[k] = "reply" => LineAt(lines', hand'[k], k) /\ lines'[hand'[k]].kind \in {"unparsable", "invalid"}
    BY <1>1, <2>1, <2>2 DEF LineOf
  <2>4. task[k] = "forward" => LineAt(lines', hand'[k], k) /\ lines'[hand'[k]].kind = "valid"
    BY <1>1, <2>1, <2>2 DEF LineOf
  <2> QED BY <1>1, <2>1, <2>3, <2>4
<1>2. CASE task'[k] \notin {"reply", "forward"} /\ hand'[k] = 0
  BY <1>2
<1>3. CASE UnixStopped
  BY <1>2, <1>3 DEF UnixStopped
<1>4. ASSUME NEW c \in Clients, Accepted(c) PROVE Goal
  <2>1. PICK cred \in PeerCreds : AcceptClient(c, cred)
    BY <1>4 DEF Accepted
  <2>2. CASE c # k
    BY <1>0, <1>1, <2>1, <2>2 DEF AcceptClient
  <2>3. CASE c = k
    <3>1. hand[k] = 0
      BY <2>1, <2>3 DEF AcceptClient, Basics, PlaceInv
    <3> QED BY <1>0, <1>2, <2>1, <2>3, <3>1 DEF AcceptClient
  <2> QED BY <2>2, <2>3
<1>5. ASSUME NEW c \in Clients, Authorize(c) \/ ReadEof(c) PROVE Goal
  <2>1. /\ task[c] \in {"authorize", "read"} /\ hand' = hand
        /\ \E s \in {"read", "refused", "ended"} : task' = [task EXCEPT ![c] = s]
    BY <1>5 DEF Authorize, ReadEof
  <2>2. CASE c # k
    BY <1>0, <1>1, <2>1, <2>2
  <2>3. CASE c = k
    <3>1. hand[k] = 0
      BY <2>1, <2>3 DEF Basics, PlaceInv
    <3> QED BY <1>0, <1>2, <2>1, <2>3, <3>1
  <2> QED BY <2>2, <2>3
<1>6. ASSUME NEW c \in Clients, TaskReplies(c) \/ Forward(c) PROVE Goal
  <2>1. /\ hand' = [hand EXCEPT ![c] = 0]
        /\ \E s \in {"read", "ended"} : task' = [task EXCEPT ![c] = s]
    BY <1>6 DEF TaskReplies, Forward
  <2>2. CASE c # k
    BY <1>0, <1>1, <2>1, <2>2
  <2>3. CASE c = k
    BY <1>0, <1>2, <2>1, <2>3
  <2> QED BY <2>2, <2>3
<1>7. ASSUME NEW c \in Clients, ReadLine(c) PROVE Goal
  <2> DEFINE n == Head(inbox[c])
  <2>1. /\ inbox[c] # <<>>
        /\ \/ lines[n].kind = "garbled" /\ task' = [task EXCEPT ![c] = "ended"] /\ hand' = [hand EXCEPT ![c] = 0]
           \/ lines[n].kind = "valid" /\ task' = [task EXCEPT ![c] = "forward"] /\ hand' = [hand EXCEPT ![c] = n]
           \/ /\ lines[n].kind \in {"unparsable", "invalid"}
              /\ task' = [task EXCEPT ![c] = "reply"] /\ hand' = [hand EXCEPT ![c] = n]
    BY <1>7, LineRead
  <2>2. CASE c # k
    BY <1>0, <1>1, <2>1, <2>2
  <2>3. CASE c = k
    <3>1. n = inbox[k][1] /\ 1 \in 1..Len(inbox[k])
      BY <2>1, <2>3, TakeFirst DEF Basics, UnixTypes
    <3>2. LineOf(n, k)
      BY <3>1 DEF Basics, PlaceInv
    <3>3. LineAt(lines', n, k) /\ lines'[n] = lines[n]
      BY <3>2, LineStays DEF LineOf, LineAt, IsLine
    <3> HIDE DEF n
    <3>4. CASE task'[k] = "ended" /\ hand'[k] = 0
      BY <1>2, <3>4
    <3>5. CASE task'[k] = "forward" /\ hand'[k] = n /\ lines[n].kind = "valid"
      BY <3>3, <3>5
    <3>6. CASE task'[k] = "reply" /\ hand'[k] = n /\ lines[n].kind \in {"unparsable", "invalid"}
      BY <3>3, <3>6
    <3> QED BY <1>0, <2>1, <2>3, <3>4, <3>5, <3>6
  <2> QED BY <2>2, <2>3
<1> QED BY <1>1, <1>3, <1>4, <1>5, <1>6, <1>7, WhoWrites DEF TaskStep

\* The channel holds lines that were let through.
LEMMA PlaceOfChan ==
    ASSUME Basics, [UnixNext]_allVars, NEW i \in 1..Len(chan'), chan'[i] # 0
    PROVE  Passed(chan[i])'
<1>0. chan \in Seq(Nat)
  BY DEF Basics, UnixTypes
<1>1. ASSUME NEW j \in 1..Len(chan), chan[j] = chan'[i] PROVE Passed(chan[i])'
  <2>1. PICK n : n = chan[j]
    OBVIOUS
  <2>2. Passed(n)
    BY <1>1, <2>1 DEF Basics, PlaceInv
  <2>3. Passed(n)'
    BY <2>2, PassedStays
  <2> QED BY <1>1, <2>1, <2>3 DEF Passed, IsLine, Authorized
<1>2. CASE chan' = chan
  BY <1>1, <1>2
<1>3. CASE TakeMessage \/ SkipError
  <2>1. chan' = Tail(chan) /\ chan # <<>>
    BY <1>3 DEF TakeMessage, SkipError
  <2>2. i + 1 \in 1..Len(chan) /\ chan'[i] = chan[i + 1]
    BY <1>0, <2>1, TakeFirst
  <2> QED BY <1>1, <2>2
<1>4. CASE UnixCtrlC
  BY <1>4 DEF UnixCtrlC
<1>5. CASE SendAcceptError
  <2>1. chan' = chan \/ chan' = Append(chan, 0)
    BY <1>5 DEF SendAcceptError
  <2>2. chan' = Append(chan, 0) => i \in 1..Len(chan) /\ chan'[i] = chan[i]
    BY <1>0, AddLast
  <2> QED BY <1>1, <1>2, <2>1, <2>2
<1>6. ASSUME NEW k \in Clients, Forward(k) PROVE Passed(chan[i])'
  <2>0. hand[k] \in Nat /\ task[k] = "forward" /\ (chan' = chan \/ chan' = Append(chan, hand[k]))
    BY <1>6 DEF Forward, Basics, UnixTypes
  <2>1. chan' = Append(chan, hand[k]) => (i \in 1..Len(chan) /\ chan'[i] = chan[i]) \/ chan'[i] = hand[k]
    BY <1>0, <2>0, AddLast
  <2>2. CASE chan'[i] = hand[k]
    <3>1. PICK n : n = hand[k]
      OBVIOUS
    <3>2. LineOf(n, k) /\ lines[n].kind = "valid" /\ Authorized(k)
      BY <2>0, <3>1 DEF Basics, PlaceInv
    <3>3. Passed(n)
      BY <2>0, <3>2 DEF Passed, LineOf, LineAt, IsLine
    <3>4. Passed(n)'
      BY <3>3, PassedStays
    <3> QED BY <2>2, <3>1, <3>4 DEF Passed, IsLine, Authorized
  <2> QED BY <1>1, <1>2, <2>0, <2>1, <2>2
<1> QED BY <1>2, <1>3, <1>4, <1>5, <1>6, WhoWrites

\* So is the line the loop has taken.
LEMMA PlaceOfCur ==
    ASSUME Basics, [UnixNext]_allVars, cur.id' # 0
    PROVE  Passed(cur.id)'
<1> USE DEF Basics
<1>1. CASE cur' = cur
  <2>1. PICK n : n = cur.id
    OBVIOUS
  <2>2. Passed(n)'
    BY <1>1, <2>1, PassedStays DEF PlaceInv
  <2> QED BY <1>1, <2>1, <2>2 DEF Passed, IsLine, Authorized
<1>2. CASE TakeMessage
  <2>1. PICK n : n = Head(chan)
    OBVIOUS
  <2>2. chan # <<>> /\ Head(chan) # 0 /\ cur' = [key |-> lines[Head(chan)].key, id |-> Head(chan)]
    BY <1>2 DEF TakeMessage, Receive
  <2>3. Passed(n)
    BY <2>1, <2>2, MessageTaken
  <2>4. Passed(n)'
    BY <2>3, PassedStays
  <2>5. cur'.id = n
    BY <2>1, <2>2
  <2> QED BY <2>4, <2>5 DEF Passed, IsLine, Authorized
<1>3. ASSUME NEW k \in Clients, AckReplies(k) PROVE FALSE
  BY <1>3 DEF AckReplies, AckOk, AckFails, NoMessage
<1>4. CASE UnixInsert \/ UnixDispatch \/ UnixCtrlC \/ UnixStopped
  <2>1. cur' = cur
    BY <1>4 DEF UnixInsert, UnixDispatch, UnixCtrlC, UnixStopped, Insert, Dispatch, CtrlC, Stopped
  <2> QED BY <1>1, <2>1
<1> QED BY <1>1, <1>2, <1>3, <1>4, WhoWrites

\* So is every line that is cached.
LEMMA PlaceOfLog ==
    ASSUME Basics, [UnixNext]_allVars, NEW i \in 1..Len(log')
    PROVE  Passed(log[i].id)'
<1> USE DEF Basics
<1>0. log \in Seq(Messages)
  BY DEF TypeOK
<1>1. ASSUME NEW j \in 1..Len(log), log[j] = log'[i] PROVE Passed(log[i].id)'
  <2>1. PICK n : n = log[j].id
    OBVIOUS
  <2>2. Passed(n)'
    BY <2>1, PassedStays DEF PlaceInv
  <2>3. log'[i].id = n
    BY <1>1, <2>1
  <2> QED BY <2>2, <2>3 DEF Passed, IsLine, Authorized
<1>2. CASE log' = log
  BY <1>1, <1>2
<1>3. CASE UnixInsert
  <2>1. loop = "insert" /\ log' = Append(log, cur)
    BY <1>3 DEF UnixInsert, Insert
  <2>2. cur \in Messages /\ cur.id # 0
    BY <2>1 DEF TypeOK, Messages
  <2>3. (i \in 1..Len(log) /\ log'[i] = log[i]) \/ log'[i] = cur
    BY <1>0, <2>1, <2>2, AddLast
  <2>4. CASE log'[i] = cur
    <3>1. PICK n : n = cur.id
      OBVIOUS
    <3>2. Passed(n)'
      BY <2>2, <3>1, PassedStays DEF PlaceInv
    <3>3. log'[i].id = n
      BY <2>4, <3>1
    <3> QED BY <3>2, <3>3 DEF Passed, IsLine, Authorized
  <2> QED BY <1>1, <2>3, <2>4
<1>4. CASE TakeMessage \/ UnixDispatch \/ UnixCtrlC \/ UnixStopped \/ \E k \in Clients : AckReplies(k)
  <2>1. log' = log
    BY <1>4 DEF TakeMessage, UnixDispatch, UnixCtrlC, UnixStopped, AckReplies, Receive, Dispatch,
                CtrlC, Stopped, AckOk, AckFails, storeVars
  <2> QED BY <1>2, <2>1
<1> QED BY <1>2, <1>3, <1>4, WhoWrites

\* What is handled is a line.
LEMMA PlaceOfHandled ==
    ASSUME Basics, [UnixNext]_allVars, NEW n \in handled'
    PROVE  n \in 1..Len(lines')
<1> USE DEF Basics
<1>1. CASE n \in handled
  BY <1>1, LineStays DEF PlaceInv
<1>2. CASE n \notin handled
  <2>1. UnixDispatch
    BY <1>2, WhoWrites DEF TakeMessage, UnixInsert, UnixCtrlC, UnixStopped, AckReplies, unixVars
  <2>2. n = cur.id /\ loop = "dispatch"
    BY <1>2, <2>1 DEF UnixDispatch, Dispatch
  <2>3. cur.id # 0
    BY <2>2 DEF TypeOK, Messages
  <2>4. IsLine(n)
    BY <2>2, <2>3 DEF PlaceInv, Passed
  <2> QED BY <2>4, LineStays
<1> QED BY <1>1, <1>2

\* Every step keeps lines in their places.
LEMMA PlaceStep == Basics /\ [UnixNext]_allVars => PlaceInv'
<1> SUFFICES ASSUME Basics, [UnixNext]_allVars PROVE PlaceInv'
  OBVIOUS
<1> QED BY PlaceOfSenders, PlaceOfTasks, PlaceOfNewTasks, PlaceOfInbox, PlaceOfHands, PlaceOfChan,
           PlaceOfCur, PlaceOfLog, PlaceOfHandled DEF PlaceInv, LineOf, IsLine

-----------------------------------------------------------------------------
(* The writer mutexes and the replies, step by step.                       *)

\* A task that writes has the mutex, and gives it up.
LEMMA TaskWrites ==
    ASSUME Basics, NEW k \in Clients, TaskReplies(k)
    PROVE  /\ writer' = [writer EXCEPT ![k] = Tail(writer[k])] /\ task[k] = "reply"
           /\ ~TaskIn(Tail(writer[k])) /\ (LoopIn(Tail(writer[k])) <=> LoopIn(writer[k]))
           /\ hand' = [hand EXCEPT ![k] = 0]
           /\ \E s \in {"read", "ended"} : task' = [task EXCEPT ![k] = s]
<1>1. writer[k] \in Writers /\ writer[k] # <<>> /\ Head(writer[k]) = "task"
  BY DEF TaskReplies, Holds, Basics, UnixTypes
<1>2. ~TaskIn(Tail(writer[k])) /\ (LoopIn(Tail(writer[k])) <=> LoopIn(writer[k]))
  BY <1>1, WriterLeaves
<1> QED BY <1>2 DEF TaskReplies, Release

\* So does the loop, which writes to the client of the line it has handled.
LEMMA LoopWrites ==
    ASSUME Basics, NEW k \in Clients, AckReplies(k)
    PROVE  /\ writer' = [writer EXCEPT ![k] = Tail(writer[k])]
           /\ ~LoopIn(Tail(writer[k])) /\ (TaskIn(Tail(writer[k])) <=> TaskIn(writer[k]))
           /\ loop = "ack" /\ LineOf(cur.id, k) /\ LoopIn(writer[k])
<1>1. writer[k] \in Writers /\ writer[k] # <<>> /\ Head(writer[k]) = "loop"
  BY DEF AckReplies, Holds, Basics, UnixTypes
<1>2. ~LoopIn(Tail(writer[k])) /\ (TaskIn(Tail(writer[k])) <=> TaskIn(writer[k])) /\ LoopIn(writer[k])
  BY <1>1, WriterLeaves
<1>3. loop = "ack" /\ LineOf(cur.id, k)
  BY <1>2 DEF Basics, WriterInv
<1> QED BY <1>2, <1>3 DEF AckReplies, Release

\* A task is in the queue of the writer while it has an answer to write.
LEMMA WriterOfTask ==
    ASSUME Basics, [UnixNext]_allVars, NEW k \in Clients
    PROVE  TaskIn(writer'[k]) <=> task'[k] = "reply"
<1>0. /\ writer \in [Clients -> Writers] /\ task \in [Clients -> TaskStates]
      /\ TaskIn(writer[k]) <=> task[k] = "reply"
  BY DEF Basics, UnixTypes, WriterInv
<1>1. CASE writer'[k] = writer[k] /\ (task'[k] = "reply" <=> task[k] = "reply")
  BY <1>0, <1>1
<1>2. CASE UnixStopped
  BY <1>2 DEF UnixStopped, TaskIn
<1>3. ASSUME NEW c \in Clients, Accepted(c) \/ Authorize(c) \/ ReadEof(c) \/ Forward(c)
      PROVE  TaskIn(writer'[k]) <=> task'[k] = "reply"
  <2>1. task[c] = "reply" => ~Accepted(c)
    BY DEF Accepted, AcceptClient, Basics, PlaceInv
  <2>2. /\ writer' = writer /\ task[c] # "reply"
        /\ \E s \in TaskStates \ {"reply"} : task' = [task EXCEPT ![c] = s]
    BY <1>3, <2>1 DEF Accepted, AcceptClient, Authorize, ReadEof, Forward, TaskStates
  <2> QED BY <1>0, <1>1, <2>2
<1>4. ASSUME NEW c \in Clients, ReadLine(c) PROVE TaskIn(writer'[k]) <=> task'[k] = "reply"
  <2>1. /\ task[c] = "read"
        /\ \/ writer' = writer /\ \E s \in {"ended", "forward"} : task' = [task EXCEPT ![c] = s]
           \/ /\ task' = [task EXCEPT ![c] = "reply"]
              /\ writer' = [writer EXCEPT ![c] = Append(writer[c], "task")]
    BY <1>4, LineRead
  <2>2. CASE c # k
    BY <1>0, <1>1, <2>1, <2>2
  <2>3. CASE c = k
    <3>1. TaskIn(Append(writer[k], "task"))
      BY <1>0, <2>1, <2>3, WriterAsks
    <3> QED BY <1>0, <2>1, <2>3, <3>1
  <2> QED BY <2>2, <2>3
<1>5. ASSUME NEW c \in Clients, TaskReplies(c) PROVE TaskIn(writer'[k]) <=> task'[k] = "reply"
  <2>1. /\ writer' = [writer EXCEPT ![c] = Tail(writer[c])] /\ ~TaskIn(Tail(writer[c]))
        /\ \E s \in {"read", "ended"} : task' = [task EXCEPT ![c] = s]
    BY <1>5, TaskWrites
  <2>2. CASE c # k
    BY <1>0, <1>1, <2>1, <2>2
  <2>3. CASE c = k
    BY <1>0, <2>1, <2>3
  <2> QED BY <2>2, <2>3
<1>6. ASSUME NEW c \in Clients, AckAsks(c) PROVE TaskIn(writer'[k]) <=> task'[k] = "reply"
  <2>1. /\ writer' = [writer EXCEPT ![c] = Append(writer[c], "loop")] /\ task' = task
        /\ "loop" \notin {writer[c][i] : i \in DOMAIN writer[c]}
    BY <1>6 DEF AckAsks, taskVars
  <2>2. TaskIn(Append(writer[c], "loop")) <=> TaskIn(writer[c])
    BY <1>0, <2>1, WriterAsks
  <2> QED BY <1>0, <2>1, <2>2
<1>7. ASSUME NEW c \in Clients, AckReplies(c) PROVE TaskIn(writer'[k]) <=> task'[k] = "reply"
  <2>1. /\ writer' = [writer EXCEPT ![c] = Tail(writer[c])] /\ task' = task
        /\ TaskIn(Tail(writer[c])) <=> TaskIn(writer[c])
    BY <1>7, LoopWrites DEF AckReplies, taskVars
  <2> QED BY <1>0, <2>1
<1> QED BY <1>1, <1>2, <1>3, <1>4, <1>5, <1>6, <1>7, WhoWrites DEF TaskStep

\* The loop is in the queue of one writer only, while it acknowledges.
LEMMA WriterOfLoop ==
    ASSUME Basics, [UnixNext]_allVars, NEW k \in Clients, LoopIn(writer'[k])
    PROVE  loop' = "ack" /\ LineAt(lines', cur'.id, k)
<1>0. writer \in [Clients -> Writers]
  BY DEF Basics, UnixTypes
<1>1. ASSUME LoopIn(writer[k]), \A c \in Clients : AckReplies(c) => c # k
      PROVE  loop' = "ack" /\ LineAt(lines', cur'.id, k)
  <2>1. loop = "ack" /\ LineOf(cur.id, k)
    BY <1>1 DEF Basics, WriterInv
  <2>2. LineAt(lines', cur.id, k)
    BY <2>1, LineStays DEF LineOf, LineAt, IsLine
  <2>3. \A c \in Clients : ~AckReplies(c)
    BY <1>1, <2>1, LoopWrites DEF LineOf, LineAt
  <2>4. ~(TakeMessage \/ UnixInsert \/ UnixDispatch \/ UnixCtrlC \/ UnixStopped)
    BY <2>1 DEF TakeMessage, Receive, UnixInsert, Insert, UnixDispatch, Dispatch, UnixCtrlC, CtrlC,
                UnixStopped, Stopped
  <2>5. loop' = loop /\ cur' = cur
    BY <2>3, <2>4, WhoWrites
  <2> QED BY <2>1, <2>2, <2>5
<1>2. CASE writer' = writer
  BY <1>0, <1>1, <1>2, LoopWrites
<1>3. CASE UnixStopped
  BY <1>3 DEF UnixStopped, LoopIn
<1>4. ASSUME NEW c \in Clients, ReadLine(c) \/ TaskReplies(c)
      PROVE  LoopIn(writer[k]) /\ UNCHANGED loop
  <2>1. CASE ReadLine(c)
    <3>1. task[c] = "read" /\ UNCHANGED loop
          /\ (writer' = writer \/ writer' = [writer EXCEPT ![c] = Append(writer[c], "task")])
      BY <2>1, LineRead DEF vars, loopVars
    <3>2. ~TaskIn(writer[c])
      BY <3>1 DEF Basics, WriterInv
    <3>3. LoopIn(Append(writer[c], "task")) <=> LoopIn(writer[c])
      BY <1>0, <3>2, WriterAsks
    <3> QED BY <1>0, <3>1, <3>3
  <2>2. CASE TaskReplies(c)
    <3>1. /\ writer' = [writer EXCEPT ![c] = Tail(writer[c])] /\ UNCHANGED loop
          /\ LoopIn(Tail(writer[c])) <=> LoopIn(writer[c])
      BY <2>2, TaskWrites DEF TaskReplies, vars, loopVars
    <3> QED BY <1>0, <3>1
  <2> QED BY <1>4, <2>1, <2>2
<1>5. ASSUME NEW c \in Clients, AckReplies(c) PROVE LoopIn(writer[k]) /\ c # k
  <2>1. writer' = [writer EXCEPT ![c] = Tail(writer[c])] /\ ~LoopIn(Tail(writer[c]))
    BY <1>5, LoopWrites
  <2> QED BY <1>0, <2>1
<1>6. ASSUME NEW c \in Clients, AckAsks(c) PROVE loop' = "ack" /\ LineAt(lines', cur'.id, k)
  <2>1. /\ writer' = [writer EXCEPT ![c] = Append(writer[c], "loop")] /\ UNCHANGED <<loop, cur, lines>>
        /\ loop = "ack" /\ lines[cur.id].client = c
    BY <1>6 DEF AckAsks, clientVars, vars, loopVars
  <2>2. CASE c = k
    <3>1. cur.id # 0
      BY <2>1 DEF Basics, TypeOK, Messages
    <3>2. IsLine(cur.id)
      BY <3>1 DEF Basics, PlaceInv, Passed
    <3> QED BY <2>1, <2>2, <3>2 DEF LineAt, IsLine
  <2>3. CASE c # k
    <3>1. LoopIn(writer[k])
      BY <1>0, <2>1, <2>3
    <3> QED BY <2>1, <3>1 DEF Basics, WriterInv, LineOf
  <2> QED BY <2>2, <2>3
<1>7. ASSUME NEW c \in Clients, AckReplies(c) PROVE \A d \in Clients : AckReplies(d) => d # k
  <2>1. writer' = [writer EXCEPT ![c] = Tail(writer[c])] /\ ~LoopIn(Tail(writer[c])) /\ LineOf(cur.id, c)
    BY <1>7, LoopWrites
  <2>2. \A d \in Clients : AckReplies(d) => LineOf(cur.id, d)
    BY LoopWrites
  <2> QED BY <1>5
<1>8. ASSUME NEW c \in Clients, ReadLine(c) \/ TaskReplies(c)
      PROVE  \A d \in Clients : ~AckReplies(d)
  <2>1. UNCHANGED loop
    BY <1>4, <1>8
  <2> QED BY <2>1 DEF AckReplies, AckOk, AckFails, After
<1> QED BY <1>1, <1>2, <1>3, <1>4, <1>5, <1>6, <1>7, <1>8, WhoWrites

\* What a step does to the replies on their way to a client.
LEMMA WireMoves ==
    ASSUME Basics, [UnixNext]_allVars, NEW k \in Clients
    PROVE  \/ wire'[k] = wire[k] /\ got'[k] = got[k]
           \/ /\ wire[k] # <<>> /\ wire'[k] = Tail(wire[k]) /\ got'[k] = Append(got[k], Head(wire[k]))
              /\ UNCHANGED <<client, task, handled, lines>>
           \/ wire'[k] = <<>> /\ got'[k] = got[k] /\ client'[k] = "gone"
           \/ /\ task[k] = "authorize" /\ task'[k] = "refused" /\ got'[k] = got[k]
              /\ wire'[k] = Append(wire[k], [line |-> 0, text |-> "error unauthorized"])
              /\ UNCHANGED <<client, handled, lines>>
           \/ /\ TaskReplies(k) /\ Len(wire[k]) < ReplyRoom /\ got'[k] = got[k]
              /\ wire'[k] = Append(wire[k], Reply(hand[k]))
           \/ /\ AckReplies(k) /\ Len(wire[k]) < ReplyRoom /\ got'[k] = got[k]
              /\ wire'[k] = Append(wire[k], Reply(cur.id))
<1> USE DEF clientVars, taskVars
<1>0. /\ wire \in [Clients -> Seq(ReplySet)] /\ got \in [Clients -> Seq(ReplySet)]
      /\ task \in [Clients -> TaskStates] /\ client \in [Clients -> {"absent", "open", "eof", "gone"}]
  BY DEF Basics, UnixTypes
<1>1. CASE <<wire, got>>' = <<wire, got>>
  BY <1>1
<1>2. ASSUME NEW c \in Clients,
             ClientReads(c) \/ ClientCloses(c) \/ Authorize(c) \/ TaskReplies(c) \/ AckReplies(c), c # k
      PROVE  wire'[k] = wire[k] /\ got'[k] = got[k]
  BY <1>0, <1>2 DEF ClientReads, ClientCloses, Authorize, TaskReplies, AckReplies, Write
<1>3. CASE ClientReads(k)
  BY <1>0, <1>3 DEF ClientReads
<1>4. CASE ClientCloses(k)
  BY <1>0, <1>4 DEF ClientCloses
<1>5. CASE Authorize(k)
  BY <1>0, <1>5 DEF Authorize, Write
<1>6. CASE TaskReplies(k)
  BY <1>0, <1>6 DEF TaskReplies, Write, CanWrite
<1>7. CASE AckReplies(k)
  BY <1>0, <1>7 DEF AckReplies, Write, CanWrite
<1> QED BY <1>1, <1>2, <1>3, <1>4, <1>5, <1>6, <1>7, WhoWrites

\* No reply is written without room for it.
LEMMA WireHasRoom ==
    ASSUME Basics, [UnixNext]_allVars, NEW k \in Clients
    PROVE  Len(wire'[k]) <= ReplyRoom
<1>0. /\ wire[k] \in Seq(ReplySet) /\ Len(wire[k]) \in Nat /\ Len(wire[k]) <= ReplyRoom
      /\ ReplyRoom \in Nat \ {0}
  BY LenProperties, UnixAssumption DEF Basics, UnixTypes, WriterInv
<1>1. CASE wire'[k] = wire[k]
  BY <1>0, <1>1
<1>2. CASE wire[k] # <<>> /\ wire'[k] = Tail(wire[k])
  <2>1. Len(wire'[k]) = Len(wire[k]) - 1
    BY <1>0, <1>2, TakeFirst
  <2> QED BY <1>0, <2>1
<1>3. CASE wire'[k] = <<>>
  BY <1>0, <1>3
<1>4. CASE task[k] = "authorize" /\ wire'[k] = Append(wire[k], [line |-> 0, text |-> "error unauthorized"])
  <2> DEFINE r == [line |-> 0, text |-> "error unauthorized"]
  <2>1. r \in ReplySet /\ wire'[k] = Append(wire[k], r)
    BY <1>4 DEF ReplySet
  <2> HIDE DEF r
  <2>2. Len(wire'[k]) = Len(wire[k]) + 1
    BY <1>0, <2>1, AddLast
  <2>3. wire[k] = <<>>
    BY <1>4 DEF Basics, WriterInv
  <2>4. Len(wire[k]) = 0
    BY <2>3
  <2> QED BY <1>0, <2>2, <2>4
<1>5. ASSUME NEW r \in ReplySet, wire'[k] = Append(wire[k], r), Len(wire[k]) < ReplyRoom
      PROVE  Len(wire'[k]) <= ReplyRoom
  <2>1. Len(wire'[k]) = Len(wire[k]) + 1
    BY <1>0, <1>5, AddLast
  <2> QED BY <1>0, <1>5, <2>1
<1>6. TaskReplies(k) => Reply(hand[k]) \in ReplySet
  BY ReplyType, TaskWrites DEF Basics, PlaceInv, LineOf, LineAt, IsLine
<1>7. AckReplies(k) => Reply(cur.id) \in ReplySet
  BY ReplyType, LoopWrites DEF Basics, LineOf, LineAt, IsLine
<1> QED BY <1>1, <1>2, <1>3, <1>4, <1>5, <1>6, <1>7, WireMoves

\* A socket is empty until its peer has been checked, so a refusal has room.
LEMMA WireStartsEmpty ==
    ASSUME Basics, [UnixNext]_allVars, NEW k \in Clients, client'[k] = "absent" \/ task'[k] = "authorize"
    PROVE  wire'[k] = <<>>
<1>0. client \in [Clients -> {"absent", "open", "eof", "gone"}] /\ task \in [Clients -> TaskStates]
  BY DEF Basics, UnixTypes
<1>1. client[k] = "absent" \/ task[k] = "authorize"
  <2>1. CASE client'[k] = "absent"
    BY <2>1, ClientStays
  <2>2. CASE task'[k] = "authorize" /\ task[k] # "authorize"
    <3>1. ~UnixStopped
      BY <2>2 DEF UnixStopped
    <3>2. PICK c \in Clients : Accepted(c) \/ TaskStep(c)
      BY <2>2, <3>1, WhoWrites
    <3>3. TaskStep(c) => \E s \in TaskStates \ {"authorize"} : task' = [task EXCEPT ![c] = s]
      <4>1. ReadLine(c) => \E s \in {"ended", "forward", "reply"} : task' = [task EXCEPT ![c] = s]
        BY LineRead
      <4> QED BY <4>1 DEF TaskStep, Authorize, ReadEof, TaskReplies, Forward, TaskStates
    <3>4. ~TaskStep(c)
      BY <1>0, <2>2, <3>3
    <3>5. PICK cred \in PeerCreds : AcceptClient(c, cred)
      BY <3>2, <3>4 DEF Accepted
    <3> QED BY <1>0, <2>2, <3>5 DEF AcceptClient
  <2> QED BY <2>1, <2>2
<1>2. wire[k] = <<>>
  BY <1>1 DEF Basics, WriterInv
<1>3. task[k] = "authorize" => client[k] # "absent"
  BY DEF Basics, PlaceInv
<1>4. ~TaskReplies(k)
  <2>1. TaskReplies(k) => task[k] = "reply" /\ client[k] # "absent"
    BY TaskWrites DEF Basics, PlaceInv
  <2> QED BY <1>1, <2>1
<1>5. ~AckReplies(k)
  <2>1. SUFFICES ASSUME AckReplies(k) PROVE FALSE
    OBVIOUS
  <2>2. loop = "ack" /\ LineOf(cur.id, k)
    BY <2>1, LoopWrites
  <2>3. cur.id # 0
    BY <2>2 DEF Basics, TypeOK, Messages
  <2>4. Passed(cur.id)
    BY <2>3 DEF Basics, PlaceInv
  <2> QED BY <1>1, <2>2, <2>4 DEF Passed, LineOf, LineAt, IsLine, Basics, PlaceInv
<1> QED BY <1>2, <1>3, <1>4, <1>5, WireMoves

\* Every step keeps the writer mutexes in order.
LEMMA WriterStep == Basics /\ [UnixNext]_allVars => WriterInv'
<1> SUFFICES ASSUME Basics, [UnixNext]_allVars PROVE WriterInv'
  OBVIOUS
<1> QED BY WriterOfTask, WriterOfLoop, WireHasRoom, WireStartsEmpty DEF WriterInv, LineOf

\* The first state has no lines, no replies and free mutexes.
LEMMA BasicsInit == UnixInit => Basics
<1> SUFFICES ASSUME UnixInit PROVE Basics
  OBVIOUS
<1> USE DEF UnixInit
<1>1. TypeOK
  BY TypeInit
<1>2. UnixTypes
  BY UnixAssumption DEF UnixTypes, TaskStates, Writers
<1>3. PlaceInv
  BY DEF PlaceInv, Init, NoMessage
<1>4. WriterInv
  BY UnixAssumption DEF WriterInv, TaskIn, LoopIn
<1> QED BY <1>1, <1>2, <1>3, <1>4 DEF Basics

\* Inductive: the types, the places of lines and the writer mutexes, for the
\* whole Unix source.
THEOREM UnixBasics == UnixSpec => []Basics
<1>1. Basics /\ [UnixNext]_allVars => Basics'
  BY CoreTypes, UnixTypesStep, PlaceStep, WriterStep DEF Basics
<1> QED BY <1>1, BasicsInit, PTL DEF UnixSpec

\* A sequence is one over any set that holds its elements.
LEMMA SeqOver ==
    ASSUME NEW S, NEW T, NEW s \in Seq(S), \A i \in 1..Len(s) : s[i] \in T
    PROVE  s \in Seq(T)
<1>1. s \in [1..Len(s) -> S] /\ Len(s) \in Nat
  BY LenProperties
<1>2. s \in [1..Len(s) -> T]
  BY <1>1
<1> QED BY <1>1, <1>2, SeqDef

\* UNIX_SOCKET_BACKLOG bounds the channel whatever the clients do, a socket
\* never holds more replies than it has room for, and only a client's task
\* and the message loop ever hold or await its writer mutex.
THEOREM UnixTypeCorrect == UnixSpec => []UnixTypeOK
<1>1. Basics => UnixTypeOK
  <2> SUFFICES ASSUME Basics PROVE UnixTypeOK
    OBVIOUS
  <2> USE DEF Basics
  <2>0. Len(lines) \in Nat
    BY LenProperties DEF UnixTypes
  <2>1. ASSUME NEW k \in Clients PROVE inbox[k] \in Seq(1..Len(lines))
    <3>1. inbox[k] \in Seq(Nat) /\ \A i \in 1..Len(inbox[k]) : inbox[k][i] \in 1..Len(lines)
      BY DEF UnixTypes, PlaceInv, LineOf, LineAt
    <3> QED BY <3>1, SeqOver
  <2>2. chan \in Seq(0..Len(lines))
    <3>1. \A i \in 1..Len(chan) : chan[i] \in 0..Len(lines)
      BY <2>0 DEF PlaceInv, Passed, IsLine
    <3> QED BY <3>1, SeqOver DEF UnixTypes
  <2>3. hand \in [Clients -> 0..Len(lines)]
    <3>1. \A k \in Clients : hand[k] \in 0..Len(lines)
      BY <2>0 DEF PlaceInv, LineOf, LineAt, UnixTypes, TaskStates
    <3> QED BY <3>1 DEF UnixTypes
  <2>4. handled \subseteq 1..Len(lines)
    BY DEF PlaceInv, IsLine
  <2> QED BY <2>1, <2>2, <2>3, <2>4 DEF UnixTypeOK, UnixTypes, LineSet, Writers, WriterInv
<1> QED BY <1>1, UnixBasics, PTL

\* authorize_unix_client: whatever a peer sends, and whenever, no value of one
\* that fails either restriction is ever cached.
THEOREM RefusedStaysOut == UnixSpec => []RefusedNeverCached
<1>1. Basics => RefusedNeverCached
  <2> SUFFICES ASSUME Basics, NEW i \in 1..Len(log)
               PROVE  /\ allowed_uid # AnyId => peer[lines[log[i].id].client].uid = allowed_uid
                      /\ allowed_gid # AnyId => peer[lines[log[i].id].client].gid = allowed_gid
    BY DEF RefusedNeverCached
  <2>1. Authorized(lines[log[i].id].client)
    BY DEF Basics, PlaceInv, Passed
  <2> QED BY <2>1 DEF Authorized
<1> QED BY <1>1, UnixBasics, PTL

-----------------------------------------------------------------------------
(* What clients have been told.                                            *)

\* The text of a reply: "ok" is for valid lines only.
LEMMA OkForValid ==
    ASSUME NEW kind \in LineKinds \ {"garbled"}
    PROVE  ReplyTo(kind) = "ok" <=> kind = "valid"
<1>1. CASE kind = "valid"
  BY <1>1 DEF ReplyTo
<1>2. CASE kind = "unparsable"
  <2>1. ReplyTo(kind) = "error parse"
    BY <1>2, Zenon DEF ReplyTo
  <2> QED BY <1>2, <2>1
<1>3. CASE kind = "invalid"
  <2>1. ReplyTo(kind) = "error validation"
    BY <1>3, Zenon DEF ReplyTo
  <2> QED BY <1>3, <2>1
<1> QED BY <1>1, <1>2, <1>3 DEF LineKinds

\* A reply that is written goes behind all the others.
LEMMA ReplyBehind ==
    ASSUME NEW g \in Seq(ReplySet), NEW w \in Seq(ReplySet), NEW r \in ReplySet
    PROVE  g \o Append(w, r) = Append(g \o w, r) /\ g \o w \in Seq(ReplySet)
<1>1. Append(w, r) = w \o <<r>> /\ <<r>> \in Seq(ReplySet) /\ g \o w \in Seq(ReplySet)
  BY AppendIsConcat, ConcatProperties
<1>2. Append(g \o w, r) = (g \o w) \o <<r>>
  BY <1>1, AppendIsConcat
<1> QED BY <1>1, <1>2, ConcatAssociative

\* A client is sent one reply at a time, behind the others; replies are lost
\* with the client only.
LEMMA RepliesMove ==
    ASSUME Basics, [UnixNext]_allVars, NEW k \in Clients
    PROVE  \/ Replies(k)' = Replies(k)
           \/ Replies(k)' = got[k] /\ client'[k] = "gone"
           \/ \E r \in ReplySet :
                /\ Replies(k)' = Append(Replies(k), r)
                /\ \/ r.line = 0 /\ r.text = "error unauthorized"
                   \/ TaskReplies(k) /\ r = Reply(hand[k])
                   \/ AckReplies(k) /\ r = Reply(cur.id)
<1>0. wire[k] \in Seq(ReplySet) /\ got[k] \in Seq(ReplySet)
  BY DEF Basics, UnixTypes
<1>1. CASE wire'[k] = wire[k] /\ got'[k] = got[k]
  BY <1>1 DEF Replies
<1>2. CASE wire[k] # <<>> /\ wire'[k] = Tail(wire[k]) /\ got'[k] = Append(got[k], Head(wire[k]))
  <2>1. Append(got[k], Head(wire[k])) \o Tail(wire[k]) = got[k] \o wire[k]
    BY <1>0, <1>2, MoveHead
  <2> QED BY <1>2, <2>1 DEF Replies
<1>3. CASE wire'[k] = <<>> /\ got'[k] = got[k] /\ client'[k] = "gone"
  <2>1. got[k] \o <<>> = got[k]
    BY <1>0, ConcatEmptySeq
  <2> QED BY <1>3, <2>1 DEF Replies
<1>4. ASSUME NEW r \in ReplySet, wire'[k] = Append(wire[k], r), got'[k] = got[k]
      PROVE  Replies(k)' = Append(Replies(k), r)
  <2>0. PICK g \in Seq(ReplySet), w \in Seq(ReplySet) : g = got[k] /\ w = wire[k]
    BY <1>0
  <2>1. g \o Append(w, r) = Append(g \o w, r)
    BY ReplyBehind, Zenon
  <2>2. Replies(k)' = got'[k] \o wire'[k] /\ Replies(k) = got[k] \o wire[k]
    BY DEF Replies
  <2> QED BY <1>4, <2>0, <2>1, <2>2, Zenon
<1>5. TaskReplies(k) => Reply(hand[k]) \in ReplySet
  BY ReplyType, TaskWrites DEF Basics, PlaceInv, LineOf, LineAt, IsLine
<1>6. AckReplies(k) => Reply(cur.id) \in ReplySet
  BY ReplyType, LoopWrites DEF Basics, LineOf, LineAt, IsLine
<1>7. CASE got'[k] = got[k] /\ wire'[k] = Append(wire[k], [line |-> 0, text |-> "error unauthorized"])
  <2>1. PICK r \in ReplySet : r = [line |-> 0, text |-> "error unauthorized"]
    BY DEF ReplySet
  <2> QED BY <1>4, <1>7, <2>1
<1> QED BY <1>1, <1>2, <1>3, <1>4, <1>5, <1>6, <1>7, WireMoves

\* The replies of a client are a sequence that starts with those it has read.
LEMMA RepliesShape ==
    ASSUME Basics, NEW k \in Clients
    PROVE  /\ Replies(k) \in Seq(ReplySet) /\ Len(Replies(k)) \in Nat
           /\ \A i \in 1..Len(got[k]) : i \in 1..Len(Replies(k)) /\ Replies(k)[i] = got[k][i]
<1>1. PICK g \in Seq(ReplySet), w \in Seq(ReplySet) : g = got[k] /\ w = wire[k]
  BY DEF Basics, UnixTypes
<1>2. PICK a \in Nat, b \in Nat : a = Len(g) /\ b = Len(w)
  BY LenProperties
<1>3. /\ g \o w \in Seq(ReplySet) /\ Len(g \o w) = a + b
      /\ \A i \in 1..(a + b) : (g \o w)[i] = IF i <= a THEN g[i] ELSE w[i - a]
  BY <1>2, ConcatProperties
<1>4. ASSUME NEW i \in 1..a PROVE i \in 1..(a + b) /\ i <= a
  OBVIOUS
<1>5. \A i \in 1..a : i \in 1..Len(g \o w) /\ (g \o w)[i] = g[i]
  BY <1>3, <1>4
<1>6. Replies(k) = g \o w /\ Len(g \o w) \in Nat
  BY <1>1, <1>3 DEF Replies
<1> QED BY <1>1, <1>2, <1>3, <1>5, <1>6

\* A reply that a client has after a step it had before, in the same place,
\* or it is the new one, in the last place.
LEMMA RepliesOrigin ==
    ASSUME Basics, [UnixNext]_allVars, NEW k \in Clients, NEW i \in 1..Len(Replies(k)')
    PROVE  \/ i \in 1..Len(Replies(k)) /\ Replies(k)'[i] = Replies(k)[i]
           \/ /\ i = Len(Replies(k)) + 1 /\ \A j \in 1..Len(Replies(k)') : j \in 1..Len(Replies(k)) \/ j = i
              /\ \/ Replies(k)'[i].line = 0 /\ Replies(k)'[i].text = "error unauthorized"
                 \/ TaskReplies(k) /\ Replies(k)'[i] = Reply(hand[k])
                 \/ AckReplies(k) /\ Replies(k)'[i] = Reply(cur.id)
<1>1. CASE Replies(k)' = Replies(k)
  BY <1>1
<1>2. CASE Replies(k)' = got[k]
  BY <1>2, RepliesShape
<1>3. ASSUME NEW r \in ReplySet, Replies(k)' = Append(Replies(k), r)
      PROVE  \/ i \in 1..Len(Replies(k)) /\ Replies(k)'[i] = Replies(k)[i]
             \/ /\ i = Len(Replies(k)) + 1 /\ Replies(k)'[i] = r
                /\ \A j \in 1..Len(Replies(k)') : j \in 1..Len(Replies(k)) \/ j = i
  <2>1. PICK s \in Seq(ReplySet) : s = Replies(k)
    BY RepliesShape
  <2>2. Replies(k)' = Append(s, r)
    BY <1>3, <2>1
  <2>3. /\ \A j \in 1..Len(s) : Append(s, r)[j] = s[j]
        /\ Append(s, r)[Len(s) + 1] = r
        /\ \A j \in 1..Len(Append(s, r)) : j \in 1..Len(s) \/ j = Len(s) + 1
    BY AddLast
  <2> QED BY <2>1, <2>2, <2>3
<1> QED BY <1>1, <1>2, <1>3, RepliesMove

\* No client has a reply at first.
LEMMA NoReplyYet == ASSUME UnixInit, NEW k \in Clients PROVE Len(Replies(k)) = 0
<1>1. got[k] = <<>> /\ wire[k] = <<>>
  BY DEF UnixInit
<1>2. got[k] \o wire[k] = <<>>
  BY <1>1
<1> QED BY <1>2 DEF Replies

\* Inductive: an acknowledgement is only written for a line that is handled.
OkInv ==
    /\ loop = "ack" => cur.id \in handled
    /\ OkMeansHandled

\* No step writes an "ok" that is not earned.
LEMMA OkStep == Basics /\ OkInv /\ [UnixNext]_allVars => OkInv'
<1> SUFFICES ASSUME Basics, OkInv, [UnixNext]_allVars PROVE OkInv'
  OBVIOUS
<1>1. handled \subseteq handled'
  BY WhoWrites DEF TakeMessage, UnixInsert, UnixDispatch, UnixCtrlC, UnixStopped, AckReplies, unixVars
<1>2. loop' = "ack" => cur'.id \in handled'
  <2>1. CASE <<loop, cur>>' = <<loop, cur>>
    BY <1>1, <2>1 DEF OkInv
  <2>2. CASE TakeMessage \/ UnixInsert \/ UnixCtrlC \/ UnixStopped \/ \E k \in Clients : AckReplies(k)
    <3>1. loop' \in {"insert", "dispatch", "stopping", "stopped", "next"}
      BY <2>2, Zenon DEF TakeMessage, Receive, UnixInsert, Insert, UnixCtrlC, CtrlC, UnixStopped,
                         Stopped, AckReplies, AckOk, AckFails, After
    <3> QED BY <3>1
  <2>3. CASE UnixDispatch
    BY <2>3 DEF UnixDispatch, Dispatch
  <2> QED BY <2>1, <2>2, <2>3, WhoWrites
<1>3. ASSUME NEW k \in Clients, NEW i \in 1..Len(Replies(k)'), Replies(k)'[i].text = "ok"
      PROVE  Replies(k)'[i].line \in handled'
  <2>1. CASE i \in 1..Len(Replies(k)) /\ Replies(k)'[i] = Replies(k)[i]
    BY <1>1, <1>3, <2>1 DEF OkInv, OkMeansHandled
  <2>2. CASE TaskReplies(k) /\ Replies(k)'[i] = Reply(hand[k])
    <3>1. LineOf(hand[k], k) /\ lines[hand[k]].kind \in {"unparsable", "invalid"}
      BY <2>2, TaskWrites DEF Basics, PlaceInv
    <3>2. Reply(hand[k]).text = ReplyTo(lines[hand[k]].kind)
      BY <3>1, ReplyType DEF Basics, LineOf, LineAt, IsLine
    <3>3. ReplyTo(lines[hand[k]].kind) # "ok"
      BY <3>1, OkForValid DEF LineKinds
    <3> QED BY <1>3, <2>2, <3>2, <3>3
  <2>3. CASE AckReplies(k) /\ Replies(k)'[i] = Reply(cur.id)
    <3>1. loop = "ack" /\ IsLine(cur.id)
      BY <2>3, LoopWrites DEF LineOf, LineAt, IsLine
    <3>2. Reply(cur.id).line = cur.id
      BY <3>1, ReplyType DEF Basics
    <3> QED BY <1>1, <2>3, <3>1, <3>2 DEF OkInv
  <2> QED BY <1>3, <2>1, <2>2, <2>3, RepliesOrigin
<1> QED BY <1>2, <1>3 DEF OkInv, OkMeansHandled

\* handle_incoming_message acknowledges last: a client that has been told "ok"
\* can rely on its value being cached and dispatched, whatever the task, the
\* loop and the other clients do.
THEOREM OkIsEarned == UnixSpec => []OkMeansHandled
<1>1. UnixInit => OkInv
  <2> SUFFICES ASSUME UnixInit PROVE OkInv
    OBVIOUS
  <2>1. loop = "next"
    BY DEF UnixInit, Init
  <2> QED BY <2>1, NoReplyYet DEF OkInv, OkMeansHandled
<1>2. OkInv => OkMeansHandled
  BY DEF OkInv
<1> QED BY <1>1, <1>2, OkStep, UnixBasics, PTL DEF UnixSpec

-----------------------------------------------------------------------------
(* The way of a line: inbox, hand, channel, loop, cache, reply.            *)

InChan(a)  == \E i \in 1..Len(chan) : chan[i] = a
InLog(a)   == \E i \in 1..Len(log) : log[i].id = a
Replied(a) == \E k \in Clients : \E i \in 1..Len(Replies(k)) : Replies(k)[i].line = a

\* A line that its task has done with, and one that is cached or acknowledged.
Past(a) == InChan(a) \/ cur.id = a \/ InLog(a) \/ Replied(a)
Done(a) == InLog(a) \/ (Replied(a) /\ lines[a].kind = "valid")

\* The client's lines that its task has not done with come after line a ...
Behind(a) ==
    LET k == lines[a].client IN
    /\ hand[k] # 0 => a < hand[k]
    /\ \A i \in 1..Len(inbox[k]) : a < inbox[k][i]

\* ... and so do those that wait in the channel.
AheadOfChan(a) ==
    \A i \in 1..Len(chan) : chan[i] # 0 /\ lines[chan[i]].client = lines[a].client => a < chan[i]

\* Inductive: the lines of a client keep their order on the way to the cache,
\* and no place has a line that a later place has had.
ClientInv ==
    /\ \A k \in Clients : \A i, j \in 1..Len(inbox[k]) : i < j => inbox[k][i] < inbox[k][j]
    /\ \A k \in Clients : hand[k] # 0 => \A i \in 1..Len(inbox[k]) : hand[k] < inbox[k][i]
    /\ \A k \in Clients : \A i \in 1..Len(Replies(k)) :
          Replies(k)[i].line # 0 => LineOf(Replies(k)[i].line, k)
    /\ \A a \in 1..Len(lines) : Past(a) => Behind(a)

LoopInv ==
    /\ \A i, j \in 1..Len(chan) :
          i < j /\ chan[i] # 0 /\ chan[j] # 0 /\ lines[chan[i]].client = lines[chan[j]].client
          => chan[i] < chan[j]
    /\ cur.id # 0 => AheadOfChan(cur.id)
    /\ \A a \in 1..Len(lines) : Done(a) => AheadOfChan(a)
    /\ loop = "insert" => \A a \in 1..Len(lines) :
          Done(a) /\ lines[a].client = lines[cur.id].client => a < cur.id
    /\ cur.id # 0 => ~Replied(cur.id)
    /\ ClientOrderKept

\* A line comes to the channel from the hand of a task only.
LEMMA ChanOrigin ==
    ASSUME Basics, [UnixNext]_allVars, NEW a, a # 0, InChan(a)'
    PROVE  InChan(a) \/ \E k \in Clients : Forward(k) /\ a = hand[k]
<1>0. chan \in Seq(Nat)
  BY DEF Basics, UnixTypes
<1>1. PICK i \in 1..Len(chan') : chan'[i] = a
  BY DEF InChan
<1>2. CASE chan' = chan
  BY <1>1, <1>2 DEF InChan
<1>3. CASE TakeMessage \/ SkipError
  <2>1. chan' = Tail(chan) /\ chan # <<>>
    BY <1>3 DEF TakeMessage, SkipError
  <2>2. i + 1 \in 1..Len(chan) /\ chan'[i] = chan[i + 1]
    BY <1>0, <1>1, <2>1, TakeFirst
  <2> QED BY <1>1, <2>2 DEF InChan
<1>4. CASE UnixCtrlC
  BY <1>1, <1>4 DEF UnixCtrlC
<1>5. CASE SendAcceptError
  <2>1. chan' = chan \/ chan' = Append(chan, 0)
    BY <1>5 DEF SendAcceptError
  <2>2. chan' = Append(chan, 0) => (i \in 1..Len(chan) /\ chan'[i] = chan[i]) \/ chan'[i] = 0
    BY <1>0, <1>1, AddLast
  <2> QED BY <1>1, <1>2, <2>1, <2>2 DEF InChan
<1>6. ASSUME NEW k \in Clients, Forward(k) PROVE InChan(a) \/ a = hand[k]
  <2>0. hand[k] \in Nat /\ (chan' = chan \/ chan' = Append(chan, hand[k]))
    BY <1>6 DEF Forward, Basics, UnixTypes
  <2>1. chan' = Append(chan, hand[k]) => (i \in 1..Len(chan) /\ chan'[i] = chan[i]) \/ chan'[i] = hand[k]
    BY <1>0, <1>1, <2>0, AddLast
  <2> QED BY <1>1, <1>2, <2>0, <2>1 DEF InChan
<1> QED BY <1>2, <1>3, <1>4, <1>5, <1>6, WhoWrites

\* The loop takes its line from the head of the channel.
LEMMA CurOrigin ==
    ASSUME Basics, [UnixNext]_allVars, cur'.id # 0
    PROVE  \/ cur' = cur
           \/ /\ TakeMessage /\ chan # <<>> /\ cur'.id = chan[1] /\ 1 \in 1..Len(chan) /\ loop' = "insert"
              /\ chan' = Tail(chan) /\ cur.id = 0
              /\ UNCHANGED <<lines, log, wire, got>>
<1>1. CASE TakeMessage
  <2>1. /\ chan # <<>> /\ Head(chan) # 0 /\ cur' = [key |-> lines[Head(chan)].key, id |-> Head(chan)]
        /\ loop = "next" /\ loop' = After("next") /\ chan' = Tail(chan)
        /\ UNCHANGED <<lines, log, wire, got>>
    BY <1>1 DEF TakeMessage, Receive, clientVars, storeVars
  <2>2. cur'.id = Head(chan) /\ Head(chan) = chan[1] /\ 1 \in 1..Len(chan)
    BY <2>1, MessageTaken
  <2>3. cur.id = 0
    BY <2>1 DEF Basics, TypeOK, NoMessage
  <2>4. loop' = "insert"
    BY <2>1, Zenon DEF After
  <2> QED BY <1>1, <2>1, <2>2, <2>3, <2>4
<1>2. ASSUME NEW k \in Clients, AckReplies(k) PROVE FALSE
  BY <1>2 DEF AckReplies, AckOk, AckFails, NoMessage
<1>3. CASE UnixInsert \/ UnixDispatch \/ UnixCtrlC \/ UnixStopped
  BY <1>3 DEF UnixInsert, UnixDispatch, UnixCtrlC, UnixStopped, Insert, Dispatch, CtrlC, Stopped
<1> QED BY <1>1, <1>2, <1>3, WhoWrites

\* Only the loop's line comes to the cache.
LEMMA LogOrigin ==
    ASSUME Basics, [UnixNext]_allVars
    PROVE  \/ log' = log
           \/ /\ UnixInsert /\ loop = "insert" /\ cur.id # 0 /\ Passed(cur.id)
              /\ log' = Append(log, cur) /\ log \in Seq(Messages) /\ cur \in Messages
              /\ loop' = "dispatch" /\ cur' = cur /\ UNCHANGED unixVars
<1>1. CASE UnixInsert
  <2>1. /\ loop = "insert" /\ log' = Append(log, cur) /\ UNCHANGED unixVars /\ cur' = cur
        /\ loop' = After("insert")
    BY <1>1 DEF UnixInsert, Insert
  <2>2. log \in Seq(Messages) /\ cur \in Messages /\ cur.id # 0
    BY <2>1 DEF Basics, TypeOK, Messages
  <2>3. Passed(cur.id)
    BY <2>2 DEF Basics, PlaceInv
  <2>4. loop' = "dispatch"
    BY <2>1, Zenon DEF After
  <2> QED BY <1>1, <2>1, <2>2, <2>3, <2>4
<1>2. CASE TakeMessage \/ UnixDispatch \/ UnixCtrlC \/ UnixStopped \/ \E k \in Clients : AckReplies(k)
  BY <1>2 DEF TakeMessage, UnixDispatch, UnixCtrlC, UnixStopped, AckReplies, Receive, Dispatch,
              CtrlC, Stopped, AckOk, AckFails, storeVars
<1> QED BY <1>1, <1>2, WhoWrites

\* What is answered is the line in the hand of a task, or the loop's.
LEMMA RepliedOrigin ==
    ASSUME Basics, [UnixNext]_allVars, NEW a, a # 0, Replied(a)'
    PROVE  \/ Replied(a)
           \/ \E k \in Clients : TaskReplies(k) /\ a = hand[k] /\ LineOf(a, k)
                                 /\ lines[a].kind \in {"unparsable", "invalid"}
           \/ \E k \in Clients : AckReplies(k) /\ a = cur.id /\ LineOf(a, k) /\ loop = "ack"
<1>1. PICK k \in Clients : \E i \in 1..Len(Replies(k)') : Replies(k)'[i].line = a
  BY DEF Replied
<1>2. PICK i \in 1..Len(Replies(k)') : Replies(k)'[i].line = a
  BY <1>1
<1>3. CASE i \in 1..Len(Replies(k)) /\ Replies(k)'[i] = Replies(k)[i]
  BY <1>2, <1>3 DEF Replied
<1>4. CASE TaskReplies(k) /\ Replies(k)'[i] = Reply(hand[k])
  <2>1. LineOf(hand[k], k) /\ lines[hand[k]].kind \in {"unparsable", "invalid"}
    BY <1>4, TaskWrites DEF Basics, PlaceInv
  <2>2. Reply(hand[k]).line = hand[k]
    BY <2>1, ReplyType DEF Basics, LineOf, LineAt, IsLine
  <2> QED BY <1>2, <1>4, <2>1, <2>2
<1>5. CASE AckReplies(k) /\ Replies(k)'[i] = Reply(cur.id)
  <2>1. LineOf(cur.id, k) /\ loop = "ack"
    BY <1>5, LoopWrites
  <2>2. Reply(cur.id).line = cur.id
    BY <2>1, ReplyType DEF Basics, LineOf, LineAt, IsLine
  <2> QED BY <1>2, <1>5, <2>1, <2>2
<1> QED BY <1>2, <1>3, <1>4, <1>5, RepliesOrigin

\* A line gets past its task from the task's hand only.
LEMMA PastOrigin ==
    ASSUME Basics, [UnixNext]_allVars, NEW a, a # 0, Past(a)'
    PROVE  Past(a) \/ \E k \in Clients : (Forward(k) \/ TaskReplies(k)) /\ a = hand[k]
<1>1. CASE InChan(a)'
  BY <1>1, ChanOrigin DEF Past
<1>2. CASE cur'.id = a
  BY <1>2, CurOrigin DEF Past, InChan
<1>3. CASE InLog(a)'
  <2>1. CASE log' = log
    BY <1>3, <2>1 DEF Past, InLog
  <2>2. CASE log' = Append(log, cur) /\ log \in Seq(Messages) /\ cur \in Messages
    <3>1. PICK i \in 1..Len(log') : log'[i].id = a
      BY <1>3 DEF InLog
    <3>2. (i \in 1..Len(log) /\ log'[i] = log[i]) \/ log'[i] = cur
      BY <2>2, <3>1, AddLast
    <3> QED BY <3>1, <3>2 DEF Past, InLog
  <2> QED BY <2>1, <2>2, LogOrigin
<1>4. CASE Replied(a)'
  BY <1>4, RepliedOrigin DEF Past
<1> QED BY <1>1, <1>2, <1>3, <1>4 DEF Past

\* What a step does to the lines a client's task has not done with.
LEMMA HandMoves ==
    ASSUME Basics, [UnixNext]_allVars, NEW k \in Clients
    PROVE  \/ inbox'[k] = inbox[k] /\ hand'[k] \in {0, hand[k]}
           \/ Sends(k) /\ inbox'[k] = Append(inbox[k], Len(lines) + 1) /\ hand'[k] = hand[k]
           \/ /\ ReadLine(k) /\ inbox[k] # <<>> /\ inbox'[k] = Tail(inbox[k])
              /\ hand'[k] \in {0, inbox[k][1]}
<1>0. inbox \in [Clients -> Seq(Nat)] /\ hand \in [Clients -> Nat]
  BY DEF Basics, UnixTypes
<1>1. ASSUME NEW c \in Clients, Sends(c)
      PROVE  \/ inbox'[k] = inbox[k] /\ hand'[k] \in {0, hand[k]}
             \/ Sends(k) /\ inbox'[k] = Append(inbox[k], Len(lines) + 1) /\ hand'[k] = hand[k]
  <2>1. inbox' = [inbox EXCEPT ![c] = Append(inbox[c], Len(lines) + 1)] /\ hand' = hand
    BY <1>1, NewLine
  <2> QED BY <1>0, <1>1, <2>1
<1>2. ASSUME NEW c \in Clients, ReadLine(c)
      PROVE  \/ inbox'[k] = inbox[k] /\ hand'[k] \in {0, hand[k]}
             \/ /\ ReadLine(k) /\ inbox[k] # <<>> /\ inbox'[k] = Tail(inbox[k])
                /\ hand'[k] \in {0, inbox[k][1]}
  <2>1. /\ inbox[c] # <<>> /\ inbox' = [inbox EXCEPT ![c] = Tail(inbox[c])]
        /\ hand' = [hand EXCEPT ![c] = 0] \/ hand' = [hand EXCEPT ![c] = Head(inbox[c])]
    BY <1>2, LineRead
  <2>2. Head(inbox[c]) = inbox[c][1]
    BY <1>0, <2>1, TakeFirst
  <2>3. CASE c # k
    BY <1>0, <2>1, <2>3
  <2>4. CASE c = k
    BY <1>0, <1>2, <2>1, <2>2, <2>4
  <2> QED BY <2>3, <2>4
<1>3. CASE <<task, hand>>' = <<task, hand>> /\ inbox' = inbox
  BY <1>3
<1>4. CASE UnixStopped
  BY <1>4 DEF UnixStopped
<1>5. ASSUME NEW c \in Clients, Accepted(c) \/ Authorize(c) \/ ReadEof(c) \/ TaskReplies(c) \/ Forward(c)
      PROVE  inbox'[k] = inbox[k] /\ hand'[k] \in {0, hand[k]}
  <2>1. inbox' = inbox /\ (hand' = hand \/ hand' = [hand EXCEPT ![c] = 0])
    BY <1>5 DEF Accepted, AcceptClient, Authorize, ReadEof, TaskReplies, Forward
  <2> QED BY <1>0, <2>1
<1> QED BY <1>1, <1>2, <1>3, <1>4, <1>5, WhoWrites DEF TaskStep

\* The three kinds of places a line of the client's inbox can come from.
LEMMA InboxOrigin ==
    ASSUME Basics, [UnixNext]_allVars, NEW k \in Clients, NEW i \in 1..Len(inbox'[k])
    PROVE  \/ i \in 1..Len(inbox[k]) /\ inbox'[k][i] = inbox[k][i] /\ ~(hand'[k] # 0 /\ hand[k] = 0)
           \/ /\ i = Len(inbox[k]) + 1 /\ inbox'[k][i] = Len(lines) + 1 /\ Sends(k)
              /\ \A j \in 1..Len(inbox'[k]) : j \in 1..Len(inbox[k]) \/ j = i
           \/ /\ ReadLine(k) /\ i + 1 \in 1..Len(inbox[k]) /\ inbox'[k][i] = inbox[k][i + 1]
              /\ hand'[k] \in {0, inbox[k][1]} /\ 1 \in 1..Len(inbox[k])
<1>0. inbox[k] \in Seq(Nat) /\ Len(lines) + 1 \in Nat
  BY LenProperties DEF Basics, UnixTypes
<1>1. CASE inbox'[k] = inbox[k] /\ hand'[k] \in {0, hand[k]}
  BY <1>1
<1>2. CASE Sends(k) /\ inbox'[k] = Append(inbox[k], Len(lines) + 1) /\ hand'[k] = hand[k]
  <2>1. PICK s \in Seq(Nat), m \in Nat : s = inbox[k] /\ m = Len(lines) + 1
    BY <1>0
  <2>2. /\ \A j \in 1..Len(s) : Append(s, m)[j] = s[j]
        /\ Append(s, m)[Len(s) + 1] = m
        /\ \A j \in 1..Len(Append(s, m)) : j \in 1..Len(s) \/ j = Len(s) + 1
    BY AddLast
  <2> QED BY <1>2, <2>1, <2>2
<1>3. CASE ReadLine(k) /\ inbox[k] # <<>> /\ inbox'[k] = Tail(inbox[k]) /\ hand'[k] \in {0, inbox[k][1]}
  BY <1>0, <1>3, TakeFirst
<1> QED BY <1>1, <1>2, <1>3, HandMoves

\* The lines of a client that its task has not done with stay in order.
LEMMA InboxStep ==
    ASSUME Basics, ClientInv, [UnixNext]_allVars, NEW k \in Clients
    PROVE  /\ \A i, j \in 1..Len(inbox'[k]) : i < j => inbox'[k][i] < inbox'[k][j]
           /\ hand'[k] # 0 => \A i \in 1..Len(inbox'[k]) : hand'[k] < inbox'[k][i]
<1>0. /\ inbox[k] \in Seq(Nat) /\ Len(inbox[k]) \in Nat /\ Len(lines) \in Nat
      /\ \A i \in 1..Len(inbox[k]) : inbox[k][i] \in 1..Len(lines)
      /\ hand[k] # 0 => hand[k] \in 1..Len(lines)
  BY LenProperties DEF Basics, UnixTypes, PlaceInv, LineOf, LineAt, TaskStates
<1>1. /\ \A i, j \in 1..Len(inbox[k]) : i < j => inbox[k][i] < inbox[k][j]
      /\ hand[k] # 0 => \A i \in 1..Len(inbox[k]) : hand[k] < inbox[k][i]
  BY DEF ClientInv
<1>2. CASE inbox'[k] = inbox[k] /\ hand'[k] \in {0, hand[k]}
  BY <1>1, <1>2
<1>3. CASE Sends(k) /\ inbox'[k] = Append(inbox[k], Len(lines) + 1) /\ hand'[k] = hand[k]
  <2>1. PICK s \in Seq(Nat), m \in Nat, e \in Nat : s = inbox[k] /\ m = Len(s) /\ e = Len(lines)
    BY <1>0
  <2>2. PICK t : t = inbox'[k] /\ t = Append(s, e + 1)
    BY <1>3, <2>1
  <2>3. e + 1 \in Nat
    OBVIOUS
  <2>4. /\ \A i \in 1..m : t[i] = s[i]
        /\ t[m + 1] = e + 1
        /\ \A i \in 1..Len(t) : i \in 1..m \/ i = m + 1
    BY <2>1, <2>2, <2>3, AddLast
  <2>5. \A i \in 1..m : s[i] \in 1..e
    BY <1>0, <2>1
  <2>6. ASSUME NEW i \in 1..Len(t), NEW j \in 1..Len(t), i < j PROVE t[i] < t[j]
    <3>1. CASE j \in 1..m
      <4>1. i \in 1..m
        BY <2>4, <2>6, <3>1
      <4> QED BY <1>1, <2>1, <2>4, <2>6, <3>1, <4>1
    <3>2. CASE j = m + 1
      <4>1. i \in 1..m
        BY <2>4, <2>6, <3>2
      <4>2. s[i] \in 1..e /\ t[i] = s[i] /\ t[j] = e + 1
        BY <2>4, <2>5, <3>2, <4>1
      <4> QED BY <4>2
    <3> QED BY <2>4, <3>1, <3>2
  <2>7. ASSUME hand[k] # 0, NEW i \in 1..Len(t) PROVE hand[k] < t[i]
    <3>1. CASE i \in 1..m
      BY <1>1, <2>1, <2>4, <2>7, <3>1
    <3>2. CASE i = m + 1
      <4>1. hand[k] \in 1..e /\ t[i] = e + 1
        BY <1>0, <2>1, <2>4, <2>7, <3>2
      <4> QED BY <4>1
    <3> QED BY <2>4, <3>1, <3>2
  <2> QED BY <1>3, <2>2, <2>6, <2>7
<1>4. CASE inbox[k] # <<>> /\ inbox'[k] = Tail(inbox[k]) /\ hand'[k] \in {0, inbox[k][1]}
  <2>1. PICK s \in Seq(Nat), m \in Nat : s = inbox[k] /\ m = Len(s)
    BY <1>0
  <2>2. PICK t : t = inbox'[k] /\ t = Tail(s)
    BY <1>4, <2>1
  <2>3. \A i \in 1..Len(t) : i + 1 \in 1..m /\ t[i] = s[i + 1] /\ 1 \in 1..m
    BY <1>4, <2>1, <2>2, TakeFirst
  <2>4. \A i, j \in 1..m : i < j => s[i] < s[j]
    BY <1>1, <2>1
  <2>5. ASSUME NEW i \in 1..Len(t), NEW j \in 1..Len(t), i < j PROVE t[i] < t[j]
    <3>1. i + 1 < j + 1
      BY <2>5
    <3> QED BY <2>3, <2>4, <3>1
  <2>6. ASSUME NEW i \in 1..Len(t) PROVE s[1] < t[i]
    <3>1. 1 < i + 1
      OBVIOUS
    <3> QED BY <2>3, <2>4, <3>1
  <2> QED BY <1>4, <2>1, <2>2, <2>5, <2>6
<1> QED BY <1>2, <1>3, <1>4, HandMoves

\* What is behind a line stays behind it.
LEMMA BehindStays ==
    ASSUME Basics, [UnixNext]_allVars, NEW a, IsLine(a), Behind(a)
    PROVE  Behind(a)'
<1>0. PICK k \in Clients : k = lines[a].client /\ lines'[a] = lines[a]
  BY LineStays DEF LineSet
<1>1. /\ hand[k] # 0 => a < hand[k]
      /\ \A i \in 1..Len(inbox[k]) : a < inbox[k][i]
  BY <1>0 DEF Behind
<1>2. PICK e \in Nat : e = Len(lines) /\ a \in 1..e
  BY LenProperties DEF IsLine, Basics, UnixTypes
<1>3. ASSUME NEW i \in 1..Len(inbox'[k]) PROVE a < inbox'[k][i]
  <2>1. a < e + 1
    BY <1>2
  <2> QED BY <1>1, <1>2, <2>1, InboxOrigin
<1>4. hand'[k] # 0 => a < hand'[k]
  <2>1. inbox[k] # <<>> => 1 \in 1..Len(inbox[k])
    BY TakeFirst DEF Basics, UnixTypes
  <2> QED BY <1>1, <2>1, HandMoves
<1> QED BY <1>0, <1>3, <1>4 DEF Behind

\* A line that leaves the hand of its task is ahead of the client's others.
LEMMA BehindHand ==
    ASSUME Basics, ClientInv, [UnixNext]_allVars, NEW k \in Clients, Forward(k) \/ TaskReplies(k)
    PROVE  LineOf(hand[k], k) /\ \A a : a = hand[k] => Behind(a)'
<1>0. inbox' = inbox /\ hand' = [hand EXCEPT ![k] = 0] /\ task[k] \in {"forward", "reply"} /\ lines' = lines
  BY DEF Forward, TaskReplies, clientVars
<1>1. LineOf(hand[k], k) /\ hand[k] # 0
  <2>1. LineOf(hand[k], k)
    BY <1>0 DEF Basics, PlaceInv
  <2> QED BY <2>1 DEF LineOf, LineAt
<1>2. hand'[k] = 0 /\ \A i \in 1..Len(inbox'[k]) : hand[k] < inbox'[k][i]
  BY <1>0, <1>1 DEF Basics, UnixTypes, ClientInv
<1>3. lines'[hand[k]].client = k
  BY <1>0, <1>1 DEF LineOf, LineAt
<1> QED BY <1>1, <1>2, <1>3 DEF Behind

\* Every step keeps each client's lines in order up to its task.
LEMMA ClientStep == Basics /\ ClientInv /\ [UnixNext]_allVars => ClientInv'
<1> SUFFICES ASSUME Basics, ClientInv, [UnixNext]_allVars PROVE ClientInv'
  OBVIOUS
<1>1. ASSUME NEW k \in Clients, NEW i \in 1..Len(Replies(k)'), Replies(k)'[i].line # 0
      PROVE  LineAt(lines', Replies(k)'[i].line, k)
  <2>1. ASSUME NEW a, LineOf(a, k) PROVE LineAt(lines', a, k)
    BY <2>1, LineStays DEF LineOf, LineAt, IsLine
  <2>2. CASE i \in 1..Len(Replies(k)) /\ Replies(k)'[i] = Replies(k)[i]
    BY <1>1, <2>1, <2>2 DEF ClientInv
  <2>3. CASE TaskReplies(k) /\ Replies(k)'[i] = Reply(hand[k])
    <3>1. LineOf(hand[k], k)
      BY <2>3, TaskWrites DEF Basics, PlaceInv
    <3>2. Reply(hand[k]).line = hand[k]
      BY <3>1, ReplyType DEF Basics, LineOf, LineAt, IsLine
    <3> QED BY <2>1, <2>3, <3>1, <3>2
  <2>4. CASE AckReplies(k) /\ Replies(k)'[i] = Reply(cur.id)
    <3>1. LineOf(cur.id, k)
      BY <2>4, LoopWrites
    <3>2. Reply(cur.id).line = cur.id
      BY <3>1, ReplyType DEF Basics, LineOf, LineAt, IsLine
    <3> QED BY <2>1, <2>4, <3>1, <3>2
  <2> QED BY <1>1, <2>2, <2>3, <2>4, RepliesOrigin
<1>2. ASSUME NEW a \in 1..Len(lines'), Past(a)' PROVE Behind(a)'
  <2>0. a # 0
    OBVIOUS
  <2>1. CASE Past(a)
    <3>1. IsLine(a)
      BY <2>0, <2>1 DEF Past, InChan, InLog, Replied, Basics, PlaceInv, Passed, ClientInv, LineOf, LineAt, IsLine
    <3>2. Behind(a)
      BY <2>1, <3>1 DEF ClientInv, IsLine
    <3> QED BY <3>1, <3>2, BehindStays
  <2>2. ASSUME NEW k \in Clients, Forward(k) \/ TaskReplies(k), a = hand[k] PROVE Behind(a)'
    BY <2>2, BehindHand
  <2> QED BY <1>2, <2>0, <2>1, <2>2, PastOrigin
<1> QED BY <1>1, <1>2, InboxStep DEF ClientInv, LineOf

-----------------------------------------------------------------------------
(* From the channel to the cache and the acknowledgement.                  *)

\* A line that is cached or acknowledged has been with the loop.
LEMMA DoneOrigin ==
    ASSUME Basics, [UnixNext]_allVars, NEW a, a # 0, IsLine(a), Done(a)'
    PROVE  \/ Done(a)
           \/ a = cur.id /\ (UnixInsert \/ \E k \in Clients : AckReplies(k))
<1>0. lines'[a] = lines[a]
  BY LineStays
<1>1. CASE InLog(a)'
  <2>1. CASE log' = log
    BY <1>1, <2>1 DEF Done, InLog
  <2>2. CASE UnixInsert /\ log' = Append(log, cur) /\ log \in Seq(Messages) /\ cur \in Messages
    <3>1. PICK i \in 1..Len(log') : log'[i].id = a
      BY <1>1 DEF InLog
    <3>2. (i \in 1..Len(log) /\ log'[i] = log[i]) \/ log'[i] = cur
      BY <2>2, <3>1, AddLast
    <3> QED BY <2>2, <3>1, <3>2 DEF Done, InLog
  <2> QED BY <2>1, <2>2, LogOrigin
<1>2. CASE Replied(a)' /\ lines'[a].kind = "valid"
  BY <1>0, <1>2, RepliedOrigin DEF Done
<1> QED BY <1>1, <1>2 DEF Done

\* What waits in the channel stays after a line that is past it.
LEMMA AheadStays ==
    ASSUME Basics, ClientInv, [UnixNext]_allVars, NEW a, IsLine(a), Past(a), AheadOfChan(a)
    PROVE  AheadOfChan(a)'
<1> SUFFICES ASSUME NEW i \in 1..Len(chan'), chan'[i] # 0, lines'[chan'[i]].client = lines'[a].client
             PROVE  a < chan'[i]
  BY DEF AheadOfChan
<1>1. PICK b : b = chan'[i]
  OBVIOUS
<1>2. InChan(b)' /\ b # 0
  BY <1>1 DEF InChan
<1>3. lines'[a] = lines[a]
  BY LineStays
<1>4. CASE InChan(b)
  <2>1. IsLine(b) /\ \E j \in 1..Len(chan) : chan[j] = b
    BY <1>2, <1>4 DEF InChan, Basics, PlaceInv, Passed
  <2>2. lines'[b] = lines[b]
    BY <2>1, LineStays
  <2> QED BY <1>1, <1>2, <1>3, <2>1, <2>2 DEF AheadOfChan
<1>5. ASSUME NEW k \in Clients, Forward(k), b = hand[k] PROVE a < b
  <2>1. LineOf(b, k)
    BY <1>5, BehindHand
  <2>2. lines'[b].client = k
    BY <2>1, LineStays DEF LineOf, LineAt, IsLine
  <2>3. Behind(a) /\ lines[a].client = k
    BY <1>1, <1>3, <2>2 DEF ClientInv, IsLine
  <2> QED BY <1>2, <1>5, <2>3 DEF Behind
<1> QED BY <1>1, <1>2, <1>4, <1>5, ChanOrigin

\* The channel keeps the order of each client's lines.
LEMMA ChanStep ==
    ASSUME Basics, ClientInv, LoopInv, [UnixNext]_allVars,
           NEW i \in 1..Len(chan'), NEW j \in 1..Len(chan'), i < j, chan'[i] # 0, chan'[j] # 0,
           lines'[chan'[i]].client = lines'[chan'[j]].client
    PROVE  chan'[i] < chan'[j]
<1>0. PICK m \in Nat : chan \in Seq(Nat) /\ m = Len(chan)
  BY LenProperties DEF Basics, UnixTypes
<1>1. ASSUME NEW x \in 1..m, NEW y \in 1..m, x < y, chan[x] = chan'[i], chan[y] = chan'[j]
      PROVE  chan'[i] < chan'[j]
  <2>1. IsLine(chan[x]) /\ IsLine(chan[y])
    BY <1>0, <1>1 DEF Basics, PlaceInv, Passed
  <2>2. lines'[chan[x]] = lines[chan[x]] /\ lines'[chan[y]] = lines[chan[y]]
    BY <2>1, LineStays
  <2> QED BY <1>0, <1>1, <2>2 DEF LoopInv
<1>2. CASE chan' = chan
  BY <1>0, <1>1, <1>2
<1>3. CASE TakeMessage \/ SkipError
  <2>1. chan' = Tail(chan) /\ chan # <<>>
    BY <1>3 DEF TakeMessage, SkipError
  <2>2. /\ i + 1 \in 1..m /\ chan'[i] = chan[i + 1]
        /\ j + 1 \in 1..m /\ chan'[j] = chan[j + 1]
    BY <1>0, <2>1, TakeFirst
  <2>3. i + 1 < j + 1
    OBVIOUS
  <2> QED BY <1>1, <2>2, <2>3
<1>4. CASE UnixCtrlC
  BY <1>4 DEF UnixCtrlC
<1>5. ASSUME NEW e \in Nat, chan' = Append(chan, e)
      PROVE  \/ i \in 1..m /\ j \in 1..m /\ chan'[i] = chan[i] /\ chan'[j] = chan[j]
             \/ i \in 1..m /\ chan'[i] = chan[i] /\ chan'[j] = e
  <2>1. /\ \A x \in 1..m : chan'[x] = chan[x]
        /\ chan'[m + 1] = e
        /\ \A x \in 1..Len(chan') : x \in 1..m \/ x = m + 1
    BY <1>0, <1>5, AddLast
  <2>2. i \in 1..m
    BY <2>1
  <2> QED BY <2>1, <2>2
<1>6. CASE SendAcceptError
  <2>1. chan' = chan \/ chan' = Append(chan, 0)
    BY <1>6 DEF SendAcceptError
  <2> QED BY <1>1, <1>2, <1>5, <2>1
<1>7. ASSUME NEW k \in Clients, Forward(k) PROVE chan'[i] < chan'[j]
  <2>1. hand[k] \in Nat /\ (chan' = chan \/ chan' = Append(chan, hand[k]))
    BY <1>7 DEF Forward, Basics, UnixTypes
  <2>2. CASE i \in 1..m /\ chan'[i] = chan[i] /\ chan'[j] = hand[k]
    <3>1. PICK a, b : a = chan[i] /\ b = hand[k]
      OBVIOUS
    <3>2. LineOf(b, k)
      BY <1>7, <3>1, BehindHand
    <3>3. IsLine(a) /\ Past(a)
      BY <1>0, <2>2, <3>1 DEF Basics, PlaceInv, Passed, Past, InChan
    <3>4. lines'[a] = lines[a] /\ lines'[b] = lines[b]
      BY <3>2, <3>3, LineStays DEF LineOf, LineAt, IsLine
    <3>5. lines[a].client = k
      BY <2>2, <3>1, <3>2, <3>4 DEF LineOf, LineAt
    <3>6. Behind(a)
      BY <3>3 DEF ClientInv, IsLine
    <3> QED BY <2>2, <3>1, <3>5, <3>6 DEF Behind
  <2> QED BY <1>1, <1>2, <1>5, <2>1, <2>2
<1> QED BY <1>2, <1>3, <1>4, <1>6, <1>7, WhoWrites

\* The loop's line comes before those that wait, and has not been answered.
LEMMA CurStep ==
    ASSUME Basics, ClientInv, LoopInv, [UnixNext]_allVars, cur'.id # 0
    PROVE  \A a : a = cur'.id => AheadOfChan(a)' /\ ~Replied(a)'
<1> SUFFICES ASSUME NEW a, a = cur'.id PROVE AheadOfChan(a)' /\ ~Replied(a)'
  OBVIOUS
<1>1. CASE cur' = cur
  <2>1. a = cur.id /\ Passed(a) /\ Past(a)
    BY <1>1 DEF Basics, PlaceInv, Past
  <2>2. IsLine(a) /\ lines[a].kind = "valid" /\ AheadOfChan(a) /\ ~Replied(a)
    BY <2>1 DEF LoopInv, Passed
  <2>3. AheadOfChan(a)'
    BY <2>1, <2>2, AheadStays
  <2>4. ASSUME NEW k \in Clients PROVE ~AckReplies(k)
    BY DEF AckReplies, AckOk, AckFails, NoMessage
  <2>5. ~Replied(a)'
    BY <2>2, <2>4, RepliedOrigin
  <2> QED BY <2>3, <2>5
<1>2. CASE /\ TakeMessage /\ chan # <<>> /\ a = chan[1] /\ 1 \in 1..Len(chan)
           /\ chan' = Tail(chan) /\ UNCHANGED <<lines, log, wire, got>>
  <2>1. Passed(a)
    BY <1>2 DEF Basics, PlaceInv
  <2>2. AheadOfChan(a)'
    <3> SUFFICES ASSUME NEW i \in 1..Len(chan'), chan'[i] # 0, lines'[chan'[i]].client = lines'[a].client
                 PROVE  a < chan'[i]
      BY DEF AheadOfChan
    <3>1. i + 1 \in 1..Len(chan) /\ chan'[i] = chan[i + 1] /\ 1 < i + 1
      BY <1>2, TakeFirst DEF Basics, UnixTypes
    <3> QED BY <1>2, <3>1 DEF LoopInv
  <2>3. Replied(a)' => Replied(a)
    BY <1>2 DEF Replied, Replies
  <2>4. ~Replied(a)
    <3>1. IsLine(a) /\ lines[a].kind = "valid"
      BY <2>1 DEF Passed
    <3>2. Replied(a) => AheadOfChan(a)
      BY <3>1 DEF LoopInv, Done, IsLine
    <3>3. AheadOfChan(a) => a < a
      BY <1>2 DEF AheadOfChan
    <3>4. a \in Nat
      BY <3>1, LenProperties DEF IsLine, Basics, UnixTypes
    <3> QED BY <3>2, <3>3, <3>4
  <2> QED BY <2>2, <2>3, <2>4
<1> QED BY <1>1, <1>2, CurOrigin

\* What is cached or acknowledged comes before what waits, and before the line
\* the loop is about to cache.
LEMMA DoneStep ==
    ASSUME Basics, ClientInv, LoopInv, [UnixNext]_allVars, NEW a \in 1..Len(lines'), Done(a)'
    PROVE  /\ AheadOfChan(a)'
           /\ loop' = "insert" /\ lines'[a].client = lines'[cur'.id].client => a < cur'.id
<1>0. a # 0
  OBVIOUS
<1>1. Past(a)
  <2>1. Past(a) \/ \E k \in Clients : (Forward(k) \/ TaskReplies(k)) /\ a = hand[k]
    BY <1>0, PastOrigin DEF Done, Past
  <2>2. ASSUME NEW k \in Clients, Forward(k) \/ TaskReplies(k), a = hand[k] PROVE Past(a)
    <3>1. LineOf(a, k) /\ lines' = lines /\ log' = log
      BY <2>2, BehindHand DEF Forward, TaskReplies, clientVars, vars, storeVars
    <3>2. Done(a) \/ a = cur.id
      BY <1>0, <3>1, DoneOrigin DEF LineOf, LineAt, IsLine
    <3> QED BY <3>2 DEF Done, Past
  <2> QED BY <2>1, <2>2
<1>2. IsLine(a)
  BY <1>0, <1>1 DEF Past, InChan, InLog, Replied, Basics, PlaceInv, Passed, ClientInv, LineOf, LineAt, IsLine
<1>3. Done(a) \/ (a = cur.id /\ (UnixInsert \/ \E k \in Clients : AckReplies(k)))
  BY <1>0, <1>2, DoneOrigin
<1>4. AheadOfChan(a)
  BY <1>0, <1>2, <1>3 DEF LoopInv, IsLine
<1>5. AheadOfChan(a)'
  BY <1>1, <1>2, <1>4, AheadStays
<1>6. ASSUME loop' = "insert", lines'[a].client = lines'[cur'.id].client PROVE a < cur'.id
  <2>0. ~UnixInsert /\ \A k \in Clients : ~AckReplies(k)
    <3>1. UnixInsert => loop' = "dispatch"
      BY Zenon DEF UnixInsert, Insert, After
    <3>2. ASSUME NEW k \in Clients, AckReplies(k) PROVE loop' = "next"
      BY <3>2, Zenon DEF AckReplies, AckOk, AckFails, After
    <3> QED BY <1>6, <3>1, <3>2
  <2>1. Done(a) /\ lines'[a] = lines[a]
    BY <1>2, <1>3, <2>0, LineStays
  <2>2. cur'.id # 0
    BY <1>6, CoreTypes DEF TypeOK, Messages
  <2>3. CASE cur' = cur
    <3>1. loop = "insert"
      <4>1. loop' = loop \/ TakeMessage \/ UnixDispatch \/ UnixCtrlC \/ UnixStopped
        BY <2>0, WhoWrites
      <4>2. ~UnixCtrlC /\ ~UnixStopped /\ ~UnixDispatch
        <5>1. UnixDispatch => loop' = "ack"
          BY Zenon DEF UnixDispatch, Dispatch, After
        <5> QED BY <1>6, <5>1 DEF UnixCtrlC, CtrlC, UnixStopped, Stopped
      <4>3. ~TakeMessage
        <5>1. TakeMessage => cur.id = 0
          BY DEF TakeMessage, Receive, Basics, TypeOK, NoMessage
        <5> QED BY <2>2, <2>3, <5>1
      <4> QED BY <1>6, <4>1, <4>2, <4>3
    <3>2. IsLine(cur.id)
      BY <2>2, <2>3 DEF Basics, PlaceInv, Passed
    <3>3. lines'[cur.id] = lines[cur.id]
      BY <3>2, LineStays
    <3> QED BY <1>2, <1>6, <2>1, <2>3, <3>1, <3>3 DEF LoopInv, IsLine
  <2>4. CASE cur'.id = chan[1] /\ 1 \in 1..Len(chan) /\ lines' = lines
    <3>1. AheadOfChan(a)
      BY <1>4
    <3> QED BY <1>6, <2>1, <2>2, <2>4, <3>1 DEF AheadOfChan
  <2> QED BY <2>2, <2>3, <2>4, CurOrigin
<1> QED BY <1>5, <1>6

\* The order in which the cache is written.
LEMMA LogStep ==
    ASSUME Basics, ClientInv, LoopInv, [UnixNext]_allVars PROVE ClientOrderKept'
<1>0. \A i \in 1..Len(log) : IsLine(log[i].id)
  BY DEF Basics, PlaceInv, Passed
<1>1. CASE log' = log
  <2>1. \A i \in 1..Len(log) : lines'[log[i].id] = lines[log[i].id]
    BY <1>0, LineStays
  <2> QED BY <1>1, <2>1 DEF LoopInv, ClientOrderKept
<1>2. CASE /\ loop = "insert" /\ Passed(cur.id) /\ log' = Append(log, cur)
           /\ log \in Seq(Messages) /\ cur \in Messages /\ UNCHANGED unixVars
  <2>1. PICK m \in Nat : m = Len(log)
    BY <1>2, LenProperties
  <2>2. /\ \A i \in 1..m : log'[i] = log[i]
        /\ log'[m + 1] = cur
        /\ \A i \in 1..Len(log') : i \in 1..m \/ i = m + 1
    BY <1>2, <2>1, AddLast
  <2>3. lines' = lines
    BY <1>2 DEF unixVars, clientVars
  <2>4. ASSUME NEW i \in 1..Len(log'), NEW j \in 1..Len(log'), i < j,
               lines'[log'[i].id].client = lines'[log'[j].id].client
        PROVE  log'[i].id < log'[j].id
    <3>1. i \in 1..m
      BY <2>2, <2>4
    <3>2. CASE j \in 1..m
      BY <2>1, <2>2, <2>3, <2>4, <3>1, <3>2 DEF LoopInv, ClientOrderKept
    <3>3. CASE j = m + 1
      <4>1. Done(log[i].id) /\ log[i].id \in 1..Len(lines)
        BY <1>0, <2>1, <3>1 DEF Done, InLog, IsLine
      <4>2. log'[i] = log[i] /\ log'[j] = cur
        BY <2>2, <3>1, <3>3
      <4> QED BY <1>2, <2>3, <2>4, <4>1, <4>2 DEF LoopInv
    <3> QED BY <2>2, <3>2, <3>3
  <2> QED BY <2>4 DEF ClientOrderKept
<1> QED BY <1>1, <1>2, LogOrigin

\* Every step keeps each client's lines in order up to the cache.
LEMMA LoopStepInv == Basics /\ ClientInv /\ LoopInv /\ [UnixNext]_allVars => LoopInv'
<1> SUFFICES ASSUME Basics, ClientInv, LoopInv, [UnixNext]_allVars PROVE LoopInv'
  OBVIOUS
<1>1. cur'.id # 0 => AheadOfChan(cur.id)' /\ ~Replied(cur.id)'
  <2>1. PICK a : a = cur'.id
    OBVIOUS
  <2>2. cur'.id # 0 => AheadOfChan(a)' /\ ~Replied(a)'
    BY <2>1, CurStep
  <2> QED BY <2>1, <2>2 DEF AheadOfChan, Replied
<1> QED BY <1>1, ChanStep, DoneStep, LogStep DEF LoopInv

\* Nothing is out of order at first.
LEMMA OrderInit == UnixInit => ClientInv /\ LoopInv
<1> SUFFICES ASSUME UnixInit PROVE ClientInv /\ LoopInv
  OBVIOUS
<1>1. /\ Len(lines) = 0 /\ Len(chan) = 0 /\ Len(log) = 0 /\ cur.id = 0 /\ loop = "next"
      /\ \A k \in Clients : Len(inbox[k]) = 0 /\ hand[k] = 0
  BY DEF UnixInit, Init, NoMessage
<1>2. ClientInv
  BY <1>1, NoReplyYet DEF ClientInv
<1> QED BY <1>1, <1>2 DEF LoopInv, ClientOrderKept

\* Inductive: each client's lines keep their order from its inbox to the cache.
THEOREM LinesInOrder == UnixSpec => [](ClientInv /\ LoopInv)
BY OrderInit, ClientStep, LoopStepInv, UnixBasics, PTL DEF UnixSpec

\* forward_unix_client_lines: one task per client, one channel and one loop
\* keep the order of every client's values, for any backlog and whatever the
\* other clients do.
THEOREM ClientsKeepOrder == UnixSpec => []ClientOrderKept
<1>1. LoopInv => ClientOrderKept
  BY DEF LoopInv
<1> QED BY <1>1, LinesInOrder, PTL

-----------------------------------------------------------------------------
(* No line is answered twice, and none is lost.                            *)

InInbox(a) == \E i \in 1..Len(inbox[lines[a].client]) : inbox[lines[a].client][i] = a

\* A line that nothing excuses from an answer.
Owed(a) ==
    /\ ServerUp /\ client[lines[a].client] # "gone" /\ task[lines[a].client] # "refused"
    /\ ~Garbled(a)

\* Inductive: no client has two replies to a line, and a line that is owed an
\* answer is on its way or answered.
AnswerInv ==
    /\ \A k \in Clients : \A i, j \in 1..Len(Replies(k)) :
          i < j /\ Replies(k)[i].line # 0 => Replies(k)[i].line # Replies(k)[j].line
    /\ \A a \in 1..Len(lines) : Owed(a) =>
          InInbox(a) \/ hand[lines[a].client] = a \/ InChan(a) \/ cur.id = a \/ Replied(a)

\* A second reply to a line is never written.
LEMMA OnceStep ==
    ASSUME Basics, ClientInv, LoopInv, AnswerInv, [UnixNext]_allVars, NEW k \in Clients,
           NEW i \in 1..Len(Replies(k)'), NEW j \in 1..Len(Replies(k)'), i < j, Replies(k)'[i].line # 0
    PROVE  Replies(k)'[i].line # Replies(k)'[j].line
<1>0. PICK m \in Nat : m = Len(Replies(k))
  BY RepliesShape
<1>1. CASE j \in 1..m /\ Replies(k)'[j] = Replies(k)[j]
  <2>1. i \in 1..m /\ i # m + 1
    BY <1>0, <1>1
  <2>2. Replies(k)'[i] = Replies(k)[i]
    BY <1>0, <2>1, RepliesOrigin
  <2> QED BY <1>0, <1>1, <2>1, <2>2 DEF AnswerInv
<1>2. ASSUME \/ Replies(k)'[j].line = 0
             \/ TaskReplies(k) /\ Replies(k)'[j] = Reply(hand[k])
             \/ AckReplies(k) /\ Replies(k)'[j] = Reply(cur.id),
             j = m + 1
      PROVE  Replies(k)'[i].line # Replies(k)'[j].line
  <2>1. i \in 1..m /\ i # m + 1
    <3>1. i # m + 1
      BY <1>0, <1>2
    <3> QED BY <1>0, <3>1, RepliesOrigin
  <2>2. PICK a : a = Replies(k)[i].line /\ a = Replies(k)'[i].line
    BY <1>0, <2>1, RepliesOrigin
  <2>3. Replied(a) /\ LineOf(a, k) /\ a # 0
    BY <1>0, <2>1, <2>2 DEF Replied, ClientInv
  <2>4. ASSUME TaskReplies(k), Replies(k)'[j] = Reply(hand[k]) PROVE a # Replies(k)'[j].line
    <3>1. LineOf(hand[k], k) /\ hand[k] # 0
      BY <2>4, TaskWrites DEF Basics, PlaceInv, LineOf, LineAt
    <3>2. Reply(hand[k]).line = hand[k]
      BY <3>1, ReplyType DEF Basics, LineOf, LineAt, IsLine
    <3>3. a < hand[k] /\ a \in Nat /\ hand[k] \in Nat
      BY <2>3, <3>1 DEF ClientInv, Past, Behind, LineOf, LineAt, Basics, UnixTypes
    <3> QED BY <2>4, <3>2, <3>3
  <2>5. ASSUME AckReplies(k), Replies(k)'[j] = Reply(cur.id) PROVE a # Replies(k)'[j].line
    <3>1. loop = "ack" /\ LineOf(cur.id, k)
      BY <2>5, LoopWrites
    <3>2. Reply(cur.id).line = cur.id /\ cur.id # 0
      BY <3>1, ReplyType DEF Basics, LineOf, LineAt, IsLine
    <3> QED BY <2>3, <2>5, <3>2 DEF LoopInv
  <2> QED BY <1>2, <2>2, <2>3, <2>4, <2>5
<1> QED BY <1>0, <1>1, <1>2, RepliesOrigin

\* A reply stays with a client that stays.
LEMMA RepliedStays ==
    ASSUME Basics, [UnixNext]_allVars, NEW k \in Clients, client'[k] # "gone",
           NEW i \in 1..Len(Replies(k))
    PROVE  i \in 1..Len(Replies(k)') /\ Replies(k)'[i] = Replies(k)[i]
<1>1. CASE Replies(k)' = Replies(k)
  BY <1>1
<1>2. ASSUME NEW r \in ReplySet, Replies(k)' = Append(Replies(k), r)
      PROVE  i \in 1..Len(Replies(k)') /\ Replies(k)'[i] = Replies(k)[i]
  <2>1. PICK s \in Seq(ReplySet) : s = Replies(k)
    BY RepliesShape
  <2>2. PICK m \in Nat : m = Len(s)
    BY LenProperties
  <2>3. Len(Append(s, r)) = m + 1 /\ \A j \in 1..m : Append(s, r)[j] = s[j]
    BY <2>2, AddLast
  <2>4. i \in 1..m /\ i \in 1..(m + 1) /\ Replies(k)' = Append(s, r)
    BY <1>2, <2>1, <2>2
  <2> QED BY <2>1, <2>2, <2>3, <2>4
<1> QED BY <1>1, <1>2, RepliesMove

\* A reply that is written is there, unless the client is gone.
LEMMA ReplyArrives ==
    ASSUME Basics, [UnixNext]_allVars, NEW k \in Clients, client'[k] # "gone",
           NEW n \in Nat, Reply(n) \in ReplySet, Reply(n).line = n,
           wire'[k] = Append(wire[k], Reply(n)), got'[k] = got[k]
    PROVE  Replied(n)'
<1>1. PICK g \in Seq(ReplySet), w \in Seq(ReplySet), r \in ReplySet : g = got[k] /\ w = wire[k] /\ r = Reply(n)
  BY DEF Basics, UnixTypes
<1>2. g \o Append(w, r) = Append(g \o w, r) /\ g \o w \in Seq(ReplySet)
  BY ReplyBehind, Zenon
<1>3. PICK s \in Seq(ReplySet) : s = g \o w
  BY <1>2
<1>4. Replies(k)' = Append(s, r)
  <2>1. Replies(k)' = got'[k] \o wire'[k]
    BY DEF Replies
  <2> QED BY <1>1, <1>2, <1>3, <2>1, Zenon
<1>5. PICK m \in Nat : m = Len(s)
  BY LenProperties
<1>6. Len(Append(s, r)) = m + 1 /\ Append(s, r)[m + 1] = r
  BY <1>5, AddLast
<1>7. m + 1 \in 1..Len(Append(s, r)) /\ Append(s, r)[m + 1].line = n
  BY <1>1, <1>6
<1> QED BY <1>4, <1>7 DEF Replied

\* What excuses a line goes on excusing it.
LEMMA OwedBefore ==
    ASSUME Basics, [UnixNext]_allVars, NEW a, IsLine(a), Owed(a)'
    PROVE  Owed(a) /\ lines[a].client \in Clients /\ client'[lines[a].client] # "gone" /\ ServerUp'
           /\ lines'[a] = lines[a] /\ ~Garbled(a)'
<1>0. PICK k \in Clients : k = lines[a].client /\ lines'[a] = lines[a] /\ client[k] # "absent"
  BY LineStays DEF LineSet, Basics, PlaceInv, IsLine
<1>1. loop' \notin {"stopping", "stopped"} /\ client'[k] # "gone" /\ task'[k] # "refused" /\ ~Garbled(a)'
  BY <1>0 DEF Owed, ServerUp
<1>2. ServerUp
  BY <1>1, WhoWrites DEF ServerUp, TakeMessage, Receive, UnixInsert, Insert, UnixDispatch, Dispatch,
     UnixCtrlC, CtrlC, UnixStopped, Stopped, AckReplies, AckOk, AckFails
<1>3. client[k] # "gone"
  <2>0. client \in [Clients -> {"absent", "open", "eof", "gone"}]
    BY DEF Basics, UnixTypes
  <2>1. ASSUME client[k] = "gone", NEW c \in Clients, Accepted(c) \/ ClientHalfCloses(c) \/ ClientCloses(c)
        PROVE  client'[k] = "gone"
    <3>1. \E s : client[c] # "gone" /\ client' = [client EXCEPT ![c] = s]
      BY <2>1 DEF Accepted, AcceptClient, ClientHalfCloses, ClientCloses
    <3> QED BY <2>0, <2>1, <3>1
  <2> QED BY <1>1, <2>1, WhoWrites
<1>4. task[k] # "refused"
  <2>0. task \in [Clients -> TaskStates]
    BY DEF Basics, UnixTypes
  <2>1. ~UnixStopped
    BY <1>1 DEF UnixStopped, Stopped
  <2>2. ASSUME task[k] = "refused", NEW c \in Clients, Accepted(c) \/ TaskStep(c)
        PROVE  task'[k] = "refused"
    <3>1. Accepted(c) => c # k /\ \E s : task' = [task EXCEPT ![c] = s]
      BY <1>0 DEF Accepted, AcceptClient
    <3>2. ReadLine(c) => task[c] = "read" /\ \E s \in {"ended", "forward", "reply"} : task' = [task EXCEPT ![c] = s]
      BY LineRead
    <3>3. TaskStep(c) => c # k /\ \E s : task' = [task EXCEPT ![c] = s]
      BY <2>2, <3>2 DEF TaskStep, Authorize, ReadEof, TaskReplies, Forward
    <3> QED BY <2>0, <2>2, <3>1, <3>3
  <2> QED BY <1>1, <2>1, <2>2, WhoWrites
<1>5. ~Garbled(a)
  <2>1. ASSUME NEW m \in 1..a, lines[m].client = lines[a].client, lines[m].kind = "garbled" PROVE FALSE
    <3>1. IsLine(m)
      BY LenProperties DEF IsLine, Basics, UnixTypes
    <3>2. lines'[m] = lines[m]
      BY <3>1, LineStays
    <3> QED BY <1>0, <1>1, <2>1, <3>2 DEF Garbled
  <2> QED BY <2>1 DEF Garbled
<1> QED BY <1>0, <1>1, <1>2, <1>3, <1>4, <1>5 DEF Owed, ServerUp

\* A line that is owed an answer is not lost on the way from its inbox ...
LEMMA WayFromInbox ==
    ASSUME Basics, [UnixNext]_allVars, NEW a, IsLine(a), Owed(a)', InInbox(a)
    PROVE  InInbox(a)' \/ hand'[lines'[a].client] = a
<1>0. PICK k \in Clients : k = lines[a].client /\ lines'[a] = lines[a]
  BY OwedBefore
<1>1. PICK s \in Seq(Nat), m \in Nat : s = inbox[k] /\ m = Len(s)
  BY LenProperties DEF Basics, UnixTypes
<1>2. PICK i \in 1..m : s[i] = a
  BY <1>0, <1>1 DEF InInbox
<1>3. CASE inbox'[k] = s
  BY <1>0, <1>1, <1>2, <1>3 DEF InInbox
<1>4. CASE inbox'[k] = Append(s, Len(lines) + 1)
  <2>1. PICK e \in Nat : e = Len(lines) + 1
    BY LenProperties DEF Basics, UnixTypes
  <2>2. Len(Append(s, e)) = m + 1 /\ Append(s, e)[i] = s[i]
    BY <1>1, AddLast
  <2>3. i \in 1..(m + 1)
    OBVIOUS
  <2> QED BY <1>0, <1>2, <1>4, <2>1, <2>2, <2>3 DEF InInbox
<1>5. CASE ReadLine(k) /\ s # <<>> /\ inbox'[k] = Tail(s)
  <2>1. Head(s) = s[1] /\ Len(Tail(s)) = m - 1 /\ \A j \in 1..Len(Tail(s)) : Tail(s)[j] = s[j + 1]
    BY <1>1, <1>5, TakeFirst
  <2>2. CASE i = 1
    <3>1. a = Head(inbox[k])
      BY <1>1, <1>2, <2>1, <2>2
    <3>2. lines[a].kind = "garbled" \/ hand' = [hand EXCEPT ![k] = a]
      BY <1>5, <3>1, LineRead
    <3>3. a \in 1..a
      BY LenProperties DEF IsLine, Basics, UnixTypes
    <3>4. lines[a].kind # "garbled"
      BY <3>3, OwedBefore DEF Owed, Garbled
    <3>5. hand'[k] = a
      BY <3>2, <3>4 DEF Basics, UnixTypes
    <3> QED BY <1>0, <3>5
  <2>3. CASE i # 1
    <3>1. PICK j \in 1..(m - 1) : i = j + 1
      BY <2>3
    <3>2. j \in 1..Len(Tail(s)) /\ Tail(s)[j] = a
      BY <1>2, <2>1, <3>1
    <3> QED BY <1>0, <1>5, <3>2 DEF InInbox
  <2> QED BY <2>2, <2>3
<1> QED BY <1>1, <1>3, <1>4, <1>5, HandMoves

\* ... through the hand of its task ...
LEMMA WayFromHand ==
    ASSUME Basics, [UnixNext]_allVars, NEW a, IsLine(a), Owed(a)', hand[lines[a].client] = a
    PROVE  hand'[lines'[a].client] = a \/ InChan(a)' \/ Replied(a)'
<1>0. PICK k \in Clients : k = lines[a].client /\ lines'[a] = lines[a] /\ hand[k] = a
  BY OwedBefore
<1>1. a \in Nat \ {0} /\ task[k] \in {"reply", "forward"} /\ hand \in [Clients -> Nat]
  <2>1. a \in Nat \ {0} /\ hand \in [Clients -> Nat]
    BY LenProperties DEF IsLine, Basics, UnixTypes
  <2> QED BY <1>0, <2>1 DEF Basics, PlaceInv
<1>2. CASE hand'[k] = hand[k]
  BY <1>0, <1>2
<1>3. CASE TaskReplies(k)
  <2>1. /\ wire' = [wire EXCEPT ![k] = Append(wire[k], Reply(a))] /\ got' = got
    BY <1>0, <1>3, OwedBefore DEF TaskReplies, Write, clientVars, Owed
  <2>2. Reply(a) \in ReplySet /\ Reply(a).line = a
    BY ReplyType DEF Basics
  <2>3. wire'[k] = Append(wire[k], Reply(a)) /\ got'[k] = got[k]
    BY <2>1 DEF Basics, UnixTypes
  <2>4. client'[k] # "gone"
    BY <1>0, OwedBefore
  <2> QED BY <1>1, <2>2, <2>3, <2>4, ReplyArrives
<1>4. CASE Forward(k)
  <2>1. chan' = Append(chan, a) /\ chan \in Seq(Nat)
    BY <1>0, <1>4, OwedBefore DEF Forward, Owed, Basics, UnixTypes
  <2>2. PICK m \in Nat : m = Len(chan)
    BY <2>1, LenProperties
  <2>3. Len(chan') = m + 1 /\ chan'[m + 1] = a
    BY <1>1, <2>1, <2>2, AddLast
  <2>4. m + 1 \in 1..Len(chan')
    BY <2>3
  <2> QED BY <2>3, <2>4 DEF InChan
<1>5. CASE UnixStopped
  BY <1>5, OwedBefore DEF UnixStopped, Stopped, ServerUp
<1>6. ASSUME NEW c \in Clients, Accepted(c) \/ TaskStep(c)
      PROVE  hand'[k] = hand[k] \/ TaskReplies(k) \/ Forward(k)
  <2>1. CASE Accepted(c) \/ Authorize(c) \/ ReadEof(c)
    BY <2>1 DEF Accepted, AcceptClient, Authorize, ReadEof
  <2>2. CASE ReadLine(c)
    <3>1. /\ task[c] = "read"
          /\ hand' = [hand EXCEPT ![c] = 0] \/ hand' = [hand EXCEPT ![c] = Head(inbox[c])]
      BY <2>2, LineRead
    <3> QED BY <1>1, <3>1
  <2>3. CASE TaskReplies(c) \/ Forward(c)
    <3>1. hand' = [hand EXCEPT ![c] = 0]
      BY <2>3 DEF TaskReplies, Forward
    <3> QED BY <1>1, <2>3, <3>1
  <2> QED BY <1>6, <2>1, <2>2, <2>3 DEF TaskStep
<1> QED BY <1>2, <1>3, <1>4, <1>5, <1>6, WhoWrites

\* ... and the channel, through the loop, to the client.
LEMMA WayFromChan ==
    ASSUME Basics, [UnixNext]_allVars, NEW a, IsLine(a), Owed(a)', InChan(a)
    PROVE  InChan(a)' \/ cur'.id = a
<1>0. PICK m \in Nat : chan \in Seq(Nat) /\ m = Len(chan)
  BY LenProperties DEF Basics, UnixTypes
<1>1. PICK i \in 1..m : chan[i] = a /\ a # 0
  BY <1>0 DEF InChan, IsLine
<1>2. CASE chan' = chan
  BY <1>0, <1>1, <1>2 DEF InChan
<1>3. CASE UnixCtrlC
  BY <1>3, OwedBefore DEF UnixCtrlC, CtrlC, ServerUp
<1>4. ASSUME NEW e \in Nat, chan' = Append(chan, e) PROVE InChan(a)'
  <2>1. Len(chan') = m + 1 /\ chan'[i] = chan[i]
    BY <1>0, <1>4, AddLast
  <2>2. i \in 1..Len(chan')
    BY <2>1
  <2> QED BY <1>1, <2>1, <2>2 DEF InChan
<1>5. CASE SendAcceptError
  <2>0. PICK e \in Nat : e = 0
    OBVIOUS
  <2>1. chan' = chan \/ chan' = Append(chan, e)
    BY <1>5, <2>0 DEF SendAcceptError
  <2> QED BY <1>2, <1>4, <2>1
<1>6. ASSUME NEW k \in Clients, Forward(k) PROVE InChan(a)' \/ cur'.id = a
  <2>0. PICK e \in Nat : e = hand[k]
    BY DEF Basics, UnixTypes
  <2>1. chan' = chan \/ chan' = Append(chan, e)
    BY <1>6, <2>0 DEF Forward
  <2> QED BY <1>2, <1>4, <2>1
<1>7. CASE TakeMessage \/ SkipError
  <2>1. chan # <<>> /\ chan' = Tail(chan) /\ (Head(chan) = 0 \/ cur' = [key |-> lines[Head(chan)].key, id |-> Head(chan)])
    BY <1>7 DEF TakeMessage, SkipError, Receive
  <2>2. Head(chan) = chan[1] /\ Len(Tail(chan)) = m - 1 /\ \A j \in 1..Len(Tail(chan)) : Tail(chan)[j] = chan[j + 1]
    BY <1>0, <2>1, TakeFirst
  <2>3. CASE i = 1
    BY <1>1, <2>1, <2>2, <2>3
  <2>4. CASE i # 1
    <3>1. PICK j \in 1..(m - 1) : i = j + 1
      BY <2>4
    <3>2. j \in 1..Len(Tail(chan)) /\ Tail(chan)[j] = a
      BY <1>1, <2>2, <3>1
    <3> QED BY <2>1, <3>2 DEF InChan
  <2> QED BY <2>3, <2>4
<1> QED BY <1>2, <1>3, <1>5, <1>6, <1>7, WhoWrites

\* The line the loop handles stays with it until it is answered.
LEMMA WayFromLoop ==
    ASSUME Basics, [UnixNext]_allVars, NEW a, IsLine(a), Owed(a)', cur.id = a
    PROVE  cur'.id = a \/ Replied(a)'
<1>0. a \in Nat \ {0}
  BY LenProperties DEF IsLine, Basics, UnixTypes
<1>1. CASE cur' = cur
  BY <1>1
<1>2. ASSUME NEW k \in Clients, AckReplies(k) PROVE Replied(a)'
  <2>1. k = lines[a].client
    BY <1>2, LoopWrites DEF LineOf, LineAt
  <2>2. client'[k] # "gone" /\ client[k] # "gone"
    BY <2>1, OwedBefore DEF Owed
  <2>3. wire' = [wire EXCEPT ![k] = Append(wire[k], Reply(a))] /\ got' = got
    BY <1>2, <2>2 DEF AckReplies, Write, clientVars
  <2>4. wire'[k] = Append(wire[k], Reply(a)) /\ got'[k] = got[k]
    BY <2>3 DEF Basics, UnixTypes
  <2>5. Reply(a) \in ReplySet /\ Reply(a).line = a
    BY ReplyType DEF Basics
  <2> QED BY <1>0, <2>2, <2>4, <2>5, ReplyArrives
<1>3. ~TakeMessage
  <2>1. TakeMessage => cur.id = 0
    BY DEF TakeMessage, Receive, Basics, TypeOK, NoMessage
  <2> QED BY <1>0, <2>1
<1>4. CASE UnixInsert \/ UnixDispatch \/ UnixCtrlC \/ UnixStopped
  BY <1>4 DEF UnixInsert, UnixDispatch, UnixCtrlC, UnixStopped, Insert, Dispatch, CtrlC, Stopped
<1> QED BY <1>1, <1>2, <1>3, <1>4, WhoWrites

\* An answer stays with a client that stays.
LEMMA WayEnds ==
    ASSUME Basics, ClientInv, [UnixNext]_allVars, NEW a, IsLine(a), Owed(a)', Replied(a)
    PROVE  Replied(a)'
<1>1. PICK k \in Clients : \E i \in 1..Len(Replies(k)) : Replies(k)[i].line = a
  BY DEF Replied
<1>2. PICK i \in 1..Len(Replies(k)) : Replies(k)[i].line = a
  BY <1>1
<1>3. a # 0
  BY DEF IsLine
<1>4. k = lines[a].client
  BY <1>2, <1>3 DEF ClientInv, LineOf, LineAt
<1>5. client'[k] # "gone"
  BY <1>4, OwedBefore
<1>6. i \in 1..Len(Replies(k)') /\ Replies(k)'[i] = Replies(k)[i]
  BY <1>5, RepliedStays
<1> QED BY <1>2, <1>6 DEF Replied

\* No step answers a line twice, or loses one that is owed an answer.
LEMMA AnswerStep == Basics /\ ClientInv /\ LoopInv /\ AnswerInv /\ [UnixNext]_allVars => AnswerInv'
<1> SUFFICES ASSUME Basics, ClientInv, LoopInv, AnswerInv, [UnixNext]_allVars PROVE AnswerInv'
  OBVIOUS
<1>1. ASSUME NEW a \in 1..Len(lines'), Owed(a)'
      PROVE  InInbox(a)' \/ hand'[lines'[a].client] = a \/ InChan(a)' \/ cur'.id = a \/ Replied(a)'
  <2>1. CASE IsLine(a)
    <3>1. InInbox(a) \/ hand[lines[a].client] = a \/ InChan(a) \/ cur.id = a \/ Replied(a)
      BY <1>1, <2>1, OwedBefore DEF AnswerInv, IsLine
    <3> QED BY <1>1, <2>1, <3>1, WayFromInbox, WayFromHand, WayFromChan, WayFromLoop, WayEnds
  <2>2. ASSUME NEW k \in Clients, Sends(k), a = Len(lines) + 1 PROVE InInbox(a)'
    <3>1. inbox' = [inbox EXCEPT ![k] = Append(inbox[k], a)] /\ lines'[a].client = k /\ a \in Nat
      BY <2>2, NewLine DEF LineAt
    <3>2. inbox'[k] = Append(inbox[k], a)
      BY <3>1 DEF Basics, UnixTypes
    <3>3. PICK s \in Seq(Nat), m \in Nat : s = inbox[k] /\ m = Len(s)
      BY LenProperties DEF Basics, UnixTypes
    <3>4. Len(Append(s, a)) = m + 1 /\ Append(s, a)[m + 1] = a
      BY <3>1, <3>3, AddLast
    <3>5. m + 1 \in 1..Len(inbox'[k]) /\ inbox'[k][m + 1] = a
      BY <3>2, <3>3, <3>4
    <3> QED BY <3>1, <3>5 DEF InInbox
  <2>3. IsLine(a) \/ \E k \in Clients : Sends(k) /\ a = Len(lines) + 1
    BY WhoWrites, NewLine DEF IsLine
  <2> QED BY <2>1, <2>2, <2>3
<1> QED BY <1>1, OnceStep DEF AnswerInv

\* No line is owed an answer at first.
LEMMA AnswerInit == UnixInit => AnswerInv
<1> SUFFICES ASSUME UnixInit PROVE AnswerInv
  OBVIOUS
<1>1. Len(lines) = 0
  BY DEF UnixInit
<1> QED BY <1>1, NoReplyYet DEF AnswerInv

\* A set of positions of which no two differ has at most one.
LEMMA FoundOnce ==
    ASSUME NEW m \in Nat, NEW S, S \subseteq 1..m, \A i, j \in S : ~(i < j)
    PROVE  Cardinality(S) = IF S = {} THEN 0 ELSE 1
<1>1. CASE S # {}
  <2>1. PICK x : x \in S
    BY <1>1
  <2>2. ASSUME NEW y \in S PROVE y = x
    <3>1. x \in 1..m /\ y \in 1..m /\ ~(x < y) /\ ~(y < x)
      BY <2>1
    <3> QED BY <3>1
  <2>3. S = {x}
    BY <2>1, <2>2
  <2>4. Cardinality({x}) = 1
    BY FS_Singleton
  <2> QED BY <1>1, <2>3, <2>4
<1>2. CASE S = {}
  BY <1>2, FS_EmptySet
<1> QED BY <1>1, <1>2

\* A line that its task has not done with is in no later place.
LEMMA Places ==
    ASSUME Basics, ClientInv, LoopInv, AnswerInv, NEW n \in 1..Len(lines), NEW k \in Clients,
           k = lines[n].client
    PROVE  /\ \A i, j \in 1..Len(inbox[k]) : i < j => ~(inbox[k][i] = n /\ inbox[k][j] = n)
           /\ \A i, j \in 1..Len(chan) : i < j => ~(chan[i] = n /\ chan[j] = n)
           /\ InInbox(n) => hand[k] # n /\ ~InChan(n) /\ cur.id # n /\ ~Replied(n)
           /\ hand[k] = n => ~InChan(n) /\ cur.id # n /\ ~Replied(n)
           /\ InChan(n) => cur.id # n /\ ~Replied(n)
           /\ cur.id = n => ~Replied(n)
<1>0. n \in Nat /\ n # 0 /\ ~(n < n)
  BY LenProperties DEF Basics, UnixTypes
<1>1. \A i, j \in 1..Len(inbox[k]) : i < j => ~(inbox[k][i] = n /\ inbox[k][j] = n)
  BY <1>0 DEF ClientInv
<1>2. \A i, j \in 1..Len(chan) : i < j => ~(chan[i] = n /\ chan[j] = n)
  BY <1>0 DEF LoopInv
<1>3. Past(n) => ~InInbox(n) /\ hand[k] # n
  BY <1>0 DEF ClientInv, Behind, InInbox
<1>4. InInbox(n) => hand[k] # n
  BY <1>0 DEF ClientInv, InInbox
<1>5. InChan(n) => cur.id # n /\ ~Replied(n)
  <2> SUFFICES ASSUME InChan(n) PROVE cur.id # n /\ ~Replied(n)
    OBVIOUS
  <2>1. ~AheadOfChan(n)
    BY <1>0 DEF AheadOfChan, InChan
  <2>2. lines[n].kind = "valid"
    BY <1>0 DEF InChan, Basics, PlaceInv, Passed
  <2> QED BY <1>0, <2>1, <2>2 DEF LoopInv, Done
<1>6. cur.id = n => ~Replied(n)
  BY <1>0 DEF LoopInv
<1> QED BY <1>1, <1>2, <1>3, <1>4, <1>5, <1>6 DEF Past

\* A line is answered when its client has a reply to it.
LEMMA AnsweredIsReplied ==
    ASSUME Basics, ClientInv, NEW n \in 1..Len(lines)
    PROVE  /\ Answered(n) <=> Replied(n)
           /\ \A k \in Clients : Said(k, n) # {} => lines[n].client = k
<1>0. n # 0 /\ lines[n].client \in Clients
  <2>1. lines[n] \in LineSet
    BY ElementOfSeq DEF Basics, UnixTypes
  <2> QED BY <2>1 DEF LineSet
<1>1. ASSUME NEW k \in Clients, NEW i \in 1..Len(Replies(k)), Replies(k)[i].line = n PROVE lines[n].client = k
  BY <1>0, <1>1 DEF ClientInv, LineOf, LineAt
<1>2. \A k \in Clients : Said(k, n) # {} => lines[n].client = k
  BY <1>1 DEF Said
<1>3. Answered(n) => Replied(n)
  BY <1>0 DEF Answered, Said, Replied
<1>4. Replied(n) => Answered(n)
  BY <1>1 DEF Answered, Said, Replied
<1> QED BY <1>2, <1>3, <1>4

\* process_unix_socket_line and message_with_ack, whoever gets the writer
\* first: no line is answered twice or to another client, one answered with an
\* error is never cached, and until a line that is owed an answer has it, it
\* is in exactly one place.
THEOREM NoLineLostOrAnsweredTwice == UnixSpec => []OneReplyPerLine
<1>1. Basics /\ ClientInv /\ LoopInv /\ AnswerInv => OneReplyPerLine
  <2> SUFFICES ASSUME Basics, ClientInv, LoopInv, AnswerInv PROVE OneReplyPerLine
    OBVIOUS
  <2>1. ASSUME NEW k \in Clients, NEW n \in 1..Len(lines)
        PROVE  /\ Cardinality(Said(k, n)) <= 1
               /\ Said(k, n) # {} => lines[n].client = k
               /\ lines[n].kind # "valid" => \A i \in 1..Len(log) : log[i].id # n
    <3>1. PICK s, m : s = Replies(k) /\ m = Len(s) /\ m \in Nat
      BY RepliesShape
    <3>2. n # 0
      OBVIOUS
    <3>3. PICK S : S = Said(k, n)
      OBVIOUS
    <3>4. S \subseteq 1..m /\ \A i, j \in S : ~(i < j)
      BY <3>1, <3>2, <3>3 DEF Said, AnswerInv
    <3>5. Cardinality(S) \in {0, 1}
      BY <3>1, <3>4, FoundOnce
    <3>7. lines[n].kind # "valid" => \A i \in 1..Len(log) : log[i].id # n
      BY DEF Basics, PlaceInv, Passed
    <3>8. Said(k, n) # {} => lines[n].client = k
      BY AnsweredIsReplied
    <3>9. Cardinality(Said(k, n)) <= 1
      BY <3>3, <3>5
    <3> QED BY <3>7, <3>8, <3>9
  <2>2. ASSUME ServerUp, NEW n \in 1..Len(lines), client[lines[n].client] # "gone",
               task[lines[n].client] # "refused", ~Garbled(n)
        PROVE  Pending(n) = IF Answered(n) THEN 0 ELSE 1
    <3>0. lines[n] \in LineSet
      BY ElementOfSeq DEF Basics, UnixTypes
    <3>1. PICK k \in Clients : k = lines[n].client
      BY <3>0 DEF LineSet
    <3>2. InInbox(n) \/ hand[k] = n \/ InChan(n) \/ cur.id = n \/ Replied(n)
      BY <2>2, <3>1 DEF AnswerInv, Owed
    <3>3. PICK s, m : s = inbox[k] /\ m = Len(s) /\ m \in Nat
      BY LenProperties DEF Basics, UnixTypes
    <3>4. PICK c, q : c = chan /\ q = Len(c) /\ q \in Nat
      BY LenProperties DEF Basics, UnixTypes
    <3> DEFINE A == Cardinality({i \in 1..m : s[i] = n})
               B == IF hand[k] = n THEN 1 ELSE 0
               C == Cardinality({i \in 1..q : c[i] = n})
               D == IF cur.id = n THEN 1 ELSE 0
    <3>5. A = IF InInbox(n) THEN 1 ELSE 0
      <4>1. \A i, j \in 1..m : i < j => ~(s[i] = n /\ s[j] = n)
        BY <3>1, <3>3, Places
      <4>2. PICK X : X = {i \in 1..m : s[i] = n}
        OBVIOUS
      <4>3. X \subseteq 1..m /\ \A i, j \in X : ~(i < j)
        BY <4>1, <4>2
      <4>4. Cardinality(X) = IF X = {} THEN 0 ELSE 1
        BY <3>3, <4>3, FoundOnce
      <4>5. X # {} <=> InInbox(n)
        BY <3>1, <3>3, <4>2 DEF InInbox
      <4> QED BY <4>2, <4>4, <4>5
    <3>6. C = IF InChan(n) THEN 1 ELSE 0
      <4>1. \A i, j \in 1..q : i < j => ~(c[i] = n /\ c[j] = n)
        BY <3>1, <3>4, Places
      <4>2. PICK X : X = {i \in 1..q : c[i] = n}
        OBVIOUS
      <4>3. X \subseteq 1..q /\ \A i, j \in X : ~(i < j)
        BY <4>1, <4>2
      <4>4. Cardinality(X) = IF X = {} THEN 0 ELSE 1
        BY <3>4, <4>3, FoundOnce
      <4>5. X # {} <=> InChan(n)
        BY <3>1, <3>4, <4>2 DEF InChan
      <4> QED BY <4>2, <4>4, <4>5
    <3>7. Pending(n) = A + B + C + D
      BY <3>1, <3>3, <3>4 DEF Pending
    <3> HIDE DEF A, C
    <3>8. A + B + C + D = IF Replied(n) THEN 0 ELSE 1
      <4>1. CASE InInbox(n)
        BY <3>1, <3>5, <3>6, <4>1, Places
      <4>2. CASE hand[k] = n /\ ~InInbox(n)
        BY <3>1, <3>5, <3>6, <4>2, Places
      <4>3. CASE InChan(n) /\ hand[k] # n /\ ~InInbox(n)
        BY <3>1, <3>5, <3>6, <4>3, Places
      <4>4. CASE cur.id = n /\ ~InChan(n) /\ hand[k] # n /\ ~InInbox(n)
        BY <3>1, <3>5, <3>6, <4>4, Places
      <4>5. CASE Replied(n) /\ cur.id # n /\ ~InChan(n) /\ hand[k] # n /\ ~InInbox(n)
        BY <3>5, <3>6, <4>5
      <4> QED BY <3>2, <4>1, <4>2, <4>3, <4>4, <4>5
    <3> QED BY <3>7, <3>8, AnsweredIsReplied
  <2> QED BY <2>1, <2>2 DEF OneReplyPerLine
<1> QED BY <1>1, AnswerInit, AnswerStep, LinesInOrder, UnixBasics, PTL DEF UnixSpec
=============================================================================
