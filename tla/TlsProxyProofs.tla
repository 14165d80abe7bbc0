--------------------------- MODULE TlsProxyProofs ---------------------------
(* Theorems about TlsProxy, for any peers and certificates, any sizes of   *)
(* the sockets and of the copy buffer, and any number of bytes.            *)
EXTENDS TlsProxy, TLAPS

-----------------------------------------------------------------------------
(* Types.                                                                  *)

Types ==
    /\ cert \in [Masters -> Certs]
    /\ task \in [Masters -> TaskStates]
    /\ master \in [Masters -> {"absent", "open", "gone"}]
    /\ srv \in [Masters -> {"none", "open", "closed", "reset"}]
    /\ sent \in [Masters -> [Ways -> Nat]]
    /\ inp \in [Masters -> [Ways -> Nat]]
    /\ fin \in [Masters -> [Ways -> BOOLEAN]]
    /\ buf \in [Masters -> [Ways -> Nat]]
    /\ way \in [Masters -> [Ways -> {"running", "draining", "done"}]]
    /\ out \in [Masters -> [Ways -> Nat]]
    /\ end \in [Masters -> [Ways -> {"open", "eof", "cut"}]]
    /\ rcvd \in [Masters -> [Ways -> Nat]]

\* No session exists when the proxy starts.
LEMMA TypesInit == Init => Types
BY DEF Init, Types, Both, TaskStates

\* Dropping both streams keeps the types (Drop).
LEMMA DropType ==
    ASSUME Types, NEW m \in Masters, Drop(m)
    PROVE  end' \in [Masters -> [Ways -> {"open", "eof", "cut"}]]
<1> DEFINE ends == [up   |-> IF end[m].up = "open" THEN "eof" ELSE end[m].up,
                    down |-> IF end[m].down = "open" THEN "cut" ELSE end[m].down]
<1>1. ends \in [Ways -> {"open", "eof", "cut"}]
  BY DEF Types, Ways
<1>2. end' = [end EXCEPT ![m] = ends]
  BY DEF Drop
<1> HIDE DEF ends
<1> QED BY <1>1, <1>2 DEF Types

\* A step of the accept loop or of a connection's task keeps the types.
LEMMA TypesTask == ASSUME Types, NEW m \in Masters, Accept(m) \/ TaskStep(m) PROVE Types'
<1> USE DEF peerVars, flowVars, TaskStates
<1>1. CASE Accept(m)
  BY <1>1 DEF Accept, Types
<1>2. CASE HandshakeOk(m)
  BY <1>2 DEF HandshakeOk, Types
<1>3. CASE HandshakeFails(m)
  BY <1>3, DropType DEF HandshakeFails, Types
<1>4. CASE ConnectLocal(m)
  BY <1>4 DEF ConnectLocal, Types
<1>5. CASE ConnectLocalFails(m)
  BY <1>5, DropType DEF ConnectLocalFails, Types
<1>6. CASE Finish(m)
  BY <1>6 DEF Finish, Types
<1>7. CASE CopyFails(m)
  BY <1>7, DropType DEF CopyFails, Types
<1> QED BY <1>1, <1>2, <1>3, <1>4, <1>5, <1>6, <1>7 DEF TaskStep

\* A step of a way keeps the types.
LEMMA TypesWay ==
    ASSUME Types, NEW m \in Masters, NEW w \in Ways,
           WayStep(m, w) \/ Send(m, w) \/ Receive(m, w)
    PROVE  Types'
<1> USE DEF peerVars, flowVars
<1>0. /\ inp[m][w] \in Nat /\ buf[m][w] \in Nat /\ out[m][w] \in Nat
      /\ rcvd[m][w] \in Nat /\ sent[m][w] \in Nat
  BY DEF Types
<1>1. CASE CopyRead(m, w)
  <2>1. buf[m][w] + 1 \in Nat /\ inp[m][w] - 1 \in Nat
    BY <1>0, <1>1 DEF CopyRead
  <2> QED BY <1>1, <2>1 DEF CopyRead, Types
<1>2. CASE ReadEof(m, w)
  BY <1>2 DEF ReadEof, Types
<1>3. CASE CopyWrite(m, w)
  <2>1. out[m][w] + 1 \in Nat /\ buf[m][w] - 1 \in Nat
    BY <1>0, <1>3 DEF CopyWrite
  <2> QED BY <1>3, <2>1 DEF CopyWrite, Types
<1>4. CASE poll_shutdown(m, w)
  BY <1>4 DEF poll_shutdown, Types
<1>5. CASE Send(m, w)
  <2>1. sent[m][w] + 1 \in Nat /\ inp[m][w] + 1 \in Nat
    BY <1>0
  <2> QED BY <1>5, <2>1 DEF Send, Types
<1>6. CASE Receive(m, w)
  <2>1. rcvd[m][w] + 1 \in Nat /\ out[m][w] - 1 \in Nat
    BY <1>0, <1>6 DEF Receive
  <2> QED BY <1>6, <2>1 DEF Receive, Types
<1> QED BY <1>1, <1>2, <1>3, <1>4, <1>5, <1>6 DEF WayStep

\* What masters and the server do at their ends keeps the types.
LEMMA TypesEnds ==
    ASSUME Types, NEW m \in Masters,
           \/ MasterConnects(m) \/ MasterCloses(m) \/ MasterBreaks(m)
           \/ ServerCloses(m) \/ ServerResets(m)
    PROVE  Types'
<1> USE DEF peerVars, flowVars, Ways
<1>1. CASE MasterConnects(m)
  BY <1>1 DEF MasterConnects, Types, TaskStates
<1>2. CASE MasterCloses(m)
  BY <1>2 DEF MasterCloses, Types
<1>3. CASE MasterBreaks(m)
  BY <1>3 DEF MasterBreaks, Types
<1>4. CASE ServerCloses(m)
  BY <1>4 DEF ServerCloses, Types
<1>5. CASE ServerResets(m)
  BY <1>5 DEF ServerResets, Types
<1> QED BY <1>1, <1>2, <1>3, <1>4, <1>5

\* Every step keeps the types.
LEMMA TypesStep == Types /\ [Next]_vars => Types'
<1> SUFFICES ASSUME Types, [Next]_vars PROVE Types'
  OBVIOUS
<1>1. CASE Next
  BY <1>1, TypesTask, TypesWay, TypesEnds DEF Next
<1>2. CASE UNCHANGED vars
  BY <1>2 DEF vars, peerVars, flowVars, Types
<1> QED BY <1>1, <1>2
-----------------------------------------------------------------------------
(* Only verified peers reach the server.                                   *)

\* Inductive: a task gets past the handshake with a trusted certificate only.
VerifiedInv ==
    \A m \in Masters :
        srv[m] # "none" \/ task[m] \in {"connect", "copy"} => cert[m] \in Trusted

\* Only HandshakeOk, which asks the verifier, brings a task to "connect".
LEMMA VerifiedStep == Types /\ VerifiedInv /\ [Next]_vars => VerifiedInv'
<1> SUFFICES ASSUME Types, VerifiedInv, [Next]_vars, NEW n \in Masters,
                    srv'[n] # "none" \/ task'[n] \in {"connect", "copy"}
             PROVE  cert'[n] \in Trusted
  BY DEF VerifiedInv
<1> USE DEF peerVars, flowVars
<1>0. cert' = cert
  BY DEF Next, vars, TaskStep, WayStep, MasterConnects, Accept, HandshakeOk, HandshakeFails,
         ConnectLocal, ConnectLocalFails, Finish, CopyFails, MasterCloses, MasterBreaks,
         ServerCloses, ServerResets, CopyRead, ReadEof, CopyWrite, poll_shutdown, Send, Receive
<1>1. CASE \E m \in Masters : HandshakeOk(m)
  <2>1. PICK m \in Masters : HandshakeOk(m)
    BY <1>1
  <2>2. cert[m] \in Trusted /\ srv' = srv /\ \A d \in Masters \ {m} : task'[d] = task[d]
    BY <2>1 DEF HandshakeOk, client_verifier, Types
  <2> QED BY <1>0, <2>2 DEF VerifiedInv
<1>2. CASE \E m \in Masters :
            MasterConnects(m) \/ Accept(m) \/ HandshakeFails(m) \/ ConnectLocalFails(m)
            \/ Finish(m) \/ CopyFails(m)
  <2>1. srv' = srv /\ (task'[n] \in {"connect", "copy"} => task[n] \in {"connect", "copy"})
    BY <1>2 DEF MasterConnects, Accept, HandshakeFails, ConnectLocalFails, Finish, CopyFails, Types
  <2> QED BY <1>0, <2>1 DEF VerifiedInv
<1>3. CASE \E m \in Masters : ConnectLocal(m) \/ ServerCloses(m) \/ ServerResets(m)
  <2>1. /\ srv[n] # "none" \/ srv'[n] = "none" \/ task[n] = "connect"
        /\ task'[n] \in {"connect", "copy"} => task[n] \in {"connect", "copy"}
    BY <1>3 DEF ConnectLocal, ServerCloses, ServerResets, Types
  <2> QED BY <1>0, <2>1 DEF VerifiedInv
<1>4. CASE \/ UNCHANGED vars
           \/ \E m \in Masters :
                \/ MasterCloses(m) \/ MasterBreaks(m)
                \/ \E w \in Ways : WayStep(m, w) \/ Send(m, w) \/ Receive(m, w)
  <2>1. srv' = srv /\ task' = task
    BY <1>4 DEF vars, MasterCloses, MasterBreaks, WayStep, CopyRead, ReadEof, CopyWrite,
                poll_shutdown, Send, Receive
  <2> QED BY <1>0, <2>1 DEF VerifiedInv
<1> QED BY <1>1, <1>2, <1>3, <1>4 DEF Next, TaskStep

\* No connection to the IEC-104 server is ever opened for a peer whose
\* certificate the CA does not vouch for, with any number of peers and
\* certificates (build_acceptor, spawn_tls_proxy).
THEOREM ServerOnlyForVerified == Spec => []OnlyVerifiedReachServer
<1>1. Init => VerifiedInv
  BY DEF Init, VerifiedInv
<1>2. VerifiedInv => OnlyVerifiedReachServer
  BY DEF VerifiedInv, OnlyVerifiedReachServer
<1> QED BY <1>1, <1>2, TypesInit, TypesStep, VerifiedStep, PTL DEF Spec

-----------------------------------------------------------------------------
(* Where the bytes are.                                                    *)

\* Inductive: what was sent this way was received or is under way.
FlowInv(m, w) == sent[m][w] = rcvd[m][w] + out[m][w] + buf[m][w] + inp[m][w]

FlowsInv == \A m \in Masters, w \in Ways : FlowInv(m, w)

\* A way whose buffers did not change.
LEMMA FlowFrame ==
    ASSUME NEW m \in Masters, NEW w \in Ways, FlowInv(m, w),
           rcvd'[m][w] = rcvd[m][w], out'[m][w] = out[m][w], buf'[m][w] = buf[m][w],
           inp'[m][w] = inp[m][w], sent'[m][w] = sent[m][w]
    PROVE  FlowInv(m, w)'
BY DEF FlowInv

\* CopyRead, CopyWrite and Receive move a byte on; Send adds the next one.
LEMMA FlowWay ==
    ASSUME Types, NEW m \in Masters, NEW w \in Ways, FlowInv(m, w),
           WayStep(m, w) \/ Send(m, w) \/ Receive(m, w)
    PROVE  FlowInv(m, w)'
<1> USE DEF peerVars, flowVars
<1>1. PICK r \in Nat, o \in Nat, b \in Nat, i \in Nat, n \in Nat :
        r = rcvd[m][w] /\ o = out[m][w] /\ b = buf[m][w] /\ i = inp[m][w] /\ n = sent[m][w]
  BY DEF Types
<1>2. n = r + o + b + i
  BY <1>1 DEF FlowInv
<1>3. CASE CopyRead(m, w)
  <2>1. /\ rcvd'[m][w] = r /\ out'[m][w] = o /\ sent'[m][w] = n
        /\ buf'[m][w] = b + 1 /\ inp'[m][w] = i - 1
    BY <1>1, <1>3 DEF CopyRead, Types
  <2> QED BY <1>2, <2>1 DEF FlowInv
<1>4. CASE CopyWrite(m, w)
  <2>1. /\ rcvd'[m][w] = r /\ inp'[m][w] = i /\ sent'[m][w] = n
        /\ out'[m][w] = o + 1 /\ buf'[m][w] = b - 1
    BY <1>1, <1>4 DEF CopyWrite, Types
  <2> QED BY <1>2, <2>1 DEF FlowInv
<1>5. CASE Receive(m, w)
  <2>1. /\ buf'[m][w] = b /\ inp'[m][w] = i /\ sent'[m][w] = n
        /\ rcvd'[m][w] = r + 1 /\ out'[m][w] = o - 1
    BY <1>1, <1>5 DEF Receive, Types
  <2> QED BY <1>2, <2>1 DEF FlowInv
<1>6. CASE Send(m, w)
  <2>1. /\ rcvd'[m][w] = r /\ out'[m][w] = o /\ buf'[m][w] = b
        /\ sent'[m][w] = n + 1 /\ inp'[m][w] = i + 1
    BY <1>1, <1>6 DEF Send, Types
  <2> QED BY <1>2, <2>1 DEF FlowInv
<1>7. CASE ReadEof(m, w) \/ poll_shutdown(m, w)
  BY <1>7, FlowFrame DEF ReadEof, poll_shutdown
<1> QED BY <1>3, <1>4, <1>5, <1>6, <1>7 DEF WayStep

\* The bytes of the other ways, and of the other sessions, stay where they are.
LEMMA FlowOther ==
    ASSUME Types, NEW m \in Masters, NEW w \in Ways,
           WayStep(m, w) \/ Send(m, w) \/ Receive(m, w),
           NEW n \in Masters, NEW v \in Ways, n # m \/ v # w, FlowInv(n, v)
    PROVE  FlowInv(n, v)'
<1> USE DEF peerVars, flowVars
<1>1. /\ rcvd'[n][v] = rcvd[n][v] /\ out'[n][v] = out[n][v] /\ buf'[n][v] = buf[n][v]
      /\ inp'[n][v] = inp[n][v] /\ sent'[n][v] = sent[n][v]
  <2>1. CASE CopyRead(m, w)
    BY <2>1 DEF CopyRead, Types
  <2>2. CASE ReadEof(m, w) \/ poll_shutdown(m, w)
    BY <2>2 DEF ReadEof, poll_shutdown
  <2>3. CASE CopyWrite(m, w)
    BY <2>3 DEF CopyWrite, Types
  <2>4. CASE Send(m, w)
    BY <2>4 DEF Send, Types
  <2>5. CASE Receive(m, w)
    BY <2>5 DEF Receive, Types
  <2> QED BY <2>1, <2>2, <2>3, <2>4, <2>5 DEF WayStep
<1> QED BY <1>1, FlowFrame

\* Nothing else touches a byte: a dropped session leaves them where they are.
LEMMA FlowStep == Types /\ FlowsInv /\ [Next]_vars => FlowsInv'
<1> SUFFICES ASSUME Types, FlowsInv, [Next]_vars, NEW n \in Masters, NEW v \in Ways
             PROVE  FlowInv(n, v)'
  BY DEF FlowsInv
<1>0. FlowInv(n, v)
  BY DEF FlowsInv
<1>1. ASSUME NEW m \in Masters, NEW w \in Ways, WayStep(m, w) \/ Send(m, w) \/ Receive(m, w)
      PROVE  FlowInv(n, v)'
  BY <1>0, <1>1, FlowWay, FlowOther
<1>2. CASE \/ UNCHANGED vars
           \/ \E m \in Masters :
                \/ MasterConnects(m) \/ Accept(m) \/ TaskStep(m) \/ MasterCloses(m)
                \/ MasterBreaks(m) \/ ServerCloses(m) \/ ServerResets(m)
  <2>1. UNCHANGED <<rcvd, out, buf, inp, sent>>
    BY <1>2 DEF vars, flowVars, TaskStep, MasterConnects, Accept, HandshakeOk, HandshakeFails,
                ConnectLocal, ConnectLocalFails, Finish, CopyFails, MasterCloses, MasterBreaks,
                ServerCloses, ServerResets
  <2> QED BY <1>0, <2>1, FlowFrame
<1> QED BY <1>1, <1>2 DEF Next

\* Initially nothing was sent and nothing is under way.
LEMMA FlowInit == Init => FlowsInv
BY DEF Init, Both, FlowsInv, FlowInv

-----------------------------------------------------------------------------
(* The end of a way.                                                       *)

\* Inductive: a way that is past its end has nothing left in front of the
\* buffers it has emptied, and its end was forwarded, unless the session
\* failed.
EndOk(m, w) ==
    /\ way[m][w] # "running" => fin[m][w] /\ inp[m][w] = 0
    /\ way[m][w] = "done" => buf[m][w] = 0
    /\ end[m][w] = "eof" => way[m][w] = "done" \/ (w = "up" /\ task[m] = "failed")

EndInv == \A m \in Masters : /\ master[m] = "absent" => task[m] = "none"
                             /\ \A w \in Ways : EndOk(m, w)

\* A step that leaves a way and its end alone, and does not take back a failure.
LEMMA EndFrame ==
    ASSUME NEW m \in Masters, NEW w \in Ways, EndOk(m, w),
           way'[m][w] = way[m][w], inp'[m][w] = inp[m][w], buf'[m][w] = buf[m][w],
           fin[m][w] => fin'[m][w],
           end'[m][w] # end[m][w] => end'[m][w] # "eof" \/ (w = "up" /\ task'[m] = "failed"),
           task[m] = "failed" => task'[m] = "failed"
    PROVE  EndOk(m, w)'
BY DEF EndOk

\* Dropping the streams ends only the way to the server, and that session
\* has failed (HandshakeFails, ConnectLocalFails, CopyFails).
LEMMA EndDrop ==
    ASSUME Types, EndInv, NEW m \in Masters,
           HandshakeFails(m) \/ ConnectLocalFails(m) \/ CopyFails(m),
           NEW n \in Masters, NEW v \in Ways
    PROVE  EndOk(n, v)'
<1> USE DEF peerVars, flowVars
<1>1. /\ way' = way /\ inp' = inp /\ buf' = buf /\ fin' = fin /\ Drop(m)
      /\ task' = [task EXCEPT ![m] = "failed"]
  BY DEF HandshakeFails, ConnectLocalFails, CopyFails
<1>2. task'[m] = "failed" /\ (n # m => task'[n] = task[n])
  BY <1>1 DEF Types
<1>3. end'[n][v] # end[n][v] => n = m /\ (v = "up" \/ end'[n][v] # "eof")
  BY <1>1 DEF Types, Drop, Ways
<1> QED BY <1>1, <1>2, <1>3, EndFrame DEF EndInv

\* A step of one way keeps what is said of that way.
LEMMA EndWay ==
    ASSUME Types, NEW m \in Masters, NEW w \in Ways, EndOk(m, w),
           WayStep(m, w) \/ Send(m, w) \/ Receive(m, w)
    PROVE  EndOk(m, w)'
<1> USE DEF peerVars, flowVars
<1>1. CASE CopyRead(m, w)
  <2>1. /\ way' = way /\ way[m][w] = "running" /\ end' = end /\ task' = task
    BY <1>1 DEF CopyRead, Copying
  <2> QED BY <2>1 DEF EndOk
<1>2. CASE ReadEof(m, w)
  <2>1. /\ way'[m][w] = "draining" /\ way[m][w] = "running" /\ inp[m][w] = 0 /\ fin[m][w]
        /\ end' = end /\ task' = task /\ inp' = inp /\ fin' = fin /\ buf' = buf
    BY <1>2 DEF ReadEof, Copying, Types
  <2> QED BY <2>1 DEF EndOk
<1>3. CASE CopyWrite(m, w)
  <2>1. /\ way' = way /\ end' = end /\ task' = task /\ inp' = inp /\ fin' = fin /\ buf[m][w] > 0
    BY <1>3 DEF CopyWrite
  <2> QED BY <2>1 DEF EndOk
<1>4. CASE poll_shutdown(m, w)
  <2>1. /\ way'[m][w] = "done" /\ way[m][w] = "draining" /\ buf[m][w] = 0
        /\ inp' = inp /\ fin' = fin /\ buf' = buf
    BY <1>4 DEF poll_shutdown, Types
  <2> QED BY <2>1 DEF EndOk
<1>5. CASE Send(m, w)
  <2>1. way' = way /\ end' = end /\ task' = task /\ fin' = fin /\ buf' = buf /\ ~fin[m][w]
    BY <1>5 DEF Send
  <2> QED BY <2>1 DEF EndOk
<1>6. CASE Receive(m, w)
  BY <1>6 DEF Receive, EndOk
<1> QED BY <1>1, <1>2, <1>3, <1>4, <1>5, <1>6 DEF WayStep

\* It does not touch another way.
LEMMA EndOther ==
    ASSUME Types, NEW m \in Masters, NEW w \in Ways,
           WayStep(m, w) \/ Send(m, w) \/ Receive(m, w),
           NEW n \in Masters, NEW v \in Ways, n # m \/ v # w, EndOk(n, v)
    PROVE  EndOk(n, v)'
<1> USE DEF peerVars, flowVars
<1>1. /\ way'[n][v] = way[n][v] /\ inp'[n][v] = inp[n][v] /\ buf'[n][v] = buf[n][v]
      /\ fin' = fin /\ end'[n][v] = end[n][v] /\ task' = task
  <2>1. CASE CopyRead(m, w)
    BY <2>1 DEF CopyRead, Types
  <2>2. CASE ReadEof(m, w)
    BY <2>2 DEF ReadEof, Types
  <2>3. CASE poll_shutdown(m, w)
    BY <2>3 DEF poll_shutdown, Types
  <2>4. CASE CopyWrite(m, w)
    BY <2>4 DEF CopyWrite, Types
  <2>5. CASE Send(m, w)
    BY <2>5 DEF Send, Types
  <2>6. CASE Receive(m, w)
    BY <2>6 DEF Receive, Types
  <2> QED BY <2>1, <2>2, <2>3, <2>4, <2>5, <2>6 DEF WayStep
<1> QED BY <1>1, EndFrame

\* The remaining steps leave ways and ends alone: they move the task of a
\* session that has not failed, or close an end.
LEMMA EndTask ==
    ASSUME Types, EndInv, NEW m \in Masters,
           \/ MasterConnects(m) \/ Accept(m) \/ HandshakeOk(m) \/ ConnectLocal(m) \/ Finish(m)
           \/ MasterCloses(m) \/ MasterBreaks(m) \/ ServerCloses(m) \/ ServerResets(m),
           NEW n \in Masters, NEW v \in Ways
    PROVE  EndOk(n, v)'
<1> USE DEF peerVars, flowVars
<1>1. way' = way /\ inp' = inp /\ buf' = buf /\ end' = end
  BY DEF MasterConnects, Accept, HandshakeOk, ConnectLocal, Finish, MasterCloses, MasterBreaks,
         ServerCloses, ServerResets
<1>2. fin[n][v] => fin'[n][v]
  <2>1. CASE MasterCloses(m)
    BY <2>1, Zenon DEF MasterCloses, Types
  <2>2. CASE ServerCloses(m)
    BY <2>2, Zenon DEF ServerCloses, Types
  <2>3. CASE ~MasterCloses(m) /\ ~ServerCloses(m)
    <3>1. fin' = fin
      BY <2>3 DEF MasterConnects, Accept, HandshakeOk, ConnectLocal, Finish, MasterBreaks,
                  ServerResets
    <3> QED BY <3>1
  <2> QED BY <2>1, <2>2, <2>3
<1>3. task[n] = "failed" => task'[n] = "failed"
  BY DEF MasterConnects, Accept, HandshakeOk, ConnectLocal, Finish, MasterCloses, MasterBreaks,
         ServerCloses, ServerResets, Types, EndInv
<1> QED BY <1>1, <1>2, <1>3, EndFrame DEF EndInv

\* A task exists only once the master has connected.
LEMMA EndAbsent ==
    ASSUME Types, EndInv, [Next]_vars, NEW n \in Masters, master'[n] = "absent"
    PROVE  task'[n] = "none"
<1> USE DEF peerVars, flowVars
<1>1. CASE \E m \in Masters : MasterConnects(m) \/ MasterBreaks(m)
  BY <1>1 DEF MasterConnects, MasterBreaks, Types, EndInv
<1>2. CASE \E m \in Masters : Accept(m) \/ TaskStep(m)
  <2>1. PICK m \in Masters : Accept(m) \/ TaskStep(m)
    BY <1>2
  <2>2. master' = master /\ task[m] # "none" /\ (n # m => task'[n] = task[n])
    BY <2>1 DEF Accept, TaskStep, HandshakeOk, HandshakeFails, ConnectLocal, ConnectLocalFails,
                Finish, CopyFails, Types
  <2> QED BY <2>2 DEF EndInv
<1>3. CASE \/ UNCHANGED vars
           \/ \E m \in Masters :
                \/ MasterCloses(m) \/ ServerCloses(m) \/ ServerResets(m)
                \/ \E w \in Ways : WayStep(m, w) \/ Send(m, w) \/ Receive(m, w)
  <2>1. master' = master /\ task' = task
    BY <1>3 DEF vars, MasterCloses, ServerCloses, ServerResets, WayStep, CopyRead, ReadEof,
                CopyWrite, poll_shutdown, Send, Receive
  <2> QED BY <2>1 DEF EndInv
<1> QED BY <1>1, <1>2, <1>3 DEF Next

\* Every step keeps the invariant.
LEMMA EndStep == Types /\ EndInv /\ [Next]_vars => EndInv'
<1> SUFFICES ASSUME Types, EndInv, [Next]_vars, NEW n \in Masters, NEW v \in Ways
             PROVE  EndOk(n, v)'
  BY EndAbsent DEF EndInv
<1>0. EndOk(n, v)
  BY DEF EndInv
<1>1. ASSUME NEW m \in Masters, NEW w \in Ways, WayStep(m, w) \/ Send(m, w) \/ Receive(m, w)
      PROVE  EndOk(n, v)'
  BY <1>0, <1>1, EndWay, EndOther
<1>2. ASSUME NEW m \in Masters,
             \/ MasterConnects(m) \/ Accept(m) \/ TaskStep(m) \/ MasterCloses(m)
             \/ MasterBreaks(m) \/ ServerCloses(m) \/ ServerResets(m)
      PROVE  EndOk(n, v)'
  BY <1>2, EndDrop, EndTask DEF TaskStep
<1>3. CASE UNCHANGED vars
  BY <1>0, <1>3, EndFrame DEF vars, flowVars
<1> QED BY <1>1, <1>2, <1>3 DEF Next

\* A way that is past its end, with the receiver's socket empty, has delivered
\* all that was sent.
LEMMA EndIsAll == Types /\ FlowsInv /\ EndInv => EofMeansAll
<1> SUFFICES ASSUME Types, FlowsInv, EndInv, NEW m \in Masters, NEW w \in Ways,
                    end[m][w] = "eof", out[m][w] = 0, w = "down" \/ task[m] # "failed"
             PROVE  rcvd[m][w] = sent[m][w]
  BY DEF EofMeansAll
<1>1. inp[m][w] = 0 /\ buf[m][w] = 0
  BY DEF EndInv, EndOk
<1>2. sent[m][w] = rcvd[m][w] + 0 + 0 + 0 /\ rcvd[m][w] \in Nat
  BY <1>1 DEF FlowsInv, FlowInv, Types
<1> QED BY <1>2

\* A receiver that finds the orderly end of a way has all the bytes, and a
\* master is never shown the orderly end of a session that failed, for any
\* sizes and any number of bytes (copy_bidirectional, poll_shutdown).
THEOREM OrderlyEndIsComplete == Spec => []EofMeansAll
<1>1. ASSUME Init PROVE EndInv
  <2>1. ASSUME NEW m \in Masters, NEW w \in Ways
        PROVE  way[m][w] = "running" /\ end[m][w] = "open" /\ task[m] = "none"
    BY <1>1 DEF Init, Both
  <2> QED BY <2>1 DEF EndInv, EndOk, Ways
<1> QED BY <1>1, EndStep, EndIsAll, FlowInit, FlowStep, TypesInit, TypesStep, PTL DEF Spec
=============================================================================
