------------------------------ MODULE TlsProxy ------------------------------
(***************************************************************************)
(* The mTLS proxy (tls.rs) between the masters on the network and the      *)
(* IEC-104 server on the loopback interface: the accept loop of            *)
(* spawn_tls_listener_if_enabled, and one task per connection that         *)
(* completes the handshake, connects to the server and copies bytes both   *)
(* ways until both ways have ended or either has failed.                   *)
(*                                                                         *)
(* "up" is the way from the master to the server.  A byte goes from the    *)
(* sender's socket (inp) through the copy buffer (buf) to the receiver's   *)
(* socket (out); only how many there are matters, their order is TCP's and *)
(* tokio's.                                                                *)
(*                                                                         *)
(* An error of accept() is logged and changes nothing: it has no action.   *)
(***************************************************************************)
EXTENDS Integers

CONSTANTS
    Masters,  \* the connections to the TLS port
    Silent,   \* peers that connect and never complete a handshake
    Certs,    \* the certificates peers may present
    Trusted,  \* those that chain to TLS_CA_CERT_PATH and are valid
    Room,     \* bytes a socket holds unread
    BufSize,  \* bytes the copy buffer holds
    MaxBytes  \* bound: bytes a sender sends in one session

ASSUME ProxyAssumption ==
    /\ Silent \subseteq Masters
    /\ Trusted \subseteq Certs
    /\ Room \in Nat \ {0} /\ BufSize \in Nat \ {0} /\ MaxBytes \in Nat

VARIABLES
    cert,    \* the certificate of each peer
    task,    \* where the task of each connection is
    master,  \* the peer's end of the TLS connection
    srv,     \* lib60870's end of the loopback connection
    sent,    \* observed: bytes sent so far, by either end
    inp,     \* bytes sent and not yet read by the proxy
    fin,     \* the sender has ended this way, after what inp holds
    buf,     \* bytes read and not yet written
    way,     \* copy_bidirectional's state of each way
    out,     \* bytes written and not yet received
    end,     \* what the receiver finds after the last byte of out
    rcvd     \* observed: bytes received

peerVars == <<cert, master>>
flowVars == <<sent, inp, fin, buf, way, out, end, rcvd>>
vars     == <<peerVars, task, srv, flowVars>>

Ways == {"up", "down"}

TaskStates == {"none", "pending", "handshake", "connect", "copy", "closed", "failed"}

Both(x) == [m \in Masters |-> [w \in Ways |-> x]]

Init ==
    /\ cert \in [Masters -> Certs]
    /\ task = [m \in Masters |-> "none"]
    /\ master = [m \in Masters |-> "absent"]
    /\ srv = [m \in Masters |-> "none"]
    /\ sent = Both(0) /\ inp = Both(0) /\ fin = Both(FALSE)
    /\ buf = Both(0) /\ way = Both("running")
    /\ out = Both(0) /\ end = Both("open") /\ rcvd = Both(0)

-----------------------------------------------------------------------------
(* The accept loop and the first two steps of spawn_tls_proxy.             *)

\* Mutant: the handshake is awaited in the accept loop.
AcceptInline(m) ==
    /\ task[m] = "pending"
    /\ \A n \in Masters : task[n] # "handshake"
    /\ task' = [task EXCEPT ![m] = "handshake"]
    /\ UNCHANGED <<peerVars, srv, flowVars>>

\* Every accepted connection gets a task of its own.
Accept(m) ==
    /\ task[m] = "pending"
    /\ task' = [task EXCEPT ![m] = "handshake"]
    /\ UNCHANGED <<peerVars, srv, flowVars>>

\* Mutant: a peer need not present a certificate.
VerifiesIfPresent(c) == c \in Trusted \cup {"none"}

\* WebPkiClientVerifier over the roots of build_acceptor.
client_verifier(c) == c \in Trusted

\* Dropping a stream closes it: a master can tell this from the end of a TLS
\* session, the server sees the end of a TCP connection.
Drop(m) ==
    end' = [end EXCEPT ![m] = [up   |-> IF @.up = "open" THEN "eof" ELSE @.up,
                               down |-> IF @.down = "open" THEN "cut" ELSE @.down]]

HandshakeOk(m) ==
    /\ task[m] = "handshake"
    /\ m \notin Silent /\ master[m] = "open" /\ client_verifier(cert[m])
    /\ task' = [task EXCEPT ![m] = "connect"]
    /\ UNCHANGED <<peerVars, srv, flowVars>>

\* accept_tls fails: no valid certificate, or the peer is gone.
HandshakeFails(m) ==
    /\ task[m] = "handshake"
    /\ \/ m \notin Silent /\ ~client_verifier(cert[m])
       \/ master[m] # "open"
    /\ task' = [task EXCEPT ![m] = "failed"]
    /\ Drop(m)
    /\ UNCHANGED <<peerVars, srv, sent, inp, fin, buf, way, out, rcvd>>

ConnectLocal(m) ==
    /\ task[m] = "connect"
    /\ task' = [task EXCEPT ![m] = "copy"]
    /\ srv' = [srv EXCEPT ![m] = "open"]
    /\ UNCHANGED <<peerVars, flowVars>>

ConnectLocalFails(m) ==
    /\ task[m] = "connect"
    /\ task' = [task EXCEPT ![m] = "failed"]
    /\ Drop(m)
    /\ UNCHANGED <<peerVars, srv, sent, inp, fin, buf, way, out, rcvd>>

-----------------------------------------------------------------------------
(* copy_bidirectional on the two streams, through MaybeTlsStream.          *)

Copying(m, w) == task[m] = "copy" /\ way[m][w] = "running"

\* The stream a way is read from, or written to, still works.
Readable(m, w) == IF w = "up" THEN master[m] # "gone" ELSE srv[m] # "reset"
Writable(m, w) == IF w = "up" THEN srv[m] # "reset" ELSE master[m] # "gone"

\* What a broken connection still holds may be read before it fails.
CopyRead(m, w) ==
    /\ Copying(m, w)
    /\ inp[m][w] > 0 /\ buf[m][w] < BufSize
    /\ buf' = [buf EXCEPT ![m][w] = @ + 1]
    /\ inp' = [inp EXCEPT ![m][w] = @ - 1]
    /\ UNCHANGED <<peerVars, task, srv, sent, fin, way, out, end, rcvd>>

\* The end of what is sent this way: what is buffered still has to go.
ReadEof(m, w) ==
    /\ Copying(m, w) /\ Readable(m, w)
    /\ inp[m][w] = 0 /\ fin[m][w]
    /\ way' = [way EXCEPT ![m][w] = "draining"]
    /\ UNCHANGED <<peerVars, task, srv, sent, inp, fin, buf, out, end, rcvd>>

\* A write waits for room in the receiver's socket.
CopyWrite(m, w) ==
    /\ task[m] = "copy" /\ Writable(m, w)
    /\ buf[m][w] > 0 /\ out[m][w] < Room
    /\ out' = [out EXCEPT ![m][w] = @ + 1]
    /\ buf' = [buf EXCEPT ![m][w] = @ - 1]
    /\ UNCHANGED <<peerVars, task, srv, sent, inp, fin, way, end, rcvd>>

\* Mutant: shutting down the receiver's stream is a no-op.
ShutdownIgnored(m, w) ==
    /\ task[m] = "copy" /\ way[m][w] = "draining" /\ buf[m][w] = 0
    /\ Writable(m, w)
    /\ way' = [way EXCEPT ![m][w] = "done"]
    /\ UNCHANGED <<peerVars, task, srv, sent, inp, fin, buf, out, end, rcvd>>

\* The end is forwarded; the other way goes on.
poll_shutdown(m, w) ==
    /\ task[m] = "copy" /\ way[m][w] = "draining" /\ buf[m][w] = 0
    /\ Writable(m, w)
    /\ way' = [way EXCEPT ![m][w] = "done"]
    /\ end' = [end EXCEPT ![m][w] = "eof"]
    /\ UNCHANGED <<peerVars, task, srv, sent, inp, fin, buf, out, rcvd>>

\* Mutant: the session ends with the first way that ends.
FinishWithFirst(m) ==
    /\ task[m] = "copy"
    /\ \E w \in Ways : way[m][w] = "done"
    /\ task' = [task EXCEPT ![m] = "closed"]
    /\ Drop(m)
    /\ UNCHANGED <<peerVars, srv, sent, inp, fin, buf, way, out, rcvd>>

\* Both ways have ended.
Finish(m) ==
    /\ task[m] = "copy"
    /\ \A w \in Ways : way[m][w] = "done"
    /\ task' = [task EXCEPT ![m] = "closed"]
    /\ UNCHANGED <<peerVars, srv, flowVars>>

\* Mutant: after an error the proxy still shuts down the master's stream.
CopyFailsInOrder(m) ==
    /\ task[m] = "copy"
    /\ \E w \in Ways :
        \/ way[m][w] = "running" /\ ~Readable(m, w)
        \/ (buf[m][w] > 0 \/ way[m][w] = "draining") /\ ~Writable(m, w)
    /\ task' = [task EXCEPT ![m] = "failed"]
    /\ end' = [end EXCEPT ![m] = [w \in Ways |-> IF @[w] = "open" THEN "eof" ELSE @[w]]]
    /\ UNCHANGED <<peerVars, srv, sent, inp, fin, buf, way, out, rcvd>>

\* A read or a write of either way fails: both streams are dropped, and what
\* is buffered for either receiver with them.
CopyFails(m) ==
    /\ task[m] = "copy"
    /\ \E w \in Ways :
        \/ way[m][w] = "running" /\ ~Readable(m, w)
        \/ (buf[m][w] > 0 \/ way[m][w] = "draining") /\ ~Writable(m, w)
    /\ task' = [task EXCEPT ![m] = "failed"]
    /\ Drop(m)
    /\ UNCHANGED <<peerVars, srv, sent, inp, fin, buf, way, out, rcvd>>

-----------------------------------------------------------------------------
(* The masters and lib60870 (external).                                    *)

MasterConnects(m) ==
    /\ master[m] = "absent"
    /\ master' = [master EXCEPT ![m] = "open"]
    /\ task' = [task EXCEPT ![m] = "pending"]
    /\ UNCHANGED <<cert, srv, flowVars>>

Alive(m, w) ==
    IF w = "up" THEN master[m] = "open" /\ task[m] \in {"connect", "copy"} ELSE srv[m] = "open"

Send(m, w) ==
    /\ Alive(m, w) /\ ~fin[m][w]
    /\ sent[m][w] < MaxBytes
    /\ sent' = [sent EXCEPT ![m][w] = @ + 1]
    /\ inp' = [inp EXCEPT ![m][w] = @ + 1]
    /\ UNCHANGED <<peerVars, task, srv, fin, buf, way, out, end, rcvd>>

Receive(m, w) ==
    /\ out[m][w] > 0
    /\ IF w = "up" THEN srv[m] = "open" ELSE master[m] = "open"
    /\ rcvd' = [rcvd EXCEPT ![m][w] = @ + 1]
    /\ out' = [out EXCEPT ![m][w] = @ - 1]
    /\ UNCHANGED <<peerVars, task, srv, sent, inp, fin, buf, way, end>>

\* A master ends its session in order, at any time or after the server has;
\* or its connection breaks.
MasterCloses(m) ==
    /\ master[m] = "open" /\ task[m] = "copy" /\ ~fin[m].up
    /\ fin' = [fin EXCEPT ![m].up = TRUE]
    /\ UNCHANGED <<peerVars, task, srv, sent, inp, buf, way, out, end, rcvd>>

MasterBreaks(m) ==
    /\ master[m] = "open"
    /\ master' = [master EXCEPT ![m] = "gone"]
    /\ UNCHANGED <<cert, task, srv, flowVars>>

\* The server closes for a reason of its own (t1, stop) or at the end of the
\* stream; a close with bytes unread resets the connection.
ServerCloses(m) ==
    /\ srv[m] = "open"
    /\ srv' = [srv EXCEPT ![m] = IF out[m].up = 0 THEN "closed" ELSE "reset"]
    /\ fin' = [fin EXCEPT ![m].down = TRUE]
    /\ UNCHANGED <<peerVars, task, sent, inp, buf, way, out, end, rcvd>>

\* What arrives at a closed socket is answered with a reset.
ServerResets(m) ==
    /\ srv[m] = "closed" /\ out[m].up > 0
    /\ srv' = [srv EXCEPT ![m] = "reset"]
    /\ UNCHANGED <<peerVars, task, flowVars>>

TaskStep(m) ==
    \/ HandshakeOk(m) \/ HandshakeFails(m) \/ ConnectLocal(m) \/ ConnectLocalFails(m)
    \/ Finish(m) \/ CopyFails(m)

WayStep(m, w) == CopyRead(m, w) \/ ReadEof(m, w) \/ CopyWrite(m, w) \/ poll_shutdown(m, w)

Next ==
    \E m \in Masters :
        \/ MasterConnects(m) \/ Accept(m) \/ TaskStep(m)
        \/ MasterCloses(m) \/ MasterBreaks(m) \/ ServerCloses(m) \/ ServerResets(m)
        \/ \E w \in Ways : WayStep(m, w) \/ Send(m, w) \/ Receive(m, w)

Spec == Init /\ [][Next]_vars

\* Each end closes in the end once it has read that the other one has.
AtEnd(m, w) == out[m][w] = 0 /\ end[m][w] # "open"

(***************************************************************************)
(* Fairness: the runtime polls every task that can go on, both ways of a   *)
(* session; both ends go on reading, and close when they have read the end *)
(* of the other's stream.  Nothing is assumed of a peer that is Silent.    *)
(***************************************************************************)
FairSpec ==
    /\ Spec
    /\ \A m \in Masters :
        /\ WF_vars(Accept(m)) /\ WF_vars(TaskStep(m)) /\ WF_vars(ServerResets(m))
        /\ WF_vars(AtEnd(m, "down") /\ MasterCloses(m))
        /\ WF_vars(AtEnd(m, "up") /\ ServerCloses(m))
        /\ \A w \in Ways : WF_vars(WayStep(m, w)) /\ WF_vars(Receive(m, w))

-----------------------------------------------------------------------------
(* Properties.                                                             *)

\* No connection to the IEC-104 server exists for a peer without a certificate
\* the CA vouches for, whatever it sends and however its task ends
\* (build_acceptor, accept_tls).
OnlyVerifiedReachServer ==
    \A m \in Masters : srv[m] # "none" => cert[m] \in Trusted

\* A receiver that finds the orderly end of a way whose session has not failed
\* got all that was sent; and a master never takes a truncated stream for a
\* complete one, because a failed session is dropped without ending its TLS
\* stream (spawn_tls_proxy, poll_shutdown).
EofMeansAll ==
    \A m \in Masters, w \in Ways :
        /\ end[m][w] = "eof" /\ out[m][w] = 0
        /\ w = "down" \/ task[m] # "failed"
        => rcvd[m][w] = sent[m][w]

\* A way that has ended does not end the other: what the server sends to a
\* master that has already closed its way still arrives, unless the
\* connection breaks (spawn_tls_proxy).
HalfCloseKeepsOtherWay ==
    \A m \in Masters : \A k \in 1..MaxBytes :
        sent[m].down = k ~> \/ rcvd[m].down >= k
                            \/ task[m] = "failed" \/ master[m] = "gone"

\* A session ends for both once either end has closed or broken: the proxy
\* keeps no task and no socket for it.
SessionEnds ==
    \A m \in Masters :
        task[m] = "copy" /\ (\E w \in Ways : fin[m][w] \/ master[m] = "gone")
        ~> task[m] \in {"closed", "failed"}

\* A peer that stalls its handshake keeps no other master out
\* (spawn_tls_listener_if_enabled).
NoMasterKeptWaiting ==
    \A m \in Masters \ Silent :
        task[m] = "pending" ~> task[m] \notin {"pending", "handshake"}
=============================================================================
