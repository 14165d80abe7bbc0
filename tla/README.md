# A TLA+ model of iec104bridge

iec104bridge receives process values as JSON, from a NATS JetStream consumer or
from a local Unix socket, keeps the latest value of every point in memory, and
serves them to IEC 60870-5-104 masters: each new value as a live update, and
the whole cache as the answer to a General Interrogation (GI). This directory
models the program in `src/src`, checks the model with TLC and proves part of
it with TLAPS. `PROJECT.json` maps every definition to the lines it models.

## 1. Inventory

| Component | State | Operations | Interacts with |
|---|---|---|---|
| Message loop (`main.rs`: `run_message_loop`, `handle_incoming_message`) | message in hand, `messages_dispatched` | take a message, write the cache, send the live update, acknowledge, count | source (stream, acknowledgement), cache (mutex), server (mutex) |
| Data store (`main.rs`: `DataStore`) | `(CA, IOA)` to message and reception time | insert, iterate | written by the loop, read by GI callbacks, under one mutex |
| GI handler (`main.rs`: `install_interrogation_handler`, `replay_cached_values`) | progress of a callback, `gi_responses` | ACT_CON, replay, ACT_TERM; negative confirmation of group interrogations | runs on lib60870's thread of the connection |
| lib60870 server (external) | connections, one high-priority queue per connection, one event queue | accept, STARTDT, send, close, stop | callbacks into the bridge |
| Conversion (`bridge.rs`, `asdu.rs`, `message.rs`, `validation.rs`) | none | validation, type inference, output policy, value conversion, ASDU type | called by loop and GI handler, through two different sinks |
| NATS source (`source.rs`: `NatsSource`) | pull subscription on a durable consumer | yield valid messages, acknowledge and skip others | JetStream server (external) |
| Unix source (`source.rs`: `UnixSocketSource`) | per client: task, writer mutex; channel of 64 | accept, authorize, read lines, reply, forward | clients; the loop replies `ok` as acknowledgement |
| Supervisor (`main.rs`: `supervise_message_source`) | backoff, start of the current run | build, rebuild, wait, stop | source, server, Ctrl-C |
| Socket path (`source.rs`: `UnixSocketSource::bind`) | directory, entry and modes, which outlive the process | create the directory, remove what is stale, bind, set modes | called by each build of a Unix source |
| Configuration (`config.rs`) | none | from environment variables to `Config`, or to the first error | read once by `main`; its values are the constants of the other modules |
| Start-up (`main.rs`: `main`, `build_iec_server`, `spawn_tls_listener_if_enabled`) | what is up so far | configuration, server, TLS listener, metrics, supervision, in this order | an error of any of the first three ends the process |
| TLS proxy (`tls.rs`) | per connection: a task, two copy buffers | accept, handshake, connect to the loopback server, copy both ways, shut down | masters outside, lib60870 inside |
| Metrics endpoint (`main.rs`: `serve_metrics_connection`) | what a scrape has read so far | bind, accept, read size and counters, answer | reads the store under its mutex, the counters without |
| Logging, start-up banner, demo | see section 7 | | |

What is hard here: the cache is shared between an async task and library
threads; a live update and an interrogated value of the same point travel in
different queues to the same master; queues overflow; masters fail over in the
middle of a reply; messages are delivered again, late, after a crash or a
rebuilt source; the writer of a Unix client is shared between its task and the
message loop; Ctrl-C is noticed only at some awaits; the process dies between
two file-system calls and meets what it left behind; a proxied connection ends
one way before the other, with bytes still buffered. `PROJECT.json` lists these
hazards at their lines with the properties that cover them.

What makes each component correct: a GI reply is the cache at one instant; a
master ends up with what is cached; an acknowledgement follows caching and
dispatch and is not lost for ever; a Unix line is answered exactly once; timed
and untimed, live and interrogated ASDUs of a message agree; the server
survives every source failure and stops when told to; a configuration that is
accepted can be run, and one that asks for TLS never exposes plaintext; the
socket is ready when it is served and nothing of others was touched; a proxied
byte stream arrives complete, or is seen to be cut off, and comes only from
verified peers.

## 2. Modules

- `Bridge` is the core: loop, store, GI callbacks, connections, queues. A
  message is a point and an identifier for its contents. Steps are cut where
  control can pass to another thread: at the store's mutex, at the server's
  mutex, at the await of the acknowledgement, at each replayed point.
  `After` is the order of work of `handle_incoming_message`; `Insert`,
  `Dispatch`, `AckOk`, `AckFails` are its parts; `StationInterrogation`,
  `GiLock`, `GiReplay`, `GiUnlock`, `GiTerm` are those of the callback. The
  store's mutex is a variable because a callback keeps it across steps. The
  server's mutex is held across steps only by `stop()` (`loop = "stopping"`,
  when nobody else needs it), so it has no variable.
- `PointStore` is what the core promises: a memory in which a message is written
  and an interrogation answered in one step each. `Bridge` implements it:
  `ImplementsPointStore` is its specification under the mapping `Abstract`, in
  which a callback answers at the moment it releases the mutex.
- `NatsBridge` extends `Bridge` with `NatsSource` and JetStream. Identifiers
  are stream sequence numbers. Masters are part of it. An error item of the
  stream is logged and changes nothing, so it has no action.
- `UnixBridge` extends `Bridge` with `UnixSocketSource`. The channel, the
  socket buffers and the FIFO writer mutex are explicit; no masters connect
  (their effect on the loop is `HandlerReturns` of `Bridge`).
- `Iec104Message` (message.rs, validation.rs), `Dispatch` (bridge.rs, asdu.rs)
  and `PointOutput` follow the contents of one point, abstracting threads:
  messages arrive, the clock advances, masters interrogate. The two sinks of
  `bridge.rs` are told apart: `LiveSink` calls a function of lib60870's server
  for each kind of value (`ServerSend`, external), `ConnectionSink` tags the value
  and leaves the object to `send_untimed_to_connection` of `asdu.rs`. Timed
  ASDUs of both come from `create_information_object`, whose conversions are
  others than those of the untimed ones.
- `Metrics` extends `NatsBridge` with the metrics endpoint: the three reads of a
  scrape are three steps between which the bridge goes on.
- `Supervisor` is `supervise_message_source`, what `Bridge` abstracts to
  `SourceEnds`, `SourceRebuilt` and `CtrlC`.
- `Config` has the functions of `config.rs` as operators under their names. A
  variable is absent, a number or another text; the first error wins.
- `SocketPath` is `UnixSocketSource::bind`, a step for each file-system call, over
  a file system in any state that others may have left.
- `Process` composes `Config`, `Supervisor` and `SocketPath` to the life of a
  process: `from_env`, `build_iec_server`, `spawn_tls_listener_if_enabled`, then
  supervision, in which a build of a Unix source is the steps of `bind`. `Restart`
  may happen in any state; environment and file system stay. The result of
  lib60870's `start()` is ignored, so `main` may go on without a server. Only a
  NATS source ends: the accept loop of a Unix source goes on after every error,
  and its channel would close only if its task panicked.
- `TlsProxy` is the accept loop and `spawn_tls_proxy`. Each way of a session is a
  pipe of three parts: the sender's socket, the copy buffer, the receiver's
  socket, each with the number of bytes it holds. `CopyRead`, `CopyWrite` and
  `ReadEof` are `copy_bidirectional`'s (external); `poll_shutdown` is that of
  `MaybeTlsStream`. The order of the bytes is TCP's and is not modelled.
- `BridgeProofs`, `NatsBridgeProofs`, `MetricsProofs`, `UnixBridgeProofs`,
  `PointOutputProofs`, `ProcessProofs` and `TlsProxyProofs` hold the proofs about
  the module of their name, `QueueTheorems` a lemma on queues that two of them
  share; the modules `MC...` give the constants values.

Operators marked "Mutant" are deliberately wrong variants of the definition
that follows them. `PROJECT.json` pairs each with the property it breaks.

### Abstractions

- lib60870 is modelled from its use: every connection request is accepted; the
  latest STARTDT is active and deactivates the previous one; ACT_CON, GI values
  and ACT_TERM share the connection's queue, which refuses when full or
  inactive; live updates share one event queue, which drops its oldest entry
  and is sent only when the connection's own queue is empty; `stop()` waits
  for running callbacks. Sending may happen at any time.
- The image of a master is what it was told since its STARTDT. `dropped` notes
  the points whose newest live update was displaced unsent, `refused` that an
  ASDU for a connection was refused; neither is read by the code.
- Numbers are counted in quarters, so fractions, the limits of `i16` and the
  precision of `f32` are exact; times are integers and `NsPerMs` is small. The
  time tag wraps at `U64`, as the cast of `bridge.rs:360` does for a time before
  1970 or after the middle of 2554. NaN cannot come from JSON. The encoding of a normalized value, the year limit of
  CP56Time2a and every other byte of the encoding are lib60870's.
- A line of the Unix socket is known by its first failing check: `unparsable`
  (empty, or not a message), `invalid` (too long, or fails validation),
  `garbled` (not UTF-8).
- `copy_bidirectional` is modelled from its contract: each way is read, written
  and, at its end, shut down on its own; the first error of either ends both.
  Dropping a rustls stream does not send `close_notify`, so a master can tell a
  session that failed ("cut") from one that ended ("eof"); on the loopback side
  there is no such difference. A master that vanishes without a trace is one the
  server closes in the end (its test frames time out).
- A PEM file is good or unusable, a key may also belong to another certificate;
  a certificate is trusted or not. Ports that cannot be bound and calls that
  fail are choices; failing calls of `bind` are bounded by `MaxIoErrors`. Nobody
  else changes the socket's path while a build is under way.
- Poisoned mutexes are not modelled: no code panics while holding one.

## 3. Runs

All state counts are of complete searches.

| Run | Instance | States | Shows |
|---|---|---|---|
| `bridge` | 2 points, 2 connections, 3 messages, queues of 2, 1 GI, 2 connects | 389 k | `TypeOK`, `GiReplyIsSnapshot`, `MasterImageConverges`, `GiBracketed`, `ImplementsPointStore` |
| `bridge_fair` | 2 points, 2 connections, 1 message, queues of 3, 2 GIs, GI-only mode | 33 k | `GiTerminates`, `ShutdownCompletes`, `HandlerReturns` |
| `nats` | 2 points, 1 connection, 2 messages, 1 early redelivery, 1 lost acknowledgement, 1 crash | 1.8 M | `AckedMeansHandled`, `MasterImageConverges` |
| `metrics` | 2 points, no masters, 2 messages, 1 lost acknowledgement, 1 crash, 1 scraper | 67 k | `EveryMessageAcked`, `DispatchedAddsUp`, `ScrapeIsPlausible` |
| `unix` | 2 clients (one allowed, one refused), 2 lines, valid, invalid or garbled, channel of 1, room for 1 reply, 1 accept error | 323 k | `UnixTypeOK`, `OkMeansHandled`, `OneReplyPerLine`, `RefusedNeverCached`, `ClientOrderKept`, `EveryLineAnswered` |
| `point_output` | 262 messages on both sides of every limit, maximum age 2, clock to 5, time tags that wrap at 8 | 7.5 k | `TypeOK`, `InferredScaledIsExact`, `GiRepeatsLive`, `TimeTagIsOrthogonal`, `SilentPointIsNotTopical` |
| `process` | 164 environments, 12 states of the PEM files, every state of the socket's path, 1 failing call, 1 restart; 200 ms and 5 s as in the code, a stable run of 3 ticks | 213 k | `ProcessTypeOK`, `AcceptedConfigWorks`, `NeverPlaintextOnTheNetwork`, `ServingSocketIsReady`, `LeftoversAreNoObstacle`, `OthersLeftAlone`, `WaitsGrowUntilStable`, `OnlyCtrlCStopsTheServer`, `SourceComesBack`, `InsistentCtrlCStops` |
| `tls` | 1 master and 1 stalling peer, 3 certificates, 2 bytes each way, buffers of 2, sockets of 1 | 115 k | `OnlyVerifiedReachServer`, `EofMeansAll`, `HalfCloseKeepsOtherWay`, `SessionEnds`, `NoMasterKeptWaiting` |

Why the bounds are enough. Two points are what a mixed snapshot needs, and two
connections what a failover and two concurrent callbacks need. Three messages
fill an event queue of two and displace an entry; an undisturbed reply of two
points has four ASDUs, so a queue of two both refuses and, when the master
reads in between, does not. Two messages are what a redelivery out of order
needs. Two lines of one client fill the channel of one, or leave one in hand and
one unread; that this order is kept for any number of lines and clients is proved.
An `unparsable` line takes the path of an `invalid` one. Six attempts pass the point where the backoff reaches its maximum.
Two points and two messages are the least for which a scrape that read in the
other order would show too many points. The environments are three good ones
and each of them with one variable absent, at a limit, beyond it or garbled: no
check of `config.rs` looks at more than `TLS_ENABLED` or `INPUT_TRANSPORT` and
one other variable. One restart is enough for leftovers, because a restart
forgets everything but the file system. Two bytes against a socket of one fill
it and leave one in the copy buffer; sessions share nothing but the accept loop,
so one talking master and one stalling peer suffice. A proxied session may stay
idle for ever, which is why `tls` does not look for deadlocks.

### Fairness

- `Bridge`: the runtime polls the loop's task, the operating system runs
  lib60870's threads, an acknowledgement ends well or badly, and a connected
  master reads. Nothing is assumed of the source, of Ctrl-C or of what masters
  ask. The mutex needs no strong fairness: the loop waits for one callback of
  each connection at a time, and interrogations are bounded.
- `NatsBridge`: JetStream delivers and redelivers (AckWait). Strong fairness of
  the loop's next step says that the source does not end for ever before
  yielding anything; losses and crashes are bounded.
- `UnixBridge`: tasks run, and clients outside `Deaf` read their replies.
- `Supervisor`: tasks and timers run, and a build retried for ever succeeds
  some time; the latter is used by `SourceComesBack` alone. `Process` adds that
  `main` and `bind` go on; nothing restarts a process that has ended.
- `Metrics`: that of `NatsBridge`; no scrape helps or holds up the loop.
- `TlsProxy`: tasks run, both ways of a session are polled, both ends read and
  close once they have read the end of the other. Nothing is assumed of a peer
  in `Silent`.

### Where the program differs from what is written about it

| Run | Observation |
|---|---|
| `nats_recent` | An older message that is redelivered after a newer one of its point replaces it in the cache (`main.rs:564`), although the README says that a GI "replays the most recent value". It takes a message prefetched when the source ends. |
| `unix_deaf` | The loop awaits the write of `ok` (`source.rs:708`). A client that stops reading its replies thereby stops the loop, and other clients are never answered, although "the bridge replies with one line per request". |
| `socket_mode` | A socket directory that the bridge made is served with the mode of the umask if an earlier attempt died, or failed, between creating it and setting its mode: the directory then exists, so `created_parent_dir` is false (`source.rs:819`) and no later attempt sets it. The README says "The bridge sets the socket directory to `0750`", and only existing directories are to be left alone. `ServingSocketIsReady` shows that this is the only way to another mode. |
| `supervisor_ctrlc` | A Ctrl-C sent while a message is handled or a source is built is swallowed; "until Ctrl-C" takes a second one. `InsistentCtrlCStops` shows that trying again works. |

Seen while modelling, without a run:

- an untimed normalized value is sent as M_ME_NC_1 (13), a short float
  (`bridge.rs:331`, `:402`): M_ME_NA_1 (9) is never sent, which is why
  `WireTypes` in `TypeOK` leaves it out. The tables of the README (lines 179
  and 236, also 628) and the comment at `message.rs:103` say M_ME_NA_1; the
  description of `IEC104_TIMESTAMPS` (README, line 278) says M_ME_NC_1;
- scaled values are truncated towards zero (`bridge.rs:473`), although the
  README says "rounded and clamped to int16";
- a message whose acknowledgement fails is dispatched but not counted
  (`main.rs:581`); `DispatchedAddsUp` bounds by how much;
- a Unix line that is not UTF-8 ends the connection without a reply
  (`source.rs:476`), which is why `EveryLineAnswered` excepts it; replies to
  pipelined Unix lines can come out of order, because the task answers faulty
  lines at once;
- if the port of the server cannot be bound, `main` goes on without it
  (`main.rs:279` ignores the result of `start()`);
- a source timestamp before 1970 or after the middle of 2554 becomes another time in the
  time tag (`bridge.rs:360`); `GiRepeatsLive` shows that update and reply still
  agree on it;
- when the TLS session fails, the server sees an ordinary end of the stream
  after what arrived so far; `EofMeansAll` holds for the master's side, and
  for the server's only while the session has not failed;
- a `TLS_ENABLED` that is neither of the accepted words (`on`, say) is silently
  false (`config.rs:410`), while `IEC104_TIMESTAMPS` rejects such a value;
- `IEC104_CA` may be 0 or 65535 (`config.rs:329`), which `validate_ca` would
  refuse in a message.

## 4. Proofs

Every safety property that a run checks, invariant or action property, is also a
theorem. The theorems hold for any sets of points, connections, clients,
messages, environments or certificates, any sizes of queues, channels and
buffers, and any bounds on messages, failures, crashes and restarts. They rest on
the named assumptions of the modules, which say that sizes are natural numbers
above zero, bounds are natural numbers, a marker such as `Free`, `NoPoint` or
`None` is not one of the things it is told from, and inputs are of their type
(`BoundsAssumption`, `NamesAssumption`, `NatsAssumption`, `UnixAssumption`,
`NoneAssumption`, `TimeAssumption`, `PolicyAssumption`, `InputsAssumption`,
`BackoffAssumption`, `IoErrorsAssumption`, `RestartsAssumption`,
`ProxyAssumption`). TLC evaluates each of them in the runs.

Each proof has the same shape: an invariant `...Inv` that is inductive, a lemma
for what a step leaves alone, a lemma per action or group of actions that
disturbs it, and a last step that combines them. Where the property is inductive
as it stands there is no other invariant.

### The core (`BridgeProofs`)

- `TypeCorrect`: `Spec => []TypeOK`. `TypeOK` is inductive as it stands; it
  includes the bounds of both queues and that the loop has a message in hand
  exactly while it handles one. `TypeLoop` and `TypeConn` go through the
  actions; `SendToType` and `EnqueueLowType` are about the queues.
- `InterrogationIsAtomic`: `Spec => []GiReplyIsSnapshot`. The property is not
  inductive: while a replay is under way it says nothing. `SnapshotInv` adds
  that the callback in `replay` is the owner of the mutex, that the store is
  `StoreOf` of all insertions so far, that a request is never newer than the
  log, and that what was handed over agrees with the store for every point not
  in `todo`. `Insert` needs the mutex, so it happens in no replay; `GiUnlock`
  then has the store of this instant as the witness. `StoreOfAppend` and
  `StoreOfPrefix` say that an insertion updates `StoreOf` at one point and that
  earlier instants are unaffected by later insertions; because `StoreOf` picks
  the last write by position and not by identifier, identifiers need not be
  distinct.
- `StoreIsAtomic`: `Spec => ImplementsPointStore`, the refinement, from the same
  invariant. `Insert` is a `Write`, `StationInterrogation` an `Ask`, `GiUnlock` the
  `Answer` (`todo` is empty, so `SnapshotInv` makes the reply the store) and
  `GiTerm` a `Finish`, each by a lemma `Refine...`; all other steps stutter.
- `ImageIsCurrent`: `Spec => []MasterImageConverges`. The property speaks only of
  drained queues; `ImageInv` says what the queues owe the master before. A point
  is `Coming` while a live update of it is queued, displaced or in the loop's
  hands. The newest live update of a point is the cached value, unless a newer
  one is in hand (`LiveInv`); so is the newest interrogated value in a
  connection's queue, and the value the master has seen, unless the point is
  `Coming` (`AnsweredInv`, `SeenInv`): a live update leaves only after the
  connection's own queue is empty, so it always corrects what a replay put there
  before it. From the moment a replay has passed a point, the master knows of it
  or a queue will tell it (`KnownInv`), which is what `synced` needs. That the
  cache is written before the live update is sent makes `InHand` cover the gap;
  that at most one connection is active (`OneActive`) makes a value that leaves
  the event queue reach the one master it is for.
- `InterrogationsAreFramed`: `Spec => GiBracketed`. `FrameInv` extends the claim
  from the ASDU at the head to every ASDU in the queue, each judged by what the
  master will have seen before it (`OpenBefore`), and says that a callback that
  runs on an active connection which has refused nothing has opened a frame. A
  failover in a replay empties the queue, but leaves the callback without an
  active connection, so what it still sends is refused.

### NATS and the metrics (`NatsBridgeProofs`, `MetricsProofs`)

- `AckIsLast`: `NatsSpec => []AckedMeansHandled`, from `AckInv`, which adds that the
  loop at its acknowledgement has handled its message, and `NatsTypes`.
- `InterrogationIsAtomicWithNats` and `ImageIsCurrentWithNats` carry the core's two
  invariants over to a source that repeats and reorders messages and to crashes
  at any step: the lemmas about the core's actions are used again, and a crash
  establishes both invariants from nothing.
- `CounterIsHonest`: `MetricsSpec => []DispatchedAddsUp`, inductive with the types.
- `AnswersArePlausible`: `MetricsSpec => []ScrapeIsPlausible`. `ScrapeInv` bounds the
  cached points by the insertions (`CachedGrows`), and what a scrape has read by
  the insertions until it reads the counter; a crash in between would break
  this, but takes the scrapes with it.

### The Unix socket (`UnixBridgeProofs`)

- `UnixBasics` is the foundation: types, `PlaceInv` (what a task has in hand, and
  that only valid lines of authorized clients get past it) and `WriterInv` (who
  may be in the queue of a writer mutex). `UnixTypeCorrect` and `RefusedStaysOut`
  follow from it.
- `OkIsEarned`: `UnixSpec => []OkMeansHandled`, with `OkInv` as for NATS.
- `LinesInOrder` is the invariant `ClientInv /\ LoopInv` on the way of a line:
  inbox, hand, channel, loop, cache, reply. The lines of a client are in its
  order at each place, and whatever is further on the way is earlier. It needs
  both halves: that nothing in the inbox precedes what has passed, and that
  nothing in the channel precedes what is cached. `ClientsKeepOrder` is a part of it.
- `NoLineLostOrAnsweredTwice`: `UnixSpec => []OneReplyPerLine`. `AnswerInv` says that
  no client has two replies to a line and that a line which is owed an answer is
  at some place; `LinesInOrder` makes it at most one place.

`WhoWrites` says which actions write which variable; each lemma `...Origin` then
says where a line at a place can have come from.

### The contents of a point (`PointOutputProofs`)

`SameConversions`, `SinksAgree` and `TimedSinksAgree` say that the two sinks and
the two conversions make the same type and value of a message; they are what
`ReplyRepeatsLive` rests on. `OutInv` says that what was sent is `Shape` of the
cached message: live at its arrival, in a reply at some moment since. `SentShape`
shows that `Shape`, one record, is what validation, preparation, context and the
two dispatchers make of a message, whichever sink they have; the theorems are then about `Shape`: `OutputWellFormed`,
`ReplyRepeatsLive`, `TimestampsOnlyAddTime`, `InferenceIsExact` (with `TruncBounds`
on the conversion to sixteen bits and `SmallIsExact` on that to a short float) and the action property `SilenceShows`.

### The process (`ProcessProofs`)

`ProcessInv` has four parts, one per component: `SupInv` (the backoff is the sleep
before the next attempt), `BootInv` (past its reading the configuration works, and
the server is bound as the environment asks), `SocketInv` (what `bind` has reached
at each of its steps, over leftovers; a directory has neither its given mode nor
0750 only while `bind` is `Unfinished` or after it was once `interrupted` there) and `UseInv` (`bind` is over while its source
is served). `AcceptedWorks` is about `from_lookup` alone and holds for every
environment; it goes through the reads of `config.rs` in their order.
`DoublingIsNext` is the arithmetic of the backoff. From these: `ProcessTypes`,
`AcceptedConfigIsSafe`, `PlaintextStaysLocal`, `SocketReadyWhenServing`,
`NoLeftoverBlocks`, `BackoffDoubles`, and the action properties
`ForeignFilesUntouched` and `ServerOutlivesSources`.

### The TLS proxy (`TlsProxyProofs`)

- `ServerOnlyForVerified`: `VerifiedInv` adds the tasks that are past the handshake.
- `OrderlyEndIsComplete`: `EndInv` says that a way past its end has empty buffers
  behind it; `FlowsInv` says that each byte sent is received or in one of them.
  Together all that was sent is received.

### Only model-checked

The liveness properties `GiTerminates`, `ShutdownCompletes`, `HandlerReturns`,
`EveryMessageAcked`, `EveryLineAnswered`, `SourceComesBack`, `InsistentCtrlCStops`,
`HalfCloseKeepsOtherWay`, `SessionEnds` and `NoMasterKeptWaiting`: fairness and
ENABLED are out of the prover's reach. The inductive invariants were
also checked by TLC on the runs' instances.

## 5. Plan

1. Safety that the liveness runs rest on and that can be proved: that no two
   parties ever wait on each other (the store's mutex, the writer mutexes, the
   channel) as state invariants.
2. The composition with NATS and crashes as a refinement of `PointStore` extended
   by a crash.

## 6. Using it

`tlc -config MCBridge.cfg MCBridge` and so on for the other configurations;
`Supervisor_ctrlc.cfg` is for `Supervisor` itself. `tlapm BridgeProofs.tla` checks
the proofs about the core, and so on for the other modules `...Proofs`;
`UnixBridgeProofs` takes a few minutes.

## 7. Not modelled

- Logging and the start-up banner: output that nothing reads.
- The text of the metrics and of the HTTP answer; the byte encoding of ASDUs,
  TLS and TCP, which are those of the libraries.
- Connecting to NATS (URLs, credentials) beyond success or failure; reading the
  credentials of a Unix peer from the kernel.
- A second bridge on the same socket path: it would take the path over
  (`source.rs:796`).
- The demo, the examples and the deployment files.
