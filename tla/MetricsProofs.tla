--------------------------- MODULE MetricsProofs ---------------------------
(* Theorems about Metrics, for any scrapers and any number of messages,    *)
(* lost acknowledgements and crashes.                                      *)
EXTENDS Metrics, NatsBridgeProofs, FiniteSetTheorems

-----------------------------------------------------------------------------
(* The counter of dispatched messages.                                     *)

\* A step of a connection touches neither the loop, nor the store, nor the
\* counter of dispatched messages.
LEMMA ConnLeavesLoop ==
    ASSUME NEW c \in Conns, ConnNext(c)
    PROVE  UNCHANGED <<loop, messages_dispatched, store, log>>
BY DEF ConnNext, GiStep, GiLock, GiReplay, GiUnlock, GiTerm, StationInterrogation,
   GroupInterrogation, Connect, StartDT, Disconnect, DeliverHigh, DeliverLow, loopVars, storeVars

\* The steps that do not count, cache or acknowledge: everything but the loop's
\* handling of a message, skipped messages, and crashes.
LEMMA OtherSteps ==
    ASSUME [NatsNext]_allVars, ~NatsInsert, ~NatsDispatch, ~NatsAck, ~SkipInvalid, ~CrashRestart
    PROVE  /\ UNCHANGED <<messages_dispatched, store, log, ackLosses>>
           /\ loop' \in {"dispatch", "ack"} <=> loop \in {"dispatch", "ack"}
<1>1. CASE UNCHANGED allVars
  BY <1>1 DEF allVars, natsVars, vars, loopVars, storeVars
<1>2. CASE \/ \E p \in Points, valid \in BOOLEAN : Publish(p, valid)
           \/ DeliverNew
           \/ \E s \in 1..MaxMsgs : Redeliver(s) \/ RedeliverEarly(s)
  BY <1>2 DEF Publish, DeliverNew, Redeliver, RedeliverEarly, vars, loopVars, storeVars
<1>3. CASE TakeValid \/ NatsSourceEnds \/ NatsSourceRebuilt
  BY <1>3 DEF TakeValid, Receive, NatsSourceEnds, SourceEnds, NatsSourceRebuilt, SourceRebuilt,
              After, natsVars, storeVars
<1>4. CASE \E c \in Conns : ConnNext(c) /\ UNCHANGED natsVars
  BY <1>4, ConnLeavesLoop DEF natsVars
<1> QED BY <1>1, <1>2, <1>3, <1>4 DEF NatsNext, LoopWork

\* Every step of the bridge keeps the count: a message is in the loop from its
\* insertion to its acknowledgement, and is then counted or its
\* acknowledgement has failed.
LEMMA CountStep ==
    ASSUME TypeOK, NatsTypes, DispatchedAddsUp, [NatsNext]_allVars
    PROVE  DispatchedAddsUp'
<1> SUFFICES ASSUME ~GiOnly PROVE messages_dispatched' \in (Handled' - ackLosses')..Handled'
  BY DEF DispatchedAddsUp
<1>0. PICK n \in Nat, d \in Nat, k \in Nat :
        n = Len(log) /\ d = messages_dispatched /\ k = ackLosses
  BY LenProperties DEF TypeOK, NatsTypes
<1>1. d \in (n - InLoop - k)..(n - InLoop)
  BY <1>0 DEF DispatchedAddsUp, Handled
<1>2. CASE NatsInsert
  <2>1. /\ loop = "insert" /\ loop' = "dispatch" /\ messages_dispatched' = d /\ ackLosses' = k
        /\ cur \in Messages /\ log' = Append(log, cur) /\ log \in Seq(Messages)
    BY <1>0, <1>2 DEF NatsInsert, Insert, After, natsVars, TypeOK
  <2>2. Len(log') = n + 1
    BY <1>0, <2>1, AppendProperties
  <2>3. InLoop = 0 /\ InLoop' = 1
    BY <2>1 DEF InLoop
  <2> QED BY <1>1, <2>1, <2>2, <2>3 DEF Handled
<1>3. CASE NatsDispatch
  <2>1. /\ loop = "dispatch" /\ loop' = "ack" /\ messages_dispatched' = d /\ ackLosses' = k
        /\ log' = log
    BY <1>0, <1>3 DEF NatsDispatch, Dispatch, After, storeVars
  <2>2. InLoop = 1 /\ InLoop' = 1
    BY <2>1 DEF InLoop
  <2> QED BY <1>0, <1>1, <2>1, <2>2 DEF Handled
<1>4. CASE NatsAck
  <2>1. /\ loop = "ack" /\ loop' = "next" /\ log' = log
        /\ \/ messages_dispatched' = d + 1 /\ ackLosses' \in {k, k + 1}
           \/ messages_dispatched' = d /\ ackLosses' = k + 1
    BY <1>0, <1>4 DEF NatsAck, AckOk, AckFails, AckArrives, AckLost, After, storeVars
  <2>2. InLoop = 1 /\ InLoop' = 0
    BY <2>1 DEF InLoop
  <2> QED BY <1>0, <1>1, <2>1, <2>2 DEF Handled
<1>5. CASE SkipInvalid
  <2>1. /\ loop' = loop /\ log' = log /\ messages_dispatched' = d /\ ackLosses' \in {k, k + 1}
    BY <1>0, <1>5 DEF SkipInvalid, AckArrives, AckLost, vars, loopVars, storeVars
  <2>2. InLoop' = InLoop /\ InLoop \in {0, 1}
    BY <2>1 DEF InLoop
  <2> QED BY <1>0, <1>1, <2>1, <2>2 DEF Handled
<1>6. CASE CrashRestart
  <2>1. /\ loop' = "next" /\ log' = <<>> /\ messages_dispatched' = 0 /\ ackLosses' = k
    BY <1>0, <1>6 DEF CrashRestart
  <2>2. InLoop' = 0 /\ Len(log') = 0
    BY <2>1 DEF InLoop
  <2> QED BY <2>1, <2>2 DEF Handled
<1>7. CASE ~NatsInsert /\ ~NatsDispatch /\ ~NatsAck /\ ~SkipInvalid /\ ~CrashRestart
  <2>1. /\ UNCHANGED <<messages_dispatched, log, ackLosses>>
        /\ loop' \in {"dispatch", "ack"} <=> loop \in {"dispatch", "ack"}
    BY <1>7, OtherSteps
  <2>2. InLoop' = InLoop
    BY <2>1 DEF InLoop
  <2> QED BY <1>0, <1>1, <2>1, <2>2 DEF Handled
<1> QED BY <1>2, <1>3, <1>4, <1>5, <1>6, <1>7

\* A step of the metrics endpoint is none of the bridge.
LEMMA EndpointLeavesBridge == [MetricsNext]_everything => [NatsNext]_allVars
BY DEF MetricsNext, BridgeStep, bind_metrics_listener, AcceptScrape, ReadNext, Respond, everything

\* The bridge's own invariants hold of the bridge that is scraped.
LEMMA BridgeOfMetrics ==
    MetricsSpec => [](TypeOK /\ NatsTypes /\ SnapshotInv)
<1>1. MetricsInit => TypeOK /\ NatsTypes /\ SnapshotInv
  BY TypeInit, SnapshotInit, NatsTypesInit DEF MetricsInit, NatsInit
<1>2. TypeOK /\ NatsTypes /\ SnapshotInv /\ [MetricsNext]_everything
        => (TypeOK /\ NatsTypes /\ SnapshotInv)'
  BY EndpointLeavesBridge, NatsTypesStep, NatsSnapshotStep
<1> QED BY <1>1, <1>2, PTL DEF MetricsSpec

\* The counter never runs ahead of the messages handled, and misses no more of
\* them than acknowledgements failed (handle_incoming_message).
THEOREM CounterIsHonest == MetricsSpec => []DispatchedAddsUp
<1>1. ASSUME MetricsInit PROVE DispatchedAddsUp
  <2>1. loop = "next" /\ Len(log) = 0 /\ messages_dispatched = 0 /\ ackLosses = 0
    BY <1>1 DEF MetricsInit, NatsInit, Init
  <2>2. InLoop = 0
    BY <2>1 DEF InLoop
  <2>3. Handled = 0
    BY <2>1, <2>2 DEF Handled
  <2> QED BY <2>1, <2>3 DEF DispatchedAddsUp
<1>2. TypeOK /\ NatsTypes /\ DispatchedAddsUp /\ [MetricsNext]_everything => DispatchedAddsUp'
  BY EndpointLeavesBridge, CountStep
<1> QED BY <1>1, <1>2, BridgeOfMetrics, PTL DEF MetricsSpec

-----------------------------------------------------------------------------
(* What a scrape shows.                                                    *)

CachedPoints == {p \in Points : store[p] # 0}

Answers == [cache_size : Nat, msgs_dispatched : Nat, gi_responses : Nat]

ScrapeStates == {"none", "cache_size", "msgs_dispatched", "gi_responses", "answered"}

\* Inductive: the store holds no more points than messages were inserted; so
\* does an answer that has read the size, as long as it has not read the
\* counter; and from then on it is plausible.
ScrapeInv ==
    /\ scrape \in [Scrapers -> ScrapeStates] /\ answer \in [Scrapers -> Answers]
    /\ IsFiniteSet(CachedPoints) /\ Cached <= Len(log)
    /\ \A s \in Scrapers :
        /\ scrape[s] = "msgs_dispatched" => answer[s].cache_size <= Len(log)
        /\ ~GiOnly /\ scrape[s] \in {"gi_responses", "answered"} =>
             answer[s].cache_size <= answer[s].msgs_dispatched + ackLosses + 1

\* The store grows by at most the point of an inserted message.
LEMMA CachedGrows ==
    ASSUME TypeOK, NatsTypes, IsFiniteSet(CachedPoints), Cached <= Len(log), [NatsNext]_allVars
    PROVE  IsFiniteSet(CachedPoints') /\ Cached' <= Len(log')
<1>0. Cached = Cardinality(CachedPoints) /\ Cached' = Cardinality(CachedPoints')
  BY DEF Cached, CachedPoints
<1>1. CASE NatsInsert
  <2>1. /\ cur \in Messages /\ log' = Append(log, cur) /\ log \in Seq(Messages)
        /\ store' = [store EXCEPT ![cur.key] = cur.id]
    BY <1>1 DEF NatsInsert, Insert, TypeOK
  <2>2. Len(log') = Len(log) + 1 /\ Len(log) \in Nat
    BY <2>1, AppendProperties, LenProperties
  <2>3. CachedPoints' = CachedPoints \cup {cur.key}
    BY <2>1 DEF CachedPoints, Messages, TypeOK
  <2>4. /\ IsFiniteSet(CachedPoints \cup {cur.key}) /\ Cardinality(CachedPoints) \in Nat
        /\ Cardinality(CachedPoints \cup {cur.key}) \in
             {Cardinality(CachedPoints), Cardinality(CachedPoints) + 1}
    BY FS_AddElement, FS_CardinalityType
  <2> QED BY <1>0, <2>2, <2>3, <2>4
<1>2. CASE CrashRestart
  <2>1. CachedPoints' = {} /\ log' = <<>>
    BY <1>2 DEF CrashRestart, CachedPoints, Nothing
  <2>2. IsFiniteSet(CachedPoints') /\ Cardinality(CachedPoints') = 0
    BY <2>1, FS_EmptySet
  <2> QED BY <1>0, <2>1, <2>2
<1>3. CASE ~NatsInsert /\ ~CrashRestart
  <2>1. store' = store /\ log' = log
    <3>1. CASE NatsDispatch \/ NatsAck \/ SkipInvalid
      BY <3>1 DEF NatsDispatch, Dispatch, NatsAck, AckOk, AckFails, SkipInvalid, vars, storeVars
    <3>2. CASE ~NatsDispatch /\ ~NatsAck /\ ~SkipInvalid
      BY <1>3, <3>2, OtherSteps
    <3> QED BY <3>1, <3>2
  <2> QED BY <2>1 DEF CachedPoints, Cached
<1> QED BY <1>1, <1>2, <1>3

\* Until the process crashes, insertions and failed acknowledgements add up.
LEMMA CountsGrow ==
    ASSUME TypeOK, NatsTypes, [NatsNext]_allVars, crashes' = crashes
    PROVE  Len(log') >= Len(log) /\ ackLosses' >= ackLosses
<1>0. Len(log) \in Nat /\ ackLosses \in Nat /\ crashes \in Nat
  BY LenProperties DEF TypeOK, NatsTypes
<1>1. CASE NatsInsert
  <2>1. /\ cur \in Messages /\ log' = Append(log, cur) /\ log \in Seq(Messages)
        /\ ackLosses' = ackLosses
    BY <1>1 DEF NatsInsert, Insert, TypeOK, natsVars
  <2> QED BY <1>0, <2>1, AppendProperties
<1>2. CASE NatsDispatch \/ NatsAck \/ SkipInvalid
  <2>1. log' = log /\ ackLosses' \in {ackLosses, ackLosses + 1}
    BY <1>2 DEF NatsDispatch, Dispatch, NatsAck, AckOk, AckFails, SkipInvalid, AckArrives, AckLost,
                vars, storeVars
  <2> QED BY <1>0, <2>1
<1>3. CASE CrashRestart
  BY <1>0, <1>3 DEF CrashRestart
<1>4. CASE ~NatsInsert /\ ~NatsDispatch /\ ~NatsAck /\ ~SkipInvalid /\ ~CrashRestart
  BY <1>0, <1>4, OtherSteps
<1> QED BY <1>1, <1>2, <1>3, <1>4

\* A step of the bridge keeps what was read: a crash takes the scrapes with it.
LEMMA ScrapeBridge ==
    ASSUME TypeOK, NatsTypes, ScrapeInv, [NatsNext]_allVars,
           \/ crashes' = crashes /\ UNCHANGED metricsVars
           \/ /\ scrape' = [s \in Scrapers |-> "none"]
              /\ answer' = [s \in Scrapers |-> NoAnswer]
    PROVE  ScrapeInv'
<1>1. IsFiniteSet(CachedPoints') /\ Cached' <= Len(log')
  BY CachedGrows DEF ScrapeInv
<1>2. CASE crashes' = crashes /\ UNCHANGED metricsVars
  <2>1. Len(log') >= Len(log) /\ ackLosses' >= ackLosses /\ scrape' = scrape /\ answer' = answer
    BY <1>2, CountsGrow DEF metricsVars
  <2>2. PICK n \in Nat, m \in Nat, k \in Nat, j \in Nat :
          n = Len(log) /\ m = Len(log') /\ k = ackLosses /\ j = ackLosses'
    <3>1. TypeOK' /\ NatsTypes'
      BY NatsTypesStep
    <3> QED BY <3>1, LenProperties DEF TypeOK, NatsTypes
  <2>0. m >= n /\ j >= k
    BY <2>1, <2>2
  <2>3. ASSUME NEW s \in Scrapers
        PROVE  /\ scrape[s] = "msgs_dispatched" => answer[s].cache_size <= m
               /\ ~GiOnly /\ scrape[s] \in {"gi_responses", "answered"} =>
                    answer[s].cache_size <= answer[s].msgs_dispatched + j + 1
    <3>1. PICK a \in Nat, b \in Nat : a = answer[s].cache_size /\ b = answer[s].msgs_dispatched
      BY DEF ScrapeInv, Answers
    <3>2. /\ scrape[s] = "msgs_dispatched" => a <= n
          /\ ~GiOnly /\ scrape[s] \in {"gi_responses", "answered"} => a <= b + k + 1
      BY <2>2, <3>1 DEF ScrapeInv
    <3>3. (a <= n => a <= m) /\ (a <= b + k + 1 => a <= b + j + 1)
      BY <2>0
    <3> QED BY <3>1, <3>2, <3>3
  <2> QED BY <1>1, <2>1, <2>2, <2>3 DEF ScrapeInv
<1>3. CASE /\ scrape' = [s \in Scrapers |-> "none"]
           /\ answer' = [s \in Scrapers |-> NoAnswer]
  BY <1>1, <1>3 DEF ScrapeInv, ScrapeStates, Answers, NoAnswer
<1> QED BY <1>2, <1>3

\* serve_metrics_connection reads the size, then the counter: when it reads
\* the counter, that is at most the messages inserted by then.
LEMMA ScrapeRead ==
    ASSUME TypeOK, NatsTypes, DispatchedAddsUp, ScrapeInv, NEW s \in Scrapers,
           AcceptScrape(s) \/ ReadNext(s) \/ Respond(s)
    PROVE  ScrapeInv'
<1>0. /\ UNCHANGED allVars /\ UNCHANGED <<store, log, ackLosses>>
  BY DEF AcceptScrape, ReadNext, Respond, allVars, natsVars, vars, storeVars
<1>1. IsFiniteSet(CachedPoints') /\ Cached' <= Len(log')
  BY <1>0 DEF ScrapeInv, CachedPoints, Cached
<1>2. PICK n \in Nat, k \in Nat, d \in Nat :
        n = Len(log) /\ k = ackLosses /\ d = messages_dispatched
  BY LenProperties DEF TypeOK, NatsTypes
<1>3. /\ scrape' \in [Scrapers -> ScrapeStates] /\ answer' \in [Scrapers -> Answers]
      /\ \A t \in Scrapers \ {s} : scrape'[t] = scrape[t] /\ answer'[t] = answer[t]
  <2>1. Cached \in Nat /\ messages_dispatched \in Nat /\ gi_responses \in Nat
    BY FS_CardinalityType DEF Cached, CachedPoints, ScrapeInv, TypeOK
  <2>2. CASE AcceptScrape(s)
    BY <2>2 DEF AcceptScrape, AfterRead, ScrapeInv, ScrapeStates
  <2>3. CASE ReadNext(s)
    <3>1. /\ answer' \in [Scrapers -> Answers]
          /\ \A t \in Scrapers \ {s} : answer'[t] = answer[t]
      BY <2>1, <2>3 DEF ReadNext, ScrapeInv, Answers
    <3>2. AfterRead(scrape[s]) \in ScrapeStates
      BY <2>3 DEF ReadNext, AfterRead, ScrapeStates
    <3> QED BY <2>3, <3>1, <3>2 DEF ReadNext, ScrapeInv
  <2>4. CASE Respond(s)
    BY <2>4 DEF Respond, ScrapeInv, ScrapeStates, Answers, NoAnswer
  <2> QED BY <2>2, <2>3, <2>4
<1>4. /\ scrape'[s] = "msgs_dispatched" => answer'[s].cache_size <= n
      /\ ~GiOnly /\ scrape'[s] \in {"gi_responses", "answered"} =>
           answer'[s].cache_size <= answer'[s].msgs_dispatched + k + 1
  <2>1. CASE AcceptScrape(s)
    BY <2>1 DEF AcceptScrape, AfterRead, ScrapeInv
  <2>2. CASE Respond(s)
    BY <2>2 DEF Respond, ScrapeInv
  <2>3. CASE ReadNext(s) /\ scrape[s] = "cache_size"
    <3>1. scrape'[s] = "msgs_dispatched" /\ answer'[s].cache_size = Cached
      BY <2>3 DEF ReadNext, AfterRead, ScrapeInv, Answers
    <3> QED BY <1>2, <3>1 DEF ScrapeInv
  <2>4. CASE ReadNext(s) /\ scrape[s] = "msgs_dispatched"
    <3>1. /\ scrape'[s] = "gi_responses" /\ answer'[s].msgs_dispatched = d
          /\ answer'[s].cache_size = answer[s].cache_size
      BY <1>2, <2>4 DEF ReadNext, AfterRead, ScrapeInv, Answers
    <3>2. PICK a \in Nat : a = answer[s].cache_size
      BY DEF ScrapeInv, Answers
    <3>3. a <= n
      BY <1>2, <2>4, <3>2 DEF ScrapeInv
    <3>4. InLoop \in {0, 1}
      BY DEF InLoop
    <3>5. ~GiOnly => d \in (n - InLoop - k)..(n - InLoop)
      BY <1>2 DEF DispatchedAddsUp, Handled
    <3>6. ~GiOnly => a <= d + k + 1
      BY <3>3, <3>4, <3>5
    <3> QED BY <3>1, <3>2, <3>6
  <2>5. CASE ReadNext(s) /\ scrape[s] = "gi_responses"
    <3>1. /\ scrape'[s] = "answered" /\ answer'[s].msgs_dispatched = answer[s].msgs_dispatched
          /\ answer'[s].cache_size = answer[s].cache_size
      BY <2>5 DEF ReadNext, AfterRead, ScrapeInv, Answers
    <3> QED BY <1>2, <2>5, <3>1 DEF ScrapeInv
  <2> QED BY <2>1, <2>2, <2>3, <2>4, <2>5 DEF ReadNext
<1>5. \A t \in Scrapers :
        /\ scrape'[t] = "msgs_dispatched" => answer'[t].cache_size <= n
        /\ ~GiOnly /\ scrape'[t] \in {"gi_responses", "answered"} =>
             answer'[t].cache_size <= answer'[t].msgs_dispatched + k + 1
  BY <1>2, <1>3, <1>4 DEF ScrapeInv
<1> QED BY <1>0, <1>1, <1>2, <1>3, <1>5 DEF ScrapeInv

\* An answer of the metrics endpoint never shows more points than messages,
\* up to the one in hand and those whose acknowledgement failed, although its
\* parts are read at different moments (serve_metrics_connection).
THEOREM AnswersArePlausible == MetricsSpec => []ScrapeIsPlausible
<1>1. ASSUME MetricsInit PROVE ScrapeInv
  <2>1. CachedPoints = {} /\ Len(log) = 0
    BY <1>1 DEF MetricsInit, NatsInit, Init, CachedPoints, Nothing
  <2>2. IsFiniteSet(CachedPoints) /\ Cached = 0
    BY <2>1, FS_EmptySet DEF Cached, CachedPoints
  <2> QED BY <1>1, <2>1, <2>2 DEF MetricsInit, ScrapeInv, ScrapeStates, Answers, NoAnswer
<1>2. ASSUME TypeOK, NatsTypes, DispatchedAddsUp, ScrapeInv, [MetricsNext]_everything
      PROVE  ScrapeInv'
  <2>1. [NatsNext]_allVars
    BY <1>2, EndpointLeavesBridge
  <2>2. CASE BridgeStep
    BY <1>2, <2>1, <2>2, ScrapeBridge DEF BridgeStep
  <2>3. CASE bind_metrics_listener \/ UNCHANGED everything
    <3>1. UNCHANGED <<scrape, answer, store, log, ackLosses>>
      BY <2>3 DEF bind_metrics_listener, everything, metricsVars, allVars, natsVars, vars, storeVars
    <3> QED BY <1>2, <3>1 DEF ScrapeInv, CachedPoints, Cached
  <2>4. CASE \E s \in Scrapers : AcceptScrape(s) \/ ReadNext(s) \/ Respond(s)
    BY <1>2, <2>4, ScrapeRead
  <2> QED BY <1>2, <2>2, <2>3, <2>4 DEF MetricsNext
<1>3. ScrapeInv => ScrapeIsPlausible
  BY DEF ScrapeInv, ScrapeIsPlausible
<1> QED BY <1>1, <1>2, <1>3, BridgeOfMetrics, CounterIsHonest, PTL DEF MetricsSpec
=============================================================================
