------------------------------ MODULE Metrics -------------------------------
(***************************************************************************)
(* The metrics endpoint (main.rs): a task that binds METRICS_PORT and one  *)
(* task per scrape, which reads the size of the store under its mutex and  *)
(* then the two counters, one after the other, while the message loop and  *)
(* the GI callbacks go on.                                                 *)
(***************************************************************************)
EXTENDS NatsBridge

CONSTANT Scrapers

VARIABLES
    endpoint,  \* the metrics listener
    scrape,    \* where serve_metrics_connection is, for each scraper
    answer     \* what it has read so far

metricsVars == <<endpoint, scrape, answer>>
everything  == <<allVars, metricsVars>>

NoAnswer == [cache_size |-> 0, msgs_dispatched |-> 0, gi_responses |-> 0]

MetricsInit ==
    /\ NatsInit
    /\ endpoint = "binding"
    /\ scrape = [s \in Scrapers |-> "none"]
    /\ answer = [s \in Scrapers |-> NoAnswer]

-----------------------------------------------------------------------------
\* A port that cannot be bound is logged; the bridge does without.
bind_metrics_listener ==
    /\ endpoint = "binding"
    /\ endpoint' \in {"listening", "failed"}
    /\ UNCHANGED <<allVars, scrape, answer>>

\* Mutant: the counters are read first.
CountersFirst(step) ==
    CASE step = "cache_size"      -> "answered"
      [] step = "msgs_dispatched" -> "gi_responses"
      [] step = "gi_responses"    -> "cache_size"
      [] step = "accepted"        -> "msgs_dispatched"

\* The order of the three reads of serve_metrics_connection.
AfterRead(step) ==
    CASE step = "accepted"        -> "cache_size"
      [] step = "cache_size"      -> "msgs_dispatched"
      [] step = "msgs_dispatched" -> "gi_responses"
      [] step = "gi_responses"    -> "answered"

\* A task per connection; the scrapers' requests are not even read.
AcceptScrape(s) ==
    /\ endpoint = "listening" /\ scrape[s] = "none"
    /\ scrape' = [scrape EXCEPT ![s] = AfterRead("accepted")]
    /\ UNCHANGED <<allVars, endpoint, answer>>

Cached == Cardinality({p \in Points : store[p] # 0})

\* The size is read under the store's mutex.
ReadNext(s) ==
    /\ \/ /\ scrape[s] = "cache_size" /\ storeLock = Free
          /\ answer' = [answer EXCEPT ![s].cache_size = Cached]
       \/ /\ scrape[s] = "msgs_dispatched"
          /\ answer' = [answer EXCEPT ![s].msgs_dispatched = messages_dispatched]
       \/ /\ scrape[s] = "gi_responses"
          /\ answer' = [answer EXCEPT ![s].gi_responses = gi_responses]
    /\ scrape' = [scrape EXCEPT ![s] = AfterRead(@)]
    /\ UNCHANGED <<allVars, endpoint>>

\* The answer is written, or that fails; the connection is closed.
Respond(s) ==
    /\ scrape[s] = "answered"
    /\ scrape' = [scrape EXCEPT ![s] = "none"]
    /\ answer' = [answer EXCEPT ![s] = NoAnswer]
    /\ UNCHANGED <<allVars, endpoint>>

\* A step of the bridge; a crash takes the endpoint with it.
BridgeStep ==
    /\ NatsNext
    /\ IF crashes' = crashes
       THEN UNCHANGED metricsVars
       ELSE /\ endpoint' = "binding"
            /\ scrape' = [s \in Scrapers |-> "none"]
            /\ answer' = [s \in Scrapers |-> NoAnswer]

MetricsNext ==
    \/ BridgeStep \/ bind_metrics_listener
    \/ \E s \in Scrapers : AcceptScrape(s) \/ ReadNext(s) \/ Respond(s)

\* The fairness is that of NatsBridge: no scrape helps or holds up the loop.
MetricsSpec == MetricsInit /\ [][MetricsNext]_everything /\ NatsFairness

-----------------------------------------------------------------------------
(* Properties.                                                             *)

InLoop == IF loop \in {"dispatch", "ack"} THEN 1 ELSE 0

Handled == Len(log) - InLoop

\* The counter never runs ahead of the messages this incarnation has handled,
\* however often each was delivered, and misses no more of them than
\* acknowledgements failed (handle_incoming_message counts last).
DispatchedAddsUp ==
    ~GiOnly => messages_dispatched \in (Handled - ackLosses)..Handled

\* An answer never shows more points than messages: its parts are read at
\* different moments, but the counter after the size, so that at most the
\* message in hand and those whose acknowledgement failed are missing from it
\* (serve_metrics_connection).
ScrapeIsPlausible ==
    ~GiOnly => \A s \in Scrapers : scrape[s] = "answered" =>
        answer[s].cache_size <= answer[s].msgs_dispatched + ackLosses + 1
=============================================================================
