----------------------------- MODULE Supervisor -----------------------------
(***************************************************************************)
(* supervise_message_source (main.rs): the life of the input source and of *)
(* the server, the backoff between two attempts to build the source, and   *)
(* Ctrl-C.  What Bridge calls "rebuild" is the waiting and building here.  *)
(*                                                                         *)
(* tokio::signal::ctrl_c() yields a future that sees only signals sent     *)
(* after its first poll and while it exists.  It exists inside the two     *)
(* select! blocks, and neither while a message is handled nor while a      *)
(* source is built.  Before the first one, SIGINT has its default effect.  *)
(***************************************************************************)
EXTENDS Integers

CONSTANTS
    SOURCE_MIN_BACKOFF, SOURCE_MAX_BACKOFF, \* in milliseconds
    SOURCE_STABLE_RUN                       \* in ticks of the clock of a run

ASSUME BackoffAssumption ==
    /\ SOURCE_MIN_BACKOFF \in Nat \ {0}
    /\ SOURCE_MAX_BACKOFF \in Nat
    /\ SOURCE_MIN_BACKOFF <= SOURCE_MAX_BACKOFF
    /\ SOURCE_STABLE_RUN \in Nat

VARIABLES
    phase,    \* what the supervisor awaits
    backoff,  \* the local of that name
    elapsed,  \* started.elapsed(), counted up to SOURCE_STABLE_RUN
    server,   \* the IEC-104 server
    pressed,  \* observed: a Ctrl-C was sent
    slept,    \* observed: the latest sleep since the source ended, 0 if none
    attempts  \* observed: builds tried since the latest run of SOURCE_STABLE_RUN or more

vars == <<phase, backoff, elapsed, server, pressed, slept, attempts>>

Phases == {"first_build", "select", "handle", "sleep", "build", "stopping",
           "stopped", "failed", "killed"}

MaxAttempts == 6  \* bound: attempts are counted up to here

Init ==
    /\ phase = "first_build" /\ backoff = SOURCE_MIN_BACKOFF
    /\ elapsed = 0 /\ server = "running" /\ pressed = FALSE
    /\ slept = 0 /\ attempts = 0

-----------------------------------------------------------------------------
\* The first build fails fast.
FirstBuildOk ==
    /\ phase = "first_build"
    /\ phase' = "select"
    /\ elapsed' = 0
    /\ UNCHANGED <<backoff, server, pressed, slept, attempts>>

FirstBuildFails ==
    /\ phase = "first_build"
    /\ phase' = "failed" /\ server' = "gone"
    /\ UNCHANGED <<backoff, elapsed, pressed, slept, attempts>>

\* run_message_loop: a message is taken, and handled to its end.
TakeMessage ==
    /\ phase = "select"
    /\ phase' = "handle"
    /\ UNCHANGED <<backoff, elapsed, server, pressed, slept, attempts>>

MessageHandled ==
    /\ phase = "handle"
    /\ phase' = "select"
    /\ UNCHANGED <<backoff, elapsed, server, pressed, slept, attempts>>

\* Time passes while a source runs.
Elapse ==
    /\ phase \in {"select", "handle"}
    /\ elapsed < SOURCE_STABLE_RUN
    /\ elapsed' = elapsed + 1
    /\ UNCHANGED <<phase, backoff, server, pressed, slept, attempts>>

\* The source ends; a run that was long enough resets the backoff.
SourceEnded ==
    /\ phase = "select"
    /\ phase' = "sleep"
    /\ backoff' = IF elapsed >= SOURCE_STABLE_RUN THEN SOURCE_MIN_BACKOFF ELSE backoff
    /\ attempts' = IF elapsed >= SOURCE_STABLE_RUN THEN 0 ELSE attempts
    /\ slept' = 0
    /\ UNCHANGED <<elapsed, server, pressed>>

\* Mutants: the doubled backoff is not bounded; the backoff is not doubled.
SleepUnbounded ==
    /\ phase = "sleep"
    /\ phase' = "build"
    /\ slept' = backoff
    /\ backoff' = backoff * 2
    /\ backoff <= SOURCE_MAX_BACKOFF
    /\ attempts' = IF attempts < MaxAttempts THEN attempts + 1 ELSE attempts
    /\ UNCHANGED <<elapsed, server, pressed>>

SleepConstant ==
    /\ phase = "sleep"
    /\ phase' = "build"
    /\ slept' = backoff
    /\ attempts' = IF attempts < MaxAttempts THEN attempts + 1 ELSE attempts
    /\ UNCHANGED <<backoff, elapsed, server, pressed>>

\* The sleep ends; the backoff doubles before the build is tried.
SleepOver ==
    /\ phase = "sleep"
    /\ phase' = "build"
    /\ slept' = backoff
    /\ backoff' = IF backoff * 2 < SOURCE_MAX_BACKOFF THEN backoff * 2 ELSE SOURCE_MAX_BACKOFF
    /\ attempts' = IF attempts < MaxAttempts THEN attempts + 1 ELSE attempts
    /\ UNCHANGED <<elapsed, server, pressed>>

\* Mutant: the retry loop is not left.
BuildOkNoBreak ==
    /\ phase = "build"
    /\ phase' = "sleep"
    /\ UNCHANGED <<backoff, elapsed, server, pressed, slept, attempts>>

BuildOk ==
    /\ phase = "build"
    /\ phase' = "select"
    /\ elapsed' = 0
    /\ UNCHANGED <<backoff, server, pressed, slept, attempts>>

\* Mutant: a failed rebuild is as final as a failed first build.
BuildFailsFast ==
    /\ phase = "build"
    /\ phase' = "failed" /\ server' = "gone"
    /\ UNCHANGED <<backoff, elapsed, pressed, slept, attempts>>

BuildFails ==
    /\ phase = "build"
    /\ phase' = "sleep"
    /\ UNCHANGED <<backoff, elapsed, server, pressed, slept, attempts>>

\* Mutant: Ctrl-C ends the wait, not the bridge.
SkipWait ==
    /\ phase \in {"select", "sleep"}
    /\ pressed' = TRUE
    /\ phase' = "build"
    /\ UNCHANGED <<backoff, elapsed, server, slept, attempts>>

\* Ctrl-C while one of the two select! blocks listens.
CtrlCSeen ==
    /\ phase \in {"select", "sleep"}
    /\ pressed' = TRUE
    /\ phase' = "stopping"
    /\ UNCHANGED <<backoff, elapsed, server, slept, attempts>>

\* Ctrl-C while nobody listens: tokio's handler swallows it.
CtrlCLost ==
    /\ phase \in {"handle", "build", "stopping"}
    /\ pressed' = TRUE
    /\ UNCHANGED <<phase, backoff, elapsed, server, slept, attempts>>

\* Ctrl-C before tokio has installed its handler.
CtrlCKills ==
    /\ phase = "first_build"
    /\ pressed' = TRUE
    /\ phase' = "killed" /\ server' = "gone"
    /\ UNCHANGED <<backoff, elapsed, slept, attempts>>

StopServer ==
    /\ phase = "stopping"
    /\ phase' = "stopped" /\ server' = "stopped"
    /\ UNCHANGED <<backoff, elapsed, pressed, slept, attempts>>

Ended == phase \in {"stopped", "failed", "killed"}

Terminated == Ended /\ UNCHANGED vars

Next ==
    \/ FirstBuildOk \/ FirstBuildFails
    \/ TakeMessage \/ MessageHandled
    \/ Elapse \/ SourceEnded
    \/ SleepOver \/ BuildOk \/ BuildFails
    \/ CtrlCSeen \/ CtrlCLost \/ CtrlCKills
    \/ StopServer \/ Terminated

Spec == Init /\ [][Next]_vars

(***************************************************************************)
(* Fairness: tokio runs the task and its timers; a build and a handler     *)
(* end; a build that is tried again and again succeeds some time.          *)
(***************************************************************************)
FairSpec ==
    /\ Spec
    /\ WF_vars(FirstBuildOk \/ FirstBuildFails)
    /\ WF_vars(MessageHandled) /\ WF_vars(SleepOver)
    /\ WF_vars(BuildOk \/ BuildFails) /\ SF_vars(BuildOk)
    /\ WF_vars(StopServer)

-----------------------------------------------------------------------------
(* Properties.                                                             *)

\* Type invariant: the backoff stays between its two limits in every phase.
TypeOK ==
    /\ phase \in Phases
    /\ backoff \in SOURCE_MIN_BACKOFF..SOURCE_MAX_BACKOFF
    /\ elapsed \in 0..SOURCE_STABLE_RUN
    /\ server \in {"running", "stopped", "gone"}
    /\ pressed \in BOOLEAN
    /\ slept \in {0} \cup (SOURCE_MIN_BACKOFF..SOURCE_MAX_BACKOFF)
    /\ attempts \in 0..MaxAttempts

Sleep(k) ==
    IF SOURCE_MIN_BACKOFF * 2^(k - 1) < SOURCE_MAX_BACKOFF
    THEN SOURCE_MIN_BACKOFF * 2^(k - 1) ELSE SOURCE_MAX_BACKOFF

\* The k-th attempt since the last stable run is preceded by a sleep of
\* min(MIN * 2^(k-1), MAX): an outage after a stable run is met promptly,
\* however long earlier incidents made the backoff; a source that flaps is
\* met ever later, although every build in between succeeded
\* (supervise_message_source).
WaitsGrowUntilStable ==
    phase = "build" =>
        IF attempts < MaxAttempts THEN slept = Sleep(attempts) ELSE slept >= Sleep(attempts)

\* A source that ended is built again, unless the bridge was stopped.
SourceComesBack == phase = "sleep" ~> phase = "select" \/ Ended

\* An operator who keeps pressing Ctrl-C stops the bridge, through any mix of
\* outages and messages.
InsistentCtrlCStops == SF_vars(CtrlCSeen) => <>Ended

\* main.rs, "re-establishing the source whenever it ends, until Ctrl-C": one
\* Ctrl-C is enough.
CtrlCStops == pressed ~> Ended
=============================================================================
