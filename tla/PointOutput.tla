---------------------------- MODULE PointOutput ----------------------------
(***************************************************************************)
(* One cached point over time: messages for it arrive and are forwarded,   *)
(* the clock advances, masters interrogate, and each ASDU is shaped by     *)
(* the output policy at the moment it is sent (main.rs with bridge.rs).    *)
(*                                                                         *)
(* Bridge abstracts a message to an identifier; this module keeps its      *)
(* contents and the time it was received, and abstracts the threads and    *)
(* the queues.                                                             *)
(***************************************************************************)
EXTENDS Dispatch

CONSTANTS
    Inputs,      \* the parsed messages the source yields, valid or not
    DefaultCa,   \* IEC104_CA
    GiOnly,      \* IEC104_GI_ONLY
    Policy,      \* output_policy(config): send_timestamps and max_age
    MaxTime      \* bound: the clock

\* OutputPolicy.
Policies == [send_timestamps : BOOLEAN, max_age : (Nat \ {0}) \cup {None}]

ASSUME PolicyAssumption == Policy \in Policies /\ GiOnly \in BOOLEAN /\ MaxTime \in Nat

ASSUME InputsAssumption == Inputs \subseteq Messages

VARIABLES
    now,     \* the clock
    cached,  \* CachedPoint of the point, or None
    live,    \* observed: ASDU the latest message was forwarded as, or None
    gi       \* observed: ASDU of the latest GI since that message, or None

vars == <<now, cached, live, gi>>

Init == now = 0 /\ cached = None /\ live = None /\ gi = None

\* CachedPoint.
CachedPoint(msg, at) == [message |-> msg, received_at |-> at]

\* A message that passes validation is cached and, unless GI only, forwarded
\* through the server.
handle_incoming_message(msg) ==
    /\ validate_message(msg)
    /\ cached' = CachedPoint(msg, now)
    /\ live' = IF GiOnly THEN None
               ELSE dispatch_outgoing("LiveSink",
                        prepare_for_output(msg, now, now, Policy), DefaultCa)
    /\ gi' = None
    /\ UNCHANGED now

\* Mutant: a replay counts as an arrival.
ReplayTouches ==
    /\ cached # None
    /\ LET out == prepare_for_output(cached.message, cached.received_at, now, Policy)
       IN  gi' = dispatch_outgoing("ConnectionSink",
                        [out EXCEPT !.message.cot = "interrogated"], DefaultCa)
    /\ cached' = [cached EXCEPT !.received_at = now]
    /\ UNCHANGED <<now, live>>

\* A station interrogation replays the point, as interrogated, to the master
\* that asked.
replay_cached_values ==
    /\ cached # None
    /\ LET out == prepare_for_output(cached.message, cached.received_at, now, Policy)
       IN  gi' = dispatch_outgoing("ConnectionSink",
                        [out EXCEPT !.message.cot = "interrogated"], DefaultCa)
    /\ UNCHANGED <<now, cached, live>>

Tick == now < MaxTime /\ now' = now + 1 /\ UNCHANGED <<cached, live, gi>>

Next ==
    \/ \E msg \in Inputs : handle_incoming_message(msg)
    \/ replay_cached_values
    \/ Tick

Spec == Init /\ [][Next]_vars

-----------------------------------------------------------------------------
(* Properties.                                                             *)

\* The type identifications the bridge emits.  The documentation also lists 9
\* (M_ME_NA_1) for a normalized value without a time tag; it goes out as 13.
WireTypes == {1, 11, 13, 30, 34, 35, 36}

\* An ASDU whose fields can carry its address and its value.
WellFormed(a) ==
    /\ a.type_id \in WireTypes
    /\ a.ioa \in IoaRange
    /\ a.type_id \in {1, 30} => a.value \in {0, 1}
    /\ a.type_id \in {11, 35} => a.value \in I16Min..I16Max
    /\ a.type_id = 34 => a.value \in -One..One
    /\ a.type_id \in {30, 34, 35, 36} <=> a.time # None

\* Type invariant: the cache holds a validated message, received in the past,
\* and what was sent of it, by either sink, is one of the seven types that the
\* code builds, with an address and a value that the type's field can carry.
TypeOK ==
    /\ now \in 0..MaxTime
    /\ cached # None => validate_message(cached.message) /\ cached.received_at <= now
    /\ live # None => WellFormed(live)
    /\ gi # None => WellFormed(gi)

\* An interrogation repeats the live update of the same message: same type,
\* address, value and time tag; only the cause of transmission and the NT bit
\* may differ, and NT is only ever added.  The update was encoded by LiveSink
\* and lib60870's server, the reply by ConnectionSink and asdu.rs.
GiRepeatsLive ==
    live # None /\ gi # None =>
        /\ gi.cot = "InterrogatedByStation"
        /\ live.quality \subseteq gi.quality /\ gi.quality \subseteq live.quality \cup {"NT"}
        /\ [gi EXCEPT !.cot = live.cot, !.quality = live.quality] = live

\* IEC104_MAX_AGE_SECONDS: a point silent for longer than the limit is never
\* replayed as topical, unless invalid; and a point that a GI reported as not
\* topical, and that received nothing since, is reported so by every later GI:
\* neither replays nor the clock clear the bit (replay_cached_values).
SilentPointIsNotTopical ==
    [][/\ gi # None /\ gi' # None /\ "NT" \in gi.quality => "NT" \in gi'.quality
       /\ replay_cached_values /\ Policy.max_age # None =>
            IF cached.message.quality = "invalid" THEN gi'.quality = {"IV"}
            ELSE now - cached.received_at > Policy.max_age => "NT" \in gi'.quality]_vars

Sent(sink, policy) ==
    dispatch_outgoing(sink,
        prepare_for_output(cached.message, cached.received_at, now, policy), DefaultCa)

\* IEC104_TIMESTAMPS decides about the time tag, and with it the type, and
\* about nothing else: through either sink the cached message has the same
\* value, quality and address with and without it, although timed ASDUs are
\* built by other code (asdu.rs) than untimed ones, and a source time that is
\* not sent still ages the point.  A normalized value becomes a short float
\* (34 with, 13 without); every other type keeps its kind.
TimeTagIsOrthogonal ==
    cached # None => \A sink \in Sinks :
        LET timed   == Sent(sink, [Policy EXCEPT !.send_timestamps = TRUE])
            untimed == Sent(sink, [Policy EXCEPT !.send_timestamps = FALSE])
        IN  \A f \in {"value", "quality", "ca", "ioa", "cot"} : timed[f] = untimed[f]

\* A value that a scaled ASDU can carry exactly is carried exactly: choosing
\* the type by inference never loses a value (infer_type, as_scaled_value).
InferredScaledIsExact ==
    live # None /\ cached.message.data_type = None /\ live.type_id \in {11, 35} =>
        One * live.value = cached.message.value.v
=============================================================================
