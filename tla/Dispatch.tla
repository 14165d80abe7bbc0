------------------------------ MODULE Dispatch ------------------------------
(***************************************************************************)
(* From a cached message to the ASDU on the wire: the output policy, the   *)
(* choice of type and the value conversions of bridge.rs, its two sinks,   *)
(* and the information objects of asdu.rs.                                 *)
(*                                                                         *)
(* A quality is the set of QDS bits that are set.  An ASDU carries a       *)
(* float in quarters, a scaled value in units, a point as 0 or 1.          *)
(***************************************************************************)
EXTENDS Iec104Message

CONSTANTS
    NsPerMs,  \* nanoseconds in a millisecond, scaled down for TLC
    U64       \* 2^64, the values of a u64, scaled down for TLC

ASSUME TimeAssumption == NsPerMs \in Nat \ {0} /\ U64 \in Nat \ {0}

I16Min == -32768
I16Max == 32767

-----------------------------------------------------------------------------
(* bridge.rs: mapping and inference.                                       *)

map_quality(q) ==
    CASE q = "good"        -> {}
      [] q = "invalid"     -> {"IV"}
      [] q = "not_topical" -> {"NT"}
      [] q = "substituted" -> {"SB"}
      [] q = "blocked"     -> {"BL"}
      [] q = "overflow"    -> {"OV"}

map_cot(cot) ==
    CASE cot = "spontaneous"        -> "Spontaneous"
      [] cot = "periodic"           -> "Periodic"
      [] cot = "background_scan"    -> "Background"
      [] cot = "interrogated"       -> "InterrogatedByStation"
      [] cot = "return_info_remote" -> "ReturnRemote"
      [] cot = "return_info_local"  -> "ReturnLocal"

\* Mutant: the fraction is not looked at.
IsI16(n) == n >= One * I16Min /\ n <= One * I16Max

\* No fractional part, and in the range of an i16.
is_scaled_number(n) == n % One = 0 /\ n >= One * I16Min /\ n <= One * I16Max

infer_type(value) ==
    IF value.tag = "bool" THEN "single_point"
    ELSE IF is_scaled_number(value.v) THEN "scaled" ELSE "float"

-----------------------------------------------------------------------------
(* bridge.rs: the output policy.                                           *)

\* max_age is None, or the age beyond which a point is not topical.
older_than(t, now, max_age) == now - t > max_age

\* Mutant: the timestamp is dropped before it is used.
PrepareStripped(msg, received_at, now, policy) ==
    LET m == IF policy.send_timestamps THEN msg ELSE [msg EXCEPT !.timestamp = None]
    IN  [message |-> m,
         not_topical |->
            /\ policy.max_age # None
            /\ \/ older_than(received_at, now, policy.max_age)
               \/ m.timestamp # None /\ older_than(m.timestamp, now, policy.max_age)
            /\ m.quality # "invalid"]

prepare_for_output(msg, received_at, now, policy) ==
    [message |-> IF policy.send_timestamps THEN msg ELSE [msg EXCEPT !.timestamp = None],
     not_topical |->
        /\ policy.max_age # None
        /\ \/ older_than(received_at, now, policy.max_age)
           \/ msg.timestamp # None /\ older_than(msg.timestamp, now, policy.max_age)
        /\ msg.quality # "invalid"]

\* The count of nanoseconds is cast to a u64, and wraps, before it is divided.
offset_datetime_to_cp56_timestamp(t) == (t % U64) \div NsPerMs

DispatchContext(msg, default_ca) ==
    [ca |-> IF msg.ca = None THEN default_ca ELSE msg.ca,
     ioa |-> msg.ioa,
     quality |-> map_quality(msg.quality),
     cot |-> map_cot(msg.cot),
     data_type |-> IF msg.data_type = None THEN infer_type(msg.value) ELSE msg.data_type,
     timestamp |-> IF msg.timestamp = None THEN None
                   ELSE offset_datetime_to_cp56_timestamp(msg.timestamp)]

-----------------------------------------------------------------------------
(* bridge.rs: value conversions.                                           *)

Abs(n)  == IF n < 0 THEN -n ELSE n
Sign(n) == IF n < 0 THEN -1 ELSE 1

\* f64 as f32: 24 significant bits, to nearest, ties to even (|n| < 2^31).
f32(n) ==
    LET k == CHOOSE j \in 0..7 : Abs(n) < 2^(24 + j) /\ (j = 0 \/ Abs(n) >= 2^(23 + j))
        q == Abs(n) \div 2^k
        r == Abs(n) % 2^k
        up == 2 * r > 2^k \/ (2 * r = 2^k /\ q % 2 = 1)
    IN  Sign(n) * (IF up THEN q + 1 ELSE q) * 2^k

\* f64 as an integer: the fraction is cut off, towards zero.
trunc(n) == Sign(n) * (Abs(n) \div One)

clamp_i16(n) ==
    IF n < One * I16Min THEN One * I16Min ELSE IF n > One * I16Max THEN One * I16Max ELSE n

as_single_point_value(value) == IF value.v # 0 THEN 1 ELSE 0

as_float_value(value) == IF value.tag = "bool" THEN One * value.v ELSE f32(value.v)

\* Mutant: no clamping.
Unclamped(value) == IF value.tag = "bool" THEN value.v ELSE trunc(value.v)

as_scaled_value(value) ==
    IF value.tag = "bool" THEN value.v ELSE trunc(clamp_i16(value.v))

-----------------------------------------------------------------------------
(* The ASDUs.                                                              *)

Asdu(context, type_id, value) ==
    [type_id |-> type_id, cot |-> context.cot, ca |-> context.ca, ioa |-> context.ioa,
     value |-> value, quality |-> context.quality, time |-> context.timestamp]

\* asdu.rs has its own copies of the conversions.
TimedPoint(value) ==
    IF value = Bool(TRUE) \/ (value.tag = "number" /\ value.v # 0) THEN 1 ELSE 0

TimedScaled(value) ==
    CASE value = Bool(TRUE)    -> 1
      [] value = Bool(FALSE)   -> 0
      [] value.tag = "number"  -> trunc(clamp_i16(value.v))

TimedFloat(value) ==
    CASE value = Bool(TRUE)    -> One
      [] value = Bool(FALSE)   -> 0
      [] value.tag = "number"  -> f32(value.v)

\* A CP56Time2a information object.
create_information_object(context, data_type, value) ==
    CASE data_type = "single_point" -> Asdu(context, 30, TimedPoint(value))
      [] data_type = "double_point" -> Asdu(context, 31, TimedPoint(value))
      [] data_type = "scaled"       -> Asdu(context, 35, TimedScaled(value))
      [] data_type = "float"        -> Asdu(context, 36, TimedFloat(value))
      [] data_type = "normalized"   -> Asdu(context, 34, TimedFloat(value))

-----------------------------------------------------------------------------
(* The two implementations of DataSink: LiveSink hands a point to the      *)
(* server, ConnectionSink sends it on one master's connection.  Whether a  *)
(* queue takes it is in module Bridge.                                     *)

Sinks == {"LiveSink", "ConnectionSink"}

\* The server's own functions, one per type (lib60870).
ServerSend(kind, context, value) ==
    CASE kind = "single_point"    -> Asdu(context, 1, value)
      [] kind = "measured_float"  -> Asdu(context, 13, value)
      [] kind = "measured_scaled" -> Asdu(context, 11, value)

\* asdu.rs: a value already converted, tagged with its encoding.
UntimedValue(tag, value) == [tag |-> tag, value |-> value]

\* Mutant: the scaled value is sent as a short float.
SendScaledAsShort(context, value) ==
    IF value.tag = "Single" THEN Asdu(context, 1, value.value) ELSE Asdu(context, 13, value.value)

\* asdu.rs: the object is created here, by its tag.
send_untimed_to_connection(context, value) ==
    CASE value.tag = "Single" -> Asdu(context, 1, value.value)
      [] value.tag = "Float"  -> Asdu(context, 13, value.value)
      [] value.tag = "Scaled" -> Asdu(context, 11, value.value)

send_single_point(sink, context, value) ==
    IF sink = "LiveSink" THEN ServerSend("single_point", context, value)
    ELSE send_untimed_to_connection(context, UntimedValue("Single", value))

send_measured_float(sink, context, value) ==
    IF sink = "LiveSink" THEN ServerSend("measured_float", context, value)
    ELSE send_untimed_to_connection(context, UntimedValue("Float", value))

send_measured_scaled(sink, context, value) ==
    IF sink = "LiveSink" THEN ServerSend("measured_scaled", context, value)
    ELSE send_untimed_to_connection(context, UntimedValue("Scaled", value))

TimedDispatch(context, data_type, value) ==
    [context |-> context, data_type |-> data_type, value |-> value, server_ptr |-> FALSE]

timed_asdu(message) ==
    create_information_object(message.context, message.data_type, message.value)

\* Nothing is sent without a server pointer, and only LiveSink adds one.
enqueue_timed_asdu(message) ==
    IF message.server_ptr THEN timed_asdu(message) ELSE None

enqueue_timed(sink, message) ==
    IF sink = "LiveSink" THEN enqueue_timed_asdu([message EXCEPT !.server_ptr = TRUE])
    ELSE timed_asdu(message)

-----------------------------------------------------------------------------
(* bridge.rs: from a context to a call of the sink.                        *)

dispatch_single_point(sink, context, value) ==
    IF context.timestamp # None
    THEN enqueue_timed(sink, TimedDispatch(context, "single_point", value))
    ELSE send_single_point(sink, context, as_single_point_value(value))

dispatch_float_like(sink, context, value) ==
    IF context.timestamp # None
    THEN enqueue_timed(sink, TimedDispatch(context, context.data_type, value))
    ELSE send_measured_float(sink, context, as_float_value(value))

dispatch_scaled(sink, context, value) ==
    IF context.timestamp # None
    THEN enqueue_timed(sink, TimedDispatch(context, "scaled", value))
    ELSE send_measured_scaled(sink, context, as_scaled_value(value))

\* No double point on the wire: it goes out as a single point.
dispatch_double_point(sink, context, value) == dispatch_single_point(sink, context, value)

dispatch_context(sink, context, value) ==
    CASE context.data_type = "single_point" -> dispatch_single_point(sink, context, value)
      [] context.data_type \in {"float", "normalized"} -> dispatch_float_like(sink, context, value)
      [] context.data_type = "scaled"       -> dispatch_scaled(sink, context, value)
      [] context.data_type = "double_point" -> dispatch_double_point(sink, context, value)

dispatch_outgoing(sink, out, default_ca) ==
    LET context == DispatchContext(out.message, default_ca)
    IN  dispatch_context(
            sink,
            IF out.not_topical THEN [context EXCEPT !.quality = @ \cup {"NT"}] ELSE context,
            out.message.value)
=============================================================================
