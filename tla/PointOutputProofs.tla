------------------------- MODULE PointOutputProofs --------------------------
(* Theorems about PointOutput, for every message the JSON parser accepts,  *)
(* every output policy and every length of time.                           *)
EXTENDS PointOutput, TLAPS

-----------------------------------------------------------------------------
(* What dispatching makes of a message.                                    *)

\* The type that goes out, with and without a time tag, and the value.
TypeId(dt, timed) ==
    CASE dt \in {"single_point", "double_point"} -> IF timed THEN 30 ELSE 1
      [] dt = "scaled"                           -> IF timed THEN 35 ELSE 11
      [] dt = "float"                            -> IF timed THEN 36 ELSE 13
      [] dt = "normalized"                       -> IF timed THEN 34 ELSE 13

ValueFor(dt, v) ==
    CASE dt \in {"single_point", "double_point"} -> as_single_point_value(v)
      [] dt = "scaled"                           -> as_scaled_value(v)
      [] dt \in {"float", "normalized"}          -> as_float_value(v)

DataTypeOf(msg) == IF msg.data_type = None THEN infer_type(msg.value) ELSE msg.data_type

\* asdu.rs converts values as bridge.rs does.
LEMMA SameConversions ==
    ASSUME NEW v \in DataValues
    PROVE  /\ TimedPoint(v) = as_single_point_value(v)
           /\ TimedScaled(v) = as_scaled_value(v)
           /\ TimedFloat(v) = as_float_value(v)
<1>1. CASE v = Bool(TRUE)
  <2>1. v.tag = "bool" /\ v.v = 1 /\ v # Bool(FALSE)
    BY <1>1 DEF Bool
  <2>2. TimedPoint(v) = 1 /\ TimedScaled(v) = 1 /\ TimedFloat(v) = One
    BY <1>1, <2>1, Zenon DEF TimedPoint, TimedScaled, TimedFloat
  <2>3. as_single_point_value(v) = 1 /\ as_scaled_value(v) = 1 /\ as_float_value(v) = One * 1
    BY <2>1 DEF as_single_point_value, as_scaled_value, as_float_value
  <2> QED BY <2>2, <2>3 DEF One
<1>2. CASE v = Bool(FALSE)
  <2>1. v.tag = "bool" /\ v.v = 0 /\ v # Bool(TRUE)
    BY <1>2 DEF Bool
  <2>2. TimedPoint(v) = 0 /\ TimedScaled(v) = 0 /\ TimedFloat(v) = 0
    BY <1>2, <2>1, Zenon DEF TimedPoint, TimedScaled, TimedFloat
  <2>3. as_single_point_value(v) = 0 /\ as_scaled_value(v) = 0 /\ as_float_value(v) = One * 0
    BY <2>1 DEF as_single_point_value, as_scaled_value, as_float_value
  <2> QED BY <2>2, <2>3 DEF One
<1>3. CASE v \in [tag : {"number"}, v : Int]
  <2>1. v.tag = "number" /\ v # Bool(TRUE) /\ v # Bool(FALSE)
    BY <1>3 DEF Bool
  <2> QED BY <2>1 DEF TimedPoint, TimedScaled, TimedFloat, as_single_point_value,
             as_scaled_value, as_float_value
<1> QED BY <1>1, <1>2, <1>3 DEF DataValues

\* Both sinks encode an untimed value alike, LiveSink through the server's
\* functions and ConnectionSink through asdu.rs.
LEMMA SinksAgree ==
    ASSUME NEW sink \in Sinks, NEW c, NEW v
    PROVE  /\ send_single_point(sink, c, v) = Asdu(c, 1, v)
           /\ send_measured_float(sink, c, v) = Asdu(c, 13, v)
           /\ send_measured_scaled(sink, c, v) = Asdu(c, 11, v)
<1>1. /\ ServerSend("single_point", c, v) = Asdu(c, 1, v)
      /\ ServerSend("measured_float", c, v) = Asdu(c, 13, v)
      /\ ServerSend("measured_scaled", c, v) = Asdu(c, 11, v)
  BY DEF ServerSend
<1>2. /\ send_untimed_to_connection(c, UntimedValue("Single", v)) = Asdu(c, 1, v)
      /\ send_untimed_to_connection(c, UntimedValue("Float", v)) = Asdu(c, 13, v)
      /\ send_untimed_to_connection(c, UntimedValue("Scaled", v)) = Asdu(c, 11, v)
  BY DEF send_untimed_to_connection, UntimedValue
<1> QED BY <1>1, <1>2 DEF send_single_point, send_measured_float, send_measured_scaled

\* Both build the same object of a timed one, and LiveSink does send it.
LEMMA TimedSinksAgree ==
    ASSUME NEW sink \in Sinks, NEW c, NEW dt, NEW v
    PROVE  enqueue_timed(sink, TimedDispatch(c, dt, v)) = create_information_object(c, dt, v)
<1> DEFINE m == TimedDispatch(c, dt, v)
           n == [m EXCEPT !.server_ptr = TRUE]
<1>1. m.context = c /\ m.data_type = dt /\ m.value = v
  BY DEF TimedDispatch
<1>2. n.context = c /\ n.data_type = dt /\ n.value = v /\ n.server_ptr
  BY DEF TimedDispatch
<1>3. timed_asdu(m) = create_information_object(c, dt, v)
  BY <1>1 DEF timed_asdu
<1>4. enqueue_timed_asdu(n) = create_information_object(c, dt, v)
  BY <1>2 DEF timed_asdu, enqueue_timed_asdu
<1> QED BY <1>3, <1>4 DEF enqueue_timed

\* Whichever sink is called, and by whichever of the five functions, timed or
\* not.
LEMMA ContextShape ==
    ASSUME NEW sink \in Sinks, NEW c, c.data_type \in DataTypes, NEW v \in DataValues
    PROVE  dispatch_context(sink, c, v) =
             Asdu(c, TypeId(c.data_type, c.timestamp # None), ValueFor(c.data_type, v))
<1> USE SameConversions, SinksAgree, TimedSinksAgree
        DEF create_information_object, TypeId, ValueFor
<1>1. CASE c.data_type = "single_point"
  BY <1>1 DEF dispatch_context, dispatch_single_point
<1>2. CASE c.data_type = "double_point"
  BY <1>2 DEF dispatch_context, dispatch_double_point, dispatch_single_point
<1>3. CASE c.data_type = "scaled"
  BY <1>3 DEF dispatch_context, dispatch_scaled
<1>4. CASE c.data_type = "float"
  BY <1>4 DEF dispatch_context, dispatch_float_like
<1>5. CASE c.data_type = "normalized"
  BY <1>5 DEF dispatch_context, dispatch_float_like
<1> QED BY <1>1, <1>2, <1>3, <1>4, <1>5 DEF DataTypes

\* The type inferred from a value is one of the data types.
LEMMA DataTypeType == ASSUME NEW msg \in Messages PROVE DataTypeOf(msg) \in DataTypes
BY DEF DataTypeOf, infer_type, Messages, DataTypes

\* Is a message, received at r and sent at t, too old to be topical?
NotTopical(msg, r, t, policy) ==
    /\ policy.max_age # None
    /\ \/ older_than(r, t, policy.max_age)
       \/ msg.timestamp # None /\ older_than(msg.timestamp, t, policy.max_age)
    /\ msg.quality # "invalid"

TimeTag(msg, policy) ==
    IF policy.send_timestamps /\ msg.timestamp # None
    THEN offset_datetime_to_cp56_timestamp(msg.timestamp) ELSE None

\* The ASDU, with its cause of transmission, in one formula.
Shape(msg, cot, r, t, policy) ==
    [type_id |-> TypeId(DataTypeOf(msg), TimeTag(msg, policy) # None),
     cot     |-> map_cot(cot),
     ca      |-> IF msg.ca = None THEN DefaultCa ELSE msg.ca,
     ioa     |-> msg.ioa,
     value   |-> ValueFor(DataTypeOf(msg), msg.value),
     quality |-> map_quality(msg.quality) \cup (IF NotTopical(msg, r, t, policy) THEN {"NT"} ELSE {}),
     time    |-> TimeTag(msg, policy)]

\* dispatch_outgoing of a message m of that quality and type.
LEMMA OutgoingShape ==
    ASSUME NEW sink \in Sinks, NEW m \in Messages, NEW nt \in BOOLEAN
    PROVE  dispatch_outgoing(sink, [message |-> m, not_topical |-> nt], DefaultCa) =
             [type_id |-> TypeId(DataTypeOf(m), DispatchContext(m, DefaultCa).timestamp # None),
              cot     |-> map_cot(m.cot),
              ca      |-> IF m.ca = None THEN DefaultCa ELSE m.ca,
              ioa     |-> m.ioa,
              value   |-> ValueFor(DataTypeOf(m), m.value),
              quality |-> map_quality(m.quality) \cup (IF nt THEN {"NT"} ELSE {}),
              time    |-> DispatchContext(m, DefaultCa).timestamp]
<1> DEFINE d == DispatchContext(m, DefaultCa)
           c == IF nt THEN [d EXCEPT !.quality = @ \cup {"NT"}] ELSE d
<1>1. /\ d.ca = (IF m.ca = None THEN DefaultCa ELSE m.ca) /\ d.ioa = m.ioa
      /\ d.quality = map_quality(m.quality) /\ d.cot = map_cot(m.cot)
      /\ d.data_type = DataTypeOf(m)
  BY DEF DispatchContext, DataTypeOf
<1>2. /\ c.ca = d.ca /\ c.ioa = d.ioa /\ c.cot = d.cot /\ c.data_type = d.data_type
      /\ c.timestamp = d.timestamp /\ c.quality = d.quality \cup (IF nt THEN {"NT"} ELSE {})
  BY DEF DispatchContext
<1>3. m.value \in DataValues /\ DataTypeOf(m) \in DataTypes
  BY DataTypeType DEF Messages
<1>4. dispatch_outgoing(sink, [message |-> m, not_topical |-> nt], DefaultCa)
        = dispatch_context(sink, c, m.value)
  BY DEF dispatch_outgoing
<1> HIDE DEF c, d
<1>5. dispatch_context(sink, c, m.value)
        = Asdu(c, TypeId(c.data_type, c.timestamp # None), ValueFor(c.data_type, m.value))
  BY <1>1, <1>2, <1>3, ContextShape
<1>6. dispatch_context(sink, c, m.value) =
        [type_id |-> TypeId(DataTypeOf(m), d.timestamp # None), cot |-> map_cot(m.cot),
         ca |-> IF m.ca = None THEN DefaultCa ELSE m.ca, ioa |-> m.ioa,
         value |-> ValueFor(DataTypeOf(m), m.value),
         quality |-> map_quality(m.quality) \cup (IF nt THEN {"NT"} ELSE {}), time |-> d.timestamp]
  BY <1>1, <1>2, <1>5 DEF Asdu
<1> QED BY <1>4, <1>6 DEF d

\* Through either sink, with the message's cause of transmission and with that
\* of a replay.
LEMMA SentShape ==
    ASSUME NEW sink \in Sinks, NEW msg \in Messages, NEW r \in Int, NEW t \in Int,
           NEW policy \in Policies
    PROVE  LET out == prepare_for_output(msg, r, t, policy) IN
           /\ dispatch_outgoing(sink, out, DefaultCa) = Shape(msg, msg.cot, r, t, policy)
           /\ dispatch_outgoing(sink, [out EXCEPT !.message.cot = "interrogated"], DefaultCa)
                = Shape(msg, "interrogated", r, t, policy)
<1> DEFINE m == IF policy.send_timestamps THEN msg ELSE [msg EXCEPT !.timestamp = None]
           i == [m EXCEPT !.cot = "interrogated"]
           nt == NotTopical(msg, r, t, policy)
           out == prepare_for_output(msg, r, t, policy)
<1>1. out = [message |-> m, not_topical |-> nt]
  BY DEF prepare_for_output, NotTopical
<1>2. [out EXCEPT !.message.cot = "interrogated"] = [message |-> i, not_topical |-> nt]
  BY <1>1
<1>3. m \in Messages /\ i \in Messages /\ nt \in BOOLEAN
  BY DEF Messages, CotFields, NotTopical
<1>4. /\ m.ioa = msg.ioa /\ m.value = msg.value /\ m.data_type = msg.data_type /\ m.ca = msg.ca
      /\ m.quality = msg.quality /\ m.cot = msg.cot
      /\ m.timestamp = IF policy.send_timestamps THEN msg.timestamp ELSE None
  BY DEF Messages
<1>5. /\ i.ioa = m.ioa /\ i.value = m.value /\ i.data_type = m.data_type /\ i.ca = m.ca
      /\ i.quality = m.quality /\ i.cot = "interrogated" /\ i.timestamp = m.timestamp
  BY <1>3 DEF Messages
<1>6. DataTypeOf(m) = DataTypeOf(msg) /\ DataTypeOf(i) = DataTypeOf(msg)
  BY <1>4, <1>5 DEF DataTypeOf
<1>7. /\ DispatchContext(m, DefaultCa).timestamp = TimeTag(msg, policy)
      /\ DispatchContext(i, DefaultCa).timestamp = TimeTag(msg, policy)
  BY <1>4, <1>5 DEF DispatchContext, TimeTag
<1> HIDE DEF m, i, nt, out
<1>8. dispatch_outgoing(sink, out, DefaultCa) = Shape(msg, msg.cot, r, t, policy)
  BY <1>1, <1>3, <1>4, <1>6, <1>7, OutgoingShape DEF Shape, nt
<1>9. dispatch_outgoing(sink, [out EXCEPT !.message.cot = "interrogated"], DefaultCa)
        = Shape(msg, "interrogated", r, t, policy)
  BY <1>2, <1>3, <1>4, <1>5, <1>6, <1>7, OutgoingShape DEF Shape, nt
<1> QED BY <1>8, <1>9 DEF out

\* Its two halves, for use one at a time.
LEMMA UpdateShape ==
    ASSUME NEW sink \in Sinks, NEW msg \in Messages, NEW r \in Int, NEW t \in Int,
           NEW policy \in Policies
    PROVE  dispatch_outgoing(sink, prepare_for_output(msg, r, t, policy), DefaultCa)
             = Shape(msg, msg.cot, r, t, policy)
BY SentShape, Zenon

LEMMA ReplyShape ==
    ASSUME NEW msg \in Messages, NEW r \in Int, NEW t \in Int, NEW policy \in Policies
    PROVE  dispatch_outgoing("ConnectionSink",
               [prepare_for_output(msg, r, t, policy) EXCEPT !.message.cot = "interrogated"],
               DefaultCa)
             = Shape(msg, "interrogated", r, t, policy)
<1>1. "ConnectionSink" \in Sinks
  BY DEF Sinks
<1> QED BY <1>1, SentShape, Zenon

-----------------------------------------------------------------------------
(* Values that fit.                                                        *)

\* Cutting off the fraction of a number between the limits of an i16.
LEMMA TruncBounds ==
    ASSUME NEW n \in Int, One * I16Min <= n, n <= One * I16Max
    PROVE  /\ trunc(n) \in Int /\ I16Min <= trunc(n) /\ trunc(n) <= I16Max
           /\ n % One = 0 => One * trunc(n) = n
<1>1. CASE n < 0
  <2>1. trunc(n) = -1 * ((-n) \div 4)
    BY <1>1 DEF trunc, Sign, Abs, One
  <2>2. -131072 <= n /\ n <= 131068
    BY DEF One, I16Min, I16Max
  <2> QED BY <1>1, <2>1, <2>2 DEF One, I16Min, I16Max
<1>2. CASE ~(n < 0)
  <2>1. trunc(n) = 1 * (n \div 4)
    BY <1>2 DEF trunc, Sign, Abs, One
  <2>2. -131072 <= n /\ n <= 131068
    BY DEF One, I16Min, I16Max
  <2> QED BY <1>2, <2>1, <2>2 DEF One, I16Min, I16Max
<1> QED BY <1>1, <1>2

\* The field of a scaled ASDU holds what as_scaled_value returns.
LEMMA ScaledFits == ASSUME NEW v \in DataValues PROVE as_scaled_value(v) \in I16Min..I16Max
<1>0. I16Min \in Int /\ I16Max \in Int /\ I16Min <= 0 /\ 1 <= I16Max /\ One \in Nat
  BY DEF I16Min, I16Max, One
<1>1. CASE v = Bool(TRUE) \/ v = Bool(FALSE)
  <2>1. v.tag = "bool" /\ v.v \in {0, 1}
    BY <1>1 DEF Bool
  <2> QED BY <1>0, <2>1 DEF as_scaled_value
<1>2. CASE v \in [tag : {"number"}, v : Int]
  <2>1. PICK n \in Int : n = clamp_i16(v.v) /\ One * I16Min <= n /\ n <= One * I16Max
    <3>1. v.v \in Int
      BY <1>2
    <3>2. One * I16Min \in Int /\ One * I16Max \in Int /\ One * I16Min <= One * I16Max
      BY DEF One, I16Min, I16Max
    <3> QED BY <3>1, <3>2 DEF clamp_i16
  <2>2. as_scaled_value(v) = trunc(n)
    BY <1>2, <2>1 DEF as_scaled_value
  <2> QED BY <1>0, <2>1, <2>2, TruncBounds
<1> QED BY <1>1, <1>2 DEF DataValues

\* A number between -1 and 1 is an f32.
LEMMA SmallIsExact == ASSUME NEW n \in -One..One PROVE f32(n) = n
<1> DEFINE K == CHOOSE j \in 0..7 :
                  Abs(n) < 2^(24 + j) /\ (j = 0 \/ Abs(n) >= 2^(23 + j))
<1>1. n \in Int /\ -4 <= n /\ n <= 4
  BY DEF One
<1>2. PICK a \in Nat : a = Abs(n) /\ a <= 4 /\ n = Sign(n) * a
  BY <1>1 DEF Abs, Sign
<1>3. 2^24 = 16777216
  OBVIOUS
<1>4. ASSUME NEW j \in 1..7 PROVE 4 < 2^(23 + j)
  <2>1. j = 1 \/ j = 2 \/ j = 3 \/ j = 4 \/ j = 5 \/ j = 6 \/ j = 7
    OBVIOUS
  <2>2. /\ 4 < 2^(23 + 1) /\ 4 < 2^(23 + 2) /\ 4 < 2^(23 + 3) /\ 4 < 2^(23 + 4)
        /\ 4 < 2^(23 + 5) /\ 4 < 2^(23 + 6) /\ 4 < 2^(23 + 7)
    OBVIOUS
  <2> QED BY <2>1, <2>2, Zenon
<1>5. K \in 0..7 /\ (K = 0 \/ Abs(n) >= 2^(23 + K))
  <2>1. 0 \in 0..7 /\ Abs(n) < 2^(24 + 0)
    BY <1>2, <1>3
  <2> QED BY <2>1
<1>6. K = 0
  BY <1>2, <1>4, <1>5
<1> DEFINE F(k) == LET q == Abs(n) \div 2^k
                       r == Abs(n) % 2^k
                       up == 2 * r > 2^k \/ (2 * r = 2^k /\ q % 2 = 1)
                   IN  Sign(n) * (IF up THEN q + 1 ELSE q) * 2^k
<1>7. f32(n) = F(K)
  BY DEF f32
<1>8. F(K) = F(0)
  <2> HIDE DEF K, F
  <2> QED BY <1>6
<1>9. F(0) = Sign(n) * a
  <2>1. 2^0 = 1 /\ a % 1 = 0 /\ a \div 1 = a
    BY <1>2
  <2>2. Sign(n) \in {-1, 1}
    BY DEF Sign
  <2> QED BY <1>2, <2>1, <2>2
<1> HIDE DEF F
<1> QED BY <1>2, <1>7, <1>8, <1>9

\* A number that is inferred to be a scaled value is sent as what it is.
LEMMA InferredExact ==
    ASSUME NEW v \in DataValues, infer_type(v) = "scaled"
    PROVE  One * as_scaled_value(v) = v.v
<1>1. v.tag # "bool" /\ is_scaled_number(v.v)
  BY DEF infer_type
<1>2. v \in [tag : {"number"}, v : Int]
  BY <1>1 DEF DataValues, Bool
<1>3. PICK n \in Int : n = v.v
  BY <1>2
<1>4. n % One = 0 /\ One * I16Min <= n /\ n <= One * I16Max
  BY <1>1, <1>3 DEF is_scaled_number, One, I16Min, I16Max
<1>5. as_scaled_value(v) = trunc(n)
  <2>1. clamp_i16(n) = n
    BY <1>4 DEF clamp_i16, One, I16Min, I16Max
  <2> QED BY <1>1, <1>3, <2>1 DEF as_scaled_value
<1> QED BY <1>3, <1>4, <1>5, TruncBounds

\* What is sent of a valid message is well formed, whenever and for whatever
\* cause.
LEMMA ShapeWellFormed ==
    ASSUME NEW msg \in Messages, validate_message(msg), NEW cot, NEW r, NEW t,
           NEW policy \in Policies
    PROVE  WellFormed(Shape(msg, cot, r, t, policy))
<1> DEFINE a == Shape(msg, cot, r, t, policy)
           dt == DataTypeOf(msg)
           timed == TimeTag(msg, policy) # None
<1>1. /\ a.type_id = TypeId(dt, timed) /\ a.ioa = msg.ioa
      /\ a.value = ValueFor(dt, msg.value) /\ a.time = TimeTag(msg, policy)
  BY DEF Shape
<1>2. msg.ioa \in IoaRange /\ msg.value \in DataValues /\ dt \in DataTypes
  BY DataTypeType DEF validate_message, validate_ioa, Messages
<1>3. as_single_point_value(msg.value) \in {0, 1}
  BY DEF as_single_point_value
<1>4. as_scaled_value(msg.value) \in I16Min..I16Max
  BY <1>2, ScaledFits
<1>4a. dt = "normalized" => as_float_value(msg.value) \in -One..One
  <2>1. ASSUME dt = "normalized" PROVE msg.value.tag = "number" /\ msg.value.v \in -One..One
    BY <2>1 DEF DataTypeOf, infer_type, validate_message, validate_normalized_value
  <2>2. ASSUME dt = "normalized" PROVE as_float_value(msg.value) = msg.value.v
    BY <2>1, <2>2, SmallIsExact DEF as_float_value
  <2> QED BY <2>1, <2>2
<1> HIDE DEF a, dt, timed
<1>5. /\ TypeId(dt, timed) \in WireTypes
      /\ TypeId(dt, timed) \in {30, 34, 35, 36} <=> timed
      /\ TypeId(dt, timed) \in {1, 30} => dt \in {"single_point", "double_point"}
      /\ TypeId(dt, timed) \in {11, 35} => dt = "scaled"
      /\ TypeId(dt, timed) = 34 => dt = "normalized"
  <2>1. CASE timed
    BY <1>2, <2>1 DEF TypeId, WireTypes, DataTypes
  <2>2. CASE ~timed
    BY <1>2, <2>2 DEF TypeId, WireTypes, DataTypes
  <2> QED BY <2>1, <2>2
<1>6. /\ dt \in {"single_point", "double_point"} => a.value \in {0, 1}
      /\ dt = "scaled" => a.value \in I16Min..I16Max
      /\ dt = "normalized" => a.value \in -One..One
  BY <1>1, <1>3, <1>4, <1>4a DEF ValueFor
<1>7. timed <=> a.time # None
  BY <1>1 DEF timed
<1>8. WellFormed(a)
  BY <1>1, <1>2, <1>5, <1>6, <1>7 DEF WellFormed
<1> QED BY <1>8 DEF a

-----------------------------------------------------------------------------
(* The point over time.                                                    *)

Kept ==
    /\ cached.message \in Messages /\ validate_message(cached.message)
    /\ cached.received_at \in 0..now

\* Inductive: what was sent of the point is what dispatching makes of the
\* cached message, live when it arrived and as a reply at some moment since.
OutInv ==
    /\ now \in 0..MaxTime
    /\ cached # None => Kept
    /\ live # None =>
        /\ Kept
        /\ live = Shape(cached.message, cached.message.cot,
                        cached.received_at, cached.received_at, Policy)
    /\ gi # None =>
        /\ Kept
        /\ \E t \in cached.received_at..now :
             gi = Shape(cached.message, "interrogated", cached.received_at, t, Policy)

\* A message that arrives starts the point anew.
LEMMA OutReceive ==
    ASSUME OutInv, NEW msg \in Inputs, handle_incoming_message(msg) PROVE OutInv'
<1>1. msg \in Messages /\ validate_message(msg) /\ now \in 0..MaxTime /\ now' = now /\ now \in Int
  BY InputsAssumption, PolicyAssumption DEF handle_incoming_message, OutInv
<1>2. cached'.message = msg /\ cached'.received_at = now
  BY DEF handle_incoming_message, CachedPoint
<1>3. Kept'
  BY <1>1, <1>2 DEF Kept
<1>4. live' # None => live' = Shape(msg, msg.cot, now, now, Policy)
  BY <1>1, SentShape, PolicyAssumption DEF handle_incoming_message, Sinks
<1>5. gi' = None
  BY DEF handle_incoming_message
<1> QED BY <1>1, <1>2, <1>3, <1>4, <1>5 DEF OutInv

\* A replay sends the cached message as of now.
LEMMA Replied ==
    ASSUME OutInv, replay_cached_values
    PROVE  gi' = Shape(cached.message, "interrogated", cached.received_at, now, Policy)
<1>1. PICK m, r : m = cached.message /\ r = cached.received_at
  OBVIOUS
<1>2. m \in Messages /\ r \in Int /\ now \in Int /\ Policy \in Policies
  BY <1>1, PolicyAssumption DEF OutInv, Kept, replay_cached_values
<1>3. gi' = dispatch_outgoing("ConnectionSink",
              [prepare_for_output(m, r, now, Policy) EXCEPT !.message.cot = "interrogated"],
              DefaultCa)
  BY <1>1, Zenon DEF replay_cached_values
<1> QED BY <1>1, <1>2, <1>3, ReplyShape, Zenon

\* It keeps the invariant.
LEMMA OutReplay == ASSUME OutInv, replay_cached_values PROVE OutInv'
<1>1. Kept /\ UNCHANGED <<now, cached, live>> /\ now \in Nat
  BY PolicyAssumption DEF replay_cached_values, OutInv
<1>2. gi' = Shape(cached.message, "interrogated", cached.received_at, now, Policy)
  BY Replied
<1>3. now \in cached.received_at..now
  BY <1>1 DEF Kept
<1>4. Kept'
  BY <1>1 DEF Kept
<1> QED BY <1>1, <1>2, <1>3, <1>4 DEF OutInv

\* The clock changes nothing that was sent.
LEMMA OutTick == ASSUME OutInv, Tick PROVE OutInv'
<1>1. now' = now + 1 /\ now \in Nat /\ now < MaxTime /\ UNCHANGED <<cached, live, gi>>
  BY PolicyAssumption DEF Tick, OutInv
<1>2. Kept => Kept'
  BY <1>1 DEF Kept
<1>3. ASSUME Kept, NEW t \in cached.received_at..now PROVE t \in cached.received_at..now'
  BY <1>1, <1>3 DEF Kept
<1>4. now' \in 0..MaxTime
  BY <1>1, PolicyAssumption
<1> QED BY <1>1, <1>2, <1>3, <1>4 DEF OutInv

\* Every step keeps the invariant.
LEMMA OutStep == OutInv /\ [Next]_vars => OutInv'
<1> SUFFICES ASSUME OutInv, [Next]_vars PROVE OutInv'
  OBVIOUS
<1>1. CASE UNCHANGED vars
  BY <1>1 DEF vars, OutInv, Kept
<1> QED BY <1>1, OutReceive, OutReplay, OutTick DEF Next

\* Nothing was received, and nothing sent, at the start.
LEMMA OutInit == Init => OutInv
BY PolicyAssumption DEF Init, OutInv

\* So it always holds of the point.
LEMMA OutAlways == Spec => []OutInv
BY OutInit, OutStep, PTL DEF Spec

\* Whatever the source yields that passes validation, the bridge caches and
\* sends only ASDUs of the seven types with addresses and values that fit
\* (validate_message, dispatch_context, create_information_object).
THEOREM OutputWellFormed == Spec => []TypeOK
<1>1. ASSUME OutInv PROVE TypeOK
  <2>1. live # None => WellFormed(live)
    BY <1>1, ShapeWellFormed, PolicyAssumption DEF OutInv, Kept
  <2>2. gi # None => WellFormed(gi)
    BY <1>1, ShapeWellFormed, PolicyAssumption DEF OutInv, Kept
  <2> QED BY <1>1, <2>1, <2>2, PolicyAssumption DEF OutInv, Kept, TypeOK
<1> QED BY <1>1, OutAlways, PTL

\* For every message and policy an interrogation repeats the live update, but
\* for the cause and an added NT (replay_cached_values, handle_incoming_message).
THEOREM ReplyRepeatsLive == Spec => []GiRepeatsLive
<1>1. ASSUME OutInv, live # None, gi # None
      PROVE  /\ gi.cot = "InterrogatedByStation"
             /\ live.quality \subseteq gi.quality /\ gi.quality \subseteq live.quality \cup {"NT"}
             /\ [gi EXCEPT !.cot = live.cot, !.quality = live.quality] = live
  <2>1. PICK m \in Messages, r \in Nat, t \in Int :
          /\ live = Shape(m, m.cot, r, r, Policy) /\ gi = Shape(m, "interrogated", r, t, Policy)
          /\ t >= r
    BY <1>1, PolicyAssumption DEF OutInv, Kept
  <2>2. gi.cot = "InterrogatedByStation"
    BY <2>1 DEF Shape, map_cot
  <2>3. NotTopical(m, r, r, Policy) => NotTopical(m, r, t, Policy)
    BY <2>1, PolicyAssumption DEF NotTopical, older_than, Policies, Messages
  <2>4. live.quality \subseteq gi.quality /\ gi.quality \subseteq live.quality \cup {"NT"}
    BY <2>1, <2>3 DEF Shape
  <2>5. [gi EXCEPT !.cot = live.cot, !.quality = live.quality] = live
    <3> DEFINE ty == TypeId(DataTypeOf(m), TimeTag(m, Policy) # None)
               ca == IF m.ca = None THEN DefaultCa ELSE m.ca
               v  == ValueFor(DataTypeOf(m), m.value)
               ti == TimeTag(m, Policy)
               A(c, q) == [type_id |-> ty, cot |-> c, ca |-> ca, ioa |-> m.ioa, value |-> v,
                           quality |-> q, time |-> ti]
    <3>1. live = A(live.cot, live.quality) /\ gi = A(gi.cot, gi.quality)
      BY <2>1 DEF Shape
    <3> HIDE DEF ty, ca, v, ti
    <3>2. [gi EXCEPT !.cot = live.cot, !.quality = live.quality]
            = [[gi EXCEPT !.cot = live.cot] EXCEPT !.quality = live.quality]
      OBVIOUS
    <3>3. [gi EXCEPT !.cot = live.cot] = A(live.cot, gi.quality)
      BY <3>1
    <3>4. [A(live.cot, gi.quality) EXCEPT !.quality = live.quality] = A(live.cot, live.quality)
      OBVIOUS
    <3> QED BY <3>1, <3>2, <3>3, <3>4
  <2> QED BY <2>2, <2>4, <2>5
<1>2. OutInv => GiRepeatsLive
  BY <1>1 DEF GiRepeatsLive
<1> QED BY <1>2, OutAlways, PTL

\* IEC104_TIMESTAMPS changes the time tag and the type only, for every message
\* (prepare_for_output, create_information_object against the untimed sinks).
THEOREM TimestampsOnlyAddTime == Spec => []TimeTagIsOrthogonal
<1>1. ASSUME OutInv, cached # None, NEW sink \in Sinks,
             NEW f \in {"value", "quality", "ca", "ioa", "cot"}
      PROVE  Sent(sink, [Policy EXCEPT !.send_timestamps = TRUE])[f]
               = Sent(sink, [Policy EXCEPT !.send_timestamps = FALSE])[f]
  <2>1. PICK on \in Policies, off \in Policies :
          /\ on = [Policy EXCEPT !.send_timestamps = TRUE]
          /\ off = [Policy EXCEPT !.send_timestamps = FALSE]
          /\ on.max_age = off.max_age
    <3>1. /\ [Policy EXCEPT !.send_timestamps = TRUE] \in Policies
          /\ [Policy EXCEPT !.send_timestamps = TRUE].max_age = Policy.max_age
      BY PolicyAssumption DEF Policies
    <3>2. /\ [Policy EXCEPT !.send_timestamps = FALSE] \in Policies
          /\ [Policy EXCEPT !.send_timestamps = FALSE].max_age = Policy.max_age
      BY PolicyAssumption DEF Policies
    <3> QED BY <3>1, <3>2, Zenon
  <2>2. PICK m \in Messages, r \in Int : m = cached.message /\ r = cached.received_at /\ now \in Int
    BY <1>1, PolicyAssumption DEF OutInv, Kept
  <2>3. Sent(sink, on) = Shape(m, m.cot, r, now, on) /\ Sent(sink, off) = Shape(m, m.cot, r, now, off)
    <3>1. ASSUME NEW p \in Policies PROVE Sent(sink, p) = Shape(m, m.cot, r, now, p)
      <4>1. dispatch_outgoing(sink, prepare_for_output(m, r, now, p), DefaultCa)
              = Shape(m, m.cot, r, now, p)
        BY <2>2, UpdateShape
      <4> QED BY <2>2, <4>1 DEF Sent
    <3> QED BY <3>1
  <2>4. NotTopical(m, r, now, on) <=> NotTopical(m, r, now, off)
    BY <2>1 DEF NotTopical
  <2>5. Shape(m, m.cot, r, now, on)[f] = Shape(m, m.cot, r, now, off)[f]
    <3>1. f = "value" \/ f = "quality" \/ f = "ca" \/ f = "ioa" \/ f = "cot"
      OBVIOUS
    <3>2. ASSUME NEW p \in Policies
          PROVE  /\ Shape(m, m.cot, r, now, p).value = ValueFor(DataTypeOf(m), m.value)
                 /\ Shape(m, m.cot, r, now, p).quality = map_quality(m.quality)
                       \cup (IF NotTopical(m, r, now, p) THEN {"NT"} ELSE {})
                 /\ Shape(m, m.cot, r, now, p).ca = IF m.ca = None THEN DefaultCa ELSE m.ca
                 /\ Shape(m, m.cot, r, now, p).ioa = m.ioa
                 /\ Shape(m, m.cot, r, now, p).cot = map_cot(m.cot)
      BY DEF Shape
    <3> QED BY <2>4, <3>1, <3>2
  <2> QED BY <2>1, <2>3, <2>5
<1>2. OutInv => TimeTagIsOrthogonal
  BY <1>1 DEF TimeTagIsOrthogonal
<1> QED BY <1>2, OutAlways, PTL

\* Choosing the type by inference never changes a value, for every number
\* (infer_type, is_scaled_number, as_scaled_value).
THEOREM InferenceIsExact == Spec => []InferredScaledIsExact
<1>1. ASSUME OutInv, live # None, cached.message.data_type = None, live.type_id \in {11, 35}
      PROVE  One * live.value = cached.message.value.v
  <2>1. PICK m \in Messages : m = cached.message
    BY <1>1 DEF OutInv, Kept
  <2>2. /\ live.type_id = TypeId(DataTypeOf(m), TimeTag(m, Policy) # None)
        /\ live.value = ValueFor(DataTypeOf(m), m.value)
    BY <1>1, <2>1 DEF OutInv, Shape
  <2>3. DataTypeOf(m) \in DataTypes /\ m.value \in DataValues
    BY DataTypeType DEF Messages
  <2>4. DataTypeOf(m) = "scaled"
    BY <1>1, <2>2, <2>3 DEF TypeId, DataTypes
  <2>5. infer_type(m.value) = "scaled"
    BY <1>1, <2>1, <2>4 DEF DataTypeOf
  <2>6. live.value = as_scaled_value(m.value)
    BY <2>2, <2>4 DEF ValueFor
  <2> QED BY <2>1, <2>3, <2>5, <2>6, InferredExact
<1>2. OutInv => InferredScaledIsExact
  BY <1>1 DEF InferredScaledIsExact
<1> QED BY <1>2, OutAlways, PTL

\* A point that was silent for too long is not topical, and stays so until a
\* message arrives, however long it takes (prepare_for_output).
THEOREM SilenceShows == Spec => SilentPointIsNotTopical
<1>1. ASSUME OutInv, [Next]_vars, gi # None, gi' # None, "NT" \in gi.quality
      PROVE  "NT" \in gi'.quality
  <2>1. PICK m \in Messages, r \in Nat, t \in Int :
          /\ m = cached.message /\ r = cached.received_at
          /\ gi = Shape(m, "interrogated", r, t, Policy) /\ t <= now /\ now \in Nat
    BY <1>1, PolicyAssumption DEF OutInv, Kept
  <2>2. CASE replay_cached_values
    <3>1. gi' = Shape(m, "interrogated", r, now, Policy)
      BY <1>1, <2>1, <2>2, Replied
    <3>2. NotTopical(m, r, t, Policy) => NotTopical(m, r, now, Policy)
      BY <2>1, PolicyAssumption DEF NotTopical, older_than, Policies, Messages
    <3> QED BY <1>1, <2>1, <3>1, <3>2 DEF Shape
  <2>3. CASE Tick \/ UNCHANGED vars
    BY <1>1, <2>3 DEF Tick, vars
  <2>4. CASE \E msg \in Inputs : handle_incoming_message(msg)
    BY <1>1, <2>4 DEF handle_incoming_message
  <2> QED BY <1>1, <2>2, <2>3, <2>4 DEF Next
<1>2. ASSUME OutInv, replay_cached_values, Policy.max_age # None
      PROVE  IF cached.message.quality = "invalid" THEN gi'.quality = {"IV"}
             ELSE now - cached.received_at > Policy.max_age => "NT" \in gi'.quality
  <2>1. PICK m \in Messages, r \in Nat : m = cached.message /\ r = cached.received_at /\ now \in Nat
    BY <1>2, PolicyAssumption DEF OutInv, Kept, replay_cached_values
  <2>2. gi' = Shape(m, "interrogated", r, now, Policy)
    BY <1>2, <2>1, Replied
  <2>3. m.quality = "invalid" => map_quality(m.quality) = {"IV"} /\ ~NotTopical(m, r, now, Policy)
    BY DEF map_quality, NotTopical
  <2>4. m.quality # "invalid" /\ now - r > Policy.max_age => NotTopical(m, r, now, Policy)
    BY <1>2 DEF NotTopical, older_than
  <2> QED BY <2>1, <2>2, <2>3, <2>4 DEF Shape
<1>3. OutInv /\ [Next]_vars =>
        [/\ gi # None /\ gi' # None /\ "NT" \in gi.quality => "NT" \in gi'.quality
         /\ replay_cached_values /\ Policy.max_age # None =>
              IF cached.message.quality = "invalid" THEN gi'.quality = {"IV"}
              ELSE now - cached.received_at > Policy.max_age => "NT" \in gi'.quality]_vars
  BY <1>1, <1>2
<1> QED BY <1>3, OutAlways, PTL DEF Spec, SilentPointIsNotTopical
=============================================================================
