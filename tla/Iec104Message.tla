--------------------------- MODULE Iec104Message ---------------------------
(***************************************************************************)
(* The messages the sources yield (message.rs) and their semantic          *)
(* validation (validation.rs).                                             *)
(*                                                                         *)
(* A JSON number is an f64; here it is an integer count of quarters, so 11 *)
(* stands for 2.75.  A time is an integer count of nanoseconds, before or  *)
(* after 1970.                                                             *)
(***************************************************************************)
EXTENDS Integers

CONSTANT None  \* an absent optional field

ASSUME NoneAssumption == None \notin Int

One == 4  \* 1.0 in quarters

Bool(b)   == [tag |-> "bool", v |-> IF b THEN 1 ELSE 0]
Number(n) == [tag |-> "number", v |-> n]

DataTypes == {"float", "scaled", "normalized", "single_point", "double_point"}

QualityFields == {"good", "invalid", "not_topical", "substituted", "blocked", "overflow"}

CotFields ==
    {"spontaneous", "periodic", "background_scan", "interrogated",
     "return_info_remote", "return_info_local"}

\* An Iec104Message; the last five fields may be absent from the JSON, with
\* None, "good" and "spontaneous" as the defaults.
Message(ioa, value, data_type, ca, quality, cot, timestamp) ==
    [ioa |-> ioa, value |-> value, data_type |-> data_type, ca |-> ca,
     quality |-> quality, cot |-> cot, timestamp |-> timestamp]

U16 == 0..65535

\* Whatever the JSON parser accepts; u32 and f64 are any naturals and numbers.
DataValues == {Bool(TRUE), Bool(FALSE)} \cup [tag : {"number"}, v : Int]

Messages ==
    [ioa : Nat, value : DataValues, data_type : DataTypes \cup {None},
     ca : U16 \cup {None}, quality : QualityFields, cot : CotFields,
     timestamp : Int \cup {None}]

-----------------------------------------------------------------------------
IoaRange == 1..16777215
CaRange  == 1..65534

validate_ioa(ioa) == ioa \in IoaRange

validate_ca(ca) == ca # None => ca \in CaRange

validate_timestamp(timestamp) == timestamp # None => timestamp >= 0

validate_normalized_value(data_type, value) ==
    data_type = "normalized" => value.tag = "number" /\ value.v \in -One..One

validate_boolean_point_value(data_type, value) ==
    data_type \in {"single_point", "double_point"} => value.tag = "bool"

validate_message(msg) ==
    /\ validate_ioa(msg.ioa)
    /\ validate_ca(msg.ca)
    /\ validate_timestamp(msg.timestamp)
    /\ validate_normalized_value(msg.data_type, msg.value)
    /\ validate_boolean_point_value(msg.data_type, msg.value)
=============================================================================
