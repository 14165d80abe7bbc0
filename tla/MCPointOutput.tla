--------------------------- MODULE MCPointOutput ---------------------------
(* Instances of PointOutput for TLC: values on both sides of every limit   *)
(* the code tests, and every type, quality and cause.                      *)
EXTENDS PointOutput

\* 0, 0.25, 1, 1.25, -1.25, 2.75, the limits of i16 and 2^24 + 1 (not an f32).
MCNumbers ==
    {0, 1, 4, 5, -4, -5, 11, -11, One * I16Max, One * I16Max + 1, One * (I16Max + 1),
     One * I16Min, One * I16Min - 1, One * (I16Min - 1), One * 16777217}
MCValues == {Number(n) : n \in MCNumbers} \cup {Bool(TRUE), Bool(FALSE)}

\* Every type with every value.
MCTyped ==
    {Message(1, v, t, None, "good", "spontaneous", ts) :
        v \in MCValues, t \in DataTypes \cup {None}, ts \in {None, 3}}

\* Every quality, every cause, past and future source times, the limits of
\* the addresses.
MCShaped ==
    {Message(1, Number(11), None, None, q, "spontaneous", ts) :
        q \in QualityFields, ts \in {None, -1, 0, 3, 9}}
    \cup {Message(1, Bool(TRUE), None, None, "good", c, ts) : c \in CotFields, ts \in {None, 0}}
MCAddressed ==
    {Message(ioa, Number(4), None, ca, "good", "spontaneous", None) :
        ioa \in {0, 1, 16777215, 16777216}, ca \in {None, 0, 1, 65534, 65535}}

MCInputs == MCTyped \cup MCAddressed \cup MCShaped

MCPlain   == [send_timestamps |-> TRUE, max_age |-> None]
MCAging   == [send_timestamps |-> TRUE, max_age |-> 2]
=============================================================================
