--------------------------- MODULE ProcessProofs ----------------------------
(* Theorems about Process, for every environment and every state of the    *)
(* file system, however often the process dies and is started again.       *)
EXTENDS Process, WellFoundedInduction, TLAPS

-----------------------------------------------------------------------------
(* What from_lookup lets through.                                          *)

\* The configurations the rest of the program can work with.
Works(c) ==
    /\ IsConfig(c)
    /\ c.iec104_queue_size > 0
    /\ c.iec104_max_age # 0
    /\ c.unix_socket_max_line_bytes > 0
    /\ c.input_transport # "unix_socket" => Absent \notin {c.nats_stream, c.nats_consumer}
    /\ c.tls_enabled => Absent \notin {c.tls_cert_path, c.tls_key_path, c.tls_ca_cert_path}

\* A set of positions has a first one.
LEMMA FirstOfPositions == ASSUME NEW S, S \subseteq Nat, S # {} PROVE Min(S) \in S
<1>1. \E x \in S : \A y \in S : ~(<<y, x>> \in OpToRel(<, Nat))
  BY NatLessThanWellFounded, WFMin
<1>2. ASSUME NEW x \in Nat, NEW y \in Nat, ~(<<y, x>> \in OpToRel(<, Nat)) PROVE x =< y
  BY <1>2 DEF OpToRel
<1>3. \E x \in S : \A y \in S : x =< y
  BY <1>1, <1>2
<1> QED BY <1>3 DEF Min

\* The integer types hold natural numbers.
LEMMA IntegerTypes == U16 \subseteq Nat /\ Wide \subseteq Nat
<1>1. U16 \subseteq Nat
  BY DEF U16
<1>2. WideMax \in Nat
  BY DEF WideMax
<1>3. Wide \subseteq Nat
  BY <1>2 DEF Wide
<1> QED BY <1>1, <1>3

\* parse and its callers return a value of the type they were asked for.
LEMMA ParsedHasType ==
    ASSUME NEW get, NEW key, NEW T, NEW d \in T
    PROVE  parse_with_default(get, key, T, d).ok => parse_with_default(get, key, T, d).value \in T
BY DEF parse_with_default, parse, Ok, Err

\* ... or none, where that is allowed.
LEMMA OptionHasType ==
    ASSUME NEW get, NEW key, NEW T, parse_optional(get, key, T).ok
    PROVE  parse_optional(get, key, T).value \in T \cup {None}
BY DEF parse_optional, parse, Ok, Err

\* A zero is let through by none of the three parsers that refuse it.
LEMMA AboveZeroIs ==
    ASSUME NEW r, NEW key, AboveZero(r, key).ok
    PROVE  r.ok /\ AboveZero(r, key).value = r.value /\ r.value # 0
BY DEF AboveZero, Ok, Err

\* A flag is a Boolean.
LEMMA FlagIsBoolean ==
    ASSUME NEW get, NEW key, NEW d \in BOOLEAN, parse_bool_with_default(get, key, d).ok
    PROVE  parse_bool_with_default(get, key, d).value \in BOOLEAN
BY DEF parse_bool_with_default, Ok, Err

\* A required variable is there.
LEMMA RequiredIsThere ==
    ASSUME NEW get, NEW key, required(get, key).ok
    PROVE  required(get, key).value # Absent /\ get[key] # Absent
BY DEF required, Ok, Err

\* The results of two loaders, one after the other.
LEMMA AllOk ==
    ASSUME NEW A, NEW s \in Seq(A), NEW t \in Seq(A),
           \A i \in 1..Len(s \o t) : (s \o t)[i].ok
    PROVE  /\ \A i \in 1..Len(s) : s[i].ok
           /\ \A i \in 1..Len(t) : t[i].ok
<1>1. ASSUME NEW i \in 1..Len(s) PROVE s[i].ok
  <2>1. i \in 1..Len(s \o t) /\ (s \o t)[i] = s[i]
    OBVIOUS
  <2> QED BY <2>1
<1>2. ASSUME NEW i \in 1..Len(t) PROVE t[i].ok
  <2>1. Len(s) + i \in 1..Len(s \o t) /\ (s \o t)[Len(s) + i] = t[i]
    OBVIOUS
  <2> QED BY <2>1
<1> QED BY <1>1, <1>2

\* Whatever the environment: what from_lookup accepts works, and its TLS switch
\* is the one of the environment.
LEMMA AcceptedWorks ==
    ASSUME NEW get, from_lookup(get).ok
    PROVE  /\ Works(from_lookup(get).value)
           /\ from_lookup(get).value.tls_enabled = is_truthy(get["TLS_ENABLED"])
<1> DEFINE it == load_input_transport(get)
           results == load_config_parts(get)
           nats   == load_nats_consumer_parts(get, it.value)
           unix   == load_unix_socket_config(get)
           srv    == load_server_config(get)
           tlsc   == load_tls_config(get)
           paths  == validate_tls_paths(get)
           port   == parse_with_default(get, "TLS_PORT", U16, 19998)
           c      == from_lookup(get).value
           A == {nats[1], nats[2], unix[1], unix[2], unix[3], srv[1], srv[2], srv[3], srv[4],
                 srv[5], srv[6], port, required(get, "TLS_CERT_PATH"),
                 required(get, "TLS_KEY_PATH"), required(get, "TLS_CA_CERT_PATH")}
<1>0. Len(nats) = 2 /\ Len(unix) = 3 /\ Len(srv) = 6
  BY DEF load_nats_consumer_parts, load_unix_socket_config, load_server_config
<1>1. nats = <<nats[1], nats[2]>> /\ nats \in Seq(A)
  <2>1. nats = <<nats[1], nats[2]>>
    BY DEF load_nats_consumer_parts
  <2> HIDE DEF nats, unix, srv, port
  <2>2. <<nats[1], nats[2]>> \in Seq(A)
    OBVIOUS
  <2> QED BY <2>1, <2>2
<1>2. unix = <<unix[1], unix[2], unix[3]>> /\ unix \in Seq(A)
  <2>1. unix = <<unix[1], unix[2], unix[3]>>
    BY DEF load_unix_socket_config
  <2> HIDE DEF nats, unix, srv, port
  <2>2. <<unix[1], unix[2], unix[3]>> \in Seq(A)
    OBVIOUS
  <2> QED BY <2>1, <2>2
<1>3. srv = <<srv[1], srv[2], srv[3], srv[4], srv[5], srv[6]>> /\ srv \in Seq(A)
  <2>1. srv = <<srv[1], srv[2], srv[3], srv[4], srv[5], srv[6]>>
    BY DEF load_server_config
  <2> HIDE DEF nats, unix, srv, port
  <2>2. <<srv[1], srv[2], srv[3], srv[4], srv[5], srv[6]>> \in Seq(A)
    OBVIOUS
  <2> QED BY <2>1, <2>2
<1>4. paths \in Seq(A) /\ <<port>> \in Seq(A)
  <2> HIDE DEF nats, unix, srv, port
  <2>1. CASE is_truthy(get["TLS_ENABLED"])
    BY <2>1 DEF validate_tls_paths
  <2>2. CASE ~is_truthy(get["TLS_ENABLED"])
    BY <2>2 DEF validate_tls_paths
  <2> QED BY <2>1, <2>2
<1>5. tlsc = paths \o <<port>> /\ tlsc \in Seq(A)
  <2>1. tlsc = paths \o <<port>>
    BY DEF load_tls_config
  <2> HIDE DEF nats, unix, srv, port, paths, tlsc, A
  <2> QED BY <1>4, <2>1
<1>6. \A i \in 1..Len(results) : results[i].ok
  <2> DEFINE errors == {i \in 1..Len(results) : ~results[i].ok}
  <2>1. CASE errors # {}
    <3>1. Min(errors) \in errors
      <4> HIDE DEF results
      <4>1. errors \subseteq Nat
        OBVIOUS
      <4> QED BY <2>1, <4>1, FirstOfPositions
    <3>2. from_lookup(get) = results[Min(errors)]
      BY <2>1, Zenon DEF from_lookup
    <3> QED BY <3>1, <3>2
  <2>2. CASE errors = {}
    <3> HIDE DEF results
    <3> QED BY <2>2
  <2> QED BY <2>1, <2>2
<1>7. it.ok
  <2>1. CASE ~it.ok
    <3>1. results = <<it>>
      BY <2>1 DEF load_config_parts
    <3> HIDE DEF results, it
    <3>2. 1 \in 1..Len(results) /\ results[1] = it
      BY <3>1
    <3> QED BY <1>6, <3>2
  <2> QED BY <2>1
<1>8. results = ((nats \o unix) \o srv) \o tlsc
  BY <1>7 DEF load_config_parts
<1>9. /\ \A i \in 1..Len(nats) : nats[i].ok
      /\ \A i \in 1..Len(unix) : unix[i].ok
      /\ \A i \in 1..Len(srv) : srv[i].ok
      /\ \A i \in 1..Len(paths) : paths[i].ok
      /\ \A i \in 1..Len(<<port>>) : <<port>>[i].ok
  <2> HIDE DEF nats, unix, srv, tlsc, paths, port, results, A
  <2>1. nats \o unix \in Seq(A) /\ (nats \o unix) \o srv \in Seq(A)
    BY <1>1, <1>2, <1>3
  <2>2. /\ \A i \in 1..Len((nats \o unix) \o srv) : ((nats \o unix) \o srv)[i].ok
        /\ \A i \in 1..Len(tlsc) : tlsc[i].ok
    BY <1>5, <1>6, <1>8, <2>1, AllOk
  <2>3. /\ \A i \in 1..Len(nats \o unix) : (nats \o unix)[i].ok
        /\ \A i \in 1..Len(srv) : srv[i].ok
    BY <1>3, <2>1, <2>2, AllOk
  <2>4. /\ \A i \in 1..Len(nats) : nats[i].ok
        /\ \A i \in 1..Len(unix) : unix[i].ok
    BY <1>1, <1>2, <2>3, AllOk
  <2>5. /\ \A i \in 1..Len(paths) : paths[i].ok
        /\ \A i \in 1..Len(<<port>>) : <<port>>[i].ok
    BY <1>4, <1>5, <2>2, AllOk
  <2> QED BY <2>2, <2>3, <2>4, <2>5
<1>10. results[Len(results)] = port
  <2> HIDE DEF nats, unix, srv, tlsc, paths, port, results, A
  <2>1. PICK front \in Seq(A) : front = (nats \o unix) \o srv
    <3>1. nats \o unix \in Seq(A)
      BY <1>1, <1>2
    <3>2. (nats \o unix) \o srv \in Seq(A)
      BY <1>3, <3>1
    <3> QED BY <3>2
  <2>2. results = front \o tlsc /\ tlsc = paths \o <<port>>
    BY <1>5, <1>8, <2>1
  <2>3. Len(results) = Len(front) + Len(tlsc) /\ Len(tlsc) = Len(paths) + 1
    BY <1>4, <1>5, <2>2
  <2>4. results[Len(results)] = tlsc[Len(tlsc)]
    BY <1>4, <1>5, <2>2, <2>3
  <2>5. tlsc[Len(tlsc)] = port
    BY <1>4, <2>2, <2>3
  <2> QED BY <2>4, <2>5
<1>11. from_lookup(get).value =
         [input_transport |-> it.value, nats_stream |-> nats[1].value,
          nats_consumer |-> nats[2].value, unix_socket_max_line_bytes |-> unix[1].value,
          unix_socket_allowed_uid |-> unix[2].value, unix_socket_allowed_gid |-> unix[3].value,
          iec104_bind_addr |-> IF get["IEC104_BIND_ADDR"] = Absent
                               THEN Text("0.0.0.0") ELSE get["IEC104_BIND_ADDR"],
          iec104_queue_size |-> srv[1].value, iec104_max_age |-> srv[2].value,
          iec104_port |-> srv[3].value, iec104_default_ca |-> srv[4].value,
          metrics_port |-> srv[5].value, iec104_timestamps |-> srv[6].value,
          iec104_gi_only |-> is_truthy(get["IEC104_GI_ONLY"]),
          tls_enabled |-> is_truthy(get["TLS_ENABLED"]),
          tls_cert_path |-> get["TLS_CERT_PATH"], tls_key_path |-> get["TLS_KEY_PATH"],
          tls_ca_cert_path |-> get["TLS_CA_CERT_PATH"],
          tls_port |-> results[Len(results)].value]
  <2>1. {i \in 1..Len(results) : ~results[i].ok} = {}
    <3> HIDE DEF results
    <3> QED BY <1>6
  <2> QED BY <2>1, Zenon DEF from_lookup, Ok
<1>12. /\ c.input_transport = it.value
       /\ c.nats_stream = nats[1].value /\ c.nats_consumer = nats[2].value
       /\ c.unix_socket_max_line_bytes = unix[1].value
       /\ c.unix_socket_allowed_uid = unix[2].value
       /\ c.unix_socket_allowed_gid = unix[3].value
       /\ c.iec104_queue_size = srv[1].value /\ c.iec104_max_age = srv[2].value
       /\ c.iec104_port = srv[3].value /\ c.iec104_default_ca = srv[4].value
       /\ c.metrics_port = srv[5].value /\ c.iec104_timestamps = srv[6].value
       /\ c.iec104_gi_only = is_truthy(get["IEC104_GI_ONLY"])
       /\ c.tls_enabled = is_truthy(get["TLS_ENABLED"])
       /\ c.tls_cert_path = get["TLS_CERT_PATH"] /\ c.tls_key_path = get["TLS_KEY_PATH"]
       /\ c.tls_ca_cert_path = get["TLS_CA_CERT_PATH"]
       /\ c.tls_port = port.value
  <2> HIDE DEF nats, unix, srv, port, results, it
  <2> QED BY <1>10, <1>11
<1>13. /\ nats[1].ok /\ nats[2].ok /\ unix[1].ok /\ unix[2].ok /\ unix[3].ok
       /\ srv[1].ok /\ srv[2].ok /\ srv[3].ok /\ srv[4].ok /\ srv[5].ok /\ srv[6].ok /\ port.ok
  <2> HIDE DEF nats, unix, srv, port, paths
  <2>1. nats[1].ok /\ nats[2].ok
    <3>1. 1 \in 1..Len(nats) /\ 2 \in 1..Len(nats)
      BY <1>0
    <3> QED BY <1>9, <3>1
  <2>2. unix[1].ok /\ unix[2].ok /\ unix[3].ok
    <3>1. 1 \in 1..Len(unix) /\ 2 \in 1..Len(unix) /\ 3 \in 1..Len(unix)
      BY <1>0
    <3> QED BY <1>9, <3>1
  <2>3. srv[1].ok /\ srv[2].ok /\ srv[3].ok /\ srv[4].ok /\ srv[5].ok /\ srv[6].ok
    <3>1. /\ 1 \in 1..Len(srv) /\ 2 \in 1..Len(srv) /\ 3 \in 1..Len(srv)
          /\ 4 \in 1..Len(srv) /\ 5 \in 1..Len(srv) /\ 6 \in 1..Len(srv)
      BY <1>0
    <3> QED BY <1>9, <3>1
  <2>4. port.ok
    BY <1>9
  <2> QED BY <2>1, <2>2, <2>3, <2>4
<1>14. 1024 \in U16 /\ 2404 \in U16 /\ 1 \in U16 /\ 9091 \in U16 /\ 19998 \in U16
       /\ 65536 \in Wide
  <2>1. 1024 \in U16 /\ 2404 \in U16 /\ 1 \in U16 /\ 9091 \in U16 /\ 19998 \in U16
    BY DEF U16
  <2>2. WideMax \in Nat /\ 65536 <= WideMax
    BY DEF WideMax
  <2>3. 65536 \in Wide
    BY <2>2 DEF Wide
  <2> QED BY <2>1, <2>3
<1>15. it.value \in {"nats", "unix_socket"}
  BY <1>7 DEF load_input_transport, InputTransport, Ok, Err
<1>16. unix[1].value \in Wide \ {0} /\ {unix[2].value, unix[3].value} \subseteq Wide \cup {None}
  <2>1. /\ unix[1] = AboveZero(parse_with_default(get, "UNIX_SOCKET_MAX_LINE_BYTES", Wide, 65536),
                               "UNIX_SOCKET_MAX_LINE_BYTES")
        /\ unix[2] = parse_optional(get, "UNIX_SOCKET_ALLOWED_UID", Wide)
        /\ unix[3] = parse_optional(get, "UNIX_SOCKET_ALLOWED_GID", Wide)
    BY DEF load_unix_socket_config
  <2> HIDE DEF nats, unix, srv, port
  <2>2. unix[1].value \in Wide \ {0}
    BY <1>13, <1>14, <2>1, ParsedHasType, AboveZeroIs
  <2>3. unix[2].value \in Wide \cup {None}
    BY <1>13, <2>1, OptionHasType
  <2>4. unix[3].value \in Wide \cup {None}
    BY <1>13, <2>1, OptionHasType
  <2> QED BY <2>2, <2>3, <2>4
<1>17. /\ srv[1].value \in U16 \ {0} /\ srv[2].value \in (Wide \cup {None}) /\ srv[2].value # 0
       /\ {srv[3].value, srv[4].value, srv[5].value, port.value} \subseteq U16
       /\ srv[6].value \in BOOLEAN
  <2>1. /\ srv[1] = AboveZero(parse_with_default(get, "IEC104_QUEUE_SIZE", U16, 1024),
                              "IEC104_QUEUE_SIZE")
        /\ srv[2] = AboveZero(parse_optional(get, "IEC104_MAX_AGE_SECONDS", Wide),
                              "IEC104_MAX_AGE_SECONDS")
        /\ srv[3] = parse_with_default(get, "IEC104_PORT", U16, 2404)
        /\ srv[4] = parse_with_default(get, "IEC104_CA", U16, 1)
        /\ srv[5] = parse_with_default(get, "METRICS_PORT", U16, 9091)
    BY DEF load_server_config
  <2>1a. srv[6] = parse_bool_with_default(get, "IEC104_TIMESTAMPS", TRUE)
    BY DEF load_server_config
  <2>2. port.value \in U16
    BY <1>13, <1>14, ParsedHasType
  <2> HIDE DEF nats, unix, srv, port
  <2>3. srv[1].value \in U16 \ {0}
    BY <1>13, <1>14, <2>1, ParsedHasType, AboveZeroIs
  <2>4. srv[2].value \in (Wide \cup {None}) /\ srv[2].value # 0
    BY <1>13, <2>1, OptionHasType, AboveZeroIs
  <2>5. {srv[3].value, srv[4].value, srv[5].value} \subseteq U16
    BY <1>13, <1>14, <2>1, ParsedHasType
  <2>6. srv[6].value \in BOOLEAN
    <3>1. PICK d \in BOOLEAN : srv[6] = parse_bool_with_default(get, "IEC104_TIMESTAMPS", d)
      BY <2>1a, Zenon
    <3> QED BY <1>13, <3>1, FlagIsBoolean
  <2> QED BY <2>2, <2>3, <2>4, <2>5, <2>6
<1>18. it.value # "unix_socket" => Absent \notin {nats[1].value, nats[2].value}
  <2>1. CASE it.value = "nats"
    <3>1. nats[1] = required(get, "NATS_STREAM") /\ nats[2] = required(get, "NATS_CONSUMER")
      BY <2>1 DEF load_nats_consumer_parts
    <3> HIDE DEF nats, unix, srv, port
    <3> QED BY <1>13, <3>1, RequiredIsThere
  <2> QED BY <1>15, <2>1
<1>19. is_truthy(get["TLS_ENABLED"]) =>
         Absent \notin {get["TLS_CERT_PATH"], get["TLS_KEY_PATH"], get["TLS_CA_CERT_PATH"]}
  <2>1. CASE is_truthy(get["TLS_ENABLED"])
    <3>1. paths = <<required(get, "TLS_CERT_PATH"), required(get, "TLS_KEY_PATH"),
                    required(get, "TLS_CA_CERT_PATH")>>
      BY <2>1 DEF validate_tls_paths
    <3> HIDE DEF nats, unix, srv, port, paths
    <3>2. /\ required(get, "TLS_CERT_PATH").ok /\ required(get, "TLS_KEY_PATH").ok
          /\ required(get, "TLS_CA_CERT_PATH").ok
      BY <1>9, <3>1
    <3> QED BY <3>2, RequiredIsThere
  <2> QED BY <2>1
<1>20. is_truthy(get["IEC104_GI_ONLY"]) \in BOOLEAN /\ is_truthy(get["TLS_ENABLED"]) \in BOOLEAN
  BY DEF is_truthy
<1> HIDE DEF nats, unix, srv, port, paths, it, results, A, c
<1>21. IsConfig(c)
  BY <1>12, <1>14, <1>15, <1>16, <1>17, <1>20 DEF IsConfig
<1>22. c.iec104_queue_size > 0 /\ c.iec104_max_age # 0 /\ c.unix_socket_max_line_bytes > 0
  <2>1. srv[1].value \in Nat /\ srv[1].value # 0
    <3>1. PICK q : q = srv[1].value /\ q \in U16 /\ q # 0
      BY <1>17
    <3>2. q \in Nat
      BY <3>1, IntegerTypes
    <3> QED BY <3>1, <3>2
  <2>2. unix[1].value \in Nat /\ unix[1].value # 0
    <3>1. PICK l : l = unix[1].value /\ l \in Wide /\ l # 0
      BY <1>16
    <3>2. l \in Nat
      BY <3>1, IntegerTypes
    <3> QED BY <3>1, <3>2
  <2>3. srv[1].value > 0
    BY <2>1
  <2>4. unix[1].value > 0
    BY <2>2
  <2> QED BY <1>12, <1>17, <2>3, <2>4
<1>23. Works(c) /\ c.tls_enabled = is_truthy(get["TLS_ENABLED"])
  BY <1>12, <1>18, <1>19, <1>21, <1>22 DEF Works
<1> QED BY <1>23 DEF c

-----------------------------------------------------------------------------
(* The supervisor.                                                         *)

\* Inductive: the backoff is the sleep before the next attempt, and a server
\* is only stopped when Ctrl-C was pressed.
SupInv ==
    /\ TypeOK
    /\ IF attempts < MaxAttempts THEN backoff = Sleep(attempts + 1)
       ELSE backoff >= Sleep(MaxAttempts)
    /\ WaitsGrowUntilStable
    /\ phase = "stopping" => pressed

\* The first sleeps of an incident, in numbers.
LEMMA FirstSleeps ==
    ASSUME NEW m \in Nat, m = SOURCE_MIN_BACKOFF, NEW n \in Nat, n = SOURCE_MAX_BACKOFF
    PROVE  /\ Sleep(1) = IF m < n THEN m ELSE n
           /\ Sleep(2) = IF m * 2 < n THEN m * 2 ELSE n
           /\ Sleep(3) = IF m * 4 < n THEN m * 4 ELSE n
           /\ Sleep(4) = IF m * 8 < n THEN m * 8 ELSE n
           /\ Sleep(5) = IF m * 16 < n THEN m * 16 ELSE n
           /\ Sleep(6) = IF m * 32 < n THEN m * 32 ELSE n
BY DEF Sleep

\* Doubling up to the limit makes of one sleep the next.
LEMMA DoublingIsNext ==
    ASSUME NEW k \in 1..5
    PROVE  Sleep(k + 1) = IF Sleep(k) * 2 < SOURCE_MAX_BACKOFF THEN Sleep(k) * 2
                          ELSE SOURCE_MAX_BACKOFF
<1>1. PICK m \in Nat, n \in Nat :
        m = SOURCE_MIN_BACKOFF /\ n = SOURCE_MAX_BACKOFF /\ m <= n /\ m > 0
  BY BackoffAssumption
<1>2. /\ Sleep(1) = IF m < n THEN m ELSE n
      /\ Sleep(2) = IF m * 2 < n THEN m * 2 ELSE n
      /\ Sleep(3) = IF m * 4 < n THEN m * 4 ELSE n
      /\ Sleep(4) = IF m * 8 < n THEN m * 8 ELSE n
      /\ Sleep(5) = IF m * 16 < n THEN m * 16 ELSE n
      /\ Sleep(6) = IF m * 32 < n THEN m * 32 ELSE n
  BY <1>1, FirstSleeps
<1>3. k = 1 \/ k = 2 \/ k = 3 \/ k = 4 \/ k = 5
  OBVIOUS
<1> QED BY <1>1, <1>2, <1>3

\* The supervisor of a process that was just started.
Fresh ==
    /\ phase = "first_build" /\ backoff = SOURCE_MIN_BACKOFF
    /\ elapsed = 0 /\ server = "gone" /\ pressed = FALSE
    /\ slept = 0 /\ attempts = 0

\* A process starts, or is started again, with the smallest backoff.
LEMMA SupFresh == Fresh => SupInv
<1> SUFFICES ASSUME Fresh PROVE SupInv
  OBVIOUS
<1>1. Sleep(0 + 1) = SOURCE_MIN_BACKOFF
  <2>1. PICK m \in Nat, n \in Nat :
          m = SOURCE_MIN_BACKOFF /\ n = SOURCE_MAX_BACKOFF /\ m <= n
    BY BackoffAssumption
  <2>2. Sleep(1) = IF m < n THEN m ELSE n
    BY <2>1, FirstSleeps
  <2> QED BY <2>1, <2>2
<1>2. TypeOK
  <2>1. backoff \in SOURCE_MIN_BACKOFF..SOURCE_MAX_BACKOFF /\ elapsed \in 0..SOURCE_STABLE_RUN
        /\ attempts \in 0..MaxAttempts
    BY BackoffAssumption DEF Fresh, MaxAttempts
  <2>2. pressed \in BOOLEAN
    BY DEF Fresh
  <2> QED BY <2>1, <2>2 DEF TypeOK, Fresh, Phases
<1>3. WaitsGrowUntilStable
  BY DEF WaitsGrowUntilStable, Fresh
<1> QED BY <1>1, <1>2, <1>3 DEF SupInv, MaxAttempts, Fresh

\* ... and so again after a restart.
LEMMA SupFreshAgain == Fresh' => SupInv'
BY SupFresh, PTL

\* The phase may go anywhere but to build, as long as nothing else is lost.
LEMMA SupOther ==
    ASSUME SupInv, UNCHANGED <<backoff, slept, attempts>>,
           phase' \in Phases, phase' # "build" \/ phase = "build",
           elapsed' \in 0..SOURCE_STABLE_RUN, server' \in {"running", "stopped", "gone"},
           pressed' \in BOOLEAN, phase' = "stopping" => pressed'
    PROVE  SupInv'
<1>1. TypeOK'
  BY DEF SupInv, TypeOK
<1>2. WaitsGrowUntilStable'
  BY DEF SupInv, WaitsGrowUntilStable, Sleep
<1> QED BY <1>1, <1>2 DEF SupInv, Sleep

\* The end of a source resets the backoff or keeps it.
LEMMA SupSourceEnded == ASSUME SupInv, SourceEnded PROVE SupInv'
<1>1. phase' = "sleep" /\ slept' = 0 /\ UNCHANGED <<elapsed, server, pressed>>
  BY DEF SourceEnded
<1>2. WaitsGrowUntilStable'
  BY <1>1 DEF WaitsGrowUntilStable
<1>3. CASE elapsed >= SOURCE_STABLE_RUN
  <2>1. backoff' = SOURCE_MIN_BACKOFF /\ attempts' = 0
    BY <1>3 DEF SourceEnded
  <2>2. PICK m \in Nat, n \in Nat :
          m = SOURCE_MIN_BACKOFF /\ n = SOURCE_MAX_BACKOFF /\ m <= n
    BY BackoffAssumption
  <2>3. Sleep(1) = IF m < n THEN m ELSE n
    BY <2>2, FirstSleeps
  <2>4. attempts' < MaxAttempts /\ backoff' = Sleep(attempts' + 1)
    BY <2>1, <2>2, <2>3 DEF MaxAttempts
  <2>5. backoff' \in SOURCE_MIN_BACKOFF..SOURCE_MAX_BACKOFF /\ attempts' \in 0..MaxAttempts
    BY <2>1, <2>2 DEF MaxAttempts
  <2>6. TypeOK'
    BY <1>1, <2>5 DEF SupInv, TypeOK, Phases
  <2> QED BY <1>1, <1>2, <2>4, <2>6 DEF SupInv
<1>4. CASE ~(elapsed >= SOURCE_STABLE_RUN)
  <2>1. UNCHANGED <<backoff, attempts>>
    BY <1>4 DEF SourceEnded
  <2>2. TypeOK'
    BY <1>1, <2>1 DEF SupInv, TypeOK, Phases
  <2> QED BY <1>1, <1>2, <2>1, <2>2 DEF SupInv, Sleep
<1> QED BY <1>3, <1>4

\* The sleep before the k-th attempt is the k-th.
LEMMA SupSleepOver == ASSUME SupInv, SleepOver PROVE SupInv'
<1>1. phase' = "build" /\ slept' = backoff /\ UNCHANGED <<elapsed, server, pressed>>
      /\ backoff' = (IF backoff * 2 < SOURCE_MAX_BACKOFF THEN backoff * 2 ELSE SOURCE_MAX_BACKOFF)
      /\ attempts' = (IF attempts < MaxAttempts THEN attempts + 1 ELSE attempts)
  BY DEF SleepOver
<1>2. PICK m \in Nat, n \in Nat, b \in Nat, a \in Nat :
        /\ m = SOURCE_MIN_BACKOFF /\ n = SOURCE_MAX_BACKOFF /\ m <= n /\ m > 0
        /\ b = backoff /\ m <= b /\ b <= n
        /\ a = attempts /\ a <= 6
  BY BackoffAssumption DEF SupInv, TypeOK, MaxAttempts
<1>3. Sleep(6) = (IF m * 32 < n THEN m * 32 ELSE n) /\ Sleep(6) \in Nat /\ Sleep(6) <= n
  <2>1. Sleep(6) = IF m * 32 < n THEN m * 32 ELSE n
    BY <1>2, FirstSleeps
  <2> QED BY <1>2, <2>1
<1>4. backoff' \in m..n /\ backoff' >= b /\ attempts' \in 0..6
  BY <1>1, <1>2 DEF MaxAttempts
<1>5. TypeOK'
  BY <1>1, <1>2, <1>4 DEF SupInv, TypeOK, Phases, MaxAttempts
<1>6. CASE a < 5
  <2>1. b = Sleep(a + 1) /\ attempts' = a + 1 /\ a + 1 \in 1..5
    BY <1>1, <1>2, <1>6 DEF SupInv, MaxAttempts
  <2>2. slept' = Sleep(attempts')
    BY <1>1, <1>2, <2>1
  <2>3. backoff' = Sleep(attempts' + 1)
    BY <1>1, <1>2, <2>1, DoublingIsNext
  <2>4. attempts' < MaxAttempts
    BY <1>6, <2>1 DEF MaxAttempts
  <2> QED BY <1>1, <1>5, <2>2, <2>3, <2>4 DEF SupInv, WaitsGrowUntilStable
<1>7. CASE a >= 5
  <2>1. attempts' = 6
    BY <1>1, <1>2, <1>7 DEF MaxAttempts
  <2>2. b >= Sleep(6)
    <3>1. CASE a = 5
      <4>1. b = Sleep(5 + 1)
        BY <1>2, <3>1 DEF SupInv, MaxAttempts
      <4> QED BY <1>3, <4>1
    <3>2. CASE a = 6
      BY <1>2, <3>2 DEF SupInv, MaxAttempts
    <3> QED BY <1>2, <1>7, <3>1, <3>2
  <2>3. slept' >= Sleep(6) /\ backoff' >= Sleep(6)
    BY <1>1, <1>2, <1>3, <1>4, <2>2
  <2> QED BY <1>1, <1>5, <2>1, <2>3 DEF SupInv, WaitsGrowUntilStable, MaxAttempts
<1> QED BY <1>2, <1>6, <1>7

\* A step that leaves the supervisor alone.
LEMMA SupSame == ASSUME SupInv, UNCHANGED vars PROVE SupInv'
BY DEF SupInv, vars, TypeOK, WaitsGrowUntilStable, Sleep

\* Whatever the process does, the supervisor keeps its invariant.
LEMMA SupStep == SupInv /\ [ProcessNext]_processVars => SupInv'
<1> SUFFICES ASSUME SupInv, [ProcessNext]_processVars PROVE SupInv'
  OBVIOUS
<1>0. /\ phase \in Phases /\ elapsed \in 0..SOURCE_STABLE_RUN
      /\ server \in {"running", "stopped", "gone"} /\ pressed \in BOOLEAN
      /\ phase = "stopping" => pressed
      /\ 0 \in 0..SOURCE_STABLE_RUN
  BY BackoffAssumption DEF SupInv, TypeOK
<1> USE DEF Phases
<1>1. ASSUME MainFails PROVE SupInv'
  BY <1>0, <1>1, SupOther DEF MainFails
<1>2. CASE from_env
  <2>1. MainFails \/ UNCHANGED vars
    BY <1>2 DEF from_env
  <2> QED BY <1>1, <2>1, SupSame
<1>3. CASE build_iec_server
  <2>1. \/ MainFails
        \/ server' = "running" /\ UNCHANGED <<phase, backoff, elapsed, pressed, slept, attempts>>
    BY <1>3 DEF build_iec_server
  <2>2. ASSUME server' = "running", UNCHANGED <<phase, backoff, elapsed, pressed, slept, attempts>>
        PROVE  SupInv'
    BY <1>0, <2>2, SupOther
  <2> QED BY <1>1, <2>1, <2>2
<1>4. CASE spawn_tls_listener_if_enabled
  <2>1. MainFails \/ UNCHANGED vars
    BY <1>4 DEF spawn_tls_listener_if_enabled
  <2> QED BY <1>1, <2>1, SupSame
<1>5. CASE BuildStep
  BY <1>5, SupSame DEF BuildStep
<1>6. CASE Build
  <2>1. FirstBuildOk \/ BuildOk \/ FirstBuildFails \/ BuildFails
    BY <1>6 DEF Build
  <2>2. CASE FirstBuildOk
    BY <1>0, <2>2, SupOther DEF FirstBuildOk
  <2>3. CASE BuildOk
    BY <1>0, <2>3, SupOther DEF BuildOk
  <2>4. CASE FirstBuildFails
    BY <1>0, <2>4, SupOther DEF FirstBuildFails
  <2>5. CASE BuildFails
    BY <1>0, <2>5, SupOther DEF BuildFails
  <2> QED BY <2>1, <2>2, <2>3, <2>4, <2>5
<1>7. CASE EndSource
  BY <1>7, SupSourceEnded DEF EndSource
<1>8. CASE Supervise
  <2>1. TakeMessage \/ MessageHandled \/ Elapse \/ SleepOver \/ CtrlCSeen \/ CtrlCLost \/ StopServer
    BY <1>8 DEF Supervise
  <2>2. CASE TakeMessage
    BY <1>0, <2>2, SupOther DEF TakeMessage
  <2>3. CASE MessageHandled
    BY <1>0, <2>3, SupOther DEF MessageHandled
  <2>4. CASE Elapse
    <3>1. elapsed' \in 0..SOURCE_STABLE_RUN
      BY <1>0, <2>4, BackoffAssumption DEF Elapse
    <3> QED BY <1>0, <2>4, <3>1, SupOther DEF Elapse
  <2>5. CASE SleepOver
    BY <2>5, SupSleepOver
  <2>6. CASE CtrlCSeen
    BY <1>0, <2>6, SupOther DEF CtrlCSeen
  <2>7. CASE CtrlCLost
    BY <1>0, <2>7, SupOther DEF CtrlCLost
  <2>8. CASE StopServer
    BY <1>0, <2>8, SupOther DEF StopServer
  <2> QED BY <2>1, <2>2, <2>3, <2>4, <2>5, <2>6, <2>7, <2>8
<1>9. CASE Kill
  BY <1>0, <1>9, SupOther DEF Kill, CtrlCKills
<1>10. CASE Restart
  BY <1>10, SupFreshAgain DEF Restart, Fresh
<1>11. CASE UNCHANGED processVars
  BY <1>11, SupSame DEF processVars
<1> QED BY <1>2, <1>3, <1>4, <1>5, <1>6, <1>7, <1>8, <1>9, <1>10, <1>11
     DEF ProcessNext, Boot, ProcessEnded

-----------------------------------------------------------------------------
(* main, before it supervises.                                             *)

TlsWanted == is_truthy(env["TLS_ENABLED"])

\* Inductive: past the reading of it the configuration works, and the server
\* is bound to what the environment asks for.
BootInv ==
    /\ boot \in {"config", "server", "tls", "done"}
    /\ IF boot = "config" THEN config = NoConfig
       ELSE Works(config) /\ config.tls_enabled = TlsWanted
    /\ tls \in {"off", "listening"}
    /\ restarts \in 0..MaxRestarts
    /\ boot \in {"config", "server"} => server = "gone"
    /\ server = "running" /\ TlsWanted => address \in {Loopback, NoAddress}
    /\ boot = "done" /\ TlsWanted => tls = "listening" /\ pem.ca = "good"

\* The steps after main is done only end or stop the server.
LEMMA BootDone ==
    ASSUME BootInv, UNCHANGED bootVars,
           \/ server' = server
           \/ boot \notin {"config", "server"} /\ server' # "running"
           \/ server' = "gone"
    PROVE  BootInv'
BY DEF BootInv, bootVars, TlsWanted

\* Whatever the process does, the invariant of main is kept.
LEMMA BootStep == BootInv /\ [ProcessNext]_processVars => BootInv'
<1> SUFFICES ASSUME BootInv, [ProcessNext]_processVars PROVE BootInv'
  OBVIOUS
<1>1. CASE from_env
  <2>1. UNCHANGED <<env, pem, address, tls, restarts>> /\ boot = "config"
    BY <1>1 DEF from_env
  <2>2. CASE from_lookup(env).ok
    <3>1. boot' = "server" /\ config' = from_lookup(env).value /\ server' = server
      BY <1>1, <2>2 DEF from_env, vars
    <3>2. Works(config') /\ config'.tls_enabled = TlsWanted
      BY <2>2, <3>1, AcceptedWorks DEF TlsWanted
    <3> QED BY <2>1, <3>1, <3>2 DEF BootInv, TlsWanted, Works, IsConfig
  <2>3. CASE ~from_lookup(env).ok
    <3>1. UNCHANGED <<boot, config>> /\ server' = "gone"
      BY <1>1, <2>3 DEF from_env, MainFails
    <3> QED BY <2>1, <3>1 DEF BootInv, TlsWanted
  <2> QED BY <2>2, <2>3
<1>2. CASE build_iec_server
  <2>1. UNCHANGED <<env, pem, config, tls, restarts>> /\ boot = "server"
    BY <1>2 DEF build_iec_server
  <2>2. \/ /\ boot' = "tls" /\ server' = "running"
           /\ address' \in {effective_iec104_bind_addr, NoAddress}
        \/ server' = "gone" /\ UNCHANGED <<boot, address>>
    BY <1>2 DEF build_iec_server, MainFails
  <2>3. TlsWanted => effective_iec104_bind_addr = Loopback
    BY <2>1 DEF BootInv, effective_iec104_bind_addr
  <2> QED BY <2>1, <2>2, <2>3 DEF BootInv, TlsWanted
<1>3. CASE spawn_tls_listener_if_enabled
  <2>1. UNCHANGED <<env, pem, config, address, restarts>> /\ boot = "tls"
    BY <1>3 DEF spawn_tls_listener_if_enabled
  <2>2. Works(config) /\ config.tls_enabled = TlsWanted
    BY <2>1 DEF BootInv
  <2>3. \/ ~TlsWanted /\ boot' = "done" /\ UNCHANGED <<server, tls>>
        \/ TlsWanted /\ pem.ca = "good" /\ boot' = "done" /\ tls' = "listening" /\ server' = server
        \/ server' = "gone" /\ UNCHANGED <<boot, tls>>
    BY <1>3, <2>2 DEF spawn_tls_listener_if_enabled, MainFails, vars, Works, build_acceptor, load_certs
  <2> QED BY <2>1, <2>2, <2>3 DEF BootInv, TlsWanted
<1>4. CASE BuildStep
  BY <1>4, BootDone DEF BuildStep, vars
<1>5. CASE Build
  <2>1. UNCHANGED bootVars /\ (server' = server \/ server' = "gone")
    BY <1>5 DEF Build, FirstBuildOk, BuildOk, FirstBuildFails, BuildFails
  <2> QED BY <2>1, BootDone
<1>6. CASE EndSource
  BY <1>6, BootDone DEF EndSource, SourceEnded
<1>7. CASE Supervise
  <2>1. UNCHANGED bootVars /\ boot = "done" /\ (server' = server \/ server' = "stopped")
    BY <1>7 DEF Supervise, Supervising, TakeMessage, MessageHandled, Elapse, SleepOver, CtrlCSeen,
             CtrlCLost, StopServer
  <2> QED BY <2>1, BootDone
<1>8. CASE Kill
  BY <1>8, BootDone DEF Kill, CtrlCKills
<1>9. CASE Restart
  BY <1>9, RestartsAssumption DEF Restart, BootInv, TlsWanted
<1>10. CASE UNCHANGED processVars
  BY <1>10, BootDone DEF processVars, vars
<1> QED BY <1>1, <1>2, <1>3, <1>4, <1>5, <1>6, <1>7, <1>8, <1>9, <1>10
     DEF ProcessNext, Boot, ProcessEnded

-----------------------------------------------------------------------------
(* The socket.                                                             *)

Bound == {"chmod_parent", "chmod_socket", "built"}

\* Inductive: what bind has reached when it is at a step, with whatever earlier
\* incarnations left on the disk.
SocketInv ==
    /\ grand \in BOOLEAN /\ parent \in {"absent", "dir", "other"}
    /\ parentMode \in {"given", "umask", "0750"} /\ entry \in Entries /\ entryMode \in Modes
    /\ step \in Steps /\ created \in BOOLEAN /\ listening \in BOOLEAN
    /\ ioErrors \in 0..MaxIoErrors /\ restarts \in Nat /\ interrupted \in BOOLEAN
    /\ parent = "absent" => entry = "none"
    /\ step \in {"entry", "bind"} \cup Bound => parent = "dir"
    /\ step = "bind" => entry = "none"
    /\ listening <=> step \in Bound
    /\ listening => entry = "socket"
    /\ step = "built" => entryMode = "0660"
    /\ created => parentMode # "given"
    /\ parentMode = "umask" /\ ~interrupted => Unfinished
    /\ step = "failed" => Foreign(entry) \/ parent = "other" \/ ioErrors > 0

\* Inductive: bind runs in Unix-socket mode only, and is over while the source
\* it built is served.
UseInv ==
    /\ ~(Supervising /\ InUnixMode) => step = "mkdir"
    /\ Serving => step = "built"

\* Each step of bind.
LEMMA SocketBind == ASSUME SocketInv, BindStep, UNCHANGED restarts PROVE SocketInv'
<1> USE DEF SocketInv, Bound, Steps, Modes, Entries, Foreign, diskVars, bindVars, Unfinished
<1>1. CASE CreateGrandparent
  BY <1>1 DEF CreateGrandparent
<1>2. CASE CreateParent
  BY <1>2 DEF CreateParent
<1>3. CASE ParentExists
  BY <1>3 DEF ParentExists
<1>4. CASE remove_existing_socket_path
  BY <1>4 DEF remove_existing_socket_path
<1>5. CASE Bind
  BY <1>5 DEF Bind
<1>6. CASE ChmodParent
  BY <1>6 DEF ChmodParent
<1>7. CASE ChmodSocket
  BY <1>7 DEF ChmodSocket
<1>8. CASE Refuse
  BY <1>8 DEF Refuse, InTheWay, Interrupt
<1>9. CASE IoError
  <2>1. ioErrors' \in 0..MaxIoErrors /\ ioErrors' > 0 /\ ioErrors' # 0
    BY <1>9, IoErrorsAssumption DEF IoError
  <2>2. /\ step' = "failed" /\ listening' = FALSE /\ UNCHANGED <<diskVars, created>>
        /\ interrupted' = (interrupted \/ Unfinished)
    BY <1>9 DEF IoError, Interrupt
  <2> QED BY <2>1, <2>2
<1> QED BY <1>1, <1>2, <1>3, <1>4, <1>5, <1>6, <1>7, <1>8, <1>9 DEF BindStep

\* A bind that has returned, or died, is forgotten; the disk stays, and a parent
\* without its mode is on record.
LEMMA SocketReset ==
    ASSUME SocketInv, Reset, UNCHANGED <<diskVars, ioErrors>>, restarts' \in Nat,
           \/ Interrupt
           \/ UNCHANGED interrupted /\ step \in {"mkdir", "built", "failed"}
    PROVE  SocketInv'
<1>1. step' = "mkdir" /\ created' = FALSE /\ listening' = FALSE
  BY DEF Reset
<1>2. UNCHANGED <<grand, parent, parentMode, entry, entryMode, ioErrors>>
  BY DEF diskVars
<1>3. interrupted' \in BOOLEAN /\ (parentMode = "umask" => interrupted')
  BY DEF SocketInv, Interrupt, Unfinished
<1>4. created' \in BOOLEAN /\ listening' \in BOOLEAN /\ ~created' /\ ~listening'
  BY <1>1
<1> QED BY <1>1, <1>2, <1>3, <1>4 DEF SocketInv, Bound, Steps, Foreign

\* Steps elsewhere.
LEMMA SocketSame == ASSUME SocketInv, UNCHANGED socketVars, UNCHANGED restarts PROVE SocketInv'
BY DEF SocketInv, Foreign, Unfinished, socketVars, diskVars, bindVars

\* Whatever the process does, both invariants of the socket are kept.
LEMMA SocketStep ==
    SocketInv /\ UseInv /\ BootInv /\ [ProcessNext]_processVars => SocketInv' /\ UseInv'
<1> SUFFICES ASSUME SocketInv, UseInv, BootInv, [ProcessNext]_processVars PROVE SocketInv' /\ UseInv'
  OBVIOUS
<1> USE DEF Supervising, Serving, InUnixMode
<1>1. CASE Boot
  <2>1. /\ UNCHANGED socketVars /\ UNCHANGED restarts /\ boot # "done"
        /\ phase' = "first_build" \/ phase' = "failed"
    BY <1>1 DEF Boot, from_env, build_iec_server, spawn_tls_listener_if_enabled, MainFails, vars
  <2>2. UseInv'
    BY <2>1 DEF UseInv, socketVars, bindVars
  <2> QED BY <2>1, <2>2, SocketSame
<1>2. CASE BuildStep
  <2>1. /\ BindStep /\ UNCHANGED <<boot, config, phase, restarts>> /\ boot = "done"
        /\ config.input_transport = "unix_socket" /\ phase \in {"first_build", "build"}
    BY <1>2 DEF BuildStep, vars, bootVars
  <2> QED BY <2>1, SocketBind DEF UseInv
<1>3. CASE Build
  <2>1. UNCHANGED <<boot, config, restarts>> /\ boot = "done"
    BY <1>3 DEF Build, bootVars
  <2>2. CASE UNCHANGED socketVars /\ (InUnixMode => step = "built")
    BY <2>1, <2>2, SocketSame DEF UseInv, socketVars, bindVars
  <2>3. CASE /\ Reset /\ UNCHANGED <<diskVars, ioErrors, interrupted>> /\ (InUnixMode => step = "failed")
             /\ phase' \in {"failed", "sleep"}
    <3>1. step \in {"mkdir", "built", "failed"}
      BY <2>1, <2>3 DEF UseInv
    <3>2. SocketInv'
      BY <2>1, <2>3, <3>1, SocketReset DEF SocketInv
    <3> QED BY <2>1, <2>3, <3>2 DEF UseInv, Reset
  <2> QED BY <1>3, <2>2, <2>3 DEF Build, FirstBuildFails, BuildFails
<1>4. CASE EndSource
  <2>1. UNCHANGED socketVars /\ UNCHANGED <<boot, config, restarts>> /\ phase' = "sleep"
    BY <1>4 DEF EndSource, SourceEnded, bootVars
  <2> QED BY <2>1, SocketSame DEF UseInv, socketVars, bindVars
<1>5. CASE Supervise
  <2>1. /\ UNCHANGED socketVars /\ UNCHANGED <<boot, config, restarts>>
        /\ phase' \in {"select", "handle"} => phase \in {"select", "handle"}
    BY <1>5 DEF Supervise, TakeMessage, MessageHandled, Elapse, SleepOver, CtrlCSeen,
             CtrlCLost, StopServer, bootVars
  <2> QED BY <2>1, SocketSame DEF UseInv, socketVars, bindVars
<1>6. CASE Kill
  <2>1. UNCHANGED socketVars /\ UNCHANGED <<boot, config, restarts>> /\ phase' = "killed"
    BY <1>6 DEF Kill, CtrlCKills, bootVars
  <2> QED BY <2>1, SocketSame DEF UseInv, socketVars, bindVars
<1>7. CASE Restart
  <2>1. /\ Interrupt /\ Reset /\ UNCHANGED <<diskVars, ioErrors>>
        /\ boot' = "config" /\ restarts' \in Nat
    BY <1>7 DEF Restart, SocketInv
  <2> QED BY <2>1, SocketReset DEF UseInv, Reset
<1>8. CASE UNCHANGED processVars
  BY <1>8, SocketSame DEF processVars, vars, bootVars, socketVars, bindVars, UseInv
<1> QED BY <1>1, <1>2, <1>3, <1>4, <1>5, <1>6, <1>7, <1>8 DEF ProcessNext, ProcessEnded

-----------------------------------------------------------------------------
(* The theorems.                                                           *)

ProcessInv == SupInv /\ BootInv /\ SocketInv /\ UseInv

\* A first start, whatever is at the path.
LEMMA ProcessStart == ProcessInit => ProcessInv
<1> SUFFICES ASSUME ProcessInit PROVE ProcessInv
  OBVIOUS
<1>1. Fresh
  BY DEF ProcessInit, Fresh
<1>2. BootInv
  BY RestartsAssumption DEF ProcessInit, BootInv
<1>3. SocketInv
  <2>1. ioErrors \in 0..MaxIoErrors /\ restarts \in Nat
    BY IoErrorsAssumption DEF ProcessInit, SocketInit
  <2>2. /\ parent \in {"absent", "dir", "other"} /\ entry \in Entries
        /\ parent = "absent" => entry = "none"
    BY DEF ProcessInit, SocketInit, Entries
  <2>3. /\ grand \in BOOLEAN /\ created \in BOOLEAN /\ ~created /\ listening \in BOOLEAN
        /\ ~listening /\ interrupted \in BOOLEAN
    BY DEF ProcessInit, SocketInit
  <2>4. step = "mkdir" /\ parentMode = "given" /\ entryMode = "given"
    BY DEF ProcessInit, SocketInit
  <2> QED BY <2>1, <2>2, <2>3, <2>4 DEF SocketInv, Bound, Steps, Modes
<1>4. UseInv
  BY DEF ProcessInit, SocketInit, UseInv, Supervising, Serving
<1> QED BY <1>1, <1>2, <1>3, <1>4, SupFresh DEF ProcessInv

\* The invariants hold through every incarnation.
LEMMA ProcessAlways == ProcessSpec => []ProcessInv
<1>1. ProcessInv /\ [ProcessNext]_processVars => ProcessInv'
  BY SupStep, BootStep, SocketStep DEF ProcessInv
<1> QED BY <1>1, ProcessStart, PTL DEF ProcessSpec

\* In every stage of main and of bind the process has the state it assumes
\* (main, supervise_message_source, UnixSocketSource::bind).
THEOREM ProcessTypes == ProcessSpec => []ProcessTypeOK
<1>1. ASSUME ProcessInv PROVE ProcessTypeOK
  BY <1>1 DEF ProcessInv, SupInv, BootInv, SocketInv, ProcessTypeOK, Works, Modes
<1> QED BY <1>1, ProcessAlways, PTL

\* Whatever the environment, a configuration that from_lookup accepts makes no
\* expect() panic and has the limits that the server, the output policy and the
\* sources rely on.
THEOREM AcceptedConfigIsSafe == ProcessSpec => []AcceptedConfigWorks
<1>1. ASSUME ProcessInv PROVE AcceptedConfigWorks
  BY <1>1 DEF ProcessInv, BootInv, Works, IsConfig, AcceptedConfigWorks, Supervising, InUnixMode
<1> QED BY <1>1, ProcessAlways, PTL

\* With TLS_ENABLED the plaintext port is on loopback in every incarnation, and
\* no source is supervised without a listener that trusts a good CA
\* (effective_iec104_bind_addr, spawn_tls_listener_if_enabled).
THEOREM PlaintextStaysLocal == ProcessSpec => []NeverPlaintextOnTheNetwork
<1>1. ASSUME ProcessInv PROVE NeverPlaintextOnTheNetwork
  BY <1>1 DEF ProcessInv, BootInv, TlsWanted, NeverPlaintextOnTheNetwork, Supervising
<1> QED BY <1>1, ProcessAlways, PTL

\* While messages are taken from the socket it is at its path with mode 0660,
\* whatever state bind found there; its directory has mode 0750 if the bridge
\* created it, after any number of failed calls and restarts, unless one of them
\* ended a bind between its create_dir and its set_permissions
\* (UnixSocketSource::bind, set_socket_permissions).
THEOREM SocketReadyWhenServing == ProcessSpec => []ServingSocketIsReady
<1>1. ASSUME ProcessInv PROVE ServingSocketIsReady
  <2> SUFFICES ASSUME Serving PROVE /\ listening /\ parent = "dir" /\ entryMode = "0660"
                                    /\ parentMode \in {"given", "0750"} \/ interrupted
    BY DEF ServingSocketIsReady
  <2>1. step = "built"
    BY <1>1 DEF ProcessInv, UseInv
  <2> QED BY <1>1, <2>1 DEF ProcessInv, SocketInv, Bound, Unfinished
<1> QED BY <1>1, ProcessAlways, PTL

\* A stale socket, a half-made directory or any other leftover of an earlier
\* incarnation is no obstacle (remove_existing_socket_path,
\* ensure_socket_parent_dir).
THEOREM NoLeftoverBlocks == ProcessSpec => []LeftoversAreNoObstacle
<1>1. ASSUME ProcessInv PROVE LeftoversAreNoObstacle
  BY <1>1 DEF ProcessInv, SocketInv, LeftoversAreNoObstacle
<1> QED BY <1>1, ProcessAlways, PTL

\* The waits double from the smallest to the largest backoff and start anew
\* after a stable run, for every pair of limits (supervise_message_source).
THEOREM BackoffDoubles == ProcessSpec => []WaitsGrowUntilStable
<1>1. ASSUME ProcessInv PROVE WaitsGrowUntilStable
  BY <1>1 DEF ProcessInv, SupInv
<1> QED BY <1>1, ProcessAlways, PTL

\* bind never removes or changes what is not the bridge's
\* (remove_existing_socket_entry, set_socket_permissions).
THEOREM ForeignFilesUntouched == ProcessSpec => OthersLeftAlone
<1>1. ASSUME ProcessInv, [ProcessNext]_processVars
      PROVE  /\ Foreign(entry) => entry' = entry
             /\ parent = "other" => parent' = "other"
             /\ parent = "dir" /\ parentMode = "given" => parentMode' = "given"
  <2>1. created => parentMode # "given"
    BY <1>1 DEF ProcessInv, SocketInv
  <2>2. CASE UNCHANGED diskVars
    BY <2>2 DEF diskVars
  <2>3. CASE BindStep
    BY <2>1, <2>3 DEF BindStep, CreateGrandparent, CreateParent, ParentExists,
         remove_existing_socket_path, Bind, ChmodParent, ChmodSocket, Refuse, IoError,
         Foreign, diskVars
  <2>4. UNCHANGED diskVars \/ BindStep
    BY <1>1 DEF ProcessNext, Boot, from_env, build_iec_server, spawn_tls_listener_if_enabled,
         BuildStep, Build, EndSource, Supervise, Kill, Restart, ProcessEnded, processVars, socketVars
  <2> QED BY <2>2, <2>3, <2>4
<1> QED BY <1>1, ProcessAlways, PTL DEF ProcessSpec, OthersLeftAlone

\* After the first source was built, no failure of a source takes the server
\* down; Ctrl-C does (supervise_message_source).
THEOREM ServerOutlivesSources == ProcessSpec => OnlyCtrlCStopsTheServer
<1>1. ASSUME ProcessInv, [ProcessNext]_processVars, server = "running", server' # "running",
             phase # "first_build"
      PROVE  pressed \/ restarts' # restarts
  <2>1. phase = "stopping" => pressed
    BY <1>1 DEF ProcessInv, SupInv
  <2>2. CASE Boot
    BY <1>1, <2>2 DEF Boot, from_env, build_iec_server, spawn_tls_listener_if_enabled
  <2>3. CASE BuildStep \/ UNCHANGED processVars
    BY <1>1, <2>3 DEF BuildStep, processVars, vars
  <2>4. CASE Build
    BY <1>1, <2>4 DEF Build, FirstBuildOk, BuildOk, FirstBuildFails, BuildFails
  <2>5. CASE EndSource
    BY <1>1, <2>5 DEF EndSource, SourceEnded
  <2>6. CASE Supervise
    BY <1>1, <2>1, <2>6 DEF Supervise, TakeMessage, MessageHandled, Elapse, SleepOver, CtrlCSeen,
             CtrlCLost, StopServer
  <2>7. CASE Kill
    BY <1>1, <2>7 DEF Kill, CtrlCKills
  <2>8. CASE Restart
    BY <1>1, <2>8 DEF Restart, ProcessInv, SocketInv
  <2> QED BY <1>1, <2>2, <2>3, <2>4, <2>5, <2>6, <2>7, <2>8 DEF ProcessNext, ProcessEnded
<1> QED BY <1>1, ProcessAlways, PTL DEF ProcessSpec, OnlyCtrlCStopsTheServer
=============================================================================
