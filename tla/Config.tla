------------------------------- MODULE Config -------------------------------
(***************************************************************************)
(* Config::from_lookup (config.rs): from environment variables to a        *)
(* configuration, or to the variable that made it fail.                    *)
(*                                                                         *)
(* A variable is absent, a decimal number, or any other text.  Variables   *)
(* that are taken over as they are (NATS_URL, NATS_SUBJECT_FILTER,         *)
(* NATS_CREDENTIALS, UNIX_SOCKET_PATH) decide nothing and are left out.    *)
(***************************************************************************)
EXTENDS Integers, Sequences, FiniteSetsExt

CONSTANT None  \* an Option that is not set

Absent  == [kind |-> "absent"]
Num(n)  == [kind |-> "number", n |-> n]
Text(s) == [kind |-> "text", s |-> s]

Ok(value) == [ok |-> TRUE, value |-> value]
Err(key)  == [ok |-> FALSE, key |-> key]

U16 == 0..65535
\* u32, u64 and usize: wider than any number in a model.
WideMax == 2147483647
Wide    == 0..WideMax

-----------------------------------------------------------------------------
\* parse::<T>() into an integer type.
parse(v, T, key) == IF v.kind = "number" /\ v.n \in T THEN Ok(v.n) ELSE Err(key)

parse_with_default(get, key, T, default) ==
    IF get[key] = Absent THEN Ok(default) ELSE parse(get[key], T, key)

parse_optional(get, key, T) ==
    IF get[key] = Absent THEN Ok(None) ELSE parse(get[key], T, key)

to_lowercase(v) ==
    CASE v = Text("TRUE") -> Text("true")
      [] v = Text("Yes")  -> Text("yes")
      [] OTHER            -> v

Yes == {Text("true"), Num(1), Text("yes")}
No  == {Text("false"), Num(0), Text("no")}

\* Whatever is not recognised is false ...
is_truthy(v) == to_lowercase(v) \in Yes

\* ... but here it is an error.
parse_bool_with_default(get, key, default) ==
    CASE get[key] = Absent                  -> Ok(default)
      [] to_lowercase(get[key]) \in Yes    -> Ok(TRUE)
      [] to_lowercase(get[key]) \in No    -> Ok(FALSE)
      [] OTHER                              -> Err(key)

required(get, key) == IF get[key] = Absent THEN Err(key) ELSE Ok(get[key])

AboveZero(result, key) ==
    IF result.ok /\ result.value = 0 THEN Err(key) ELSE result

-----------------------------------------------------------------------------
(* Each load_ operator is the sequence of the results it computes, in the  *)
(* order in which the code does.                                           *)

InputTransport(v) ==
    CASE v = Text("nats")        -> Ok("nats")
      [] v = Text("unix_socket") -> Ok("unix_socket")
      [] OTHER                   -> Err("INPUT_TRANSPORT")

load_input_transport(get) ==
    InputTransport(IF get["INPUT_TRANSPORT"] = Absent THEN Text("nats") ELSE get["INPUT_TRANSPORT"])

\* The names are required in NATS mode only.
load_nats_consumer_parts(get, input_transport) ==
    IF input_transport = "nats"
    THEN <<required(get, "NATS_STREAM"), required(get, "NATS_CONSUMER")>>
    ELSE <<Ok(Text("")), Ok(Text(""))>>

load_unix_socket_config(get) ==
    <<AboveZero(parse_with_default(get, "UNIX_SOCKET_MAX_LINE_BYTES", Wide, 65536),
                "UNIX_SOCKET_MAX_LINE_BYTES"),
      parse_optional(get, "UNIX_SOCKET_ALLOWED_UID", Wide),
      parse_optional(get, "UNIX_SOCKET_ALLOWED_GID", Wide)>>

load_server_config(get) ==
    <<AboveZero(parse_with_default(get, "IEC104_QUEUE_SIZE", U16, 1024), "IEC104_QUEUE_SIZE"),
      AboveZero(parse_optional(get, "IEC104_MAX_AGE_SECONDS", Wide), "IEC104_MAX_AGE_SECONDS"),
      parse_with_default(get, "IEC104_PORT", U16, 2404),
      parse_with_default(get, "IEC104_CA", U16, 1),
      parse_with_default(get, "METRICS_PORT", U16, 9091),
      parse_bool_with_default(get, "IEC104_TIMESTAMPS", TRUE)>>

\* Mutant: the certificate of the CA is forgotten.
ValidateOwnPaths(get) ==
    IF ~is_truthy(get["TLS_ENABLED"]) THEN <<>>
    ELSE <<required(get, "TLS_CERT_PATH"), required(get, "TLS_KEY_PATH")>>

validate_tls_paths(get) ==
    IF ~is_truthy(get["TLS_ENABLED"]) THEN <<>>
    ELSE <<required(get, "TLS_CERT_PATH"), required(get, "TLS_KEY_PATH"),
           required(get, "TLS_CA_CERT_PATH")>>

load_tls_config(get) ==
    validate_tls_paths(get) \o <<parse_with_default(get, "TLS_PORT", U16, 19998)>>

load_config_parts(get) ==
    LET input_transport == load_input_transport(get) IN
    IF ~input_transport.ok THEN <<input_transport>>
    ELSE load_nats_consumer_parts(get, input_transport.value)
           \o load_unix_socket_config(get) \o load_server_config(get) \o load_tls_config(get)

\* The fields of struct Config, by type.
IsConfig(c) ==
    /\ c.input_transport \in {"nats", "unix_socket"}
    /\ {c.iec104_port, c.iec104_default_ca, c.iec104_queue_size, c.metrics_port, c.tls_port}
          \subseteq U16
    /\ c.unix_socket_max_line_bytes \in Wide
    /\ \A option \in {c.unix_socket_allowed_uid, c.unix_socket_allowed_gid, c.iec104_max_age} :
          option = None \/ option \in Wide
    /\ {c.iec104_gi_only, c.iec104_timestamps, c.tls_enabled} \subseteq BOOLEAN

\* The first error wins; without one, every field has its value.
from_lookup(get) ==
    LET results == load_config_parts(get)
        errors  == {i \in 1..Len(results) : ~results[i].ok}
        nats    == load_nats_consumer_parts(get, load_input_transport(get).value)
        unix    == load_unix_socket_config(get)
        server  == load_server_config(get)
    IN  IF errors # {} THEN results[Min(errors)]
        ELSE Ok([input_transport            |-> load_input_transport(get).value,
                 nats_stream                |-> nats[1].value,
                 nats_consumer              |-> nats[2].value,
                 unix_socket_max_line_bytes |-> unix[1].value,
                 unix_socket_allowed_uid    |-> unix[2].value,
                 unix_socket_allowed_gid    |-> unix[3].value,
                 iec104_bind_addr           |-> IF get["IEC104_BIND_ADDR"] = Absent
                                                THEN Text("0.0.0.0") ELSE get["IEC104_BIND_ADDR"],
                 iec104_queue_size          |-> server[1].value,
                 iec104_max_age             |-> server[2].value,
                 iec104_port                |-> server[3].value,
                 iec104_default_ca          |-> server[4].value,
                 metrics_port               |-> server[5].value,
                 iec104_timestamps          |-> server[6].value,
                 iec104_gi_only             |-> is_truthy(get["IEC104_GI_ONLY"]),
                 tls_enabled                |-> is_truthy(get["TLS_ENABLED"]),
                 tls_cert_path              |-> get["TLS_CERT_PATH"],
                 tls_key_path               |-> get["TLS_KEY_PATH"],
                 tls_ca_cert_path           |-> get["TLS_CA_CERT_PATH"],
                 tls_port                   |-> results[Len(results)].value])
=============================================================================
