----------------------------- MODULE MCProcess ------------------------------
(* Small instances of Process for TLC. *)
EXTENDS Process

Keys ==
    {"INPUT_TRANSPORT", "NATS_STREAM", "NATS_CONSUMER", "UNIX_SOCKET_MAX_LINE_BYTES",
     "UNIX_SOCKET_ALLOWED_UID", "UNIX_SOCKET_ALLOWED_GID", "IEC104_QUEUE_SIZE",
     "IEC104_MAX_AGE_SECONDS", "IEC104_BIND_ADDR", "IEC104_PORT", "IEC104_CA",
     "IEC104_GI_ONLY", "METRICS_PORT", "IEC104_TIMESTAMPS", "TLS_ENABLED",
     "TLS_CERT_PATH", "TLS_KEY_PATH", "TLS_CA_CERT_PATH", "TLS_PORT"}

Paths == {"TLS_CERT_PATH", "TLS_KEY_PATH", "TLS_CA_CERT_PATH"}
Names == {"NATS_STREAM", "NATS_CONSUMER"}

\* NATS without TLS; the Unix socket without and with TLS.
Plain  == [k \in Keys |-> IF k \in Names THEN Text("set") ELSE Absent]
Socket == [k \in Keys |-> IF k = "INPUT_TRANSPORT" THEN Text("unix_socket") ELSE Absent]
Secure ==
    [k \in Keys |-> IF k = "TLS_ENABLED" THEN Text("TRUE")
                    ELSE IF k \in Paths THEN Text("set") ELSE Socket[k]]

Values == {Absent, Num(0), Num(1), Num(65535), Num(65536), Text("set"), Text("TRUE"), Text("no")}

Deviations(base, keys) == {[base EXCEPT ![k] = v] : k \in keys, v \in Values}

MCLookups ==
    {Socket} \cup Deviations(Plain, Keys)
      \cup Deviations(Secure, Paths \cup {"IEC104_BIND_ADDR"})

\* The Unix socket only.
MCSocketOnly == {Socket}

MCPemFiles ==
    [ca : {"good", "bad"}, cert : {"good", "bad"}, key : {"good", "mismatched", "bad"}]
=============================================================================
