------------------------------ MODULE Process -------------------------------
(***************************************************************************)
(* The life of a bridge process (main): it reads its configuration, starts *)
(* the IEC-104 server, then the TLS listener, then supervises its source,  *)
(* whose building in Unix-socket mode is SocketPath; it may die anywhere   *)
(* and be started again with the same environment and file system.         *)
(*                                                                         *)
(* Starting the metrics endpoint is a task of its own that main does not   *)
(* wait for; it is in module Metrics.                                      *)
(***************************************************************************)
EXTENDS Supervisor, SocketPath, Config

CONSTANTS
    Lookups,     \* the environments the process may be started in
    PemFiles,    \* the states the three PEM files may be in
    MaxRestarts  \* bound: times the process is started again

ASSUME RestartsAssumption == MaxRestarts \in Nat

VARIABLES
    env,      \* the environment variables
    pem,      \* the PEM files, by what they hold
    boot,     \* where main is before it supervises
    config,   \* main's configuration
    address,  \* the address the IEC-104 server is bound to, if any
    tls,      \* the TLS listener
    restarts

bootVars    == <<env, pem, boot, config, address, tls, restarts>>
processVars == <<vars, socketVars, bootVars>>

NoConfig == [input_transport |-> None]
NoAddress == Text("")
Loopback  == Text("127.0.0.1")

ProcessInit ==
    /\ SocketInit
    /\ env \in Lookups
    \* In NATS mode nobody looks at the path.
    /\ env["INPUT_TRANSPORT"] = Text("unix_socket") \/ ~grand
    /\ pem \in IF is_truthy(env["TLS_ENABLED"]) THEN PemFiles ELSE {None}
    /\ boot = "config" /\ config = NoConfig
    /\ address = NoAddress /\ tls = "off" /\ restarts = 0
    /\ phase = "first_build" /\ backoff = SOURCE_MIN_BACKOFF
    /\ elapsed = 0 /\ server = "gone" /\ pressed = FALSE
    /\ slept = 0 /\ attempts = 0

-----------------------------------------------------------------------------
(* main, before supervise_message_source.                                  *)

\* An error that main returns ends the process.
MainFails ==
    /\ phase' = "failed" /\ server' = "gone"
    /\ UNCHANGED <<backoff, elapsed, pressed, slept, attempts>>

from_env ==
    /\ boot = "config" /\ phase = "first_build"
    /\ LET result == from_lookup(env) IN
        \/ /\ result.ok
           /\ boot' = "server" /\ config' = result.value
           /\ UNCHANGED vars
        \/ /\ ~result.ok
           /\ MainFails
           /\ UNCHANGED <<boot, config>>
    /\ UNCHANGED <<socketVars, env, pem, address, tls, restarts>>

\* Mutant: the configured address, TLS or not.
BindAsConfigured == config.iec104_bind_addr

effective_iec104_bind_addr ==
    IF config.tls_enabled THEN Loopback ELSE config.iec104_bind_addr

\* Nobody looks at what start() returns: main goes on with a server whose port
\* could not be bound.
build_iec_server ==
    /\ boot = "server" /\ phase = "first_build"
    /\ \/ /\ boot' = "tls"
          /\ server' = "running" /\ address' \in {effective_iec104_bind_addr, NoAddress}
          /\ UNCHANGED <<phase, backoff, elapsed, pressed, slept, attempts>>
       \/ MainFails /\ UNCHANGED <<boot, address>>
    /\ UNCHANGED <<socketVars, env, pem, config, tls, restarts>>

\* A PEM file is good, or unreadable, or holds nothing usable.
load_certs(file)       == file = "good"
load_private_key(file) == file \in {"good", "mismatched"}

\* with_single_cert also wants the key to be that of the certificate.
build_acceptor ==
    /\ load_certs(pem.ca) /\ load_certs(pem.cert) /\ load_private_key(pem.key)
    /\ pem.key # "mismatched"

\* The expect()s panic on an absent path; the acceptor and the port may fail.
spawn_tls_listener_if_enabled ==
    /\ boot = "tls" /\ phase = "first_build"
    /\ \/ /\ ~config.tls_enabled
          /\ boot' = "done"
          /\ UNCHANGED <<vars, tls>>
       \/ /\ config.tls_enabled
          /\ Absent \in {config.tls_cert_path, config.tls_key_path, config.tls_ca_cert_path}
          /\ boot' = "panicked"
          /\ MainFails
          /\ UNCHANGED tls
       \/ /\ config.tls_enabled
          /\ Absent \notin {config.tls_cert_path, config.tls_key_path, config.tls_ca_cert_path}
          /\ \/ build_acceptor /\ boot' = "done" /\ tls' = "listening" /\ UNCHANGED vars
             \/ MainFails /\ UNCHANGED <<boot, tls>>
    /\ UNCHANGED <<socketVars, env, pem, config, address, restarts>>

-----------------------------------------------------------------------------
(* supervise_message_source, and what build_message_source does in it.     *)

Supervising == boot = "done"

InUnixMode == config.input_transport = "unix_socket"

BuildStep ==
    /\ Supervising /\ InUnixMode /\ phase \in {"first_build", "build"}
    /\ BindStep
    /\ UNCHANGED <<vars, bootVars>>

\* The source is there once bind has returned; NATS needs no file.
Build ==
    /\ Supervising
    /\ \/ /\ InUnixMode => step = "built"
          /\ FirstBuildOk \/ BuildOk
          /\ UNCHANGED socketVars
       \/ /\ InUnixMode => step = "failed"
          /\ FirstBuildFails \/ BuildFails
          /\ Reset
          /\ UNCHANGED <<diskVars, ioErrors, interrupted>>
    /\ UNCHANGED bootVars

\* The stream of messages ends.  The one of the Unix socket does not: its accept
\* loop holds a sender, and leaves only when the receiver is gone.
EndSource ==
    /\ Supervising /\ ~InUnixMode
    /\ SourceEnded
    /\ UNCHANGED <<socketVars, bootVars>>

Supervise ==
    /\ Supervising
    /\ TakeMessage \/ MessageHandled \/ Elapse \/ SleepOver \/ CtrlCSeen \/ CtrlCLost \/ StopServer
    /\ UNCHANGED <<socketVars, bootVars>>

Kill == CtrlCKills /\ UNCHANGED <<socketVars, bootVars>>

\* The process dies, or has ended, and is started again.
Restart ==
    /\ restarts < MaxRestarts
    /\ restarts' = restarts + 1
    /\ Interrupt /\ Reset
    /\ boot' = "config" /\ config' = NoConfig /\ address' = NoAddress /\ tls' = "off"
    /\ phase' = "first_build" /\ backoff' = SOURCE_MIN_BACKOFF
    /\ elapsed' = 0 /\ server' = "gone" /\ pressed' = FALSE
    /\ slept' = 0 /\ attempts' = 0
    /\ UNCHANGED <<diskVars, ioErrors, env, pem>>

ProcessEnded == Ended /\ UNCHANGED processVars

Boot == from_env \/ build_iec_server \/ spawn_tls_listener_if_enabled

ProcessNext ==
    Boot \/ BuildStep \/ Build \/ EndSource \/ Supervise \/ Kill \/ Restart \/ ProcessEnded

(***************************************************************************)
(* Fairness: as in Supervisor, and the steps of main and of bind are       *)
(* taken.  Nothing restarts a process that has ended.                      *)
(***************************************************************************)
ProcessSpec ==
    /\ ProcessInit /\ [][ProcessNext]_processVars
    /\ WF_processVars(Boot) /\ WF_processVars(BuildStep) /\ WF_processVars(Build)
    /\ WF_processVars(Supervising /\ (MessageHandled \/ SleepOver \/ StopServer)
                        /\ UNCHANGED <<socketVars, bootVars>>)
    /\ SF_processVars(Supervising /\ (InUnixMode => step = "built") /\ BuildOk
                        /\ UNCHANGED <<socketVars, bootVars>>)

-----------------------------------------------------------------------------
(* Properties.                                                             *)

\* Type invariant: the supervisor's variables have their types in every stage
\* of main, a listener exists only for a socket at the path, and main has a
\* configuration as soon as it is past the reading of it.
ProcessTypeOK ==
    /\ TypeOK
    /\ grand \in BOOLEAN /\ parent \in {"absent", "dir", "other"}
    /\ parentMode \in Modes /\ entry \in Entries /\ entryMode \in Modes
    /\ step \in Steps /\ created \in BOOLEAN
    /\ listening \in BOOLEAN /\ (listening => entry = "socket")
    /\ ioErrors \in 0..MaxIoErrors /\ restarts \in 0..MaxRestarts /\ interrupted \in BOOLEAN
    /\ boot \in {"config", "server", "tls", "done", "panicked"}
    /\ IF boot = "config" THEN config = NoConfig ELSE IsConfig(config)
    /\ tls \in {"off", "listening"}

\* A configuration that from_lookup lets through is one the rest of the
\* program can work with: no expect() of main panics, and the limits that the
\* server, the output policy, the reader of lines and the NATS source take for
\* granted hold.
AcceptedConfigWorks ==
    /\ boot # "panicked"
    /\ Supervising =>
        /\ config.iec104_queue_size > 0
        /\ config.iec104_max_age # 0
        /\ config.unix_socket_max_line_bytes > 0
        /\ ~InUnixMode => Absent \notin {config.nats_stream, config.nats_consumer}

\* With TLS asked for, at no time of any incarnation is the plaintext server
\* bound to more than the loopback address, and no source is fed into a
\* bridge whose TLS listener failed (README: "not directly reachable from the
\* network", "the bridge refuses to start").
NeverPlaintextOnTheNetwork ==
    is_truthy(env["TLS_ENABLED"]) =>
        /\ server = "running" => address \in {Loopback, NoAddress}
        /\ phase # "failed" /\ Supervising => tls = "listening" /\ pem.ca = "good"

Serving == Supervising /\ InUnixMode /\ phase \in {"select", "handle"}

\* A bridge that takes messages from its socket listens on the path it was
\* given, with the mode that keeps others out, however often earlier
\* incarnations died on the way; and the directory has the mode it was given or
\* 0750, whatever failed or died, unless that was a bind between its
\* create_dir and its set_permissions (UnixSocketSource::bind).
ServingSocketIsReady ==
    Serving =>
        /\ listening /\ parent = "dir" /\ entryMode = "0660"
        /\ parentMode \in {"given", "0750"} \/ interrupted

\* README.md, "The bridge sets the socket directory to `0750`" and "only applies
\* `0750` permissions when it creates the socket parent directory itself": a
\* directory that the bridge made has that mode when it is served.
SocketDirectoryIs0750 == Serving /\ parentMode # "given" => parentMode = "0750"

Foreign(e) == e \in {"symlink", "directory"}

\* What belongs to others is left alone: a symbolic link or a directory at the
\* path, a parent that is not a directory, and the mode of a directory that
\* existed before (remove_existing_socket_entry; README: "leaves the parent mode
\* unchanged").
OthersLeftAlone ==
    [][/\ Foreign(entry) => entry' = entry
       /\ parent = "other" => parent' = "other"
       /\ parent = "dir" /\ parentMode = "given" => parentMode' = "given"]_processVars

\* What an incarnation leaves behind, at whatever step it died, never keeps
\* the next one from listening: in Unix-socket mode a build fails only for
\* what others put in the way, or for an error of the system.
LeftoversAreNoObstacle ==
    Supervising /\ InUnixMode /\ step = "failed" =>
        Foreign(entry) \/ parent = "other" \/ ioErrors > 0

\* Once the first source was built, only Ctrl-C or the death of the process
\* takes the server down: no failure of a later source does.
OnlyCtrlCStopsTheServer ==
    [][server = "running" /\ server' # "running" /\ phase # "first_build"
        => pressed \/ restarts' # restarts]_processVars
=============================================================================
