----------------------------- MODULE SocketPath -----------------------------
(***************************************************************************)
(* UnixSocketSource::bind (source.rs): the file-system calls that turn     *)
(* UNIX_SOCKET_PATH into a listening socket.  The file system outlives the *)
(* process; each call is a step, so that the process can die between two.  *)
(*                                                                         *)
(* The path is grand/parent/entry.  Nobody else changes it meanwhile.      *)
(***************************************************************************)
EXTENDS Integers

CONSTANT MaxIoErrors  \* bound: calls that fail for a reason of the system's

ASSUME IoErrorsAssumption == MaxIoErrors \in Nat

VARIABLES
    \* The file system:
    grand,       \* the directory above the parent exists
    parent,      \* "absent", "dir", or "other": a file or a symbolic link
    parentMode,  \* "given" if the bridge did not create it
    entry,       \* what UNIX_SOCKET_PATH names
    entryMode,
    \* The process:
    step,        \* how far bind has come
    created,     \* its local created_parent_dir
    listening,   \* the entry is the socket of a listener of this process
    ioErrors,    \* calls that failed so far
    interrupted  \* observed: a bind ended with the parent created and no mode set

diskVars   == <<grand, parent, parentMode, entry, entryMode>>
bindVars   == <<step, created, listening>>
socketVars == <<diskVars, bindVars, ioErrors, interrupted>>

Entries == {"none", "socket", "file", "symlink", "directory"}
Modes   == {"given", "umask", "0750", "0660"}
Steps   == {"mkdir", "entry", "bind", "chmod_parent", "chmod_socket", "built", "failed"}

SocketInit ==
    /\ grand \in BOOLEAN
    /\ parent \in IF grand THEN {"absent", "dir", "other"} ELSE {"absent"}
    /\ entry \in IF parent = "dir" THEN Entries ELSE {"none"}
    /\ parentMode = "given" /\ entryMode = "given"
    /\ step = "mkdir" /\ created = FALSE /\ listening = FALSE
    /\ ioErrors = 0 /\ interrupted = FALSE

\* bind has created the parent and not yet set its mode.
Unfinished == created /\ step \in {"entry", "bind", "chmod_parent"}

\* bind ends here, in whatever state it leaves the disk.
Interrupt == interrupted' = (interrupted \/ Unfinished)

\* The locals of a bind that has returned an error, or died, are gone.
Reset == step' = "mkdir" /\ created' = FALSE /\ listening' = FALSE

-----------------------------------------------------------------------------
\* create_directory_if_missing calls itself for the parent of the parent.
CreateGrandparent ==
    /\ step = "mkdir" /\ parent = "absent" /\ ~grand
    /\ grand' = TRUE
    /\ UNCHANGED <<parent, parentMode, entry, entryMode, bindVars, ioErrors, interrupted>>

CreateParent ==
    /\ step = "mkdir" /\ parent = "absent" /\ grand
    /\ parent' = "dir" /\ parentMode' = "umask"
    /\ created' = TRUE
    /\ step' = "entry"
    /\ UNCHANGED <<grand, entry, entryMode, listening, ioErrors, interrupted>>

\* AlreadyExists: ensure_socket_parent_dir wants a directory, not a link to one.
ParentExists ==
    /\ step = "mkdir" /\ parent = "dir"
    /\ created' = FALSE
    /\ step' = "entry"
    /\ UNCHANGED <<diskVars, listening, ioErrors, interrupted>>

\* Mutant: a socket is left where it is.
RemoveFileOnly ==
    /\ step = "entry"
    /\ entry \in {"none", "file", "socket"}
    /\ entry' = IF entry = "file" THEN "none" ELSE entry
    /\ step' = "bind"
    /\ UNCHANGED <<grand, parent, parentMode, entryMode, created, listening, ioErrors, interrupted>>

\* A socket, stale or not, and a file are removed.
remove_existing_socket_path ==
    /\ step = "entry"
    /\ entry \in {"none", "file", "socket"}
    /\ entry' = "none"
    /\ step' = "bind"
    /\ UNCHANGED <<grand, parent, parentMode, entryMode, created, listening, ioErrors, interrupted>>

Bind ==
    /\ step = "bind" /\ entry = "none"
    /\ entry' = "socket" /\ entryMode' = "umask"
    /\ listening' = TRUE
    /\ step' = "chmod_parent"
    /\ UNCHANGED <<grand, parent, parentMode, created, ioErrors, interrupted>>

\* Mutant: the mode is set whoever created the directory.
ChmodAnyParent ==
    /\ step = "chmod_parent"
    /\ parentMode' = "0750"
    /\ step' = "chmod_socket"
    /\ UNCHANGED <<grand, parent, entry, entryMode, created, listening, ioErrors, interrupted>>

\* Mutant: the mode of the directory is left as create_dir made it.
ChmodParentForgotten ==
    /\ step = "chmod_parent"
    /\ step' = "chmod_socket"
    /\ UNCHANGED <<diskVars, created, listening, ioErrors, interrupted>>

\* set_socket_permissions: the directory only if bind created it ...
ChmodParent ==
    /\ step = "chmod_parent"
    /\ parentMode' = IF created THEN "0750" ELSE parentMode
    /\ step' = "chmod_socket"
    /\ UNCHANGED <<grand, parent, entry, entryMode, created, listening, ioErrors, interrupted>>

\* ... then the socket.
ChmodSocket ==
    /\ step = "chmod_socket"
    /\ entryMode' = "0660"
    /\ step' = "built"
    /\ UNCHANGED <<grand, parent, parentMode, entry, created, listening, ioErrors, interrupted>>

\* What is in the way is not the bridge's to remove.
InTheWay ==
    \/ step = "mkdir" /\ parent = "other"
    \/ step = "entry" /\ entry \in {"symlink", "directory"}
    \/ step = "bind" /\ entry # "none"

\* bind returns an error, and drops the listener if there is one already.
Refuse ==
    /\ InTheWay
    /\ step' = "failed" /\ listening' = FALSE
    /\ Interrupt
    /\ UNCHANGED <<diskVars, created, ioErrors>>

IoError ==
    /\ step \notin {"built", "failed"}
    /\ ioErrors < MaxIoErrors
    /\ ioErrors' = ioErrors + 1
    /\ step' = "failed" /\ listening' = FALSE
    /\ Interrupt
    /\ UNCHANGED <<diskVars, created>>

BindStep ==
    \/ CreateGrandparent \/ CreateParent \/ ParentExists
    \/ remove_existing_socket_path \/ Bind \/ ChmodParent \/ ChmodSocket
    \/ Refuse \/ IoError
=============================================================================
