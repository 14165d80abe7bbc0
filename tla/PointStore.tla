----------------------------- MODULE PointStore -----------------------------
(***************************************************************************)
(* What the data store promises to those who use it: a memory in which a   *)
(* message is written and a General Interrogation is answered in one       *)
(* indivisible step each, the answer at some moment between the request    *)
(* and its end.  Neither mutexes nor replays that take many steps appear   *)
(* here; module Bridge is shown to implement it.                           *)
(***************************************************************************)
CONSTANTS
    Points,  \* the (CA, IOA) keys
    Conns,   \* those who interrogate
    Values,  \* what a point may hold
    Empty    \* what it holds before its first message

VARIABLES
    mem,     \* the value of each point
    phase,   \* of the interrogation of each connection
    answer   \* to the latest one

vars == <<mem, phase, answer>>

Blank == [p \in Points |-> Empty]

Init ==
    /\ mem = Blank
    /\ phase = [c \in Conns |-> "idle"]
    /\ answer = [c \in Conns |-> Blank]

\* A message sets one point.
Write(p) ==
    /\ mem' \in [Points -> Values]
    /\ \A q \in Points \ {p} : mem'[q] = mem[q]
    /\ UNCHANGED <<phase, answer>>

Ask(c) ==
    /\ phase[c] = "idle"
    /\ phase' = [phase EXCEPT ![c] = "asked"]
    /\ answer' = [answer EXCEPT ![c] = Blank]
    /\ UNCHANGED mem

\* The whole memory, at once.
Answer(c) ==
    /\ phase[c] = "asked"
    /\ phase' = [phase EXCEPT ![c] = "answered"]
    /\ answer' = [answer EXCEPT ![c] = mem]
    /\ UNCHANGED mem

Finish(c) ==
    /\ phase[c] = "answered"
    /\ phase' = [phase EXCEPT ![c] = "idle"]
    /\ UNCHANGED <<mem, answer>>

Next ==
    \/ \E p \in Points : Write(p)
    \/ \E c \in Conns : Ask(c) \/ Answer(c) \/ Finish(c)

Spec == Init /\ [][Next]_vars
=============================================================================
