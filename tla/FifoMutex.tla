----------------------------- MODULE FifoMutex -----------------------------
(***************************************************************************)
(* What a per-session lock promises, with no promises in it: a ticket      *)
(* lock.  Each call that asks for its session takes the next ticket; the   *)
(* session serves one ticket at a time, in order, whatever the outcome of  *)
(* the call that held it.                                                  *)
(***************************************************************************)
EXTENDS Naturals

CONSTANTS
    Calls,      \* the calls that ask for exclusive use of a session
    Sessions,   \* runtime session ids
    SessionOf   \* the session each call asks for

VARIABLES
    ticket,     \* ticket[c]: c's place in its session's arrival order, 0 before it arrives
    issued,     \* issued[s]: tickets handed out by session s
    completed,  \* completed[s]: tickets of s whose turn is over
    inside      \* the calls now running inside their session

vars == <<ticket, issued, completed, inside>>

Init ==
    /\ ticket = [c \in Calls |-> 0]
    /\ issued = [s \in Sessions |-> 0]
    /\ completed = [s \in Sessions |-> 0]
    /\ inside = {}

Arrive(c) ==
    LET s == SessionOf[c] IN
    /\ ticket[c] = 0
    /\ issued' = [issued EXCEPT ![s] = @ + 1]
    /\ ticket' = [ticket EXCEPT ![c] = issued[s] + 1]
    /\ UNCHANGED <<completed, inside>>

Enter(c) ==
    /\ c \notin inside
    /\ ticket[c] = completed[SessionOf[c]] + 1
    /\ inside' = inside \cup {c}
    /\ UNCHANGED <<ticket, issued, completed>>

Leave(c) ==
    /\ c \in inside
    /\ inside' = inside \ {c}
    /\ completed' = [completed EXCEPT ![SessionOf[c]] = @ + 1]
    /\ UNCHANGED <<ticket, issued>>

Next == \E c \in Calls : Arrive(c) \/ Enter(c) \/ Leave(c)

Spec == Init /\ [][Next]_vars
=============================================================================
