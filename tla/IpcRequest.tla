----------------------------- MODULE IpcRequest -----------------------------
(***************************************************************************)
(* What the command socket promises to a program that uses it once: its    *)
(* command is run at most once, and only after the program has asked for   *)
(* it; a malformed one is never run.  The program may die at any time, and *)
(* so may the compositor.                                                  *)
(***************************************************************************)
CONSTANTS Clients, Commands, Malformed, NoCommand

VARIABLES
    asked,    \* the command each client has begun to send
    runs,     \* how many times the compositor has run each one
    over      \* the clients that have returned, or died

vars == <<asked, runs, over>>

Init ==
    /\ asked = [c \in Clients |-> NoCommand]
    /\ runs = [c \in Clients |-> 0]
    /\ over = {}

Ask(c) ==
    /\ asked[c] = NoCommand
    /\ c \notin over
    /\ \E m \in Commands : asked' = [asked EXCEPT ![c] = m]
    /\ UNCHANGED <<runs, over>>

Run(c) ==
    /\ asked[c] \in Commands \ Malformed
    /\ runs[c] = 0
    /\ runs' = [runs EXCEPT ![c] = 1]
    /\ UNCHANGED <<asked, over>>

End(c) ==
    /\ c \notin over
    /\ over' = over \cup {c}
    /\ UNCHANGED <<asked, runs>>

Next == \E c \in Clients : Ask(c) \/ Run(c) \/ End(c)

Spec == Init /\ [][Next]_vars
=============================================================================
