------------------------------- MODULE Calls -------------------------------
(***************************************************************************)
(* What Channel::send promises: a command is run by the tomsg server at    *)
(* most once.  The caller gets an answer only to a command that was run,   *)
(* or else fails; a command whose caller failed may have been run, or may  *)
(* still be.                                                               *)
(***************************************************************************)
EXTENDS Integers

CONSTANT Commands

VARIABLES
    status,  \* of a command's caller: "idle", "waiting", "answered", "failed"
    runs     \* how often the server ran a command

vars == <<status, runs>>

Init ==
    /\ status = [c \in Commands |-> "idle"]
    /\ runs = [c \in Commands |-> 0]

Step(c, from, to) == status[c] = from /\ status' = [status EXCEPT ![c] = to]

Call(c) == Step(c, "idle", "waiting") /\ UNCHANGED runs

Refuse(c) == Step(c, "idle", "failed") /\ UNCHANGED runs

Run(c) ==
    /\ status[c] \in {"waiting", "failed"}
    /\ runs[c] = 0
    /\ runs' = [runs EXCEPT ![c] = 1]
    /\ UNCHANGED status

Answer(c) == Step(c, "waiting", "answered") /\ runs[c] = 1 /\ UNCHANGED runs

\* The callers of the commands C fail together.
Fail(C) ==
    /\ \A c \in C : status[c] = "waiting"
    /\ status' = [c \in Commands |-> IF c \in C THEN "failed" ELSE status[c]]
    /\ UNCHANGED runs

Next ==
    \/ \E c \in Commands : Call(c) \/ Refuse(c) \/ Run(c) \/ Answer(c)
    \/ \E C \in SUBSET Commands : Fail(C)

Spec == Init /\ [][Next]_vars

=============================================================================
