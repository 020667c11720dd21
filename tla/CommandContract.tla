-------------------------- MODULE CommandContract ---------------------------
(***************************************************************************)
(* What an enqueued command promises to the operator who polls its id: it   *)
(* may be run several times, at most MaxRuns, but it is closed once; a      *)
(* success or failure is reported only after a run, and a closed command    *)
(* never changes its answer.                                                *)
(***************************************************************************)
EXTENDS Naturals

CONSTANTS Cmds, MaxRuns

VARIABLES outcome, runs

vars == <<outcome, runs>>

Init ==
    /\ outcome = [c \in Cmds |-> "none"]
    /\ runs = [c \in Cmds |-> 0]

Submit(c) ==
    /\ outcome[c] = "none"
    /\ outcome' = [outcome EXCEPT ![c] = "open"]
    /\ UNCHANGED runs

\* A run may come after the command was closed: delivery is at least once.
Run(c) ==
    /\ outcome[c] # "none"
    /\ runs[c] < MaxRuns
    /\ runs' = [runs EXCEPT ![c] = @ + 1]
    /\ UNCHANGED outcome

Answer(c, result) ==
    /\ outcome[c] = "open"
    /\ runs[c] > 0
    /\ outcome' = [outcome EXCEPT ![c] = result]
    /\ UNCHANGED runs

\* One sweep closes every command past its time, run or not.
Expire(S) ==
    /\ \A c \in S : outcome[c] = "open"
    /\ outcome' = [c \in Cmds |-> IF c \in S THEN "expired" ELSE outcome[c]]
    /\ UNCHANGED runs

Next ==
    \/ \E c \in Cmds :
        \/ Submit(c)
        \/ Run(c)
        \/ \E result \in {"succeeded", "failed"} : Answer(c, result)
    \/ \E S \in SUBSET Cmds : Expire(S)

Spec == Init /\ [][Next]_vars
=============================================================================
