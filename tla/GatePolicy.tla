------------------------------ MODULE GatePolicy ------------------------------
(***************************************************************************)
(* What the gates of boost_gate.rs promise, without the gates: which       *)
(* operations may run together.                                            *)
(***************************************************************************)
CONSTANT Threads

VARIABLE running   \* what each thread is running

Kinds == {"nothing", "boost", "load", "switch"}

Init == running = [t \in Threads |-> "nothing"]

Idle(t) == running[t] = "nothing"
NoneRuns(kinds) == \A u \in Threads : running[u] \notin kinds

(* A boost starts only when nothing that uses the snapshot is running.      *)
StartBoost(t) ==
    /\ Idle(t)
    /\ NoneRuns({"boost", "load", "switch"})
    /\ running' = [running EXCEPT ![t] = "boost"]

StartLoad(t) ==
    /\ Idle(t)
    /\ NoneRuns({"boost", "load"})
    /\ running' = [running EXCEPT ![t] = "load"]

StartSwitch(t) ==
    /\ Idle(t)
    /\ NoneRuns({"boost", "switch"})
    /\ running' = [running EXCEPT ![t] = "switch"]

Stop(t) ==
    /\ ~Idle(t)
    /\ running' = [running EXCEPT ![t] = "nothing"]

Next == \E t \in Threads : StartBoost(t) \/ StartLoad(t) \/ StartSwitch(t) \/ Stop(t)

Spec == Init /\ [][Next]_running
=============================================================================
