------------------------------ MODULE BoostGate ------------------------------
(***************************************************************************)
(* The three process-wide gates of the desktop backend                     *)
(* (src-tauri/src/features/player/boost_gate.rs).  A boost takes BOOST,    *)
(* LOAD and CONTEXT in that order, a Load Data takes LOAD, a save switch   *)
(* takes CONTEXT.  Every acquisition is a try_lock: a caller that finds a  *)
(* gate taken is refused at once and drops what it already holds.  Each    *)
(* try_lock, each guard dropped and each probe of BOOST is a step.         *)
(***************************************************************************)
EXTENDS Naturals

CONSTANTS Threads,   \* the threads that run Tauri commands
          NoThread   \* the holder of a free gate

ASSUME GateAssumption == NoThread \notin Threads

VARIABLES
    boost,    \* BOOST_GATE: the thread that holds it, or NoThread
    load,     \* LOAD_GATE
    context,  \* CONTEXT_GATE
    pc        \* where each thread is in its command

vars == <<boost, load, context, pc>>

Locations == {"idle",
              "hasBoost", "hasBoostLoad", "boosting",
              "dropLoadBoost", "dropBoost",
              "dropLoad", "dropContext",
              "loading", "loadRefused", "loadProbed",
              "switching", "switchRefused", "switchProbed"}

TypeOK ==
    /\ boost \in Threads \cup {NoThread}
    /\ load \in Threads \cup {NoThread}
    /\ context \in Threads \cup {NoThread}
    /\ pc \in [Threads -> Locations]

Init ==
    /\ boost = NoThread
    /\ load = NoThread
    /\ context = NoThread
    /\ pc = [t \in Threads |-> "idle"]

Goto(t, l) == pc' = [pc EXCEPT ![t] = l]

-----------------------------------------------------------------------------
(* acquire_boost_gate: BOOST, then LOAD, then CONTEXT.                      *)

TryBoost(t) ==
    /\ pc[t] = "idle"
    /\ \/ /\ boost = NoThread
          /\ boost' = t
          /\ Goto(t, "hasBoost")
       \/ /\ boost # NoThread
          /\ UNCHANGED <<boost, pc>>
    /\ UNCHANGED <<load, context>>

(* Mutants: LOAD taken without looking, and waited for with lock().         *)
TryBoostLoadUnchecked(t) ==
    /\ pc[t] = "hasBoost"
    /\ load' = t
    /\ Goto(t, "hasBoostLoad")
    /\ UNCHANGED <<boost, context>>

TryBoostLoadWaits(t) ==
    /\ pc[t] = "hasBoost"
    /\ load = NoThread
    /\ load' = t
    /\ Goto(t, "hasBoostLoad")
    /\ UNCHANGED <<boost, context>>

TryBoostLoad(t) ==
    /\ pc[t] = "hasBoost"
    /\ \/ /\ load = NoThread
          /\ load' = t
          /\ Goto(t, "hasBoostLoad")
       \/ /\ load # NoThread
          /\ Goto(t, "dropBoost")
          /\ UNCHANGED load
    /\ UNCHANGED <<boost, context>>

TryBoostContext(t) ==
    /\ pc[t] = "hasBoostLoad"
    /\ \/ /\ context = NoThread
          /\ context' = t
          /\ Goto(t, "boosting")
       \/ /\ context # NoThread
          /\ Goto(t, "dropLoadBoost")
          /\ UNCHANGED context
    /\ UNCHANGED <<boost, load>>

(* Mutant: the refusal forgets the LOAD guard it holds.                     *)
DropLoadForgotten(t) ==
    /\ pc[t] = "dropLoadBoost"
    /\ Goto(t, "dropBoost")
    /\ UNCHANGED <<boost, load, context>>

(* A refused acquisition drops its locals in reverse order.                 *)
DropLoadThenBoost(t) ==
    /\ pc[t] = "dropLoadBoost"
    /\ load' = NoThread
    /\ Goto(t, "dropBoost")
    /\ UNCHANGED <<boost, context>>

DropBoost(t) ==
    /\ pc[t] = "dropBoost"
    /\ boost' = NoThread
    /\ Goto(t, "idle")
    /\ UNCHANGED <<load, context>>

(* A BoostGuard drops its fields in declaration order: BOOST, LOAD, CONTEXT. *)
EndBoost(t) ==
    /\ pc[t] = "boosting"
    /\ boost' = NoThread
    /\ Goto(t, "dropLoad")
    /\ UNCHANGED <<load, context>>

EndBoostLoad(t) ==
    /\ pc[t] = "dropLoad"
    /\ load' = NoThread
    /\ Goto(t, "dropContext")
    /\ UNCHANGED <<boost, context>>

EndBoostContext(t) ==
    /\ pc[t] = "dropContext"
    /\ context' = NoThread
    /\ Goto(t, "idle")
    /\ UNCHANGED <<boost, load>>

-----------------------------------------------------------------------------
(* acquire_load_gate: LOAD alone; a refusal first probes BOOST with a       *)
(* try_lock of its own to choose its message, and the probe holds BOOST     *)
(* until its condition has been evaluated.                                  *)

TryLoad(t) ==
    /\ pc[t] = "idle"
    /\ \/ /\ load = NoThread
          /\ load' = t
          /\ Goto(t, "loading")
       \/ /\ load # NoThread
          /\ Goto(t, "loadRefused")
          /\ UNCHANGED load
    /\ UNCHANGED <<boost, context>>

ProbeLoad(t) ==
    /\ pc[t] = "loadRefused"
    /\ \/ /\ boost = NoThread
          /\ boost' = t
          /\ Goto(t, "loadProbed")
       \/ /\ boost # NoThread
          /\ Goto(t, "idle")
          /\ UNCHANGED boost
    /\ UNCHANGED <<load, context>>

EndLoad(t) ==
    /\ pc[t] = "loading"
    /\ load' = NoThread
    /\ Goto(t, "idle")
    /\ UNCHANGED <<boost, context>>

(* Mutant: a save switch that asks BOOST, which a boost may already have    *)
(* dropped, instead of CONTEXT.                                             *)
TryContextAsksBoost(t) ==
    /\ pc[t] = "idle"
    /\ boost = NoThread
    /\ context' = t
    /\ Goto(t, "switching")
    /\ UNCHANGED <<boost, load>>

(* acquire_context_gate: CONTEXT alone, with the same probe.                *)
TryContext(t) ==
    /\ pc[t] = "idle"
    /\ \/ /\ context = NoThread
          /\ context' = t
          /\ Goto(t, "switching")
       \/ /\ context # NoThread
          /\ Goto(t, "switchRefused")
          /\ UNCHANGED <<context>>
    /\ UNCHANGED <<boost, load>>

ProbeContext(t) ==
    /\ pc[t] = "switchRefused"
    /\ \/ /\ boost = NoThread
          /\ boost' = t
          /\ Goto(t, "switchProbed")
       \/ /\ boost # NoThread
          /\ Goto(t, "idle")
          /\ UNCHANGED boost
    /\ UNCHANGED <<load, context>>

EndContext(t) ==
    /\ pc[t] = "switching"
    /\ context' = NoThread
    /\ Goto(t, "idle")
    /\ UNCHANGED <<boost, load>>

DropProbe(t) ==
    /\ pc[t] \in {"loadProbed", "switchProbed"}
    /\ boost' = NoThread
    /\ Goto(t, "idle")
    /\ UNCHANGED <<load, context>>

-----------------------------------------------------------------------------
(* What a thread does once it has started an acquisition or holds a guard.  *)
Progress(t) ==
    \/ TryBoostLoad(t) \/ TryBoostContext(t)
    \/ DropLoadThenBoost(t) \/ DropBoost(t)
    \/ EndBoost(t) \/ EndBoostLoad(t) \/ EndBoostContext(t)
    \/ ProbeLoad(t) \/ EndLoad(t)
    \/ ProbeContext(t) \/ EndContext(t)
    \/ DropProbe(t)

Next == \E t \in Threads : TryBoost(t) \/ TryLoad(t) \/ TryContext(t) \/ Progress(t)

Spec == Init /\ [][Next]_vars

(* Every command that runs finishes: nothing in a gate blocks a thread.     *)
FairSpec == Spec /\ \A t \in Threads : WF_vars(Progress(t))

-----------------------------------------------------------------------------
(* The gates a thread holds at each location of its command.                *)
HoldsBoost(t) == pc[t] \in {"hasBoost", "hasBoostLoad", "boosting",
                            "dropLoadBoost", "dropBoost",
                            "loadProbed", "switchProbed"}
HoldsLoad(t) == pc[t] \in {"hasBoostLoad", "boosting", "dropLoadBoost",
                           "dropLoad", "loading"}
HoldsContext(t) == pc[t] \in {"boosting", "dropLoad", "dropContext", "switching"}

(* No gate is leaked and none is shared: a gate's holder is at a location   *)
(* that holds it, and a thread at such a location is the holder.  A refusal *)
(* that forgot to drop a gate would break it several commands later.        *)
GatesFollowLocations ==
    \A t \in Threads :
        /\ HoldsBoost(t) <=> boost = t
        /\ HoldsLoad(t) <=> load = t
        /\ HoldsContext(t) <=> context = t

(* A boost runs alone: while one holds its guard no other boost, Load Data  *)
(* or save switch is running.  Load Data and a save switch may coexist.     *)
BoostRunsAlone ==
    \A t, u \in Threads :
        (pc[t] = "boosting" /\ u # t) =>
            pc[u] \notin {"boosting", "loading", "switching"}

(* Whatever the interleaving, a thread that asked for a gate is back in     *)
(* idle: refused, or done with the operation it was admitted to.            *)
EveryCommandEnds ==
    \A t \in Threads : (pc[t] # "idle") ~> (pc[t] = "idle")

(* What a thread is running once it holds every gate its operation needs.   *)
Running ==
    [t \in Threads |->
        CASE pc[t] = "boosting"  -> "boost"
          [] pc[t] = "loading"   -> "load"
          [] pc[t] = "switching" -> "switch"
          [] OTHER               -> "nothing"]

Policy == INSTANCE GatePolicy WITH running <- Running

(* The gates implement the policy: an operation is admitted only when the   *)
(* policy allows it beside the ones that are running.                       *)
ImplementsPolicy == Policy!Spec
=============================================================================
