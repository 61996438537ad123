---------------------------- MODULE BoostContract ----------------------------
(***************************************************************************)
(* What a boost promises the user, without files, threads or waits: it is  *)
(* for the newest snapshot, it changes FM at most once and never after it  *)
(* was refused; the snapshot follows it exactly if it did, and is marked   *)
(* before another boost may start if nobody can tell.                      *)
(***************************************************************************)
EXTENDS Naturals

CONSTANTS MaxId,    \* how many requests there are
          Cap, Increment,
          MayLose   \* may a boost be forgotten with its doubt?

VARIABLES
    shown,   \* the ability each snapshot shows; 0: there is no such snapshot
    doubted, \* the snapshots that have to be scanned anew
    open,    \* the boost that is not yet answered, and its terms
    fate,    \* what the user is told of each boost
    written  \* the boosts that have changed FM, or may have

contractVars == <<shown, doubted, open, fate, written>>

Ids == 1..MaxId
Raised(a) == IF a + Increment <= Cap THEN a + Increment ELSE Cap
Nothing == [id |-> 0, source |-> 0, expected |-> 0]
Shown == {s \in Ids : shown[s] # 0}

Init ==
    /\ shown = [s \in Ids |-> 0]
    /\ doubted = {}
    /\ open = Nothing
    /\ fate = [i \in Ids |-> "none"]
    /\ written = {}

-----------------------------------------------------------------------------
(* A scan becomes a snapshot, newer than all others, while no boost is open.*)
Publish(s, ability) ==
    /\ open = Nothing
    /\ fate[s] = "none"
    /\ \A z \in Shown : z < s
    /\ shown' = [shown EXCEPT ![s] = ability]
    /\ UNCHANGED <<doubted, open, fate, written>>

(* A boost is asked for on the terms of a snapshot that nobody doubts.      *)
Ask(i, s) ==
    /\ open = Nothing
    /\ fate[i] = "none"
    /\ i \notin Shown
    /\ s \in Shown \ doubted
    /\ Raised(shown[s]) > shown[s]
    /\ open' = [id |-> i, source |-> s, expected |-> shown[s]]
    /\ fate' = [fate EXCEPT ![i] = "open"]
    /\ UNCHANGED <<shown, doubted, written>>

(* It changes FM, once: while it is open on behalf of the newest snapshot,  *)
(* and later only if it was left in doubt.                                  *)
Write(i) ==
    /\ i \notin written
    /\ \/ open.id = i /\ \A s \in Shown : s <= open.source
       \/ fate[i] \in {"doubtful", "lost"}
    /\ written' = written \cup {i}
    /\ UNCHANGED <<shown, doubted, open, fate>>

Closed(end) ==
    /\ open # Nothing
    /\ fate' = [fate EXCEPT ![open.id] = end]
    /\ open' = Nothing
    /\ UNCHANGED written

(* The answers.                                                             *)
Refuse == Closed("refused") /\ open.id \notin written /\ UNCHANGED <<shown, doubted>>

Store ==
    /\ Closed("stored")
    /\ open.id \in written
    /\ shown[open.source] = open.expected
    /\ shown' = [shown EXCEPT ![open.source] = Raised(open.expected)]
    /\ UNCHANGED doubted

Doubt == Closed("doubtful") /\ doubted' = doubted \cup {open.source} /\ UNCHANGED shown

Lose == Closed("lost") /\ MayLose /\ UNCHANGED <<shown, doubted>>

Next ==
    \/ \E s \in Ids, ability \in 1..Cap : Publish(s, ability)
    \/ \E i, s \in Ids : Ask(i, s)
    \/ \E i \in Ids : Write(i)
    \/ Refuse \/ Store \/ Doubt \/ Lose

Spec == Init /\ [][Next]_contractVars
=============================================================================
