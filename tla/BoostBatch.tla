----------------------------- MODULE BoostBatch -----------------------------
(***************************************************************************)
(* The boosts of a whole club: the squad run (player/commands.rs), once    *)
(* for mentality and once for ability, the staff run (staff/commands.rs),  *)
(* and the managed-club command that chains the three.  One person at a    *)
(* time is prepared, asked of the plugin and reconciled with the snapshot. *)
(* A boost is one level up; BridgeSession has the files between the app    *)
(* and the plugin, MemoryBoost the bytes, BoostGate the exclusion of every *)
(* other command.                                                          *)
(***************************************************************************)
EXTENDS Integers, Sequences

CONSTANTS Players, Staff, \* the persons of the managed club
          MaxLevel,       \* the level beyond which nobody is boosted
          Nobody

Runs == {"wonderkids", "players", "staff"}
Tasks == [run : {"wonderkids", "players"}, person : Players]
            \cup [run : {"staff"}, person : Staff]
Levels == 0..MaxLevel

ASSUME LevelsAssumption == MaxLevel \in Nat
ASSUME NobodyAssumption == Nobody \notin Tasks

VARIABLES
    command,  \* the runs of the command
    run,      \* the one it is at
    pc,       \* where the command is
    ending,   \* what it returned
    todo,     \* the persons of the run that were not looked at yet
    task,     \* the person in hand
    tally,    \* the persons updated, skipped and failed; the code counts them
    before,   \* history: the levels the snapshot had when the command started
    db,       \* the level of each person in the snapshot
    marked,   \* boost_recovery_required of the snapshot
    lost,     \* history: a mark could not be stored
    fm,       \* the level of each person in FM
    indexed,  \* the plugin has live indexes of the snapshot
    open,     \* the person of a request the plugin has yet to answer
    reply     \* its answer to the last request

app == <<command, run, pc, ending, todo, task, tally, before>>
store == <<db, marked, lost>>
plugin == <<fm, indexed, open, reply>>
vars == <<app, store, plugin>>

(* One run by itself, or the managed club's three.                          *)
Commands == {<<r>> : r \in Runs} \cup {<<"wonderkids", "players", "staff">>}
Cohort(r) == {t \in Tasks : t.run = r}
NoTally == [updated |-> {}, skipped |-> {}, failed |-> {}]

TypeOK ==
    /\ command \in Commands
    /\ run \in DOMAIN command
    /\ pc \in {"capture", "next", "prepare", "ask", "wait", "reconcile",
               "mark", "done"}
    /\ ending \in {"none", "complete", "recovery", "error"}
    /\ todo \subseteq Tasks
    /\ task \in Tasks \cup {Nobody}
    /\ pc \in {"prepare", "ask", "wait", "reconcile"} => task \in Tasks
    /\ tally \in [updated : SUBSET Tasks, skipped : SUBSET Tasks,
                  failed : SUBSET Tasks]
    /\ before \in [Tasks -> Levels]
    /\ db \in [Tasks -> Levels]
    /\ fm \in [Tasks -> Levels]
    /\ marked \in BOOLEAN /\ lost \in BOOLEAN /\ indexed \in BOOLEAN
    /\ open \in Tasks \cup {Nobody}
    /\ reply \in {"none", "verified", "liveValue", "rejected", "unconfirmed"}

Init ==
    /\ command \in Commands
    /\ run = 1
    /\ pc = "done"
    /\ ending = "none"
    /\ todo = {}
    /\ task = Nobody
    /\ tally = NoTally
    /\ db \in [Tasks -> Levels]
    /\ before = db
    /\ fm = db
    /\ marked = FALSE
    /\ lost = FALSE
    /\ indexed = TRUE
    /\ open = Nobody
    /\ reply = "none"

-----------------------------------------------------------------------------
(* The command.                                                             *)

Goto(l) == pc' = l /\ UNCHANGED <<command, run, ending, todo, task, tally, before>>

End(how) ==
    /\ pc' = "done"
    /\ ending' = how
    /\ todo' = {}
    /\ task' = Nobody
    /\ UNCHANGED <<command, run, tally, before>>

(* The person in hand is counted and the run goes on.                       *)
Count(what) ==
    /\ tally' = [tally EXCEPT ![what] = @ \cup {task}]
    /\ task' = Nobody
    /\ pc' = "next"
    /\ UNCHANGED <<command, run, ending, todo, before>>

Start ==
    /\ pc = "done"
    /\ command' \in Commands
    /\ run' = 1
    /\ pc' = "capture"
    /\ ending' = "none"
    /\ tally' = NoTally
    /\ before' = db
    /\ UNCHANGED <<todo, task, store, plugin>>

(* The context and the cohort, frozen for the run.                          *)
Capture ==
    /\ pc = "capture"
    /\ ~marked
    /\ todo' = Cohort(command[run])
    /\ pc' = "next"
    /\ UNCHANGED <<command, run, ending, task, tally, before, store, plugin>>

(* No snapshot, no managed club, a marked snapshot, or SQLite fails.        *)
CaptureFails ==
    /\ pc = "capture"
    /\ End("error")
    /\ UNCHANGED <<store, plugin>>

TakeNext ==
    /\ pc = "next"
    /\ task' \in todo
    /\ todo' = todo \ {task'}
    /\ pc' = "prepare"
    /\ UNCHANGED <<command, run, ending, tally, before, store, plugin>>

(* The run is over: the chain goes on with the next one.                    *)
RunOver ==
    /\ pc = "next"
    /\ todo = {}
    /\ \/ /\ run = Len(command)
          /\ End("complete")
       \/ /\ run < Len(command)
          /\ run' = run + 1
          /\ pc' = "capture"
          /\ UNCHANGED <<command, ending, todo, task, tally, before>>
    /\ UNCHANGED <<store, plugin>>

(* The snapshot shows nothing to raise.                                     *)
AtLimit(t) == db[t] = MaxLevel

(* A player may be too old for a raise of ability, or of unknown age.       *)
MayBeIneligible(t) == t.run = "players"

(* is_skippable_squad_player_boost_eligibility, currentAbilityAtLimit.      *)
Skip ==
    /\ pc = "prepare"
    /\ AtLimit(task) \/ MayBeIneligible(task)
    /\ Count("skipped")
    /\ UNCHANGED <<store, plugin>>

Prepare ==
    /\ pc = "prepare"
    /\ ~AtLimit(task)
    /\ Goto("ask")
    /\ UNCHANGED <<store, plugin>>

(* Values that cannot be, a context that changed, or SQLite fails.          *)
PrepareFails ==
    /\ pc = "prepare"
    /\ Goto("mark")
    /\ UNCHANGED <<store, plugin>>

(* A bridge error, with nothing written to FM, marks a squad run's snapshot *)
(* and simply ends a staff run.                                             *)
BridgeFails == IF task.run = "staff" THEN End("error") ELSE Goto("mark")

Ask ==
    /\ pc = "ask"
    /\ indexed
    /\ open' = task
    /\ reply' = "none"
    /\ Goto("wait")
    /\ UNCHANGED <<store, fm, indexed>>

(* The status says boosts are not supported, or the file cannot be written. *)
AskFails ==
    /\ pc = "ask"
    /\ BridgeFails
    /\ UNCHANGED <<store, plugin>>

SeeVerified ==
    /\ pc = "wait"
    /\ reply = "verified"
    /\ Goto("reconcile")
    /\ UNCHANGED <<store, plugin>>

(* Mutant: any refusal lets the run go on.                                  *)
SeeAnyRefusal ==
    /\ pc = "wait"
    /\ reply \in {"liveValue", "rejected"}
    /\ Count("failed")
    /\ UNCHANGED <<store, plugin>>

(* Mutant: a value that changed in FM ends the command well.                *)
SeeLiveValueStops ==
    /\ pc = "wait"
    /\ reply = "liveValue"
    /\ End("complete")
    /\ UNCHANGED <<store, plugin>>

(* LiveValue: the values changed in FM, or are at their limit there.        *)
SeeLiveValue ==
    /\ pc = "wait"
    /\ reply = "liveValue"
    /\ Count("failed")
    /\ UNCHANGED <<store, plugin>>

SeeRejected ==
    /\ pc = "wait"
    /\ reply = "rejected"
    /\ BridgeFails
    /\ UNCHANGED <<store, plugin>>

(* Mutant: what nobody could confirm is treated as a bridge error.          *)
SeeUnconfirmedEnds ==
    /\ pc = "wait"
    /\ BridgeFails
    /\ UNCHANGED <<store, plugin>>

(* The plugin cannot vouch for the outcome, or the wait times out.          *)
SeeUnconfirmed ==
    /\ pc = "wait"
    /\ Goto("mark")
    /\ UNCHANGED <<store, plugin>>

(* Mutant: a boost is counted and not stored.                               *)
ReconcileCounts ==
    /\ pc = "reconcile"
    /\ Count("updated")
    /\ UNCHANGED <<store, plugin>>

Reconcile ==
    /\ pc = "reconcile"
    /\ db' = [db EXCEPT ![task] = @ + 1]
    /\ Count("updated")
    /\ UNCHANGED <<marked, lost, plugin>>

ReconcileFails ==
    /\ pc = "reconcile"
    /\ Goto("mark")
    /\ UNCHANGED <<store, plugin>>

Mark ==
    /\ pc = "mark"
    /\ marked' = TRUE
    /\ End("recovery")
    /\ UNCHANGED <<db, lost, plugin>>

(* The snapshot is gone or SQLite fails: an error that says so.             *)
MarkFails ==
    /\ pc = "mark"
    /\ lost' = TRUE
    /\ End("error")
    /\ UNCHANGED <<db, marked, plugin>>

CommandStep ==
    \/ Capture \/ CaptureFails \/ TakeNext \/ RunOver
    \/ Skip \/ Prepare \/ PrepareFails
    \/ Ask \/ AskFails
    \/ SeeVerified \/ SeeLiveValue \/ SeeRejected \/ SeeUnconfirmed
    \/ Reconcile \/ ReconcileFails \/ Mark \/ MarkFails

-----------------------------------------------------------------------------
(* The plugin answers when it gets to it, also after the app has given up.  *)

Answer(a, keeps) ==
    /\ open # Nobody
    /\ open' = Nobody
    /\ reply' = a
    /\ indexed' = (indexed /\ keeps)
    /\ UNCHANGED <<app, store>>

Boosts ==
    /\ indexed
    /\ Answer("verified", TRUE)
    /\ fm[open] = db[open]
    /\ fm[open] < MaxLevel
    /\ fm' = [fm EXCEPT ![open] = @ + 1]

(* ExpectedValuesMismatch, CurrentAbilityAtLimit: the indexes stay.         *)
Keeps ==
    /\ indexed
    /\ Answer("liveValue", TRUE)
    /\ UNCHANGED fm

(* A refusal before the boost starts keeps the indexes; any other failure   *)
(* drops both.                                                              *)
Rejects ==
    /\ \E keeps \in BOOLEAN : Answer("rejected", keeps)
    /\ UNCHANGED fm

(* A rollback that is not verified, a crash of the work thread's boost.     *)
FailsInDoubt ==
    /\ indexed
    /\ Answer("unconfirmed", FALSE)
    /\ fm[open] < MaxLevel
    /\ fm' \in {fm, [fm EXCEPT ![open] = @ + 1]}

PluginStep == Boosts \/ Keeps \/ Rejects \/ FailsInDoubt

(* Load Data replaces the request and makes a new snapshot current.         *)
LoadData ==
    /\ pc = "done"
    /\ ending' = "none"
    /\ db' = fm
    /\ marked' = FALSE
    /\ lost' = FALSE
    /\ indexed' = TRUE
    /\ open' = Nobody
    /\ reply' = "none"
    /\ UNCHANGED <<command, run, pc, todo, task, tally, before, fm>>

Next == Start \/ CommandStep \/ PluginStep \/ LoadData

Spec == Init /\ [][Next]_vars

-----------------------------------------------------------------------------
(* What FM and the snapshot may disagree about, now or later.               *)
InDoubt == {t \in Tasks : fm[t] # db[t] \/ open = t}

(* The app stops before another request when it cannot prove that FM and    *)
(* SQLite agree (ADR-0018), and a command that ends in such a doubt has     *)
(* marked the snapshot, so that no later one starts; except when the mark   *)
(* itself could not be stored, which the command reports.                   *)
DoubtIsMarked ==
    /\ ~lost /\ pc \in {"capture", "done"} /\ InDoubt # {} => marked
    /\ ~lost /\ pc \in {"next", "prepare", "ask"} => InDoubt = {}

(* "updated" means stored: the snapshot has risen by one level for exactly  *)
(* the persons the command has counted as updated, in all its runs.         *)
UpdatedIsStored ==
    pc # "done" \/ ending # "none" =>
        \A t \in Tasks : db[t] = IF t \in tally.updated THEN before[t] + 1
                                                        ELSE before[t]

(* A command that returns without error or recovery has counted every       *)
(* person of its cohorts; the managed club's has done so for all three.     *)
CompleteIsAll ==
    ending = "complete" =>
        tally.updated \cup tally.skipped \cup tally.failed
            = UNION {Cohort(command[i]) : i \in DOMAIN command}

(* What the command reports to the user is what the snapshot shows.         *)
CountsAreTrue == UpdatedIsStored /\ CompleteIsAll

(* What a command leaves behind it is accounted for: by its counts, or by   *)
(* the mark of a doubt.                                                     *)
AccountsAreTrue == DoubtIsMarked /\ CountsAreTrue

(* The run goes on after a refusal only while the plugin still serves the   *)
(* snapshot: the messages the app takes for LiveValue are those for which   *)
(* the plugin keeps its indexes (map_bridge_error against                   *)
(* PreservesLiveIndexOnFailure).                                            *)
GoesOnServed == [][pc = "wait" /\ pc' = "next" => indexed]_vars
=============================================================================
