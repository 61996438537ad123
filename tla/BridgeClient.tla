---------------------------- MODULE BridgeClient ----------------------------
(***************************************************************************)
(* The desktop app's side (src-tauri/src/features): the one command that   *)
(* may use the bridge at a time (Load Data, a single boost, or a boost of  *)
(* a squad run) and the snapshots it leaves in SQLite.  A snapshot is      *)
(* named by the request id that produced it, which the code stores as      *)
(* bridge_source_request_id.                                               *)
(***************************************************************************)
EXTENDS BridgeFiles

VARIABLES
    appPc,    \* where the command is
    appMode,  \* "load", "single" or "squad"; "none" when there is no command
    mine,     \* the request it made
    copy,     \* the private copy of dump.json a Load Data took
    verified, \* the ability a boost was told is verified
    db,       \* the ability each published snapshot shows; Unknown: no snapshot
    current,  \* the current snapshot of the active save
    latched,  \* the snapshots with boost_recovery_required set
    outcome   \* history: how each boost ended for the app

client == <<appPc, appMode, mine, copy, verified, db, current, latched, outcome>>

AppLocations == {"idle", "writeTemp", "rename", "wait", "copy", "recheck",
                 "publish", "reconcile", "latch"}
Outcomes == {"none", "open", "reconciled", "rejected", "latched",
             "unwritten", "exited", "unlatched"}
NoDump == [by |-> NoId, ability |-> Unknown]

ClientTypeOK ==
    /\ appPc \in AppLocations
    /\ appMode \in {"none", "load", "single", "squad"}
    /\ mine \in Requests \cup {NoRequest}
    /\ appPc # "idle" => mine \in Requests
    /\ (appPc = "idle") = (appMode = "none")
    /\ appMode \in {"single", "squad"} => mine \in BoostRequests
    /\ appPc \in {"reconcile", "latch"} => appMode # "load"
    /\ copy \in Dumps
    /\ verified \in Abilities \cup {Unknown}
    /\ db \in [Ids -> Abilities \cup {Unknown}]
    /\ current \in Ids \cup {NoId}
    /\ latched \subseteq Ids
    /\ outcome \in [Ids -> Outcomes]

ClientInit ==
    /\ appPc = "idle"
    /\ appMode = "none"
    /\ mine = NoRequest
    /\ copy = NoDump
    /\ verified = Unknown
    /\ db = [i \in Ids |-> Unknown]
    /\ current = NoId
    /\ latched = {}
    /\ outcome = [i \in Ids |-> "none"]

Snapshots == {i \in Ids : db[i] # Unknown}
Boosting == appPc # "idle" /\ appMode \in {"single", "squad"}

-----------------------------------------------------------------------------
(* A command ends and forgets what it held.                                 *)
Done ==
    /\ appPc' = "idle"
    /\ appMode' = "none"
    /\ mine' = NoRequest
    /\ copy' = NoDump
    /\ verified' = Unknown

Step(l) == appPc' = l /\ UNCHANGED <<appMode, mine, copy, verified>>

EndsAs(o) == outcome' = [outcome EXCEPT ![mine.id] = o]

(* A boost that failed: a squad run carries on after a live value that      *)
(* differed and otherwise marks its snapshot; a single boost marks it only  *)
(* when FM may have changed.                                                *)
FailAs(o, marks) ==
    IF marks THEN Step("latch") /\ UNCHANGED outcome
             ELSE Done /\ EndsAs(o)

-----------------------------------------------------------------------------
StartLoad ==
    /\ appPc = "idle"
    /\ nextId <= MaxId
    /\ mine' = DumpRequest(nextId)
    /\ nextId' = nextId + 1
    /\ appMode' = "load"
    /\ appPc' = "writeTemp"
    /\ UNCHANGED <<request, temp, status, dump, forceFlag>>
    /\ UNCHANGED <<copy, verified, db, current, latched, outcome>>

(* The current snapshot of the active save, its ability below the cap and   *)
(* not marked for recovery, and a status that says boosts are supported.    *)
StartBoost(mode) ==
    /\ appPc = "idle"
    /\ nextId <= MaxId
    /\ current \in Snapshots \ latched
    /\ Target(db[current]) > db[current]
    /\ status.boosts
    /\ mine' = BoostRequest(nextId, current, db[current])
    /\ nextId' = nextId + 1
    /\ appMode' = mode
    /\ appPc' = "writeTemp"
    /\ outcome' = [outcome EXCEPT ![nextId] = "open"]
    /\ UNCHANGED <<request, temp, status, dump, forceFlag>>
    /\ UNCHANGED <<copy, verified, db, current, latched>>

WriteTemp ==
    /\ appPc = "writeTemp"
    /\ temp' = mine
    /\ Step("rename")
    /\ UNCHANGED <<request, status, dump, forceFlag, nextId>>
    /\ UNCHANGED <<db, current, latched, outcome>>

RenameTemp ==
    /\ appPc = "rename"
    /\ temp # NoRequest
    /\ request' = temp
    /\ temp' = NoRequest
    /\ Step("wait")
    /\ UNCHANGED <<status, dump, forceFlag, nextId>>
    /\ UNCHANGED <<db, current, latched, outcome>>

(* The rename fails: request.json is held open by the plugin, or the temp   *)
(* file is gone because the plugin has renamed it.                          *)
RenameFails ==
    /\ appPc = "rename"
    /\ IF appMode = "load"
       THEN Done /\ UNCHANGED outcome
       ELSE FailAs("unwritten", appMode = "squad")
    /\ UNCHANGED <<files, db, current, latched>>

(* A poll of status.json that finds this request in a terminal state.       *)
Answered == appPc = "wait" /\ status.id = mine.id /\ Terminal(status)

SeeDumpReady ==
    /\ Answered
    /\ appMode = "load"
    /\ status.state = "ready"
    /\ Step("copy")
    /\ UNCHANGED <<files, db, current, latched, outcome>>

SeeDumpFailed ==
    /\ Answered
    /\ appMode = "load"
    /\ status.state = "failed"
    /\ Done
    /\ UNCHANGED <<files, db, current, latched, outcome>>

SeeBoostReady ==
    /\ Answered
    /\ appMode # "load"
    /\ status.state = "ready"
    /\ appPc' = "reconcile"
    /\ verified' = status.ability
    /\ UNCHANGED <<files, appMode, mine, copy, db, current, latched, outcome>>

(* Mutant: an outcome nobody proved is taken for a refusal.                 *)
SeeBoostFailedTrusts ==
    /\ Answered
    /\ appMode # "load"
    /\ status.state = "failed"
    /\ FailAs("rejected", status.verdict = "rejected" /\ appMode = "squad")
    /\ UNCHANGED <<files, db, current, latched>>

SeeBoostFailed ==
    /\ Answered
    /\ appMode # "load"
    /\ status.state = "failed"
    /\ FailAs("rejected",
              \/ status.verdict = "uncertain"
              \/ status.verdict = "rejected" /\ appMode = "squad")
    /\ UNCHANGED <<files, db, current, latched>>

(* Mutants: a single boost that timed out is not marked, and a boost waits  *)
(* without a deadline.                                                      *)
GiveUpForgives ==
    /\ appPc = "wait"
    /\ IF appMode = "load" THEN Done /\ UNCHANGED outcome
                           ELSE FailAs("rejected", appMode = "squad")
    /\ UNCHANGED <<files, db, current, latched>>

GiveUpLoadsOnly ==
    /\ appPc = "wait"
    /\ appMode = "load"
    /\ Done
    /\ UNCHANGED <<files, db, current, latched, outcome>>

(* The wait times out, or status.json cannot be read.                       *)
GiveUp ==
    /\ appPc = "wait"
    /\ IF appMode = "load" THEN Done ELSE Step("latch")
    /\ UNCHANGED <<files, db, current, latched, outcome>>

-----------------------------------------------------------------------------
(* capture_completed_dump copies the dump and only then reads the status    *)
(* again.                                                                   *)
CopyDump ==
    /\ appPc = "copy"
    /\ copy' = dump
    /\ appPc' = "recheck"
    /\ UNCHANGED <<files, appMode, mine, verified, db, current, latched, outcome>>

(* Mutant: the status is not read again after the copy.                     *)
RecheckNothing ==
    /\ appPc = "recheck"
    /\ Step("publish")
    /\ UNCHANGED <<files, db, current, latched, outcome>>

Recheck ==
    /\ appPc = "recheck"
    /\ IF status.state = "ready" /\ status.id = mine.id THEN Step("publish") ELSE Done
    /\ UNCHANGED <<files, db, current, latched, outcome>>

(* The snapshot is stored, and becomes current unless the save has a later  *)
(* one by game date; nothing is stored when the save has changed or SQLite  *)
(* fails.                                                                   *)
Publish ==
    /\ appPc = "publish"
    /\ \/ /\ db' = [db EXCEPT ![mine.id] = copy.ability]
          /\ current' \in {current, mine.id}
       \/ UNCHANGED <<db, current>>
    /\ Done
    /\ UNCHANGED <<files, latched, outcome>>

-----------------------------------------------------------------------------

(* reconcile_verified_boost, one transaction: the result must be the        *)
(* boost's target and the stored ability the one it started from.           *)
Reconcile ==
    /\ appPc = "reconcile"
    /\ verified = Target(mine.expected)
    /\ db[mine.source] = mine.expected
    /\ db' = [db EXCEPT ![mine.source] = verified]
    /\ Done
    /\ EndsAs("reconciled")
    /\ UNCHANGED <<files, current, latched>>

ReconcileFails ==
    /\ appPc = "reconcile"
    /\ Step("latch")
    /\ UNCHANGED <<files, db, current, latched, outcome>>

(* boost_recovery_required is set on the boost's snapshot.                  *)
LatchRecovery ==
    /\ appPc = "latch"
    /\ latched' = latched \cup {mine.source}
    /\ Done
    /\ EndsAs("latched")
    /\ UNCHANGED <<files, db, current>>

LatchFails ==
    /\ "latchFails" \in Faults
    /\ appPc = "latch"
    /\ Done
    /\ EndsAs("unlatched")
    /\ UNCHANGED <<files, db, current, latched>>

-----------------------------------------------------------------------------
(* The user switches saves, edits a game date or deletes a snapshot of the  *)
(* list: the current snapshot changes, which no boost in progress allows.   *)
SelectSnapshot ==
    /\ ~Boosting
    /\ current' \in (Snapshots \cup {NoId}) \ {current}
    /\ UNCHANGED <<files, appPc, appMode, mine, copy, verified, db, latched, outcome>>

(* The app is closed in the middle of a command and started again.          *)
AppExit ==
    /\ "appExits" \in Faults
    /\ appPc # "idle"
    /\ Done
    /\ IF Boosting THEN EndsAs("exited") ELSE UNCHANGED outcome
    /\ UNCHANGED <<files, db, current, latched>>

CommandStep ==
    \/ WriteTemp \/ RenameTemp \/ RenameFails
    \/ SeeDumpReady \/ SeeDumpFailed \/ SeeBoostReady \/ SeeBoostFailed \/ GiveUp
    \/ CopyDump \/ Recheck \/ Publish
    \/ Reconcile \/ ReconcileFails \/ LatchRecovery \/ LatchFails

ClientStep ==
    \/ StartLoad
    \/ StartBoost("single") \/ StartBoost("squad")
    \/ CommandStep
    \/ SelectSnapshot
    \/ AppExit
=============================================================================
