---------------------------- MODULE BridgeSession ----------------------------
(***************************************************************************)
(* The desktop app and the FM plugin over the bridge directory they share. *)
(* Either may stop and start again, requests expire, waits time out, and   *)
(* FM changes the player under both.                                       *)
(***************************************************************************)
EXTENDS BridgePlugin, BridgeClient

vars == <<files, plugin, client>>

Init == FilesInit /\ PluginInit /\ ClientInit

(* Both sides write request.json.tmp and rename it, each within a moment;   *)
(* unless the instance says otherwise they are not inside it together.      *)
TempIsNotShared ==
    "sharedTemp" \in Faults \/ ~(pollPc' = "moveTemp" /\ appPc' = "rename")

PluginActs(A) == A /\ UNCHANGED client /\ TempIsNotShared
ClientActs(A) == A /\ UNCHANGED plugin /\ TempIsNotShared

Next ==
    \/ PluginActs(PluginStep)
    \/ ClientActs(ClientStep)
    \/ (RequestExpires \/ ForceScan) /\ UNCHANGED <<plugin, client>>

Spec == Init /\ [][Next]_vars

(* The two threads of the plugin and the command of the app make progress.  *)
FairSpec ==
    /\ Spec
    /\ WF_vars(PluginActs(PollStep))
    /\ WF_vars(PluginActs(WorkStep))
    /\ WF_vars(ClientActs(CommandStep))

-----------------------------------------------------------------------------
TypeOK == FilesTypeOK /\ PluginTypeOK /\ ClientTypeOK

(* A Load Data publishes the dump of its own request, whichever scans ran   *)
(* between the ready status it saw and the copy it took                     *)
(* (load_data.rs capture_completed_dump).                                   *)
CaptureOwnDump == appPc = "publish" => copy.by = mine.id

(* A boost the app reports as refused or unsent, leaving its snapshot in    *)
(* use, has not written to FM and never will, although a request may be     *)
(* accepted long after its command gave up (commands.rs                     *)
(* execute_player_boost_with marks nothing for such an error).              *)
RefusedNotApplied == \A i \in applied : outcome[i] \notin {"rejected", "unwritten"}

(* Every boost that may have changed FM is in the hands of its command, has *)
(* reached its snapshot, or has its snapshot marked for recovery            *)
(* (ADR-0020: "Any unproven outcome or SQLite reconciliation failure marks  *)
(* the snapshot as recovery-required").                                     *)
AppliedIsAccounted ==
    \A i \in applied : outcome[i] \in {"open", "reconciled", "latched"}

(* The live index of a published snapshot and the snapshot agree, so that a *)
(* boost prepared from the one passes the stale-value check of the other    *)
(* (TryUpdateCurrentAbility and reconcile_verified_boost each advance one). *)
Disowned == {i \in Ids : outcome[i] \in {"exited", "unlatched"}}
IndexMatchesSnapshot ==
    \A s \in Snapshots \ latched :
        index.source = s /\ ~Boosting /\ Disowned = {} => index.ability = db[s]

(* A boost changes FM only on behalf of the newest snapshot: none of a      *)
(* later scan has been published (PlayerMutationIndex.TryGet).              *)
BoostsAreNotStale ==
    [][applied' # applied => \A s \in Snapshots : s <= workReq.source]_vars

(* A request that has been judged is not in request.json again, whatever    *)
(* the refreshes that rewrote it meanwhile (RequestAcceptance "Validates    *)
(* and consumes request.json").                                             *)
TakenIsGone == request.id \notin taken

-----------------------------------------------------------------------------
(* What the user is told of each boost, and the one he still waits for.     *)
OpenBoost ==
    IF Boosting THEN [id |-> mine.id, source |-> mine.source, expected |-> mine.expected]
    ELSE [id |-> NoId, source |-> NoId, expected |-> Unknown]
ToldOf ==
    [i \in Ids |->
        CASE outcome[i] = "reconciled" -> "stored"
          [] outcome[i] \in {"rejected", "unwritten"} -> "refused"
          [] outcome[i] = "latched" -> "doubtful"
          [] outcome[i] \in {"exited", "unlatched"} -> "lost"
          [] OTHER -> outcome[i]]

Contract ==
    INSTANCE BoostContract WITH
        shown <- db, doubted <- latched, open <- OpenBoost, fate <- ToldOf,
        written <- applied,
        MayLose <- "appExits" \in Faults \/ "latchFails" \in Faults

(* The session keeps the contract of a boost, over files that are read late,*)
(* rewritten by either side and answered by a status that others replace:   *)
(* it reaches FM at most once, and what the app says of it and stores is    *)
(* true (commands.rs execute_player_boost_with, ADR-0020).                  *)
KeepsContract == Contract!Spec

-----------------------------------------------------------------------------
(* A command of the app returns, answered or not: every wait has its        *)
(* deadline (service.rs wait_for_request_terminal).                         *)
EveryCommandReturns == appPc # "idle" ~> appPc = "idle"

(* A request is taken or replaced, if only to be refused as stale, and its  *)
(* refreshes do not keep it waiting for ever (Plugin.cs PollRequests).      *)
EveryRequestIsTaken == \A i \in Ids : request.id = i ~> request.id # i

(* The work gate is left after every dump and every boost, however it ends  *)
(* (the finally of TryStartBridgeWorkFromRequestOrForceFlag).               *)
TheGateIsLeft == busy ~> ~busy

(* The plugin serves: it goes on with what it began, and with the next.     *)
ThePluginServes == EveryRequestIsTaken /\ TheGateIsLeft
=============================================================================
