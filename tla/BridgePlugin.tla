---------------------------- MODULE BridgePlugin ----------------------------
(***************************************************************************)
(* The plugin inside FM (src/bridge/Plugin.cs): the thread that polls the  *)
(* bridge directory, the one work thread it starts for an accepted         *)
(* request, and the index of live candidates only that thread touches.     *)
(* One player stands for the squad; a boost raises its current ability.    *)
(***************************************************************************)
EXTENDS BridgeFiles

VARIABLES
    game,         \* the player's ability in FM's memory
    index,        \* PlayerMutationIndex: the scan it came from, its ability
    pollPc,       \* where the poll thread is
    pollSeen,     \* the request it has read
    busy,         \* BridgeWorkGate
    workPc,       \* where the work thread is
    workReq,      \* the request it serves
    workAbility,  \* what its scan or its mutation read back
    workVerdict,  \* what it will report of a boost
    taken,        \* history: the requests judged, or made for the force flag
    applied       \* history: the boosts that may have changed FM

plugin == <<game, index, pollPc, pollSeen, busy, workPc, workReq,
            workAbility, workVerdict, taken, applied>>
history == <<taken, applied>>
pollVars == <<pollPc, pollSeen>>
workVars == <<workPc, workReq, workAbility, workVerdict>>

PollLocations == {"idle", "delete", "reject", "enter", "writeTemp", "moveTemp"}
DumpLocations == {"beginDump", "scan", "replaceDump", "install", "reportDump"}
BoostLocations == {"beginBoost", "check", "reread", "write", "reportBoost"}
WorkLocations == {"off", "exit"} \cup DumpLocations \cup BoostLocations

NoIndex == [source |-> NoId, ability |-> Unknown]
Indexes == [source: Ids \cup {NoId}, ability: Abilities \cup {Unknown}]

PluginTypeOK ==
    /\ game \in Abilities
    /\ index \in Indexes
    /\ pollPc \in PollLocations
    /\ pollSeen \in Requests \cup {NoRequest}
    /\ pollPc # "idle" => pollSeen \in Requests
    /\ busy \in BOOLEAN
    /\ workPc \in WorkLocations
    /\ workReq \in Requests \cup {NoRequest}
    /\ workPc # "off" => workReq \in Requests
    /\ workPc \in BoostLocations => workReq \in BoostRequests
    /\ workAbility \in Abilities \cup {Unknown}
    /\ workVerdict \in Verdicts
    /\ taken \subseteq Ids
    /\ applied \subseteq Ids

PluginInit ==
    /\ game \in Abilities
    /\ index = NoIndex
    /\ pollPc = "idle"
    /\ pollSeen = NoRequest
    /\ busy = FALSE
    /\ workPc = "off"
    /\ workReq = NoRequest
    /\ workAbility = Unknown
    /\ workVerdict = "none"
    /\ taken = {}
    /\ applied = {}

HasLiveIndex == index.source # NoId

-----------------------------------------------------------------------------
(* The poll thread.  RequestAcceptance.TryAccept reads request.json, judges *)
(* its age and deletes whatever request.json then is.                       *)

PollRead ==
    /\ pollPc = "idle"
    /\ ~busy
    /\ request # NoRequest
    /\ pollSeen' = request
    /\ pollPc' = "delete"
    /\ UNCHANGED <<files, game, index, busy, workVars, history>>

(* Mutant: only an accepted request is deleted.                             *)
PollKeepsStale ==
    /\ pollPc = "delete"
    /\ request' = IF pollSeen.fresh THEN NoRequest ELSE request
    /\ taken' = taken \cup {pollSeen.id}
    /\ pollPc' = IF pollSeen.fresh THEN "enter" ELSE "reject"
    /\ UNCHANGED <<temp, status, dump, forceFlag, nextId>>
    /\ UNCHANGED <<game, index, pollSeen, busy, workVars, applied>>

PollDelete ==
    /\ pollPc = "delete"
    /\ \/ request' = NoRequest
       \/ "deleteFails" \in Faults /\ UNCHANGED request
    /\ taken' = taken \cup {pollSeen.id}
    /\ pollPc' = IF pollSeen.fresh THEN "enter" ELSE "reject"
    /\ UNCHANGED <<temp, status, dump, forceFlag, nextId>>
    /\ UNCHANGED <<game, index, pollSeen, busy, workVars, applied>>

(* A stale request is answered with a failed status; its message is not     *)
(* among those the app knows to precede every write.  The status is lost if *)
(* writing it throws.                                                       *)
PollReject ==
    /\ pollPc = "reject"
    /\ \/ status' = Status("failed", pollSeen.id, FALSE,
                           IF pollSeen.kind = "boost" THEN "uncertain" ELSE "none",
                           Unknown)
       \/ UNCHANGED status
    /\ pollPc' = "idle"
    /\ pollSeen' = NoRequest
    /\ UNCHANGED <<request, temp, dump, forceFlag, nextId>>
    /\ UNCHANGED <<game, index, busy, workVars, history>>

(* Mutant: the force-scan request takes an id it leaves to the next one.    *)
PollForceReusesId ==
    /\ pollPc = "idle"
    /\ ~busy
    /\ request = NoRequest
    /\ forceFlag
    /\ nextId <= MaxId
    /\ pollSeen' = DumpRequest(nextId)
    /\ taken' = taken \cup {nextId}
    /\ pollPc' = "enter"
    /\ UNCHANGED <<files, game, index, busy, workVars, applied>>

PollForce ==
    /\ pollPc = "idle"
    /\ ~busy
    /\ request = NoRequest
    /\ forceFlag
    /\ nextId <= MaxId
    /\ pollSeen' = DumpRequest(nextId)
    /\ nextId' = nextId + 1
    /\ taken' = taken \cup {nextId}
    /\ pollPc' = "enter"
    /\ UNCHANGED <<request, temp, status, dump, forceFlag>>
    /\ UNCHANGED <<game, index, busy, workVars, applied>>

(* WorkGate.TryEnter and the start of the work thread.                      *)
PollEnter ==
    /\ pollPc = "enter"
    /\ ~busy
    /\ busy' = TRUE
    /\ workReq' = pollSeen
    /\ workPc' = IF pollSeen.kind = "dump" THEN "beginDump" ELSE "beginBoost"
    /\ workAbility' = Unknown
    /\ workVerdict' = "none"
    /\ pollPc' = "idle"
    /\ pollSeen' = NoRequest
    /\ UNCHANGED <<files, game, index, history>>

(* While work is in progress the waiting request is rewritten with a new    *)
(* createdAtUtc, unless it has expired: read, write the temp file, rename.  *)
RefreshRead ==
    /\ pollPc = "idle"
    /\ busy
    /\ request.fresh
    /\ pollSeen' = request
    /\ pollPc' = "writeTemp"
    /\ UNCHANGED <<files, game, index, busy, workVars, history>>

RefreshWrite ==
    /\ pollPc = "writeTemp"
    /\ temp' = Refreshed(pollSeen)
    /\ pollPc' = "moveTemp"
    /\ UNCHANGED <<request, status, dump, forceFlag, nextId>>
    /\ UNCHANGED <<game, index, pollSeen, busy, workVars, history>>

RefreshMove ==
    /\ pollPc = "moveTemp"
    /\ IF temp = NoRequest
       THEN UNCHANGED <<request, temp>>
       ELSE request' = temp /\ temp' = NoRequest
    /\ pollPc' = "idle"
    /\ pollSeen' = NoRequest
    /\ UNCHANGED <<status, dump, forceFlag, nextId>>
    /\ UNCHANGED <<game, index, busy, workVars, history>>

(* A request.json that cannot be read is deleted, by an acceptance or by a  *)
(* refresh, and nobody is told whose it was.                                *)
LoseRequest ==
    /\ pollPc = "idle"
    /\ request # NoRequest
    /\ request' = NoRequest
    /\ UNCHANGED <<temp, status, dump, forceFlag, nextId>>
    /\ UNCHANGED plugin

-----------------------------------------------------------------------------
(* RunDumpScan.                                                             *)

Goto(l) == workPc' = l

BeginDump ==
    /\ workPc = "beginDump"
    /\ status' = Status("scanning", workReq.id, FALSE, "none", Unknown)
    /\ Goto("scan")
    /\ UNCHANGED <<request, temp, dump, forceFlag, nextId>>
    /\ UNCHANGED <<game, index, pollVars, busy, workReq, workAbility,
                   workVerdict, history>>

Scan ==
    /\ workPc = "scan"
    /\ workAbility' = game
    /\ Goto("replaceDump")
    /\ UNCHANGED <<files, game, index, pollVars, busy, workReq, workVerdict,
                   history>>

ReplaceDump ==
    /\ workPc = "replaceDump"
    /\ dump' = [by |-> workReq.id, ability |-> workAbility]
    /\ Goto("install")
    /\ UNCHANGED <<request, temp, status, forceFlag, nextId>>
    /\ UNCHANGED <<game, index, pollVars, busy, workReq, workAbility,
                   workVerdict, history>>

(* A refused scan, or one that could not replace the dump, keeps the index: *)
(* a pipeline failure reports that boosts are still supported, a missing    *)
(* game version or module says nothing of them.                             *)
FailDump ==
    /\ workPc \in {"scan", "replaceDump"}
    /\ forceFlag' = FALSE
    /\ \E supported \in {FALSE, HasLiveIndex} :
          status' = Status("failed", workReq.id, supported, "none", Unknown)
    /\ Goto("exit")
    /\ UNCHANGED <<request, temp, dump, nextId>>
    /\ UNCHANGED <<game, index, pollVars, busy, workReq, workAbility,
                   workVerdict, history>>

(* The index is replaced, or cleared when the scan has no live candidate or *)
(* the build is not approved for boosts.                                    *)
InstallIndex ==
    /\ workPc = "install"
    /\ forceFlag' = FALSE
    /\ \/ index' = [source |-> workReq.id, ability |-> workAbility]
       \/ index' = NoIndex
    /\ Goto("reportDump")
    /\ UNCHANGED <<request, temp, status, dump, nextId>>
    /\ UNCHANGED <<game, pollVars, busy, workReq, workAbility, workVerdict,
                   history>>

ReportDump ==
    /\ workPc = "reportDump"
    /\ status' = Status("ready", workReq.id, HasLiveIndex, "none", Unknown)
    /\ Goto("exit")
    /\ UNCHANGED <<request, temp, dump, forceFlag, nextId>>
    /\ UNCHANGED <<game, index, pollVars, busy, workReq, workAbility,
                   workVerdict, history>>

(* The catch block: a best-effort failed status, the index left alone.      *)
CrashDump ==
    /\ workPc \in DumpLocations
    /\ forceFlag' = FALSE
    /\ \/ status' = Status("failed", workReq.id, FALSE, "none", Unknown)
       \/ UNCHANGED status
    /\ Goto("exit")
    /\ UNCHANGED <<request, temp, dump, nextId>>
    /\ UNCHANGED <<game, index, pollVars, busy, workReq, workAbility,
                   workVerdict, history>>

-----------------------------------------------------------------------------
(* RunPlayerBoost and PlayerBoostOperationService.Execute.                  *)

BeginBoost ==
    /\ workPc = "beginBoost"
    /\ status' = Status("scanning", workReq.id, FALSE, "none", Unknown)
    /\ Goto("check")
    /\ UNCHANGED <<request, temp, dump, forceFlag, nextId>>
    /\ UNCHANGED <<game, index, pollVars, busy, workReq, workAbility,
                   workVerdict, history>>

(* A boost cancelled before it starts, or in a game of unknown version,     *)
(* keeps the index it never looked at.                                      *)
RefuseEarly ==
    /\ workPc = "check"
    /\ status' = Status("failed", workReq.id, FALSE, "rejected", Unknown)
    /\ Goto("exit")
    /\ UNCHANGED <<request, temp, dump, forceFlag, nextId>>
    /\ UNCHANGED <<game, index, pollVars, busy, workReq, workAbility,
                   workVerdict, history>>

(* What a boost will report, and the index it leaves: only a live value     *)
(* that differs and an ability at its limit keep the index.                 *)
Conclude(verdict, ability) ==
    /\ workVerdict' = verdict
    /\ workAbility' = ability
    /\ Goto("reportBoost")

Refuse == Conclude("rejected", Unknown) /\ index' = NoIndex
Mismatch == Conclude("liveValue", Unknown) /\ UNCHANGED index

(* Mutants: any live index serves, and a verified boost leaves the index.   *)
AnyIndexServes(source) == HasLiveIndex
LeaveIndex(ability) == UNCHANGED index

(* PlayerMutationIndex.TryGet finds the player only for the scan the        *)
(* request names; TryUpdateCurrentAbility advances the indexed ability.     *)
IndexServes(source) == index.source = source
AdvanceIndex(ability) == index' = [index EXCEPT !.ability = ability]

(* The index lookup, the comparison with the indexed value, the live read.  *)
(* A build, an identity or a read that fails the checks refuses the boost.  *)
CheckBoost ==
    /\ workPc = "check"
    /\ \/ Refuse
       \/ /\ IndexServes(workReq.source)
          /\ \/ index.ability # workReq.expected \/ game # workReq.expected
             \/ Target(game) <= game
          /\ Mismatch
       \/ /\ IndexServes(workReq.source)
          /\ index.ability = workReq.expected
          /\ game = workReq.expected
          /\ Target(game) > game
          /\ Goto("reread")
          /\ UNCHANGED <<index, workAbility, workVerdict>>
    /\ UNCHANGED <<files, game, pollVars, busy, workReq, history>>

(* SetCurrentAbility reads the value again before it writes.                *)
RereadBoost ==
    /\ workPc = "reread"
    /\ \/ Refuse
       \/ game # workReq.expected /\ Mismatch
       \/ /\ game = workReq.expected
          /\ Goto("write")
          /\ UNCHANGED <<index, workAbility, workVerdict>>
    /\ UNCHANGED <<files, game, pollVars, busy, workReq, history>>

(* WriteAndVerify: verified, put back as it was, or neither proved.         *)
(* A verified write advances the index, or clears it if that is refused.    *)
WriteBoost ==
    /\ workPc = "write"
    /\ LET target == Target(workReq.expected) IN
       \/ /\ game' = target
          /\ applied' = applied \cup {workReq.id}
          /\ Conclude("verified", target)
          /\ \/ AdvanceIndex(target)
             \/ index' = NoIndex
       \/ /\ game' \in {game, workReq.expected}
          /\ Refuse
          /\ UNCHANGED applied
       \/ /\ game' \in {game, workReq.expected, target}
          /\ applied' = applied \cup {workReq.id}
          /\ Conclude("uncertain", Unknown)
          /\ index' = NoIndex
    /\ UNCHANGED <<files, pollVars, busy, workReq, taken>>

ReportBoost ==
    /\ workPc = "reportBoost"
    /\ status' = Status(IF workVerdict = "verified" THEN "ready" ELSE "failed",
                        workReq.id, HasLiveIndex, workVerdict, workAbility)
    /\ Goto("exit")
    /\ UNCHANGED <<request, temp, dump, forceFlag, nextId>>
    /\ UNCHANGED <<game, index, pollVars, busy, workReq, workAbility,
                   workVerdict, history>>

(* The catch block: both indexes cleared, a best-effort failed status.      *)
CrashBoost ==
    /\ workPc \in BoostLocations
    /\ index' = NoIndex
    /\ \/ status' = Status("failed", workReq.id, FALSE, "uncertain", Unknown)
       \/ UNCHANGED status
    /\ Goto("exit")
    /\ UNCHANGED <<request, temp, dump, forceFlag, nextId>>
    /\ UNCHANGED <<game, pollVars, busy, workReq, workAbility, workVerdict,
                   history>>

(* Mutant: the work thread ends without leaving the gate.                   *)
WorkExitKeepsGate ==
    /\ workPc = "exit"
    /\ Goto("off")
    /\ workReq' = NoRequest
    /\ workAbility' = Unknown
    /\ workVerdict' = "none"
    /\ UNCHANGED <<files, game, index, pollVars, busy, history>>

(* The finally block leaves the gate.                                       *)
WorkExit ==
    /\ workPc = "exit"
    /\ busy' = FALSE
    /\ Goto("off")
    /\ workReq' = NoRequest
    /\ workAbility' = Unknown
    /\ workVerdict' = "none"
    /\ UNCHANGED <<files, game, index, pollVars, history>>

-----------------------------------------------------------------------------
(* FM changes the player as the game is played.                             *)
GameProgress ==
    /\ game' \in Abilities \ {game}
    /\ UNCHANGED <<files, index, pollVars, busy, workVars, history>>

(* FM stops, at any step, and is started again on some save.                *)
PluginRestart ==
    /\ "fmStops" \in Faults
    /\ game' \in Abilities
    /\ index' = NoIndex
    /\ status' = Status("idle", NoId, FALSE, "none", Unknown)
    /\ pollPc' = "idle" /\ pollSeen' = NoRequest
    /\ busy' = FALSE
    /\ workPc' = "off" /\ workReq' = NoRequest
    /\ workAbility' = Unknown /\ workVerdict' = "none"
    /\ UNCHANGED <<request, temp, dump, forceFlag, nextId, history>>

PollStep ==
    \/ PollRead \/ PollDelete \/ PollReject \/ PollForce \/ PollEnter
    \/ RefreshRead \/ RefreshWrite \/ RefreshMove

WorkStep ==
    \/ BeginDump \/ Scan \/ ReplaceDump \/ FailDump \/ InstallIndex
    \/ ReportDump \/ CrashDump
    \/ BeginBoost \/ RefuseEarly \/ CheckBoost \/ RereadBoost \/ WriteBoost
    \/ ReportBoost \/ CrashBoost
    \/ WorkExit

PluginStep == PollStep \/ LoseRequest \/ WorkStep \/ GameProgress \/ PluginRestart
=============================================================================
