------------------------ MODULE BridgeHandOffProofs ------------------------
(***************************************************************************)
(* The types of the bridge session, the hand-off of a request, and how the *)
(* plugin's live index follows the app's snapshots, proved for any number  *)
(* of requests, any abilities and any faults a theorem does not exclude.   *)
(* HandOff is built in layers: where a request is, what it is a request    *)
(* for, who may still act on it, and only then what its answer says of the *)
(* dump and of FM.  Each layer is preserved given the ones before it.      *)
(***************************************************************************)
EXTENDS BridgeHandOff, TLAPS

(* A boost's target is an ability, whatever the increment and the cap.      *)
LEMMA TargetIsAbility == \A a \in Abilities : Target(a) \in Abilities
BY BridgeAssumption DEF Abilities, Target

(* What the proofs need of the records that stand for request.json.         *)
LEMMA RequestFacts ==
    /\ \A r \in Requests :
          /\ r.id \in Ids
          /\ r.kind \in {"dump", "boost"}
          /\ r.kind # "dump" => r \in BoostRequests
          /\ r.fresh \in BOOLEAN
          /\ Refreshed(r) \in Requests
          /\ Refreshed(r).id = r.id /\ Refreshed(r).kind = r.kind
          /\ Expired(r) \in Requests
          /\ Expired(r).id = r.id /\ Expired(r).kind = r.kind
    /\ \A r \in BoostRequests :
          /\ r \in Requests
          /\ r.kind = "boost"
          /\ r.source \in Ids
          /\ r.expected \in Abilities
    /\ NoRequest.id = NoId
    /\ NoRequest.kind = "none"
    /\ NoRequest.fresh = FALSE
    /\ NoRequest \notin Requests
    /\ \A i \in Ids : /\ DumpRequest(i) \in Requests
                      /\ DumpRequest(i).id = i
                      /\ DumpRequest(i).kind = "dump"
    /\ \A i \in Ids : \A s \in Ids : \A a \in Abilities :
          /\ BoostRequest(i, s, a) \in BoostRequests
          /\ BoostRequest(i, s, a).id = i
          /\ BoostRequest(i, s, a).kind = "boost"
BY DEF Requests, DumpRequests, BoostRequests, Refreshed, Expired, NoRequest, DumpRequest, BoostRequest, Ids, NoId

(* The same of status.json.                                                 *)
LEMMA StatusFacts ==
    /\ \A st \in {"idle", "scanning", "ready", "failed"} :
       \A i \in Ids \cup {NoId} : \A b \in BOOLEAN :
       \A v \in Verdicts : \A a \in Abilities \cup {Unknown} :
          Status(st, i, b, v, a) \in Statuses
    /\ \A st, i, b, v, a :
          /\ Status(st, i, b, v, a).state = st
          /\ Status(st, i, b, v, a).id = i
          /\ Status(st, i, b, v, a).boosts = b
          /\ Status(st, i, b, v, a).verdict = v
          /\ Status(st, i, b, v, a).ability = a
    /\ \A s \in Statuses :
          /\ s.state \in {"idle", "scanning", "ready", "failed"}
          /\ s.id \in Ids \cup {NoId}
          /\ s.verdict \in Verdicts
          /\ s.ability \in Abilities \cup {Unknown}
BY DEF Status, Statuses

-----------------------------------------------------------------------------
(* The poll thread keeps the types.                                         *)
LEMMA PollFiles == TypeOK /\ PollStep => FilesTypeOK'
<1> SUFFICES ASSUME TypeOK, PollStep PROVE FilesTypeOK'
  OBVIOUS
<1> USE DEF TypeOK, FilesTypeOK, PluginTypeOK, files
<1>1. CASE PollRead
  BY <1>1 DEF PollRead
<1>2. CASE PollDelete
  BY <1>2, RequestFacts DEF PollDelete
<1>3. CASE PollReject
  <2>1. pollSeen.id \in Ids
    BY <1>3, RequestFacts DEF PollReject
  <2>2. PICK v \in Verdicts : \/ status' = Status("failed", pollSeen.id, FALSE, v, Unknown)
                             \/ status' = status
    BY <1>3 DEF PollReject, Verdicts
  <2>3. Status("failed", pollSeen.id, FALSE, v, Unknown) \in Statuses
    BY <2>1 DEF Status, Statuses
  <2> QED
    BY <1>3, <2>2, <2>3 DEF PollReject
<1>4. CASE PollForce
  BY <1>4, BridgeAssumption DEF PollForce
<1>5. CASE PollEnter
  BY <1>5 DEF PollEnter
<1>6. CASE RefreshRead
  BY <1>6 DEF RefreshRead
<1>7. CASE RefreshWrite
  BY <1>7, RequestFacts DEF RefreshWrite
<1>8. CASE RefreshMove
  BY <1>8 DEF RefreshMove
<1> QED
  BY <1>1, <1>2, <1>3, <1>4, <1>5, <1>6, <1>7, <1>8 DEF PollStep

LEMMA PollState == TypeOK /\ PollStep => PluginTypeOK'
<1> SUFFICES ASSUME TypeOK, PollStep PROVE PluginTypeOK'
  OBVIOUS
<1> USE DEF TypeOK, FilesTypeOK, PluginTypeOK, PollLocations, files, pollVars,
           workVars, history
<1>1. CASE PollRead
  BY <1>1, RequestFacts DEF PollRead
<1>2. CASE PollDelete
  <2>1. pollSeen \in Requests
    BY <1>2 DEF PollDelete
  <2>3. taken' = taken \cup {pollSeen.id} /\ pollSeen.id \in Ids
    BY <1>2, <2>1, RequestFacts DEF PollDelete
  <2>2. pollPc' \in PollLocations
    BY <1>2 DEF PollDelete
  <2> QED
    BY <1>2, <2>1, <2>2, <2>3 DEF PollDelete
<1>3. CASE PollReject
  BY <1>3 DEF PollReject
<1>4. CASE PollForce
  <2>1. nextId \in Ids
    BY <1>4, BridgeAssumption DEF PollForce, Ids
  <2>2. pollSeen' \in Requests /\ taken' \subseteq Ids
    BY <1>4, <2>1, RequestFacts DEF PollForce
  <2> QED
    BY <1>4, <2>2 DEF PollForce
<1>5. CASE PollEnter
  BY <1>5, RequestFacts DEF PollEnter, WorkLocations, DumpLocations, BoostLocations, Verdicts
<1>6. CASE RefreshRead
  BY <1>6, RequestFacts DEF RefreshRead
<1>7. CASE RefreshWrite
  BY <1>7 DEF RefreshWrite
<1>8. CASE RefreshMove
  BY <1>8 DEF RefreshMove
<1> QED
  BY <1>1, <1>2, <1>3, <1>4, <1>5, <1>6, <1>7, <1>8 DEF PollStep

(* So does the work thread.                                                 *)
LEMMA WorkFiles == TypeOK /\ WorkStep => FilesTypeOK'
<1> SUFFICES ASSUME TypeOK, WorkStep PROVE FilesTypeOK'
  OBVIOUS
<1> USE DEF TypeOK, FilesTypeOK, PluginTypeOK, files, WorkLocations, DumpLocations, BoostLocations
<1>1. CASE BeginDump
  BY <1>1, RequestFacts DEF BeginDump, Status, Statuses, Verdicts
<1>2. CASE Scan
  BY <1>2 DEF Scan
<1>3. CASE ReplaceDump
  BY <1>3, RequestFacts DEF ReplaceDump, Dumps
<1>4. CASE FailDump
  <2>1. workReq.id \in Ids
    BY <1>4, RequestFacts DEF FailDump
  <2>2. PICK b \in {FALSE, HasLiveIndex} :
            status' = Status("failed", workReq.id, b, "none", Unknown)
    BY <1>4 DEF FailDump
  <2>3. status' \in Statuses
    BY <2>1, <2>2 DEF Status, Statuses, Verdicts, HasLiveIndex
  <2> QED
    BY <1>4, <2>3 DEF FailDump
<1>5. CASE InstallIndex
  BY <1>5 DEF InstallIndex
<1>6. CASE ReportDump
  BY <1>6, RequestFacts DEF ReportDump, HasLiveIndex, Status, Statuses, Verdicts
<1>7. CASE CrashDump
  <2>1. workReq.id \in Ids
    BY <1>7, RequestFacts DEF CrashDump
  <2>2. Status("failed", workReq.id, FALSE, "none", Unknown) \in Statuses
    BY <2>1 DEF Status, Statuses, Verdicts
  <2> QED
    BY <1>7, <2>2 DEF CrashDump
<1>8. CASE BeginBoost
  BY <1>8, RequestFacts DEF BeginBoost, Status, Statuses, Verdicts
<1>9. CASE RefuseEarly
  BY <1>9, RequestFacts DEF RefuseEarly, Status, Statuses, Verdicts
<1>10. CASE CheckBoost
  BY <1>10 DEF CheckBoost
<1>11. CASE RereadBoost
  BY <1>11 DEF RereadBoost
<1>12. CASE WriteBoost
  BY <1>12 DEF WriteBoost
<1>13. CASE ReportBoost
  BY <1>13, RequestFacts DEF ReportBoost, HasLiveIndex, Status, Statuses, Verdicts
<1>14. CASE CrashBoost
  <2>1. workReq.id \in Ids
    BY <1>14, RequestFacts DEF CrashBoost
  <2>2. Status("failed", workReq.id, FALSE, "uncertain", Unknown) \in Statuses
    BY <2>1 DEF Status, Statuses, Verdicts
  <2> QED
    BY <1>14, <2>2 DEF CrashBoost
<1>15. CASE WorkExit
  BY <1>15 DEF WorkExit
<1> QED
  BY <1>1, <1>2, <1>3, <1>4, <1>5, <1>6, <1>7, <1>8, <1>9, <1>10, <1>11, <1>12, <1>13, <1>14, <1>15 DEF WorkStep

LEMMA WorkState == TypeOK /\ WorkStep => PluginTypeOK'
<1> SUFFICES ASSUME TypeOK, WorkStep PROVE PluginTypeOK'
  OBVIOUS
<1> USE DEF TypeOK, PluginTypeOK, Goto, files, pollVars, workVars, history,
           WorkLocations, DumpLocations, BoostLocations
<1>1. CASE BeginDump
  BY <1>1 DEF BeginDump, Verdicts
<1>2. CASE Scan
  BY <1>2 DEF Scan, Verdicts
<1>3. CASE ReplaceDump
  BY <1>3 DEF ReplaceDump, Verdicts
<1>4. CASE FailDump
  BY <1>4 DEF FailDump, Verdicts
<1>5. CASE InstallIndex
  <2>1. workReq.id \in Ids
    BY <1>5, RequestFacts DEF InstallIndex
  <2>2. index' \in Indexes
    BY <1>5, <2>1 DEF InstallIndex, Indexes, NoIndex
  <2> QED
    BY <1>5, <2>2 DEF InstallIndex
<1>6. CASE ReportDump
  BY <1>6 DEF ReportDump, Verdicts
<1>7. CASE CrashDump
  BY <1>7 DEF CrashDump, Verdicts
<1>8. CASE BeginBoost
  BY <1>8 DEF BeginBoost, Verdicts
<1>9. CASE RefuseEarly
  BY <1>9 DEF RefuseEarly, Verdicts
<1>10. CASE CheckBoost
  BY <1>10 DEF CheckBoost, Refuse, Mismatch, Conclude, Indexes, NoIndex, Verdicts
<1>11. CASE RereadBoost
  BY <1>11 DEF RereadBoost, Refuse, Mismatch, Conclude, Indexes, NoIndex, Verdicts
<1>12. CASE WriteBoost
  <2> DEFINE target == Target(workReq.expected)
  <2>1. workReq.id \in Ids /\ workReq.expected \in Abilities /\ target \in Abilities
    BY <1>12, RequestFacts, TargetIsAbility DEF WriteBoost
  <2> HIDE DEF target
  <2>2. game' \in Abilities /\ applied' \subseteq Ids
    BY <1>12, <2>1 DEF WriteBoost, target
  <2>3. index' \in Indexes
    BY <1>12, <2>1 DEF WriteBoost, Refuse, AdvanceIndex, Indexes, NoIndex, target
  <2>4. /\ workPc' = "reportBoost"
        /\ workAbility' \in Abilities \cup {Unknown}
        /\ workVerdict' \in Verdicts
    BY <1>12, <2>1 DEF WriteBoost, Refuse, Conclude, Verdicts, target
  <2> QED
    BY <1>12, <2>2, <2>3, <2>4 DEF WriteBoost
<1>13. CASE ReportBoost
  BY <1>13 DEF ReportBoost, Verdicts
<1>14. CASE CrashBoost
  BY <1>14 DEF CrashBoost, Indexes, NoIndex
<1>15. CASE WorkExit
  BY <1>15 DEF WorkExit, Verdicts
<1> QED
  BY <1>1, <1>2, <1>3, <1>4, <1>5, <1>6, <1>7, <1>8, <1>9, <1>10, <1>11, <1>12, <1>13, <1>14, <1>15 DEF WorkStep

(* A boost that fails leaves its command idle or about to mark its snapshot. *)
LEMMA FailTypes ==
    ASSUME ClientTypeOK, appPc # "idle", appMode # "load",
           NEW o \in Outcomes, NEW marks \in BOOLEAN,
           FailAs(o, marks), UNCHANGED <<db, current, latched>>
    PROVE  ClientTypeOK'
<1>1. CASE marks
  BY <1>1 DEF ClientTypeOK, FailAs, Step, AppLocations
<1>2. CASE ~marks
  <2>1. Done /\ EndsAs(o)
    BY <1>2 DEF FailAs
  <2>2. outcome' \in [Ids -> Outcomes]
    BY <2>1 DEF ClientTypeOK, EndsAs
  <2> QED
    BY <2>1, <2>2 DEF ClientTypeOK, Done, AppLocations, NoDump, Dumps
<1> QED
  BY <1>1, <1>2

(* And the command of the app.                                              *)
LEMMA CommandFiles == TypeOK /\ CommandStep => FilesTypeOK'
<1> SUFFICES ASSUME TypeOK, CommandStep PROVE FilesTypeOK'
  OBVIOUS
<1> USE DEF TypeOK, FilesTypeOK, ClientTypeOK, files
<1>1. CASE WriteTemp
  BY <1>1, RequestFacts DEF WriteTemp
<1>2. CASE RenameTemp
  BY <1>2 DEF RenameTemp
<1>3. CASE RenameFails
  BY <1>3 DEF RenameFails
<1>4. CASE SeeDumpReady
  BY <1>4 DEF SeeDumpReady
<1>5. CASE SeeDumpFailed
  BY <1>5 DEF SeeDumpFailed
<1>6. CASE SeeBoostReady
  BY <1>6 DEF SeeBoostReady
<1>7. CASE SeeBoostFailed
  BY <1>7 DEF SeeBoostFailed
<1>8. CASE GiveUp
  BY <1>8 DEF GiveUp
<1>9. CASE CopyDump
  BY <1>9 DEF CopyDump
<1>10. CASE Recheck
  BY <1>10 DEF Recheck
<1>11. CASE Publish
  BY <1>11 DEF Publish
<1>12. CASE Reconcile
  BY <1>12 DEF Reconcile
<1>13. CASE ReconcileFails
  BY <1>13 DEF ReconcileFails
<1>14. CASE LatchRecovery
  BY <1>14 DEF LatchRecovery
<1>15. CASE LatchFails
  BY <1>15 DEF LatchFails
<1> QED
  BY <1>1, <1>2, <1>3, <1>4, <1>5, <1>6, <1>7, <1>8, <1>9, <1>10, <1>11, <1>12, <1>13, <1>14, <1>15 DEF CommandStep

LEMMA CommandState == TypeOK /\ CommandStep => ClientTypeOK'
<1> SUFFICES ASSUME TypeOK, CommandStep PROVE ClientTypeOK'
  OBVIOUS
<1> USE DEF TypeOK, FilesTypeOK, ClientTypeOK, AppLocations, files
<1>1. CASE WriteTemp
  BY <1>1 DEF WriteTemp, Step
<1>2. CASE RenameTemp
  BY <1>2 DEF RenameTemp, Step
<1>3. CASE RenameFails
  <2>1. CASE appMode = "load"
    BY <1>3, <2>1 DEF RenameFails, Done, NoDump, Dumps
  <2>2. CASE appMode # "load"
    BY <1>3, <2>2, FailTypes DEF RenameFails, Outcomes
  <2> QED
    BY <2>1, <2>2
<1>4. CASE SeeDumpReady
  BY <1>4 DEF SeeDumpReady, Answered, Step
<1>5. CASE SeeDumpFailed
  BY <1>5 DEF SeeDumpFailed, Answered, Done, Step, EndsAs, NoDump, Dumps, Outcomes
<1>6. CASE SeeBoostReady
  BY <1>6, StatusFacts DEF SeeBoostReady, Answered
<1>7. CASE SeeBoostFailed
  BY <1>7, FailTypes DEF SeeBoostFailed, Answered, Outcomes
<1>8. CASE GiveUp
  BY <1>8 DEF GiveUp, Done, Step, EndsAs, NoDump, Dumps, Outcomes
<1>9. CASE CopyDump
  BY <1>9 DEF CopyDump
<1>10. CASE Recheck
  BY <1>10 DEF Recheck, Done, Step, EndsAs, NoDump, Dumps, Outcomes
<1>11. CASE Publish
  <2>1. mine.id \in Ids /\ copy.ability \in Abilities \cup {Unknown}
    BY <1>11, RequestFacts DEF Publish, Dumps
  <2>2. db' \in [Ids -> Abilities \cup {Unknown}] /\ current' \in Ids \cup {NoId}
    BY <1>11, <2>1 DEF Publish
  <2> QED
    BY <1>11, <2>2 DEF Publish, Done, NoDump, Dumps
<1>12. CASE Reconcile
  BY <1>12, RequestFacts, TargetIsAbility DEF Reconcile, Done, Step, EndsAs, NoDump, Dumps, Outcomes
<1>13. CASE ReconcileFails
  BY <1>13 DEF ReconcileFails, Step
<1>14. CASE LatchRecovery
  <2>1. mine.source \in Ids
    BY <1>14, RequestFacts DEF LatchRecovery
  <2>3. latched' \subseteq Ids
    BY <1>14, <2>1 DEF LatchRecovery
  <2>2. outcome' \in [Ids -> Outcomes]
    BY <1>14 DEF LatchRecovery, EndsAs, Outcomes
  <2> QED
    BY <1>14, <2>3, <2>2 DEF LatchRecovery, Done, NoDump, Dumps
<1>15. CASE LatchFails
  BY <1>15, RequestFacts DEF LatchFails, Done, Step, EndsAs, NoDump, Dumps, Outcomes
<1> QED
  BY <1>1, <1>2, <1>3, <1>4, <1>5, <1>6, <1>7, <1>8, <1>9, <1>10, <1>11, <1>12, <1>13, <1>14, <1>15 DEF CommandStep

(* The other steps of the app, of FM and of time.                           *)
LEMMA OtherTypes ==
    TypeOK /\ (\/ (LoseRequest \/ GameProgress \/ PluginRestart) /\ UNCHANGED client
               \/ (StartLoad \/ StartBoost("single") \/ StartBoost("squad")
                   \/ SelectSnapshot \/ AppExit) /\ UNCHANGED plugin
               \/ (RequestExpires \/ ForceScan) /\ UNCHANGED <<plugin, client>>)
    => TypeOK'
<1> SUFFICES ASSUME TypeOK PROVE
       /\ (LoseRequest \/ GameProgress) /\ UNCHANGED client => TypeOK'
       /\ PluginRestart /\ UNCHANGED client => TypeOK'
       /\ StartLoad /\ UNCHANGED plugin => TypeOK'
       /\ \A mode \in {"single", "squad"} :
              StartBoost(mode) /\ UNCHANGED plugin => TypeOK'
       /\ SelectSnapshot /\ UNCHANGED plugin => TypeOK'
       /\ AppExit /\ UNCHANGED plugin => TypeOK'
       /\ (RequestExpires \/ ForceScan) /\ UNCHANGED <<plugin, client>> => TypeOK'
  OBVIOUS
<1> USE DEF TypeOK, FilesTypeOK, PluginTypeOK, ClientTypeOK, files, plugin, client,
            pollVars, workVars, history
<1>1. (LoseRequest \/ GameProgress) /\ UNCHANGED client => TypeOK'
  BY DEF LoseRequest, GameProgress
<1>2. PluginRestart /\ UNCHANGED client => TypeOK'
  <2> SUFFICES ASSUME PluginRestart, UNCHANGED client PROVE TypeOK'
    OBVIOUS
  <2>1. status' \in Statuses
    BY DEF PluginRestart, Status, Statuses, Verdicts
  <2>2. index' \in Indexes /\ workVerdict' \in Verdicts
    BY DEF PluginRestart, Indexes, NoIndex, Verdicts
  <2>3. pollPc' \in PollLocations /\ workPc' \in WorkLocations
        /\ workPc' \notin BoostLocations
    BY DEF PluginRestart, PollLocations, WorkLocations, BoostLocations
  <2>4. FilesTypeOK'
    BY <2>1 DEF PluginRestart
  <2>5. ClientTypeOK'
    BY DEF PluginRestart
  <2>6. /\ game' \in Abilities /\ busy' = FALSE
        /\ pollPc' = "idle" /\ pollSeen' = NoRequest
        /\ workPc' = "off" /\ workReq' = NoRequest
        /\ workAbility' = Unknown /\ UNCHANGED history
    BY DEF PluginRestart
  <2>7. PluginTypeOK'
    BY <2>2, <2>3, <2>6
  <2> QED
    BY <2>4, <2>5, <2>7
<1>3. StartLoad /\ UNCHANGED plugin => TypeOK'
  <2> SUFFICES ASSUME StartLoad, UNCHANGED plugin PROVE TypeOK'
    OBVIOUS
  <2>1. nextId \in Ids /\ nextId' \in 1..(MaxId + 1)
    BY BridgeAssumption DEF StartLoad, Ids
  <2>2. FilesTypeOK'
    BY <2>1 DEF StartLoad
  <2>3. PluginTypeOK'
    OBVIOUS
  <2>4. mine' \in Requests /\ appPc' = "writeTemp" /\ appMode' = "load"
    BY <2>1, RequestFacts DEF StartLoad
  <2>5. ClientTypeOK'
    BY <2>4 DEF StartLoad, AppLocations
  <2> QED
    BY <2>2, <2>3, <2>5
<1>4. \A mode \in {"single", "squad"} :
          StartBoost(mode) /\ UNCHANGED plugin => TypeOK'
  <2> SUFFICES ASSUME NEW mode \in {"single", "squad"}, StartBoost(mode),
                      UNCHANGED plugin
               PROVE TypeOK'
    OBVIOUS
  <2>1. nextId \in Ids /\ nextId' \in 1..(MaxId + 1)
    BY BridgeAssumption DEF StartBoost, Ids
  <2>2. current \in Ids /\ db[current] # Unknown
    BY DEF StartBoost, Snapshots
  <2>3. db[current] \in Abilities
    BY <2>2
  <2>4. mine' \in BoostRequests /\ mine' \in Requests
    BY <2>1, <2>2, <2>3, RequestFacts DEF StartBoost
  <2>5. outcome' \in [Ids -> Outcomes]
    BY DEF StartBoost, Outcomes
  <2> QED
    BY <2>1, <2>4, <2>5 DEF StartBoost, AppLocations
<1>5. SelectSnapshot /\ UNCHANGED plugin => TypeOK'
  BY DEF SelectSnapshot, Snapshots
<1>6. AppExit /\ UNCHANGED plugin => TypeOK'
  <2> SUFFICES ASSUME AppExit, UNCHANGED plugin PROVE TypeOK'
    OBVIOUS
  <2>1. outcome' \in [Ids -> Outcomes]
    BY DEF AppExit, EndsAs, Outcomes
  <2> QED
    BY <2>1 DEF AppExit, Done, AppLocations, NoDump, Dumps
<1>7. (RequestExpires \/ ForceScan) /\ UNCHANGED <<plugin, client>> => TypeOK'
  <2>1. RequestExpires => request' \in Requests
    BY RequestFacts DEF RequestExpires
  <2>2. RequestExpires /\ UNCHANGED <<plugin, client>> => TypeOK'
    BY <2>1 DEF RequestExpires
  <2>3. ForceScan /\ UNCHANGED <<plugin, client>> => TypeOK'
    BY DEF ForceScan
  <2> QED
    BY <2>2, <2>3
<1> QED
  BY <1>1, <1>2, <1>3, <1>4, <1>5, <1>6, <1>7

LEMMA InitTypes == Init => TypeOK
<1> SUFFICES ASSUME Init PROVE TypeOK
  OBVIOUS
<1> USE DEF Init
<1>1. FilesTypeOK
  <2>1. status \in Statuses
    BY DEF FilesInit, Status, Statuses, Verdicts
  <2>2. dump \in Dumps /\ nextId \in 1..(MaxId + 1)
    BY BridgeAssumption DEF FilesInit, Dumps
  <2> QED
    BY <2>1, <2>2 DEF FilesInit, FilesTypeOK
<1>2. PluginTypeOK
  BY DEF PluginInit, PluginTypeOK, NoIndex, Indexes, PollLocations, WorkLocations,
         BoostLocations, Verdicts
<1>3. ClientTypeOK
  BY DEF ClientInit, ClientTypeOK, AppLocations, NoDump, Dumps, Outcomes
<1> QED
  BY <1>1, <1>2, <1>3 DEF TypeOK

LEMMA NextTypes == TypeOK /\ [Next]_vars => TypeOK'
<1> SUFFICES ASSUME TypeOK, [Next]_vars PROVE TypeOK'
  OBVIOUS
<1>1. CASE PollStep /\ UNCHANGED client
  BY <1>1, PollFiles, PollState DEF TypeOK, ClientTypeOK, client
<1>2. CASE WorkStep /\ UNCHANGED client
  BY <1>2, WorkFiles, WorkState DEF TypeOK, ClientTypeOK, client
<1>3. CASE CommandStep /\ UNCHANGED plugin
  BY <1>3, CommandFiles, CommandState DEF TypeOK, PluginTypeOK, plugin
<1>4. CASE (LoseRequest \/ GameProgress \/ PluginRestart) /\ UNCHANGED client
  BY <1>4, OtherTypes
<1>5. CASE (StartLoad \/ StartBoost("single") \/ StartBoost("squad")
            \/ SelectSnapshot \/ AppExit) /\ UNCHANGED plugin
  BY <1>5, OtherTypes
<1>6. CASE (RequestExpires \/ ForceScan) /\ UNCHANGED <<plugin, client>>
  BY <1>6, OtherTypes
<1>7. CASE UNCHANGED vars
  BY <1>7 DEF vars, files, plugin, client, TypeOK, FilesTypeOK, PluginTypeOK,
              ClientTypeOK
<1> QED
  BY <1>1, <1>2, <1>3, <1>4, <1>5, <1>6, <1>7
  DEF Next, PluginActs, ClientActs, PluginStep, ClientStep

(* Every variable of the session keeps to its type (BridgeFiles,            *)
(* BridgePlugin and BridgeClient), whatever faults occur.                   *)
THEOREM TypeCorrect == Spec => []TypeOK
BY InitTypes, NextTypes, PTL DEF Spec

-----------------------------------------------------------------------------
(* What the layers need of the types.                                       *)
LEMMA HandFacts ==
    TypeOK =>
      /\ Ids \subseteq Nat \ {0}
      /\ nextId \in Nat /\ nextId >= 1 /\ (nextId <= MaxId => nextId \in Ids)
      /\ request.id \in Nat /\ temp.id \in Nat /\ pollSeen.id \in Nat
      /\ workReq.id \in Nat /\ mine.id \in Nat /\ status.id \in Nat
      /\ request # NoRequest => request.id >= 1
      /\ request.fresh => request.id >= 1
      /\ pollPc # "idle" => pollSeen.id >= 1
      /\ appPc # "idle" => mine.id >= 1
      /\ taken \subseteq Nat \ {0}
      /\ applied \subseteq Nat \ {0}
<1> SUFFICES ASSUME TypeOK PROVE
      /\ Ids \subseteq Nat \ {0}
      /\ nextId \in Nat /\ nextId >= 1 /\ (nextId <= MaxId => nextId \in Ids)
      /\ request.id \in Nat /\ temp.id \in Nat /\ pollSeen.id \in Nat
      /\ workReq.id \in Nat /\ mine.id \in Nat /\ status.id \in Nat
      /\ request # NoRequest => request.id >= 1
      /\ request.fresh => request.id >= 1
      /\ pollPc # "idle" => pollSeen.id >= 1
      /\ appPc # "idle" => mine.id >= 1
      /\ taken \subseteq Nat \ {0}
      /\ applied \subseteq Nat \ {0}
  OBVIOUS
<1>1. NoId \in Nat /\ \A i \in Ids : i \in Nat /\ i >= 1
  BY BridgeAssumption DEF Ids, NoId
<1>2. nextId \in Nat /\ nextId >= 1 /\ (nextId <= MaxId => nextId \in Ids)
  BY BridgeAssumption DEF TypeOK, FilesTypeOK, Ids
<1>3. \A r \in Requests : r.id \in Nat /\ r.id >= 1
  <2>1. \A r \in Requests : r.id \in Ids
    BY RequestFacts
  <2> QED
    BY <1>1, <2>1
<1>4. \A r \in Requests \cup {NoRequest} : r.id \in Nat
  BY <1>1, <1>3, RequestFacts
<1>5. status.id \in Nat
  BY <1>1, StatusFacts DEF TypeOK, FilesTypeOK
<1>6. /\ request.id \in Nat /\ temp.id \in Nat /\ pollSeen.id \in Nat
      /\ workReq.id \in Nat /\ mine.id \in Nat
  BY <1>4 DEF TypeOK, FilesTypeOK, PluginTypeOK, ClientTypeOK
<1>7. /\ request # NoRequest => request.id >= 1
      /\ request.fresh => request.id >= 1
      /\ pollPc # "idle" => pollSeen.id >= 1
      /\ appPc # "idle" => mine.id >= 1
  BY <1>3, RequestFacts
  DEF TypeOK, FilesTypeOK, PluginTypeOK, ClientTypeOK
<1>8. taken \subseteq Nat \ {0} /\ applied \subseteq Nat \ {0} /\ Ids \subseteq Nat \ {0}
  BY <1>1 DEF TypeOK, PluginTypeOK
<1> QED
  BY <1>2, <1>5, <1>6, <1>7, <1>8

LEMMA KindFacts ==
    TypeOK =>
      /\ Ids \subseteq Nat \ {0}
      /\ nextId \in Nat /\ (nextId <= MaxId => nextId \in Ids)
      /\ \A r \in {request, temp, pollSeen, workReq, mine} :
            /\ r.kind \in {"none", "dump", "boost"}
            /\ r.kind # "none" => r.id \in Ids
      /\ pollPc # "idle" => pollSeen.kind # "none"
      /\ workPc # "off" => workReq.kind # "none"
      /\ workPc \in BoostLocations => workReq.kind = "boost"
      /\ appPc # "idle" => mine.kind # "none"
      /\ appMode \in {"single", "squad"} => mine.kind = "boost"
      /\ appMode \in {"none", "load", "single", "squad"}
      /\ (appPc = "idle") = (appMode = "none")
      /\ appPc \in {"reconcile", "latch"} => appMode # "load"
      /\ outcome \in [Ids -> Outcomes]
      /\ status.verdict \in {"none", "verified", "liveValue", "rejected", "uncertain"}
<1> SUFFICES ASSUME TypeOK PROVE
      /\ Ids \subseteq Nat \ {0}
      /\ nextId \in Nat /\ (nextId <= MaxId => nextId \in Ids)
      /\ \A r \in {request, temp, pollSeen, workReq, mine} :
            /\ r.kind \in {"none", "dump", "boost"}
            /\ r.kind # "none" => r.id \in Ids
      /\ pollPc # "idle" => pollSeen.kind # "none"
      /\ workPc # "off" => workReq.kind # "none"
      /\ workPc \in BoostLocations => workReq.kind = "boost"
      /\ appPc # "idle" => mine.kind # "none"
      /\ appMode \in {"single", "squad"} => mine.kind = "boost"
      /\ appMode \in {"none", "load", "single", "squad"}
      /\ (appPc = "idle") = (appMode = "none")
      /\ appPc \in {"reconcile", "latch"} => appMode # "load"
      /\ outcome \in [Ids -> Outcomes]
      /\ status.verdict \in {"none", "verified", "liveValue", "rejected", "uncertain"}
  OBVIOUS
<1>1. \A r \in Requests \cup {NoRequest} :
         /\ r.kind \in {"none", "dump", "boost"}
         /\ r.kind # "none" => r.id \in Ids
  BY RequestFacts
<1>2. \A r \in Requests : r.kind # "none"
  BY RequestFacts
<1>3. \A r \in BoostRequests : r.kind = "boost"
  BY RequestFacts
<1>4. status.verdict \in {"none", "verified", "liveValue", "rejected", "uncertain"}
  BY StatusFacts DEF TypeOK, FilesTypeOK, Verdicts
<1> QED
  BY <1>1, <1>2, <1>3, <1>4, BridgeAssumption
  DEF TypeOK, FilesTypeOK, PluginTypeOK, ClientTypeOK, Ids

(* A rewritten request is the same request.                                 *)
LEMMA SameRequest ==
    TypeOK =>
      /\ Refreshed(pollSeen).id = pollSeen.id /\ Refreshed(pollSeen).kind = pollSeen.kind
      /\ Expired(request).id = request.id /\ Expired(request).kind = request.kind
<1> SUFFICES ASSUME TypeOK PROVE
      /\ Refreshed(pollSeen).id = pollSeen.id /\ Refreshed(pollSeen).kind = pollSeen.kind
      /\ Expired(request).id = request.id /\ Expired(request).kind = request.kind
  OBVIOUS
<1>1. pollSeen \in Requests \cup {NoRequest} /\ request \in Requests \cup {NoRequest}
  BY DEF TypeOK, FilesTypeOK, PluginTypeOK
<1> QED
  BY <1>1, RequestFacts DEF NoRequest, Refreshed, Expired

(* The constructors of requests and what they put in.                       *)
LEMMA Constructed ==
    /\ NoRequest.id = 0 /\ NoRequest.kind = "none"
    /\ \A i : DumpRequest(i).id = i /\ DumpRequest(i).kind = "dump"
    /\ \A i, s, a : BoostRequest(i, s, a).id = i /\ BoostRequest(i, s, a).kind = "boost"
BY DEF NoRequest, NoId, DumpRequest, BoostRequest

(* The steps of the session, the way the proofs below go through them.      *)
LEMMA NextCases ==
    [Next]_vars =>
      \/ (PollRead \/ PollDelete \/ PollReject \/ PollForce \/ PollEnter)
          /\ UNCHANGED client /\ TempIsNotShared
      \/ (RefreshRead \/ RefreshWrite \/ RefreshMove \/ LoseRequest)
          /\ UNCHANGED client /\ TempIsNotShared
      \/ (BeginDump \/ Scan \/ ReplaceDump \/ FailDump \/ InstallIndex
          \/ ReportDump \/ CrashDump) /\ UNCHANGED client /\ TempIsNotShared
      \/ (BeginBoost \/ RefuseEarly \/ CheckBoost \/ RereadBoost \/ WriteBoost
          \/ ReportBoost \/ CrashBoost \/ WorkExit) /\ UNCHANGED client
          /\ TempIsNotShared
      \/ (WriteTemp \/ RenameTemp \/ RenameFails) /\ UNCHANGED plugin
          /\ TempIsNotShared
      \/ (SeeDumpReady \/ SeeDumpFailed \/ SeeBoostReady \/ SeeBoostFailed
          \/ GiveUp) /\ UNCHANGED plugin /\ TempIsNotShared
      \/ (CopyDump \/ Recheck \/ Publish) /\ UNCHANGED plugin
          /\ TempIsNotShared
      \/ (Reconcile \/ ReconcileFails \/ LatchRecovery \/ LatchFails)
          /\ UNCHANGED plugin /\ TempIsNotShared
      \/ (StartLoad \/ StartBoost("single") \/ StartBoost("squad")
          \/ SelectSnapshot \/ AppExit) /\ UNCHANGED plugin /\ TempIsNotShared
      \/ (GameProgress \/ PluginRestart) /\ UNCHANGED client
          /\ TempIsNotShared
      \/ (RequestExpires \/ ForceScan) /\ UNCHANGED <<plugin, client>>
      \/ UNCHANGED vars
BY DEF Next, PluginActs, ClientActs, PluginStep, ClientStep, PollStep, WorkStep,
       CommandStep

-----------------------------------------------------------------------------
(* Where a request is: each thread and the command hold the request their   *)
(* location says they hold, and nobody else has it.                         *)
LEMMA PassedOnStep ==
    ASSUME TypeOK, FilesAreReliable, PassedOn, [Next]_vars
    PROVE  PassedOn'
<1> USE HandFacts, SameRequest, Constructed DEF PassedOn, IdsIssued,
       WorkAgrees, TempIsOwned, UnsentIsNowhere, WaitingIsNotTaken,
       ServedIsTaken, DumpLocations, BoostLocations, FilesAreReliable,
       TempIsNotShared, NoId, files, plugin, client, pollVars, workVars,
       history
<1>1. CASE (PollRead \/ PollDelete \/ PollReject \/ PollForce \/ PollEnter)
         /\ UNCHANGED client /\ TempIsNotShared
  <2>1. CASE PollEnter
    <3>1. IdsIssued' /\ TempIsOwned' /\ UnsentIsNowhere' /\ WaitingIsNotTaken'
      BY <1>1, <2>1 DEF PollEnter
    <3>2. WorkAgrees'
      BY <1>1, <2>1 DEF PollEnter
    <3>3. ServedIsTaken'
      BY <1>1, <2>1 DEF PollEnter
    <3> QED
      BY <3>1, <3>2, <3>3
  <2>2. CASE PollRead \/ PollDelete \/ PollReject \/ PollForce
    BY <1>1, <2>2 DEF PollRead, PollDelete, PollReject, Status, PollForce
  <2> QED
    BY <1>1, <2>1, <2>2
<1>2. CASE (RefreshRead \/ RefreshWrite \/ RefreshMove \/ LoseRequest)
         /\ UNCHANGED client /\ TempIsNotShared
  BY <1>2 DEF RefreshRead, RefreshWrite, RefreshMove, LoseRequest
<1>3. CASE (BeginDump \/ Scan \/ ReplaceDump \/ FailDump \/ InstallIndex
         \/ ReportDump \/ CrashDump) /\ UNCHANGED client /\ TempIsNotShared
  BY <1>3 DEF BeginDump, Status, Goto, Scan, ReplaceDump, FailDump,
         InstallIndex, ReportDump, CrashDump
<1>4. CASE (BeginBoost \/ RefuseEarly \/ CheckBoost \/ RereadBoost
         \/ WriteBoost \/ ReportBoost \/ CrashBoost \/ WorkExit) /\ UNCHANGED
         client /\ TempIsNotShared
  <2>1. CASE WorkExit
    <3>1. IdsIssued' /\ TempIsOwned' /\ UnsentIsNowhere' /\ WaitingIsNotTaken'
      BY <1>4, <2>1 DEF WorkExit, Goto
    <3>2. WorkAgrees' /\ ServedIsTaken'
      BY <1>4, <2>1 DEF WorkExit, Goto
    <3> QED
      BY <3>1, <3>2
  <2>2. CASE BeginBoost \/ RefuseEarly \/ CheckBoost \/ RereadBoost
         \/ WriteBoost \/ ReportBoost \/ CrashBoost
    BY <1>4, <2>2 DEF BeginBoost, Status, Goto, RefuseEarly, CheckBoost,
           Refuse, Mismatch, Conclude, RereadBoost, WriteBoost, ReportBoost,
           CrashBoost
  <2> QED
    BY <1>4, <2>1, <2>2
<1>5. CASE (WriteTemp \/ RenameTemp \/ RenameFails) /\ UNCHANGED plugin
         /\ TempIsNotShared
  BY <1>5 DEF WriteTemp, Step, RenameTemp, RenameFails, FailAs, Done, EndsAs,
         NoDump
<1>6. CASE (SeeDumpReady \/ SeeDumpFailed \/ SeeBoostReady \/ SeeBoostFailed
         \/ GiveUp) /\ UNCHANGED plugin /\ TempIsNotShared
  BY <1>6 DEF SeeDumpReady, Answered, Step, SeeDumpFailed, Done, NoDump,
         SeeBoostReady, SeeBoostFailed, FailAs, EndsAs, GiveUp
<1>7. CASE (CopyDump \/ Recheck \/ Publish) /\ UNCHANGED plugin
         /\ TempIsNotShared
  BY <1>7 DEF CopyDump, Recheck, Done, Step, NoDump, Publish
<1>8. CASE (Reconcile \/ ReconcileFails \/ LatchRecovery \/ LatchFails)
         /\ UNCHANGED plugin /\ TempIsNotShared
  BY <1>8 DEF Reconcile, Done, EndsAs, NoDump, ReconcileFails, Step,
         LatchRecovery, LatchFails
<1>9. CASE (StartLoad \/ StartBoost("single") \/ StartBoost("squad")
         \/ SelectSnapshot \/ AppExit) /\ UNCHANGED plugin /\ TempIsNotShared
  BY <1>9 DEF StartLoad, StartBoost, SelectSnapshot, AppExit, Done, EndsAs,
         NoDump, Boosting
<1>10. CASE (GameProgress \/ PluginRestart) /\ UNCHANGED client
         /\ TempIsNotShared
  <2>1. CASE PluginRestart
    <3>1. IdsIssued' /\ TempIsOwned' /\ UnsentIsNowhere' /\ WaitingIsNotTaken'
      BY <1>10, <2>1 DEF PluginRestart, Status
    <3>2. WorkAgrees' /\ ServedIsTaken'
      BY <1>10, <2>1 DEF PluginRestart
    <3> QED
      BY <3>1, <3>2
  <2>2. CASE GameProgress
    BY <1>10, <2>2 DEF GameProgress
  <2> QED
    BY <1>10, <2>1, <2>2
<1>11. CASE (RequestExpires \/ ForceScan) /\ UNCHANGED <<plugin, client>>
  BY <1>11 DEF RequestExpires, ForceScan
<1>12. CASE UNCHANGED vars
  BY <1>12 DEF vars
<1> HIDE DEF PassedOn, IdsIssued, WorkAgrees, TempIsOwned, UnsentIsNowhere,
       WaitingIsNotTaken, ServedIsTaken, DumpLocations, BoostLocations,
       FilesAreReliable, TempIsNotShared, NoId, files, plugin, client,
       pollVars, workVars, history
<1> QED
  BY <1>1, <1>2, <1>3, <1>4, <1>5, <1>6, <1>7, <1>8, <1>9, <1>10, <1>11, <1>12, NextCases

(* What it is a request for: an id that names a boost, or a scan, goes on   *)
(* doing so, and the command knows which it made.                           *)
LEMMA KindsStep ==
    ASSUME TypeOK, PassedOn, KindsAgree, CommandsAgree, [Next]_vars
    PROVE  (KindsAgree /\ CommandsAgree)'
<1> USE KindFacts, SameRequest, Constructed DEF PassedOn, IdsIssued,
       KindsAgree, KindAgrees, Boosts, CommandsAgree, files, plugin, client,
       pollVars, workVars, history
<1>1. CASE (PollRead \/ PollDelete \/ PollReject \/ PollForce \/ PollEnter)
         /\ UNCHANGED client /\ TempIsNotShared
  BY <1>1 DEF PollRead, PollDelete, PollReject, Status, PollForce, PollEnter
<1>2. CASE (RefreshRead \/ RefreshWrite \/ RefreshMove \/ LoseRequest)
         /\ UNCHANGED client /\ TempIsNotShared
  BY <1>2 DEF RefreshRead, RefreshWrite, RefreshMove, LoseRequest
<1>3. CASE (BeginDump \/ Scan \/ ReplaceDump \/ FailDump \/ InstallIndex
         \/ ReportDump \/ CrashDump) /\ UNCHANGED client /\ TempIsNotShared
  BY <1>3 DEF BeginDump, Status, Goto, Scan, ReplaceDump, FailDump,
         InstallIndex, ReportDump, CrashDump
<1>4. CASE (BeginBoost \/ RefuseEarly \/ CheckBoost \/ RereadBoost
         \/ WriteBoost \/ ReportBoost \/ CrashBoost \/ WorkExit) /\ UNCHANGED
         client /\ TempIsNotShared
  BY <1>4 DEF BeginBoost, Status, Goto, RefuseEarly, CheckBoost, Refuse,
         Mismatch, Conclude, RereadBoost, WriteBoost, ReportBoost, CrashBoost,
         WorkExit
<1>5. CASE (WriteTemp \/ RenameTemp \/ RenameFails) /\ UNCHANGED plugin
         /\ TempIsNotShared
  BY <1>5 DEF WriteTemp, Step, RenameTemp, RenameFails, FailAs, Done, EndsAs,
         NoDump
<1>6. CASE (SeeDumpReady \/ SeeDumpFailed \/ SeeBoostReady \/ SeeBoostFailed
         \/ GiveUp) /\ UNCHANGED plugin /\ TempIsNotShared
  BY <1>6 DEF SeeDumpReady, Answered, Step, SeeDumpFailed, Done, NoDump,
         SeeBoostReady, SeeBoostFailed, FailAs, EndsAs, GiveUp
<1>7. CASE (CopyDump \/ Recheck \/ Publish) /\ UNCHANGED plugin
         /\ TempIsNotShared
  BY <1>7 DEF CopyDump, Recheck, Done, Step, NoDump, Publish
<1>8. CASE (Reconcile \/ ReconcileFails \/ LatchRecovery \/ LatchFails)
         /\ UNCHANGED plugin /\ TempIsNotShared
  BY <1>8 DEF Reconcile, Done, EndsAs, NoDump, ReconcileFails, Step,
         LatchRecovery, LatchFails
<1>9. CASE (StartLoad \/ StartBoost("single") \/ StartBoost("squad")
         \/ SelectSnapshot \/ AppExit) /\ UNCHANGED plugin /\ TempIsNotShared
  BY <1>9 DEF StartLoad, StartBoost, SelectSnapshot, AppExit, Done, EndsAs,
         NoDump, Boosting
<1>10. CASE (GameProgress \/ PluginRestart) /\ UNCHANGED client
         /\ TempIsNotShared
  BY <1>10 DEF GameProgress, PluginRestart, Status
<1>11. CASE (RequestExpires \/ ForceScan) /\ UNCHANGED <<plugin, client>>
  BY <1>11 DEF RequestExpires, ForceScan
<1>12. CASE UNCHANGED vars
  BY <1>12 DEF vars
<1> HIDE DEF PassedOn, IdsIssued, KindsAgree, KindAgrees, Boosts,
       CommandsAgree, files, plugin, client, pollVars, workVars, history
<1> QED
  BY <1>1, <1>2, <1>3, <1>4, <1>5, <1>6, <1>7, <1>8, <1>9, <1>10, <1>11, <1>12, NextCases

(* Only a fault lets a boost end unaccounted for.                           *)
LEMMA CausesStep ==
    ASSUME TypeOK, OutcomesHaveCauses, [Next]_vars
    PROVE  OutcomesHaveCauses'
<1> USE KindFacts DEF OutcomesHaveCauses, files, plugin, client, pollVars,
       workVars, history
<1>1. CASE (PollRead \/ PollDelete \/ PollReject \/ PollForce \/ PollEnter)
         /\ UNCHANGED client /\ TempIsNotShared
  BY <1>1 DEF PollRead, PollDelete, PollReject, Status, PollForce, PollEnter
<1>2. CASE (RefreshRead \/ RefreshWrite \/ RefreshMove \/ LoseRequest)
         /\ UNCHANGED client /\ TempIsNotShared
  BY <1>2 DEF RefreshRead, RefreshWrite, RefreshMove, LoseRequest
<1>3. CASE (BeginDump \/ Scan \/ ReplaceDump \/ FailDump \/ InstallIndex
         \/ ReportDump \/ CrashDump) /\ UNCHANGED client /\ TempIsNotShared
  BY <1>3 DEF BeginDump, Status, Goto, Scan, ReplaceDump, FailDump,
         InstallIndex, ReportDump, CrashDump
<1>4. CASE (BeginBoost \/ RefuseEarly \/ CheckBoost \/ RereadBoost
         \/ WriteBoost \/ ReportBoost \/ CrashBoost \/ WorkExit) /\ UNCHANGED
         client /\ TempIsNotShared
  BY <1>4 DEF BeginBoost, Status, Goto, RefuseEarly, CheckBoost, Refuse,
         Mismatch, Conclude, RereadBoost, WriteBoost, ReportBoost, CrashBoost,
         WorkExit
<1>5. CASE (WriteTemp \/ RenameTemp \/ RenameFails) /\ UNCHANGED plugin
         /\ TempIsNotShared
  BY <1>5 DEF WriteTemp, Step, RenameTemp, RenameFails, FailAs, Done, EndsAs,
         NoDump
<1>6. CASE (SeeDumpReady \/ SeeDumpFailed \/ SeeBoostReady \/ SeeBoostFailed
         \/ GiveUp) /\ UNCHANGED plugin /\ TempIsNotShared
  BY <1>6 DEF SeeDumpReady, Answered, Step, SeeDumpFailed, Done, NoDump,
         SeeBoostReady, SeeBoostFailed, FailAs, EndsAs, GiveUp
<1>7. CASE (CopyDump \/ Recheck \/ Publish) /\ UNCHANGED plugin
         /\ TempIsNotShared
  BY <1>7 DEF CopyDump, Recheck, Done, Step, NoDump, Publish
<1>8. CASE (Reconcile \/ ReconcileFails \/ LatchRecovery \/ LatchFails)
         /\ UNCHANGED plugin /\ TempIsNotShared
  BY <1>8 DEF Reconcile, Done, EndsAs, NoDump, ReconcileFails, Step,
         LatchRecovery, LatchFails
<1>9. CASE (StartLoad \/ StartBoost("single") \/ StartBoost("squad")
         \/ SelectSnapshot \/ AppExit) /\ UNCHANGED plugin /\ TempIsNotShared
  BY <1>9 DEF StartLoad, StartBoost, SelectSnapshot, AppExit, Done, EndsAs,
         NoDump, Boosting
<1>10. CASE (GameProgress \/ PluginRestart) /\ UNCHANGED client
         /\ TempIsNotShared
  BY <1>10 DEF GameProgress, PluginRestart, Status
<1>11. CASE (RequestExpires \/ ForceScan) /\ UNCHANGED <<plugin, client>>
  BY <1>11 DEF RequestExpires, ForceScan
<1>12. CASE UNCHANGED vars
  BY <1>12 DEF vars
<1> HIDE DEF OutcomesHaveCauses, files, plugin, client, pollVars, workVars,
       history
<1> QED
  BY <1>1, <1>2, <1>3, <1>4, <1>5, <1>6, <1>7, <1>8, <1>9, <1>10, <1>11, <1>12, NextCases

-----------------------------------------------------------------------------
(* Who may act on a request: nobody once a status answered it ...           *)
LEMMA StatusStep ==
    ASSUME TypeOK, PassedOn, PassedOn', StatusIsFinal, [Next]_vars
    PROVE  StatusIsFinal'
<1> USE HandFacts, SameRequest, Constructed DEF PassedOn, IdsIssued,
       WorkAgrees, TempIsOwned, UnsentIsNowhere, WaitingIsNotTaken,
       ServedIsTaken, DumpLocations, BoostLocations, StatusIsFinal, Finished,
       Active, Terminal, NoId, files, plugin, client, pollVars, workVars,
       history
<1>1. CASE (PollRead \/ PollDelete \/ PollReject \/ PollForce \/ PollEnter)
         /\ UNCHANGED client /\ TempIsNotShared
  <2>1. CASE PollReject
    <3>1. pollSeen.id \in taken /\ ~Active /\ ~Active'
      BY <1>1, <2>1 DEF PollReject
    <3>2. \A i : i = pollSeen.id => Finished(i)'
      BY <1>1, <2>1, <3>1 DEF PollReject
    <3>3. CASE UNCHANGED status
      BY <1>1, <2>1, <3>1, <3>3 DEF PollReject
    <3>4. CASE status'.id = pollSeen.id
      BY <3>2, <3>4
    <3> QED
      BY <1>1, <2>1, <3>3, <3>4 DEF PollReject, Status
  <2>2. CASE PollRead \/ PollDelete \/ PollForce \/ PollEnter
    BY <1>1, <2>2 DEF PollRead, PollDelete, PollForce, PollEnter
  <2> QED
    BY <1>1, <2>1, <2>2
<1>2. CASE (RefreshRead \/ RefreshWrite \/ RefreshMove \/ LoseRequest)
         /\ UNCHANGED client /\ TempIsNotShared
  BY <1>2 DEF RefreshRead, RefreshWrite, RefreshMove, LoseRequest
<1>3. CASE (BeginDump \/ Scan \/ ReplaceDump \/ FailDump \/ InstallIndex
         \/ ReportDump \/ CrashDump) /\ UNCHANGED client /\ TempIsNotShared
  <2>1. CASE BeginDump
    BY <1>3, <2>1 DEF BeginDump, Status, Goto
  <2>2. CASE Scan
    BY <1>3, <2>2 DEF Scan, Goto
  <2>3. CASE ReplaceDump
    BY <1>3, <2>3 DEF ReplaceDump, Goto
  <2>4. CASE FailDump
    <3>1. workReq.id \in taken /\ pollPc \notin {"enter", "reject"} /\ ~Active'
      BY <1>3, <2>4 DEF FailDump, Goto
    <3>2. \A i : i = workReq.id => Finished(i)'
      BY <1>3, <2>4, <3>1 DEF FailDump, Goto
    <3>3. status'.id = workReq.id
      BY <1>3, <2>4 DEF FailDump, Status
    <3> QED
      BY <3>2, <3>3
  <2>5. CASE InstallIndex
    BY <1>3, <2>5 DEF InstallIndex, Goto
  <2>6. CASE ReportDump
    BY <1>3, <2>6 DEF ReportDump, Status, Goto
  <2>7. CASE CrashDump
    <3>1. workReq.id \in taken /\ pollPc \notin {"enter", "reject"} /\ ~Active'
      BY <1>3, <2>7 DEF CrashDump, Goto
    <3>2. \A i : i = workReq.id => Finished(i)'
      BY <1>3, <2>7, <3>1 DEF CrashDump, Goto
    <3>3. CASE UNCHANGED status
      BY <1>3, <2>7, <3>1, <3>3 DEF CrashDump, Goto
    <3>4. CASE status'.id = workReq.id
      BY <3>2, <3>4
    <3> QED
      BY <1>3, <2>7, <3>3, <3>4 DEF CrashDump, Status
  <2> QED
    BY <1>3, <2>1, <2>2, <2>3, <2>4, <2>5, <2>6, <2>7
<1>4. CASE (BeginBoost \/ RefuseEarly \/ CheckBoost \/ RereadBoost
         \/ WriteBoost \/ ReportBoost \/ CrashBoost \/ WorkExit) /\ UNCHANGED
         client /\ TempIsNotShared
  <2>1. CASE BeginBoost
    BY <1>4, <2>1 DEF BeginBoost, Status, Goto
  <2>2. CASE RefuseEarly
    BY <1>4, <2>2 DEF RefuseEarly, Status, Goto
  <2>3. CASE CheckBoost
    BY <1>4, <2>3 DEF CheckBoost, Refuse, Mismatch, Conclude, Goto
  <2>4. CASE RereadBoost
    BY <1>4, <2>4 DEF RereadBoost, Refuse, Mismatch, Conclude, Goto
  <2>5. CASE WriteBoost
    BY <1>4, <2>5 DEF WriteBoost, Refuse, Conclude, Goto
  <2>6. CASE ReportBoost
    BY <1>4, <2>6 DEF ReportBoost, Status, Goto
  <2>7. CASE CrashBoost
    <3>1. workReq.id \in taken /\ pollPc \notin {"enter", "reject"} /\ ~Active'
      BY <1>4, <2>7 DEF CrashBoost, Goto
    <3>2. \A i : i = workReq.id => Finished(i)'
      BY <1>4, <2>7, <3>1 DEF CrashBoost, Goto
    <3>3. CASE UNCHANGED status
      BY <1>4, <2>7, <3>1, <3>3 DEF CrashBoost, Goto
    <3>4. CASE status'.id = workReq.id
      BY <3>2, <3>4
    <3> QED
      BY <1>4, <2>7, <3>3, <3>4 DEF CrashBoost, Status
  <2>8. CASE WorkExit
    BY <1>4, <2>8 DEF WorkExit, Goto
  <2> QED
    BY <1>4, <2>1, <2>2, <2>3, <2>4, <2>5, <2>6, <2>7, <2>8
<1>5. CASE (WriteTemp \/ RenameTemp \/ RenameFails) /\ UNCHANGED plugin
         /\ TempIsNotShared
  BY <1>5 DEF WriteTemp, Step, RenameTemp, RenameFails, FailAs, Done, EndsAs,
         NoDump
<1>6. CASE (SeeDumpReady \/ SeeDumpFailed \/ SeeBoostReady \/ SeeBoostFailed
         \/ GiveUp) /\ UNCHANGED plugin /\ TempIsNotShared
  BY <1>6 DEF SeeDumpReady, Answered, Step, SeeDumpFailed, Done, NoDump,
         SeeBoostReady, SeeBoostFailed, FailAs, EndsAs, GiveUp
<1>7. CASE (CopyDump \/ Recheck \/ Publish) /\ UNCHANGED plugin
         /\ TempIsNotShared
  BY <1>7 DEF CopyDump, Recheck, Done, Step, NoDump, Publish
<1>8. CASE (Reconcile \/ ReconcileFails \/ LatchRecovery \/ LatchFails)
         /\ UNCHANGED plugin /\ TempIsNotShared
  BY <1>8 DEF Reconcile, Done, EndsAs, NoDump, ReconcileFails, Step,
         LatchRecovery, LatchFails
<1>9. CASE (StartLoad \/ StartBoost("single") \/ StartBoost("squad")
         \/ SelectSnapshot \/ AppExit) /\ UNCHANGED plugin /\ TempIsNotShared
  BY <1>9 DEF StartLoad, StartBoost, SelectSnapshot, AppExit, Done, EndsAs,
         NoDump, Boosting
<1>10. CASE (GameProgress \/ PluginRestart) /\ UNCHANGED client
         /\ TempIsNotShared
  BY <1>10 DEF GameProgress, PluginRestart, Status
<1>11. CASE (RequestExpires \/ ForceScan) /\ UNCHANGED <<plugin, client>>
  BY <1>11 DEF RequestExpires, ForceScan
<1>12. CASE UNCHANGED vars
  BY <1>12 DEF vars
<1> HIDE DEF PassedOn, IdsIssued, WorkAgrees, TempIsOwned, UnsentIsNowhere,
       WaitingIsNotTaken, ServedIsTaken, DumpLocations, BoostLocations,
       StatusIsFinal, Finished, Active, Terminal, NoId, files, plugin, client,
       pollVars, workVars, history
<1> QED
  BY <1>1, <1>2, <1>3, <1>4, <1>5, <1>6, <1>7, <1>8, <1>9, <1>10, <1>11, <1>12, NextCases

(* ... once its Load Data saw it ready ...                                  *)
LEMMA ScanStep ==
    ASSUME TypeOK, PassedOn, StatusIsFinal, ScanIsFinal, [Next]_vars
    PROVE  ScanIsFinal'
<1> USE KindFacts, SameRequest, Constructed DEF PassedOn, IdsIssued,
       WorkAgrees, TempIsOwned, UnsentIsNowhere, WaitingIsNotTaken,
       ServedIsTaken, DumpLocations, BoostLocations, StatusIsFinal,
       ScanIsFinal, Finished, Active, Terminal, files, plugin, client,
       pollVars, workVars, history
<1>1. CASE (PollRead \/ PollDelete \/ PollReject \/ PollForce \/ PollEnter)
         /\ UNCHANGED client /\ TempIsNotShared
  BY <1>1 DEF PollRead, PollDelete, PollReject, Status, PollForce, PollEnter
<1>2. CASE (RefreshRead \/ RefreshWrite \/ RefreshMove \/ LoseRequest)
         /\ UNCHANGED client /\ TempIsNotShared
  BY <1>2 DEF RefreshRead, RefreshWrite, RefreshMove, LoseRequest
<1>3. CASE (BeginDump \/ Scan \/ ReplaceDump \/ FailDump \/ InstallIndex
         \/ ReportDump \/ CrashDump) /\ UNCHANGED client /\ TempIsNotShared
  BY <1>3 DEF BeginDump, Status, Goto, Scan, ReplaceDump, FailDump,
         InstallIndex, ReportDump, CrashDump
<1>4. CASE (BeginBoost \/ RefuseEarly \/ CheckBoost \/ RereadBoost
         \/ WriteBoost \/ ReportBoost \/ CrashBoost \/ WorkExit) /\ UNCHANGED
         client /\ TempIsNotShared
  BY <1>4 DEF BeginBoost, Status, Goto, RefuseEarly, CheckBoost, Refuse,
         Mismatch, Conclude, RereadBoost, WriteBoost, ReportBoost, CrashBoost,
         WorkExit
<1>5. CASE (WriteTemp \/ RenameTemp \/ RenameFails) /\ UNCHANGED plugin
         /\ TempIsNotShared
  BY <1>5 DEF WriteTemp, Step, RenameTemp, RenameFails, FailAs, Done, EndsAs,
         NoDump
<1>6. CASE (SeeDumpReady \/ SeeDumpFailed \/ SeeBoostReady \/ SeeBoostFailed
         \/ GiveUp) /\ UNCHANGED plugin /\ TempIsNotShared
  BY <1>6 DEF SeeDumpReady, Answered, Step, SeeDumpFailed, Done, NoDump,
         SeeBoostReady, SeeBoostFailed, FailAs, EndsAs, GiveUp
<1>7. CASE (CopyDump \/ Recheck \/ Publish) /\ UNCHANGED plugin
         /\ TempIsNotShared
  BY <1>7 DEF CopyDump, Recheck, Done, Step, NoDump, Publish
<1>8. CASE (Reconcile \/ ReconcileFails \/ LatchRecovery \/ LatchFails)
         /\ UNCHANGED plugin /\ TempIsNotShared
  BY <1>8 DEF Reconcile, Done, EndsAs, NoDump, ReconcileFails, Step,
         LatchRecovery, LatchFails
<1>9. CASE (StartLoad \/ StartBoost("single") \/ StartBoost("squad")
         \/ SelectSnapshot \/ AppExit) /\ UNCHANGED plugin /\ TempIsNotShared
  BY <1>9 DEF StartLoad, StartBoost, SelectSnapshot, AppExit, Done, EndsAs,
         NoDump, Boosting
<1>10. CASE (GameProgress \/ PluginRestart) /\ UNCHANGED client
         /\ TempIsNotShared
  BY <1>10 DEF GameProgress, PluginRestart, Status
<1>11. CASE (RequestExpires \/ ForceScan) /\ UNCHANGED <<plugin, client>>
  BY <1>11 DEF RequestExpires, ForceScan
<1>12. CASE UNCHANGED vars
  BY <1>12 DEF vars
<1> HIDE DEF PassedOn, IdsIssued, WorkAgrees, TempIsOwned, UnsentIsNowhere,
       WaitingIsNotTaken, ServedIsTaken, DumpLocations, BoostLocations,
       StatusIsFinal, ScanIsFinal, Finished, Active, Terminal, files, plugin,
       client, pollVars, workVars, history
<1> QED
  BY <1>1, <1>2, <1>3, <1>4, <1>5, <1>6, <1>7, <1>8, <1>9, <1>10, <1>11, <1>12, NextCases

(* ... once its boost was reported as refused ...                           *)
LEMMA RejectionStep ==
    ASSUME TypeOK, PassedOn, CommandsAgree, StatusIsFinal, RejectionIsFinal, [Next]_vars
    PROVE  RejectionIsFinal'
<1> USE KindFacts, SameRequest, Constructed DEF PassedOn, IdsIssued,
       WorkAgrees, TempIsOwned, UnsentIsNowhere, WaitingIsNotTaken,
       ServedIsTaken, DumpLocations, BoostLocations, CommandsAgree,
       StatusIsFinal, RejectionIsFinal, Finished, Active, Terminal, files,
       plugin, client, pollVars, workVars, history
<1>1. CASE (PollRead \/ PollDelete \/ PollReject \/ PollForce \/ PollEnter)
         /\ UNCHANGED client /\ TempIsNotShared
  BY <1>1 DEF PollRead, PollDelete, PollReject, Status, PollForce, PollEnter
<1>2. CASE (RefreshRead \/ RefreshWrite \/ RefreshMove \/ LoseRequest)
         /\ UNCHANGED client /\ TempIsNotShared
  BY <1>2 DEF RefreshRead, RefreshWrite, RefreshMove, LoseRequest
<1>3. CASE (BeginDump \/ Scan \/ ReplaceDump \/ FailDump \/ InstallIndex
         \/ ReportDump \/ CrashDump) /\ UNCHANGED client /\ TempIsNotShared
  BY <1>3 DEF BeginDump, Status, Goto, Scan, ReplaceDump, FailDump,
         InstallIndex, ReportDump, CrashDump
<1>4. CASE (BeginBoost \/ RefuseEarly \/ CheckBoost \/ RereadBoost
         \/ WriteBoost \/ ReportBoost \/ CrashBoost \/ WorkExit) /\ UNCHANGED
         client /\ TempIsNotShared
  BY <1>4 DEF BeginBoost, Status, Goto, RefuseEarly, CheckBoost, Refuse,
         Mismatch, Conclude, RereadBoost, WriteBoost, ReportBoost, CrashBoost,
         WorkExit
<1>5. CASE (WriteTemp \/ RenameTemp \/ RenameFails) /\ UNCHANGED plugin
         /\ TempIsNotShared
  BY <1>5 DEF WriteTemp, Step, RenameTemp, RenameFails, FailAs, Done, EndsAs,
         NoDump
<1>6. CASE (SeeDumpReady \/ SeeDumpFailed \/ SeeBoostReady \/ SeeBoostFailed
         \/ GiveUp) /\ UNCHANGED plugin /\ TempIsNotShared
  BY <1>6 DEF SeeDumpReady, Answered, Step, SeeDumpFailed, Done, NoDump,
         SeeBoostReady, SeeBoostFailed, FailAs, EndsAs, GiveUp
<1>7. CASE (CopyDump \/ Recheck \/ Publish) /\ UNCHANGED plugin
         /\ TempIsNotShared
  BY <1>7 DEF CopyDump, Recheck, Done, Step, NoDump, Publish
<1>8. CASE (Reconcile \/ ReconcileFails \/ LatchRecovery \/ LatchFails)
         /\ UNCHANGED plugin /\ TempIsNotShared
  BY <1>8 DEF Reconcile, Done, EndsAs, NoDump, ReconcileFails, Step,
         LatchRecovery, LatchFails
<1>9. CASE (StartLoad \/ StartBoost("single") \/ StartBoost("squad")
         \/ SelectSnapshot \/ AppExit) /\ UNCHANGED plugin /\ TempIsNotShared
  BY <1>9 DEF StartLoad, StartBoost, SelectSnapshot, AppExit, Done, EndsAs,
         NoDump, Boosting
<1>10. CASE (GameProgress \/ PluginRestart) /\ UNCHANGED client
         /\ TempIsNotShared
  BY <1>10 DEF GameProgress, PluginRestart, Status
<1>11. CASE (RequestExpires \/ ForceScan) /\ UNCHANGED <<plugin, client>>
  BY <1>11 DEF RequestExpires, ForceScan
<1>12. CASE UNCHANGED vars
  BY <1>12 DEF vars
<1> HIDE DEF PassedOn, IdsIssued, WorkAgrees, TempIsOwned, UnsentIsNowhere,
       WaitingIsNotTaken, ServedIsTaken, DumpLocations, BoostLocations,
       CommandsAgree, StatusIsFinal, RejectionIsFinal, Finished, Active,
       Terminal, files, plugin, client, pollVars, workVars, history
<1> QED
  BY <1>1, <1>2, <1>3, <1>4, <1>5, <1>6, <1>7, <1>8, <1>9, <1>10, <1>11, <1>12, NextCases

(* ... and nobody ever if it was reported as unsent.                        *)
LEMMA UnwrittenStep ==
    ASSUME TypeOK, PassedOn, KindsAgree, CommandsAgree, UnwrittenIsNowhere, [Next]_vars
    PROVE  UnwrittenIsNowhere'
<1> USE KindFacts, SameRequest, Constructed DEF PassedOn, IdsIssued,
       WorkAgrees, TempIsOwned, UnsentIsNowhere, WaitingIsNotTaken,
       ServedIsTaken, DumpLocations, BoostLocations, KindsAgree, KindAgrees,
       Boosts, CommandsAgree, UnwrittenIsNowhere, files, plugin, client,
       pollVars, workVars, history
<1>1. CASE (PollRead \/ PollDelete \/ PollReject \/ PollForce \/ PollEnter)
         /\ UNCHANGED client /\ TempIsNotShared
  <2>1. CASE PollRead
    BY <1>1, <2>1 DEF PollRead
  <2>2. CASE PollDelete
    BY <1>1, <2>2 DEF PollDelete
  <2>3. CASE PollReject
    BY <1>1, <2>3 DEF PollReject, Status
  <2>4. CASE PollForce
    BY <1>1, <2>4 DEF PollForce
  <2>5. CASE PollEnter
    BY <1>1, <2>5 DEF PollEnter
  <2> QED
    BY <1>1, <2>1, <2>2, <2>3, <2>4, <2>5
<1>2. CASE (RefreshRead \/ RefreshWrite \/ RefreshMove \/ LoseRequest)
         /\ UNCHANGED client /\ TempIsNotShared
  <2>1. CASE RefreshRead
    BY <1>2, <2>1 DEF RefreshRead
  <2>2. CASE RefreshWrite
    BY <1>2, <2>2 DEF RefreshWrite
  <2>3. CASE RefreshMove
    BY <1>2, <2>3 DEF RefreshMove
  <2>4. CASE LoseRequest
    BY <1>2, <2>4 DEF LoseRequest
  <2> QED
    BY <1>2, <2>1, <2>2, <2>3, <2>4
<1>3. CASE (BeginDump \/ Scan \/ ReplaceDump \/ FailDump \/ InstallIndex
         \/ ReportDump \/ CrashDump) /\ UNCHANGED client /\ TempIsNotShared
  BY <1>3 DEF BeginDump, Status, Goto, Scan, ReplaceDump, FailDump,
         InstallIndex, ReportDump, CrashDump
<1>4. CASE (BeginBoost \/ RefuseEarly \/ CheckBoost \/ RereadBoost
         \/ WriteBoost \/ ReportBoost \/ CrashBoost \/ WorkExit) /\ UNCHANGED
         client /\ TempIsNotShared
  BY <1>4 DEF BeginBoost, Status, Goto, RefuseEarly, CheckBoost, Refuse,
         Mismatch, Conclude, RereadBoost, WriteBoost, ReportBoost, CrashBoost,
         WorkExit
<1>5. CASE (WriteTemp \/ RenameTemp \/ RenameFails) /\ UNCHANGED plugin
         /\ TempIsNotShared
  BY <1>5 DEF WriteTemp, Step, RenameTemp, RenameFails, FailAs, Done, EndsAs,
         NoDump
<1>6. CASE (SeeDumpReady \/ SeeDumpFailed \/ SeeBoostReady \/ SeeBoostFailed
         \/ GiveUp) /\ UNCHANGED plugin /\ TempIsNotShared
  BY <1>6 DEF SeeDumpReady, Answered, Step, SeeDumpFailed, Done, NoDump,
         SeeBoostReady, SeeBoostFailed, FailAs, EndsAs, GiveUp
<1>7. CASE (CopyDump \/ Recheck \/ Publish) /\ UNCHANGED plugin
         /\ TempIsNotShared
  BY <1>7 DEF CopyDump, Recheck, Done, Step, NoDump, Publish
<1>8. CASE (Reconcile \/ ReconcileFails \/ LatchRecovery \/ LatchFails)
         /\ UNCHANGED plugin /\ TempIsNotShared
  BY <1>8 DEF Reconcile, Done, EndsAs, NoDump, ReconcileFails, Step,
         LatchRecovery, LatchFails
<1>9. CASE (StartLoad \/ StartBoost("single") \/ StartBoost("squad")
         \/ SelectSnapshot \/ AppExit) /\ UNCHANGED plugin /\ TempIsNotShared
  BY <1>9 DEF StartLoad, StartBoost, SelectSnapshot, AppExit, Done, EndsAs,
         NoDump, Boosting
<1>10. CASE (GameProgress \/ PluginRestart) /\ UNCHANGED client
         /\ TempIsNotShared
  <2>1. CASE GameProgress
    BY <1>10, <2>1 DEF GameProgress
  <2>2. CASE PluginRestart
    BY <1>10, <2>2 DEF PluginRestart, Status
  <2> QED
    BY <1>10, <2>1, <2>2
<1>11. CASE (RequestExpires \/ ForceScan) /\ UNCHANGED <<plugin, client>>
  BY <1>11 DEF RequestExpires, ForceScan
<1>12. CASE UNCHANGED vars
  BY <1>12 DEF vars
<1> HIDE DEF PassedOn, IdsIssued, WorkAgrees, TempIsOwned, UnsentIsNowhere,
       WaitingIsNotTaken, ServedIsTaken, DumpLocations, BoostLocations,
       KindsAgree, KindAgrees, Boosts, CommandsAgree, UnwrittenIsNowhere,
       files, plugin, client, pollVars, workVars, history
<1> QED
  BY <1>1, <1>2, <1>3, <1>4, <1>5, <1>6, <1>7, <1>8, <1>9, <1>10, <1>11, <1>12, NextCases

-----------------------------------------------------------------------------
(* A ready status of a scan is about the dump that is there.                *)
LEMMA ReadyStep ==
    ASSUME TypeOK, PassedOn, KindsAgree, CommandsAgree, AnsweredIsFinished, ReadyIsThisDump, [Next]_vars
    PROVE  ReadyIsThisDump'
<1> USE KindFacts, SameRequest, Constructed DEF PassedOn, IdsIssued,
       WorkAgrees, TempIsOwned, UnsentIsNowhere, WaitingIsNotTaken,
       ServedIsTaken, DumpLocations, BoostLocations, KindsAgree, KindAgrees,
       Boosts, CommandsAgree, AnsweredIsFinished, StatusIsFinal, ScanIsFinal,
       RejectionIsFinal, UnwrittenIsNowhere, Finished, Active, Terminal,
       ReadyIsThisDump, files, plugin, client, pollVars, workVars, history
<1>1. CASE (PollRead \/ PollDelete \/ PollReject \/ PollForce \/ PollEnter)
         /\ UNCHANGED client /\ TempIsNotShared
  <2>1. CASE PollRead
    BY <1>1, <2>1 DEF PollRead
  <2>2. CASE PollDelete
    BY <1>1, <2>2 DEF PollDelete
  <2>3. CASE PollReject
    <3>1. CASE UNCHANGED status
      BY <1>1, <2>3, <3>1 DEF PollReject
    <3>2. CASE status'.state = "failed"
      BY <1>1, <2>3, <3>2 DEF PollReject
    <3> QED
      BY <1>1, <2>3, <3>1, <3>2 DEF PollReject, Status
  <2>4. CASE PollForce
    BY <1>1, <2>4 DEF PollForce
  <2>5. CASE PollEnter
    BY <1>1, <2>5 DEF PollEnter
  <2> QED
    BY <1>1, <2>1, <2>2, <2>3, <2>4, <2>5
<1>2. CASE (RefreshRead \/ RefreshWrite \/ RefreshMove \/ LoseRequest)
         /\ UNCHANGED client /\ TempIsNotShared
  BY <1>2 DEF RefreshRead, RefreshWrite, RefreshMove, LoseRequest
<1>3. CASE (BeginDump \/ Scan \/ ReplaceDump \/ FailDump \/ InstallIndex
         \/ ReportDump \/ CrashDump) /\ UNCHANGED client /\ TempIsNotShared
  BY <1>3 DEF BeginDump, Status, Goto, Scan, ReplaceDump, FailDump,
         InstallIndex, ReportDump, CrashDump
<1>4. CASE (BeginBoost \/ RefuseEarly \/ CheckBoost \/ RereadBoost
         \/ WriteBoost \/ ReportBoost \/ CrashBoost \/ WorkExit) /\ UNCHANGED
         client /\ TempIsNotShared
  <2>1. CASE BeginBoost
    BY <1>4, <2>1 DEF BeginBoost, Status, Goto
  <2>2. CASE RefuseEarly
    BY <1>4, <2>2 DEF RefuseEarly, Status, Goto
  <2>3. CASE CheckBoost
    BY <1>4, <2>3 DEF CheckBoost, Refuse, Mismatch, Conclude, Goto
  <2>4. CASE RereadBoost
    BY <1>4, <2>4 DEF RereadBoost, Refuse, Mismatch, Conclude, Goto
  <2>5. CASE WriteBoost
    BY <1>4, <2>5 DEF WriteBoost, Refuse, Conclude, Goto
  <2>6. CASE ReportBoost
    BY <1>4, <2>6 DEF ReportBoost, Status, Goto
  <2>7. CASE CrashBoost
    BY <1>4, <2>7 DEF CrashBoost, Status, Goto
  <2>8. CASE WorkExit
    BY <1>4, <2>8 DEF WorkExit, Goto
  <2> QED
    BY <1>4, <2>1, <2>2, <2>3, <2>4, <2>5, <2>6, <2>7, <2>8
<1>5. CASE (WriteTemp \/ RenameTemp \/ RenameFails) /\ UNCHANGED plugin
         /\ TempIsNotShared
  BY <1>5 DEF WriteTemp, Step, RenameTemp, RenameFails, FailAs, Done, EndsAs,
         NoDump
<1>6. CASE (SeeDumpReady \/ SeeDumpFailed \/ SeeBoostReady \/ SeeBoostFailed
         \/ GiveUp) /\ UNCHANGED plugin /\ TempIsNotShared
  BY <1>6 DEF SeeDumpReady, Answered, Step, SeeDumpFailed, Done, NoDump,
         SeeBoostReady, SeeBoostFailed, FailAs, EndsAs, GiveUp
<1>7. CASE (CopyDump \/ Recheck \/ Publish) /\ UNCHANGED plugin
         /\ TempIsNotShared
  BY <1>7 DEF CopyDump, Recheck, Done, Step, NoDump, Publish
<1>8. CASE (Reconcile \/ ReconcileFails \/ LatchRecovery \/ LatchFails)
         /\ UNCHANGED plugin /\ TempIsNotShared
  BY <1>8 DEF Reconcile, Done, EndsAs, NoDump, ReconcileFails, Step,
         LatchRecovery, LatchFails
<1>9. CASE (StartLoad \/ StartBoost("single") \/ StartBoost("squad")
         \/ SelectSnapshot \/ AppExit) /\ UNCHANGED plugin /\ TempIsNotShared
  BY <1>9 DEF StartLoad, StartBoost, SelectSnapshot, AppExit, Done, EndsAs,
         NoDump, Boosting
<1>10. CASE (GameProgress \/ PluginRestart) /\ UNCHANGED client
         /\ TempIsNotShared
  BY <1>10 DEF GameProgress, PluginRestart, Status
<1>11. CASE (RequestExpires \/ ForceScan) /\ UNCHANGED <<plugin, client>>
  BY <1>11 DEF RequestExpires, ForceScan
<1>12. CASE UNCHANGED vars
  BY <1>12 DEF vars
<1> HIDE DEF PassedOn, IdsIssued, WorkAgrees, TempIsOwned, UnsentIsNowhere,
       WaitingIsNotTaken, ServedIsTaken, DumpLocations, BoostLocations,
       KindsAgree, KindAgrees, Boosts, CommandsAgree, AnsweredIsFinished,
       StatusIsFinal, ScanIsFinal, RejectionIsFinal, UnwrittenIsNowhere,
       Finished, Active, Terminal, ReadyIsThisDump, files, plugin, client,
       pollVars, workVars, history
<1> QED
  BY <1>1, <1>2, <1>3, <1>4, <1>5, <1>6, <1>7, <1>8, <1>9, <1>10, <1>11, <1>12, NextCases

(* What Load Data publishes is what it copied under such a status.          *)
LEMMA CaptureStep ==
    ASSUME TypeOK, ReadyIsThisDump, CaptureOwnDump, [Next]_vars
    PROVE  CaptureOwnDump'
<1> USE KindFacts DEF ReadyIsThisDump, CaptureOwnDump, files, plugin, client,
       pollVars, workVars, history
<1>1. CASE (PollRead \/ PollDelete \/ PollReject \/ PollForce \/ PollEnter)
         /\ UNCHANGED client /\ TempIsNotShared
  BY <1>1 DEF PollRead, PollDelete, PollReject, Status, PollForce, PollEnter
<1>2. CASE (RefreshRead \/ RefreshWrite \/ RefreshMove \/ LoseRequest)
         /\ UNCHANGED client /\ TempIsNotShared
  BY <1>2 DEF RefreshRead, RefreshWrite, RefreshMove, LoseRequest
<1>3. CASE (BeginDump \/ Scan \/ ReplaceDump \/ FailDump \/ InstallIndex
         \/ ReportDump \/ CrashDump) /\ UNCHANGED client /\ TempIsNotShared
  BY <1>3 DEF BeginDump, Status, Goto, Scan, ReplaceDump, FailDump,
         InstallIndex, ReportDump, CrashDump
<1>4. CASE (BeginBoost \/ RefuseEarly \/ CheckBoost \/ RereadBoost
         \/ WriteBoost \/ ReportBoost \/ CrashBoost \/ WorkExit) /\ UNCHANGED
         client /\ TempIsNotShared
  BY <1>4 DEF BeginBoost, Status, Goto, RefuseEarly, CheckBoost, Refuse,
         Mismatch, Conclude, RereadBoost, WriteBoost, ReportBoost, CrashBoost,
         WorkExit
<1>5. CASE (WriteTemp \/ RenameTemp \/ RenameFails) /\ UNCHANGED plugin
         /\ TempIsNotShared
  BY <1>5 DEF WriteTemp, Step, RenameTemp, RenameFails, FailAs, Done, EndsAs,
         NoDump
<1>6. CASE (SeeDumpReady \/ SeeDumpFailed \/ SeeBoostReady \/ SeeBoostFailed
         \/ GiveUp) /\ UNCHANGED plugin /\ TempIsNotShared
  BY <1>6 DEF SeeDumpReady, Answered, Step, SeeDumpFailed, Done, NoDump,
         SeeBoostReady, SeeBoostFailed, FailAs, EndsAs, GiveUp
<1>7. CASE (CopyDump \/ Recheck \/ Publish) /\ UNCHANGED plugin
         /\ TempIsNotShared
  BY <1>7 DEF CopyDump, Recheck, Done, Step, NoDump, Publish
<1>8. CASE (Reconcile \/ ReconcileFails \/ LatchRecovery \/ LatchFails)
         /\ UNCHANGED plugin /\ TempIsNotShared
  BY <1>8 DEF Reconcile, Done, EndsAs, NoDump, ReconcileFails, Step,
         LatchRecovery, LatchFails
<1>9. CASE (StartLoad \/ StartBoost("single") \/ StartBoost("squad")
         \/ SelectSnapshot \/ AppExit) /\ UNCHANGED plugin /\ TempIsNotShared
  BY <1>9 DEF StartLoad, StartBoost, SelectSnapshot, AppExit, Done, EndsAs,
         NoDump, Boosting
<1>10. CASE (GameProgress \/ PluginRestart) /\ UNCHANGED client
         /\ TempIsNotShared
  BY <1>10 DEF GameProgress, PluginRestart, Status
<1>11. CASE (RequestExpires \/ ForceScan) /\ UNCHANGED <<plugin, client>>
  BY <1>11 DEF RequestExpires, ForceScan
<1>12. CASE UNCHANGED vars
  BY <1>12 DEF vars
<1> HIDE DEF ReadyIsThisDump, CaptureOwnDump, files, plugin, client, pollVars,
       workVars, history
<1> QED
  BY <1>1, <1>2, <1>3, <1>4, <1>5, <1>6, <1>7, <1>8, <1>9, <1>10, <1>11, <1>12, NextCases

(* A boost that is said not to have been written has not been written.      *)
LEMMA AppliedStep ==
    ASSUME TypeOK, PassedOn, KindsAgree, CommandsAgree, AnsweredIsFinished,
           UnwrittenIsNotApplied, [Next]_vars
    PROVE  UnwrittenIsNotApplied'
<1> USE KindFacts, SameRequest, Constructed DEF PassedOn, IdsIssued,
       WorkAgrees, TempIsOwned, UnsentIsNowhere, WaitingIsNotTaken,
       ServedIsTaken, DumpLocations, BoostLocations, KindsAgree, KindAgrees,
       Boosts, CommandsAgree, AnsweredIsFinished, StatusIsFinal, ScanIsFinal,
       RejectionIsFinal, UnwrittenIsNowhere, Finished, Active, Terminal,
       UnwrittenIsNotApplied, files, plugin, client, pollVars, workVars,
       history
<1>1. CASE (PollRead \/ PollDelete \/ PollReject \/ PollForce \/ PollEnter)
         /\ UNCHANGED client /\ TempIsNotShared
  BY <1>1 DEF PollRead, PollDelete, PollReject, Status, PollForce, PollEnter
<1>2. CASE (RefreshRead \/ RefreshWrite \/ RefreshMove \/ LoseRequest)
         /\ UNCHANGED client /\ TempIsNotShared
  BY <1>2 DEF RefreshRead, RefreshWrite, RefreshMove, LoseRequest
<1>3. CASE (BeginDump \/ Scan \/ ReplaceDump \/ FailDump \/ InstallIndex
         \/ ReportDump \/ CrashDump) /\ UNCHANGED client /\ TempIsNotShared
  BY <1>3 DEF BeginDump, Status, Goto, Scan, ReplaceDump, FailDump,
         InstallIndex, ReportDump, CrashDump
<1>4. CASE (BeginBoost \/ RefuseEarly \/ CheckBoost \/ RereadBoost
         \/ WriteBoost \/ ReportBoost \/ CrashBoost \/ WorkExit) /\ UNCHANGED
         client /\ TempIsNotShared
  <2>1. CASE BeginBoost
    BY <1>4, <2>1 DEF BeginBoost, Status, Goto
  <2>2. CASE RefuseEarly
    BY <1>4, <2>2 DEF RefuseEarly, Status, Goto
  <2>3. CASE CheckBoost
    BY <1>4, <2>3 DEF CheckBoost, Refuse, Mismatch, Conclude, Goto
  <2>4. CASE RereadBoost
    BY <1>4, <2>4 DEF RereadBoost, Refuse, Mismatch, Conclude, Goto
  <2>5. CASE WriteBoost
    BY <1>4, <2>5 DEF WriteBoost, Refuse, Conclude, Goto
  <2>6. CASE ReportBoost
    BY <1>4, <2>6 DEF ReportBoost, Status, Goto
  <2>7. CASE CrashBoost
    BY <1>4, <2>7 DEF CrashBoost, Status, Goto
  <2>8. CASE WorkExit
    BY <1>4, <2>8 DEF WorkExit, Goto
  <2> QED
    BY <1>4, <2>1, <2>2, <2>3, <2>4, <2>5, <2>6, <2>7, <2>8
<1>5. CASE (WriteTemp \/ RenameTemp \/ RenameFails) /\ UNCHANGED plugin
         /\ TempIsNotShared
  BY <1>5 DEF WriteTemp, Step, RenameTemp, RenameFails, FailAs, Done, EndsAs,
         NoDump
<1>6. CASE (SeeDumpReady \/ SeeDumpFailed \/ SeeBoostReady \/ SeeBoostFailed
         \/ GiveUp) /\ UNCHANGED plugin /\ TempIsNotShared
  BY <1>6 DEF SeeDumpReady, Answered, Step, SeeDumpFailed, Done, NoDump,
         SeeBoostReady, SeeBoostFailed, FailAs, EndsAs, GiveUp
<1>7. CASE (CopyDump \/ Recheck \/ Publish) /\ UNCHANGED plugin
         /\ TempIsNotShared
  BY <1>7 DEF CopyDump, Recheck, Done, Step, NoDump, Publish
<1>8. CASE (Reconcile \/ ReconcileFails \/ LatchRecovery \/ LatchFails)
         /\ UNCHANGED plugin /\ TempIsNotShared
  BY <1>8 DEF Reconcile, Done, EndsAs, NoDump, ReconcileFails, Step,
         LatchRecovery, LatchFails
<1>9. CASE (StartLoad \/ StartBoost("single") \/ StartBoost("squad")
         \/ SelectSnapshot \/ AppExit) /\ UNCHANGED plugin /\ TempIsNotShared
  BY <1>9 DEF StartLoad, StartBoost, SelectSnapshot, AppExit, Done, EndsAs,
         NoDump, Boosting
<1>10. CASE (GameProgress \/ PluginRestart) /\ UNCHANGED client
         /\ TempIsNotShared
  BY <1>10 DEF GameProgress, PluginRestart, Status
<1>11. CASE (RequestExpires \/ ForceScan) /\ UNCHANGED <<plugin, client>>
  BY <1>11 DEF RequestExpires, ForceScan
<1>12. CASE UNCHANGED vars
  BY <1>12 DEF vars
<1> HIDE DEF PassedOn, IdsIssued, WorkAgrees, TempIsOwned, UnsentIsNowhere,
       WaitingIsNotTaken, ServedIsTaken, DumpLocations, BoostLocations,
       KindsAgree, KindAgrees, Boosts, CommandsAgree, AnsweredIsFinished,
       StatusIsFinal, ScanIsFinal, RejectionIsFinal, UnwrittenIsNowhere,
       Finished, Active, Terminal, UnwrittenIsNotApplied, files, plugin,
       client, pollVars, workVars, history
<1> QED
  BY <1>1, <1>2, <1>3, <1>4, <1>5, <1>6, <1>7, <1>8, <1>9, <1>10, <1>11, <1>12, NextCases

(* Nor will it ever be.                                                     *)
LEMMA RefusedStep ==
    ASSUME TypeOK, PassedOn, KindsAgree, CommandsAgree, AnsweredIsFinished,
           ReadyIsThisDump, UnwrittenIsNotApplied, RefusedNotApplied, [Next]_vars
    PROVE  RefusedNotApplied'
<1> USE KindFacts, SameRequest, Constructed DEF PassedOn, IdsIssued,
       WorkAgrees, TempIsOwned, UnsentIsNowhere, WaitingIsNotTaken,
       ServedIsTaken, DumpLocations, BoostLocations, KindsAgree, KindAgrees,
       Boosts, CommandsAgree, AnsweredIsFinished, StatusIsFinal, ScanIsFinal,
       RejectionIsFinal, UnwrittenIsNowhere, Finished, Active, Terminal,
       ReadyIsThisDump, UnwrittenIsNotApplied, RefusedNotApplied, files,
       plugin, client, pollVars, workVars, history
<1>1. CASE (PollRead \/ PollDelete \/ PollReject \/ PollForce \/ PollEnter)
         /\ UNCHANGED client /\ TempIsNotShared
  BY <1>1 DEF PollRead, PollDelete, PollReject, Status, PollForce, PollEnter
<1>2. CASE (RefreshRead \/ RefreshWrite \/ RefreshMove \/ LoseRequest)
         /\ UNCHANGED client /\ TempIsNotShared
  BY <1>2 DEF RefreshRead, RefreshWrite, RefreshMove, LoseRequest
<1>3. CASE (BeginDump \/ Scan \/ ReplaceDump \/ FailDump \/ InstallIndex
         \/ ReportDump \/ CrashDump) /\ UNCHANGED client /\ TempIsNotShared
  BY <1>3 DEF BeginDump, Status, Goto, Scan, ReplaceDump, FailDump,
         InstallIndex, ReportDump, CrashDump
<1>4. CASE (BeginBoost \/ RefuseEarly \/ CheckBoost \/ RereadBoost
         \/ WriteBoost \/ ReportBoost \/ CrashBoost \/ WorkExit) /\ UNCHANGED
         client /\ TempIsNotShared
  BY <1>4 DEF BeginBoost, Status, Goto, RefuseEarly, CheckBoost, Refuse,
         Mismatch, Conclude, RereadBoost, WriteBoost, ReportBoost, CrashBoost,
         WorkExit
<1>5. CASE (WriteTemp \/ RenameTemp \/ RenameFails) /\ UNCHANGED plugin
         /\ TempIsNotShared
  BY <1>5 DEF WriteTemp, Step, RenameTemp, RenameFails, FailAs, Done, EndsAs,
         NoDump
<1>6. CASE (SeeDumpReady \/ SeeDumpFailed \/ SeeBoostReady \/ SeeBoostFailed
         \/ GiveUp) /\ UNCHANGED plugin /\ TempIsNotShared
  <2>1. CASE SeeDumpReady
    BY <1>6, <2>1 DEF SeeDumpReady, Answered, Step
  <2>2. CASE SeeDumpFailed
    BY <1>6, <2>2 DEF SeeDumpFailed, Answered, Done, NoDump
  <2>3. CASE SeeBoostReady
    BY <1>6, <2>3 DEF SeeBoostReady, Answered
  <2>4. CASE SeeBoostFailed
    BY <1>6, <2>4 DEF SeeBoostFailed, Answered, FailAs, Done, Step, EndsAs,
           NoDump
  <2>5. CASE GiveUp
    BY <1>6, <2>5 DEF GiveUp, Done, Step, NoDump
  <2> QED
    BY <1>6, <2>1, <2>2, <2>3, <2>4, <2>5
<1>7. CASE (CopyDump \/ Recheck \/ Publish) /\ UNCHANGED plugin
         /\ TempIsNotShared
  BY <1>7 DEF CopyDump, Recheck, Done, Step, NoDump, Publish
<1>8. CASE (Reconcile \/ ReconcileFails \/ LatchRecovery \/ LatchFails)
         /\ UNCHANGED plugin /\ TempIsNotShared
  BY <1>8 DEF Reconcile, Done, EndsAs, NoDump, ReconcileFails, Step,
         LatchRecovery, LatchFails
<1>9. CASE (StartLoad \/ StartBoost("single") \/ StartBoost("squad")
         \/ SelectSnapshot \/ AppExit) /\ UNCHANGED plugin /\ TempIsNotShared
  BY <1>9 DEF StartLoad, StartBoost, SelectSnapshot, AppExit, Done, EndsAs,
         NoDump, Boosting
<1>10. CASE (GameProgress \/ PluginRestart) /\ UNCHANGED client
         /\ TempIsNotShared
  BY <1>10 DEF GameProgress, PluginRestart, Status
<1>11. CASE (RequestExpires \/ ForceScan) /\ UNCHANGED <<plugin, client>>
  BY <1>11 DEF RequestExpires, ForceScan
<1>12. CASE UNCHANGED vars
  BY <1>12 DEF vars
<1> HIDE DEF PassedOn, IdsIssued, WorkAgrees, TempIsOwned, UnsentIsNowhere,
       WaitingIsNotTaken, ServedIsTaken, DumpLocations, BoostLocations,
       KindsAgree, KindAgrees, Boosts, CommandsAgree, AnsweredIsFinished,
       StatusIsFinal, ScanIsFinal, RejectionIsFinal, UnwrittenIsNowhere,
       Finished, Active, Terminal, ReadyIsThisDump, UnwrittenIsNotApplied,
       RefusedNotApplied, files, plugin, client, pollVars, workVars, history
<1> QED
  BY <1>1, <1>2, <1>3, <1>4, <1>5, <1>6, <1>7, <1>8, <1>9, <1>10, <1>11, <1>12, NextCases

-----------------------------------------------------------------------------
(* Nothing is anywhere at the start.                                        *)
LEMMA InitHandOff == Init => HandOff
<1> SUFFICES ASSUME Init PROVE HandOff
  OBVIOUS
<1>1. /\ request.id = 0 /\ request.kind = "none"
      /\ temp.id = 0 /\ temp.kind = "none"
      /\ pollSeen.id = 0 /\ pollSeen.kind = "none"
      /\ workReq.id = 0 /\ workReq.kind = "none"
      /\ mine.id = 0 /\ mine.kind = "none"
      /\ status.id = 0 /\ status.state = "idle"
  BY DEF Init, FilesInit, PluginInit, ClientInit, NoId, NoRequest, Status
<1>2. /\ nextId = 1 /\ taken = {} /\ applied = {} /\ Boosts = {}
      /\ pollPc = "idle" /\ workPc = "off" /\ appPc = "idle" /\ busy = FALSE
      /\ \A i \in Ids : outcome[i] = "none"
  BY DEF Init, FilesInit, PluginInit, ClientInit, Boosts
<1>3. PassedOn
  <2>1. 0 < nextId
    BY <1>2
  <2>2. IdsIssued
    BY <1>1, <1>2, <2>1, ZenonT(20) DEF IdsIssued
  <2>3. WorkAgrees
    BY <1>2 DEF WorkAgrees, DumpLocations
  <2>4. TempIsOwned /\ UnsentIsNowhere /\ WaitingIsNotTaken /\ ServedIsTaken
    BY <1>2 DEF TempIsOwned, UnsentIsNowhere, WaitingIsNotTaken, ServedIsTaken
  <2> QED
    BY <2>2, <2>3, <2>4 DEF PassedOn
<1>4. KindsAgree /\ CommandsAgree
  BY <1>1, <1>2 DEF KindsAgree, KindAgrees, CommandsAgree
<1>5. AnsweredIsFinished
  BY <1>1, <1>2 DEF AnsweredIsFinished, StatusIsFinal, ScanIsFinal,
                    RejectionIsFinal, UnwrittenIsNowhere, Terminal
<1>6. ReadyIsThisDump /\ UnwrittenIsNotApplied
  BY <1>1, <1>2 DEF ReadyIsThisDump, UnwrittenIsNotApplied
<1>7. OutcomesHaveCauses /\ CaptureOwnDump /\ RefusedNotApplied
  BY <1>2 DEF OutcomesHaveCauses, CaptureOwnDump, RefusedNotApplied
<1> QED
  BY <1>3, <1>4, <1>5, <1>6, <1>7 DEF HandOff

(* Every step preserves the layers together.                                *)
LEMMA HandOffStep ==
    ASSUME TypeOK, FilesAreReliable, HandOff, [Next]_vars
    PROVE  HandOff'
<1>1. PassedOn'
  BY PassedOnStep DEF HandOff
<1>2. KindsAgree' /\ CommandsAgree' /\ OutcomesHaveCauses'
  BY KindsStep, CausesStep DEF HandOff
<1>3. AnsweredIsFinished'
  BY <1>1, StatusStep, ScanStep, RejectionStep, UnwrittenStep
  DEF HandOff, AnsweredIsFinished
<1>4. ReadyIsThisDump' /\ CaptureOwnDump'
  BY ReadyStep, CaptureStep DEF HandOff
<1>5. UnwrittenIsNotApplied' /\ RefusedNotApplied'
  BY AppliedStep, RefusedStep DEF HandOff
<1> QED
  BY <1>1, <1>2, <1>3, <1>4, <1>5 DEF HandOff

(* A request is in one hand at a time, from the command that makes it to    *)
(* the status that answers it, although FM and the app may stop at any step *)
(* (RequestAcceptance, BridgeWorkGate, wait_for_request_terminal).          *)
THEOREM RequestsAreHandedOff == FilesAreReliable /\ Spec => []HandOff
<1> SUFFICES ASSUME FilesAreReliable PROVE Spec => []HandOff
  OBVIOUS
<1>1. TypeOK /\ HandOff /\ [Next]_vars => HandOff'
  BY HandOffStep
<1> QED
  BY <1>1, InitHandOff, TypeCorrect, PTL DEF Spec

(* A request that was judged is never in request.json again, however many   *)
(* times it was refreshed (RequestAcceptance.TryAccept).                    *)
THEOREM JudgedRequestsAreGone == FilesAreReliable /\ Spec => []TakenIsGone
<1>1. HandOff => TakenIsGone
  BY DEF HandOff, PassedOn, WaitingIsNotTaken, TakenIsGone
<1> QED
  BY <1>1, RequestsAreHandedOff, PTL

(* The snapshot Load Data publishes is the dump of its own request          *)
(* (load_data.rs capture_completed_dump).                                   *)
THEOREM CapturesAreTheirOwn == FilesAreReliable /\ Spec => []CaptureOwnDump
<1>1. HandOff => CaptureOwnDump
  BY DEF HandOff
<1> QED
  BY <1>1, RequestsAreHandedOff, PTL

(* A boost the app reports as refused or unsent never changes FM            *)
(* (service.rs is_known_pre_write_player_boost_failure).                    *)
THEOREM RefusalsAreFinal == FilesAreReliable /\ Spec => []RefusedNotApplied
<1>1. HandOff => RefusedNotApplied
  BY DEF HandOff
<1> QED
  BY <1>1, RequestsAreHandedOff, PTL

(* As long as the app is not closed in the middle of a boost and can store  *)
(* its recovery mark, a boost that may have changed FM is open, in its      *)
(* snapshot, or has its snapshot marked (ADR-0020).                         *)
THEOREM BoostsAreAccountedFor ==
    FilesAreReliable /\ "appExits" \notin Faults /\ "latchFails" \notin Faults /\ Spec
        => []AppliedIsAccounted
<1> SUFFICES ASSUME FilesAreReliable, "appExits" \notin Faults, "latchFails" \notin Faults
             PROVE  Spec => []AppliedIsAccounted
  OBVIOUS
<1>1. TypeOK /\ HandOff => AppliedIsAccounted
  <2> SUFFICES ASSUME TypeOK, HandOff, NEW i \in applied
               PROVE  outcome[i] \in {"open", "reconciled", "latched"}
    BY DEF AppliedIsAccounted
  <2>1. i \in Ids /\ outcome[i] # "none"
    BY DEF HandOff, UnwrittenIsNotApplied, Boosts
  <2>2. outcome[i] \in Outcomes
    BY <2>1 DEF TypeOK, ClientTypeOK
  <2>3. outcome[i] \notin {"rejected", "unwritten"}
    BY DEF HandOff, RefusedNotApplied
  <2>4. outcome[i] \notin {"exited", "unlatched"}
    BY <2>1 DEF HandOff, OutcomesHaveCauses
  <2> QED
    BY <2>1, <2>2, <2>3, <2>4 DEF Outcomes
<1> QED
  BY <1>1, RequestsAreHandedOff, TypeCorrect, PTL

-----------------------------------------------------------------------------
(* The live index of the plugin and the snapshots of the app: one scan is   *)
(* followed from the dump to the index and to the snapshot made of it, and  *)
(* one boost from the snapshot it was prepared from to the two it changes.  *)

(* What a request asks for, rewritten or not.                               *)
LEMMA SameTerms ==
    TypeOK =>
      /\ Refreshed(pollSeen).source = pollSeen.source
      /\ Refreshed(pollSeen).expected = pollSeen.expected
      /\ Expired(request).source = request.source
      /\ Expired(request).expected = request.expected
      /\ \A i, s, a : /\ BoostRequest(i, s, a).source = s
                      /\ BoostRequest(i, s, a).expected = a
<1> SUFFICES ASSUME TypeOK PROVE
      /\ Refreshed(pollSeen).source = pollSeen.source
      /\ Refreshed(pollSeen).expected = pollSeen.expected
      /\ Expired(request).source = request.source
      /\ Expired(request).expected = request.expected
  BY DEF BoostRequest
<1>1. pollSeen \in Requests \cup {NoRequest} /\ request \in Requests \cup {NoRequest}
  BY DEF TypeOK, FilesTypeOK, PluginTypeOK
<1>2. \A r \in Requests \cup {NoRequest} :
         /\ Refreshed(r).source = r.source /\ Refreshed(r).expected = r.expected
         /\ Expired(r).source = r.source /\ Expired(r).expected = r.expected
  BY DEF Requests, DumpRequests, BoostRequests, NoRequest, Refreshed, Expired
<1> QED
  BY <1>1, <1>2

(* The numbers the order of the scans is about.                             *)
LEMMA StoreFacts ==
    TypeOK =>
      /\ Snapshots \subseteq Nat \ {0}
      /\ index.source \in Nat /\ dump.by \in Nat /\ copy.by \in Nat
      /\ NoIndex.source = 0 /\ NoDump.by = 0
      /\ \A a : /\ [index EXCEPT !.ability = a].source = index.source
               /\ [index EXCEPT !.ability = a].ability = a
<1> SUFFICES ASSUME TypeOK PROVE
      /\ Snapshots \subseteq Nat \ {0}
      /\ index.source \in Nat /\ dump.by \in Nat /\ copy.by \in Nat
      /\ \A a : /\ [index EXCEPT !.ability = a].source = index.source
               /\ [index EXCEPT !.ability = a].ability = a
  BY DEF NoIndex, NoDump, NoId
<1>1. Ids \subseteq Nat \ {0} /\ NoId \in Nat
  BY HandFacts DEF NoId
<1>2. Snapshots \subseteq Ids
  BY DEF Snapshots
<1>3. index.source \in Ids \cup {NoId} /\ dump.by \in Ids \cup {NoId}
      /\ copy.by \in Ids \cup {NoId}
  BY DEF TypeOK, FilesTypeOK, PluginTypeOK, ClientTypeOK, Indexes, Dumps
<1>4. \A a : /\ [index EXCEPT !.ability = a].source = index.source
             /\ [index EXCEPT !.ability = a].ability = a
  BY DEF TypeOK, PluginTypeOK, Indexes
<1> QED
  BY <1>1, <1>2, <1>3, <1>4

(* A write leaves no index, or the old one with the ability it wrote.       *)
LEMMA WriteFacts ==
    TypeOK /\ WriteBoost =>
      /\ workPc = "write" /\ workPc' = "reportBoost"
      /\ \/ index' = NoIndex /\ index'.source = 0
         \/ /\ index'.source = index.source
            /\ index'.ability = Target(workReq.expected)
            /\ applied' = applied \cup {workReq.id}
<1> SUFFICES ASSUME TypeOK, WriteBoost PROVE
      /\ workPc = "write" /\ workPc' = "reportBoost"
      /\ \/ index' = NoIndex /\ index'.source = 0
         \/ /\ index'.source = index.source
            /\ index'.ability = Target(workReq.expected)
            /\ applied' = applied \cup {workReq.id}
  OBVIOUS
<1>1. workPc = "write" /\ workPc' = "reportBoost"
  BY DEF WriteBoost, Refuse, Conclude, Goto
<1>2. \/ index' = NoIndex
      \/ /\ AdvanceIndex(Target(workReq.expected))
         /\ applied' = applied \cup {workReq.id}
  BY DEF WriteBoost, Refuse
<1>3. AdvanceIndex(Target(workReq.expected)) =>
         /\ index'.source = index.source
         /\ index'.ability = Target(workReq.expected)
  BY DEF AdvanceIndex, TypeOK, PluginTypeOK, Indexes
<1>4. NoIndex.source = 0
  BY DEF NoIndex, NoId
<1> QED
  BY <1>1, <1>2, <1>3, <1>4

(* A request nobody will act on again stays one.                            *)
LEMMA FinishedStays ==
    ASSUME TypeOK, PassedOn, NEW i \in Ids, Finished(i), [Next]_vars
    PROVE  Finished(i)'
<1> USE HandFacts, Constructed DEF PassedOn, IdsIssued, WorkAgrees,
       UnsentIsNowhere, WaitingIsNotTaken, ServedIsTaken, DumpLocations,
       BoostLocations, Finished, Active, files, plugin, client, pollVars,
       workVars, history
<1>1. CASE (PollRead \/ PollDelete \/ PollReject \/ PollForce \/ PollEnter) /\
         UNCHANGED client /\ TempIsNotShared
  BY <1>1 DEF PollRead, PollDelete, PollReject, Status, PollForce, PollEnter
<1>2. CASE (RefreshRead \/ RefreshWrite \/ RefreshMove \/ LoseRequest) /\
         UNCHANGED client /\ TempIsNotShared
  BY <1>2 DEF RefreshRead, RefreshWrite, RefreshMove, LoseRequest
<1>3. CASE (BeginDump \/ Scan \/ ReplaceDump \/ FailDump \/ InstallIndex \/
         ReportDump \/ CrashDump) /\ UNCHANGED client /\ TempIsNotShared
  BY <1>3 DEF BeginDump, Status, Goto, Scan, ReplaceDump, FailDump,
         InstallIndex, NoIndex, ReportDump, CrashDump
<1>4. CASE (BeginBoost \/ RefuseEarly \/ CheckBoost \/ RereadBoost \/
         WriteBoost \/ ReportBoost \/ CrashBoost \/ WorkExit) /\ UNCHANGED
         client /\ TempIsNotShared
  BY <1>4 DEF BeginBoost, Status, Goto, RefuseEarly, CheckBoost, IndexServes,
         Refuse, Mismatch, Conclude, NoIndex, RereadBoost, WriteBoost,
         AdvanceIndex, ReportBoost, CrashBoost, WorkExit
<1>5. CASE (WriteTemp \/ RenameTemp \/ RenameFails) /\ UNCHANGED plugin /\
         TempIsNotShared
  BY <1>5 DEF WriteTemp, Step, RenameTemp, RenameFails, FailAs, Done, EndsAs,
         NoDump
<1>6. CASE (SeeDumpReady \/ SeeDumpFailed \/ SeeBoostReady \/ SeeBoostFailed
         \/ GiveUp) /\ UNCHANGED plugin /\ TempIsNotShared
  BY <1>6 DEF SeeDumpReady, Answered, Step, SeeDumpFailed, Done, NoDump,
         SeeBoostReady, SeeBoostFailed, FailAs, EndsAs, GiveUp
<1>7. CASE (CopyDump \/ Recheck \/ Publish) /\ UNCHANGED plugin /\
         TempIsNotShared
  BY <1>7 DEF CopyDump, Recheck, Done, Step, NoDump, Publish
<1>8. CASE (Reconcile \/ ReconcileFails \/ LatchRecovery \/ LatchFails) /\
         UNCHANGED plugin /\ TempIsNotShared
  BY <1>8 DEF Reconcile, Done, EndsAs, NoDump, ReconcileFails, Step,
         LatchRecovery, LatchFails
<1>9. CASE (StartLoad \/ StartBoost("single") \/ StartBoost("squad") \/
         SelectSnapshot \/ AppExit) /\ UNCHANGED plugin /\ TempIsNotShared
  BY <1>9 DEF StartLoad, StartBoost, SelectSnapshot, AppExit, Done, EndsAs,
         NoDump, Boosting
<1>10. CASE (GameProgress \/ PluginRestart) /\ UNCHANGED client /\
         TempIsNotShared
  BY <1>10 DEF GameProgress, PluginRestart, Status, NoIndex
<1>11. CASE (RequestExpires \/ ForceScan) /\ UNCHANGED <<plugin, client>>
  BY <1>11 DEF RequestExpires, ForceScan
<1>12. CASE UNCHANGED vars
  BY <1>12 DEF vars
<1> HIDE DEF PassedOn, IdsIssued, WorkAgrees, UnsentIsNowhere,
       WaitingIsNotTaken, ServedIsTaken, DumpLocations, BoostLocations,
       Finished, Active, files, plugin, client, pollVars, workVars, history
<1> QED
  BY <1>1, <1>2, <1>3, <1>4, <1>5, <1>6, <1>7, <1>8, <1>9, <1>10, <1>11, <1>12, NextCases

(* Only Publish adds a snapshot, and only Reconcile changes one.            *)
LEMMA StoreStep ==
    ASSUME TypeOK, [Next]_vars
    PROVE  /\ Publish \/ Reconcile \/ UNCHANGED db
           /\ latched \subseteq latched'
<1>1. Publish \/ Reconcile \/ UNCHANGED db
  BY NextCases DEF WriteTemp, RenameTemp, RenameFails, SeeDumpReady,
         SeeDumpFailed, SeeBoostReady, SeeBoostFailed, GiveUp, CopyDump,
         Recheck, ReconcileFails, LatchRecovery, LatchFails, StartLoad,
         StartBoost, SelectSnapshot, AppExit, client, vars
<1>2. LatchRecovery \/ UNCHANGED latched
  BY NextCases DEF WriteTemp, RenameTemp, RenameFails, SeeDumpReady,
         SeeDumpFailed, SeeBoostReady, SeeBoostFailed, GiveUp, CopyDump,
         Recheck, Publish, Reconcile, ReconcileFails, LatchFails, StartLoad,
         StartBoost, SelectSnapshot, AppExit, client, vars
<1> QED
  BY <1>1, <1>2 DEF LatchRecovery

(* A boost the app has lost sight of stays one.                             *)
LEMMA DisownedStay ==
    ASSUME TypeOK, KindsAgree, CommandsAgree, [Next]_vars
    PROVE  Disowned \subseteq Disowned'
<1> USE KindFacts DEF KindsAgree, Boosts, CommandsAgree, Disowned, files,
       plugin, client, pollVars, workVars, history
<1>1. CASE (PollRead \/ PollDelete \/ PollReject \/ PollForce \/ PollEnter) /\
         UNCHANGED client /\ TempIsNotShared
  BY <1>1 DEF PollRead, PollDelete, PollReject, Status, PollForce, PollEnter
<1>2. CASE (RefreshRead \/ RefreshWrite \/ RefreshMove \/ LoseRequest) /\
         UNCHANGED client /\ TempIsNotShared
  BY <1>2 DEF RefreshRead, RefreshWrite, RefreshMove, LoseRequest
<1>3. CASE (BeginDump \/ Scan \/ ReplaceDump \/ FailDump \/ InstallIndex \/
         ReportDump \/ CrashDump) /\ UNCHANGED client /\ TempIsNotShared
  BY <1>3 DEF BeginDump, Status, Goto, Scan, ReplaceDump, FailDump,
         InstallIndex, NoIndex, ReportDump, CrashDump
<1>4. CASE (BeginBoost \/ RefuseEarly \/ CheckBoost \/ RereadBoost \/
         WriteBoost \/ ReportBoost \/ CrashBoost \/ WorkExit) /\ UNCHANGED
         client /\ TempIsNotShared
  BY <1>4 DEF BeginBoost, Status, Goto, RefuseEarly, CheckBoost, IndexServes,
         Refuse, Mismatch, Conclude, NoIndex, RereadBoost, WriteBoost,
         AdvanceIndex, ReportBoost, CrashBoost, WorkExit
<1>5. CASE (WriteTemp \/ RenameTemp \/ RenameFails) /\ UNCHANGED plugin /\
         TempIsNotShared
  BY <1>5 DEF WriteTemp, Step, RenameTemp, RenameFails, FailAs, Done, EndsAs,
         NoDump
<1>6. CASE (SeeDumpReady \/ SeeDumpFailed \/ SeeBoostReady \/ SeeBoostFailed
         \/ GiveUp) /\ UNCHANGED plugin /\ TempIsNotShared
  BY <1>6 DEF SeeDumpReady, Answered, Step, SeeDumpFailed, Done, NoDump,
         SeeBoostReady, SeeBoostFailed, FailAs, EndsAs, GiveUp
<1>7. CASE (CopyDump \/ Recheck \/ Publish) /\ UNCHANGED plugin /\
         TempIsNotShared
  BY <1>7 DEF CopyDump, Recheck, Done, Step, NoDump, Publish
<1>8. CASE (Reconcile \/ ReconcileFails \/ LatchRecovery \/ LatchFails) /\
         UNCHANGED plugin /\ TempIsNotShared
  BY <1>8 DEF Reconcile, Done, EndsAs, NoDump, ReconcileFails, Step,
         LatchRecovery, LatchFails
<1>9. CASE (StartLoad \/ StartBoost("single") \/ StartBoost("squad") \/
         SelectSnapshot \/ AppExit) /\ UNCHANGED plugin /\ TempIsNotShared
  BY <1>9 DEF StartLoad, StartBoost, SelectSnapshot, AppExit, Done, EndsAs,
         NoDump, Boosting
<1>10. CASE (GameProgress \/ PluginRestart) /\ UNCHANGED client /\
         TempIsNotShared
  BY <1>10 DEF GameProgress, PluginRestart, Status, NoIndex
<1>11. CASE (RequestExpires \/ ForceScan) /\ UNCHANGED <<plugin, client>>
  BY <1>11 DEF RequestExpires, ForceScan
<1>12. CASE UNCHANGED vars
  BY <1>12 DEF vars
<1> HIDE DEF KindsAgree, Boosts, CommandsAgree, Disowned, files, plugin,
       client, pollVars, workVars, history
<1> QED
  BY <1>1, <1>2, <1>3, <1>4, <1>5, <1>6, <1>7, <1>8, <1>9, <1>10, <1>11, <1>12, NextCases

(* A snapshot is never taken away.                                          *)
LEMMA SnapshotsStay ==
    ASSUME TypeOK, CommandsAgree, LoadsAreNew, [Next]_vars
    PROVE  /\ Snapshots \subseteq Snapshots'
           /\ Snapshots' # Snapshots => Publish
           /\ Snapshots' \subseteq Snapshots \cup {mine.id}
<1>1. db \in [Ids -> Abilities \cup {Unknown}]
  BY DEF TypeOK, ClientTypeOK
<1>2. CASE Publish
  <2>1. mine.id \notin Snapshots
    BY <1>2, HandFacts, StoreFacts DEF CommandsAgree, LoadsAreNew, Publish
  <2>2. \A i \in Ids : i # mine.id => db'[i] = db[i]
    BY <1>1, <1>2 DEF Publish
  <2> QED
    BY <1>2, <2>1, <2>2 DEF Snapshots
<1>3. CASE Reconcile
  <2>1. /\ mine.source \in Ids /\ db[mine.source] # Unknown
        /\ verified # Unknown /\ db' = [db EXCEPT ![mine.source] = verified]
    <3>1. appMode \in {"single", "squad"}
      BY <1>3, KindFacts DEF Reconcile
    <3>2. mine.source \in Ids /\ mine.expected \in Abilities
      BY <3>1, RequestFacts DEF TypeOK, ClientTypeOK
    <3>3. \A a \in Abilities : a # Unknown
      BY BridgeAssumption DEF Abilities, Unknown
    <3> QED
      BY <1>3, <3>2, <3>3, TargetIsAbility DEF Reconcile
  <2>2. \A i \in Ids : db'[i] = IF i = mine.source THEN verified ELSE db[i]
    BY <1>1, <2>1
  <2> QED
    BY <2>1, <2>2 DEF Snapshots
<1>4. CASE UNCHANGED db
  BY <1>4 DEF Snapshots
<1> QED
  BY <1>2, <1>3, <1>4, StoreStep

(* A boost keeps its terms from the command to the work thread.             *)
LEMMA TermsStep ==
    ASSUME TypeOK, PassedOn, KindsAgree, CommandsAgree, BoostsKeepTheirTerms,
           Snapshots \subseteq Snapshots', latched \subseteq latched',
           [Next]_vars
    PROVE  BoostsKeepTheirTerms'
<1> USE HandFacts, KindFacts, SameRequest, SameTerms, Constructed DEF
       PassedOn, IdsIssued, WorkAgrees, UnsentIsNowhere, WaitingIsNotTaken,
       ServedIsTaken, TempIsOwned, KindsAgree, KindAgrees, Boosts,
       CommandsAgree, BoostsKeepTheirTerms, TermsAreKept, Boosting, files,
       plugin, client, pollVars, workVars, history
<1>1. CASE (PollRead \/ PollDelete \/ PollReject \/ PollForce \/ PollEnter) /\
         UNCHANGED client /\ TempIsNotShared
  BY <1>1 DEF PollRead, PollDelete, PollReject, Status, PollForce, PollEnter
<1>2. CASE (RefreshRead \/ RefreshWrite \/ RefreshMove \/ LoseRequest) /\
         UNCHANGED client /\ TempIsNotShared
  BY <1>2 DEF RefreshRead, RefreshWrite, RefreshMove, LoseRequest
<1>3. CASE (BeginDump \/ Scan \/ ReplaceDump \/ FailDump \/ InstallIndex \/
         ReportDump \/ CrashDump) /\ UNCHANGED client /\ TempIsNotShared
  BY <1>3 DEF BeginDump, Status, Goto, Scan, ReplaceDump, FailDump,
         InstallIndex, NoIndex, ReportDump, CrashDump
<1>4. CASE (BeginBoost \/ RefuseEarly \/ CheckBoost \/ RereadBoost \/
         WriteBoost \/ ReportBoost \/ CrashBoost \/ WorkExit) /\ UNCHANGED
         client /\ TempIsNotShared
  BY <1>4 DEF BeginBoost, Status, Goto, RefuseEarly, CheckBoost, IndexServes,
         Refuse, Mismatch, Conclude, NoIndex, RereadBoost, WriteBoost,
         AdvanceIndex, ReportBoost, CrashBoost, WorkExit
<1>5. CASE (WriteTemp \/ RenameTemp \/ RenameFails) /\ UNCHANGED plugin /\
         TempIsNotShared
  BY <1>5 DEF WriteTemp, Step, RenameTemp, RenameFails, FailAs, Done, EndsAs,
         NoDump
<1>6. CASE (SeeDumpReady \/ SeeDumpFailed \/ SeeBoostReady \/ SeeBoostFailed
         \/ GiveUp) /\ UNCHANGED plugin /\ TempIsNotShared
  BY <1>6 DEF SeeDumpReady, Answered, Step, SeeDumpFailed, Done, NoDump,
         SeeBoostReady, SeeBoostFailed, FailAs, EndsAs, GiveUp
<1>7. CASE (CopyDump \/ Recheck \/ Publish) /\ UNCHANGED plugin /\
         TempIsNotShared
  BY <1>7 DEF CopyDump, Recheck, Done, Step, NoDump, Publish
<1>8. CASE (Reconcile \/ ReconcileFails \/ LatchRecovery \/ LatchFails) /\
         UNCHANGED plugin /\ TempIsNotShared
  BY <1>8 DEF Reconcile, Done, EndsAs, NoDump, ReconcileFails, Step,
         LatchRecovery, LatchFails
<1>9. CASE (StartLoad \/ StartBoost("single") \/ StartBoost("squad") \/
         SelectSnapshot \/ AppExit) /\ UNCHANGED plugin /\ TempIsNotShared
  BY <1>9 DEF StartLoad, StartBoost, SelectSnapshot, AppExit, Done, EndsAs,
         NoDump
<1>10. CASE (GameProgress \/ PluginRestart) /\ UNCHANGED client /\
         TempIsNotShared
  BY <1>10 DEF GameProgress, PluginRestart, Status, NoIndex
<1>11. CASE (RequestExpires \/ ForceScan) /\ UNCHANGED <<plugin, client>>
  BY <1>11 DEF RequestExpires, ForceScan
<1>12. CASE UNCHANGED vars
  BY <1>12 DEF vars
<1> HIDE DEF PassedOn, IdsIssued, WorkAgrees, UnsentIsNowhere,
       WaitingIsNotTaken, ServedIsTaken, TempIsOwned, KindsAgree, KindAgrees,
       Boosts, CommandsAgree, BoostsKeepTheirTerms, TermsAreKept, Boosting,
       files, plugin, client, pollVars, workVars, history
<1> QED
  BY <1>1, <1>2, <1>3, <1>4, <1>5, <1>6, <1>7, <1>8, <1>9, <1>10, <1>11, <1>12, NextCases

(* An open boost is in the hands of its command.                            *)
LEMMA OpenStep ==
    ASSUME TypeOK, PassedOn, KindsAgree, CommandsAgree, OpenIsMine,
           [Next]_vars
    PROVE  OpenIsMine'
<1> USE HandFacts, KindFacts, Constructed DEF IdsIssued, KindsAgree,
       KindAgrees, Boosts, CommandsAgree, OpenIsMine, Boosting, files, plugin,
       client, pollVars, workVars, history
<1>1. CASE (PollRead \/ PollDelete \/ PollReject \/ PollForce \/ PollEnter) /\
         UNCHANGED client /\ TempIsNotShared
  BY <1>1 DEF PollRead, PollDelete, PollReject, Status, PollForce, PollEnter
<1>2. CASE (RefreshRead \/ RefreshWrite \/ RefreshMove \/ LoseRequest) /\
         UNCHANGED client /\ TempIsNotShared
  BY <1>2 DEF RefreshRead, RefreshWrite, RefreshMove, LoseRequest
<1>3. CASE (BeginDump \/ Scan \/ ReplaceDump \/ FailDump \/ InstallIndex \/
         ReportDump \/ CrashDump) /\ UNCHANGED client /\ TempIsNotShared
  BY <1>3 DEF BeginDump, Status, Goto, Scan, ReplaceDump, FailDump,
         InstallIndex, NoIndex, ReportDump, CrashDump
<1>4. CASE (BeginBoost \/ RefuseEarly \/ CheckBoost \/ RereadBoost \/
         WriteBoost \/ ReportBoost \/ CrashBoost \/ WorkExit) /\ UNCHANGED
         client /\ TempIsNotShared
  BY <1>4 DEF BeginBoost, Status, Goto, RefuseEarly, CheckBoost, IndexServes,
         Refuse, Mismatch, Conclude, NoIndex, RereadBoost, WriteBoost,
         AdvanceIndex, ReportBoost, CrashBoost, WorkExit
<1>5. CASE (WriteTemp \/ RenameTemp \/ RenameFails) /\ UNCHANGED plugin /\
         TempIsNotShared
  BY <1>5 DEF WriteTemp, Step, RenameTemp, RenameFails, FailAs, Done, EndsAs,
         NoDump
<1>6. CASE (SeeDumpReady \/ SeeDumpFailed \/ SeeBoostReady \/ SeeBoostFailed
         \/ GiveUp) /\ UNCHANGED plugin /\ TempIsNotShared
  BY <1>6 DEF SeeDumpReady, Answered, Step, SeeDumpFailed, Done, NoDump,
         SeeBoostReady, SeeBoostFailed, FailAs, EndsAs, GiveUp
<1>7. CASE (CopyDump \/ Recheck \/ Publish) /\ UNCHANGED plugin /\
         TempIsNotShared
  BY <1>7 DEF CopyDump, Recheck, Done, Step, NoDump, Publish
<1>8. CASE (Reconcile \/ ReconcileFails \/ LatchRecovery \/ LatchFails) /\
         UNCHANGED plugin /\ TempIsNotShared
  BY <1>8 DEF Reconcile, Done, EndsAs, NoDump, ReconcileFails, Step,
         LatchRecovery, LatchFails
<1>9. CASE (StartLoad \/ StartBoost("single") \/ StartBoost("squad") \/
         SelectSnapshot \/ AppExit) /\ UNCHANGED plugin /\ TempIsNotShared
  BY <1>9 DEF StartLoad, StartBoost, SelectSnapshot, AppExit, Done, EndsAs,
         NoDump
<1>10. CASE (GameProgress \/ PluginRestart) /\ UNCHANGED client /\
         TempIsNotShared
  BY <1>10 DEF GameProgress, PluginRestart, Status, NoIndex
<1>11. CASE (RequestExpires \/ ForceScan) /\ UNCHANGED <<plugin, client>>
  BY <1>11 DEF RequestExpires, ForceScan
<1>12. CASE UNCHANGED vars
  BY <1>12 DEF vars
<1> HIDE DEF IdsIssued, KindsAgree, KindAgrees, Boosts, CommandsAgree,
       OpenIsMine, Boosting, files, plugin, client, pollVars, workVars,
       history
<1> QED
  BY <1>1, <1>2, <1>3, <1>4, <1>5, <1>6, <1>7, <1>8, <1>9, <1>10, <1>11, <1>12, NextCases

(* A boost that is called verified was written.                             *)
LEMMA VerifiedStep ==
    ASSUME TypeOK, PassedOn, KindsAgree, CommandsAgree, VerifiedIsApplied,
           [Next]_vars
    PROVE  VerifiedIsApplied'
<1> USE HandFacts, KindFacts, Constructed DEF IdsIssued, PassedOn, WorkAgrees,
       DumpLocations, BoostLocations, KindsAgree, KindAgrees, Boosts,
       CommandsAgree, VerifiedIsApplied, Terminal, files, plugin, client,
       pollVars, workVars, history
<1>1. CASE (PollRead \/ PollDelete \/ PollReject \/ PollForce \/ PollEnter) /\
         UNCHANGED client /\ TempIsNotShared
  BY <1>1 DEF PollRead, PollDelete, PollReject, Status, PollForce, PollEnter
<1>2. CASE (RefreshRead \/ RefreshWrite \/ RefreshMove \/ LoseRequest) /\
         UNCHANGED client /\ TempIsNotShared
  BY <1>2 DEF RefreshRead, RefreshWrite, RefreshMove, LoseRequest
<1>3. CASE (BeginDump \/ Scan \/ ReplaceDump \/ FailDump \/ InstallIndex \/
         ReportDump \/ CrashDump) /\ UNCHANGED client /\ TempIsNotShared
  BY <1>3 DEF BeginDump, Status, Goto, Scan, ReplaceDump, FailDump,
         InstallIndex, NoIndex, ReportDump, CrashDump
<1>4. CASE (BeginBoost \/ RefuseEarly \/ CheckBoost \/ RereadBoost \/
         WriteBoost \/ ReportBoost \/ CrashBoost \/ WorkExit) /\ UNCHANGED
         client /\ TempIsNotShared
  BY <1>4 DEF BeginBoost, Status, Goto, RefuseEarly, CheckBoost, IndexServes,
         Refuse, Mismatch, Conclude, NoIndex, RereadBoost, WriteBoost,
         AdvanceIndex, ReportBoost, CrashBoost, WorkExit
<1>5. CASE (WriteTemp \/ RenameTemp \/ RenameFails) /\ UNCHANGED plugin /\
         TempIsNotShared
  BY <1>5 DEF WriteTemp, Step, RenameTemp, RenameFails, FailAs, Done, EndsAs,
         NoDump
<1>6. CASE (SeeDumpReady \/ SeeDumpFailed \/ SeeBoostReady \/ SeeBoostFailed
         \/ GiveUp) /\ UNCHANGED plugin /\ TempIsNotShared
  BY <1>6 DEF SeeDumpReady, Answered, Step, SeeDumpFailed, Done, NoDump,
         SeeBoostReady, SeeBoostFailed, FailAs, EndsAs, GiveUp
<1>7. CASE (CopyDump \/ Recheck \/ Publish) /\ UNCHANGED plugin /\
         TempIsNotShared
  BY <1>7 DEF CopyDump, Recheck, Done, Step, NoDump, Publish
<1>8. CASE (Reconcile \/ ReconcileFails \/ LatchRecovery \/ LatchFails) /\
         UNCHANGED plugin /\ TempIsNotShared
  BY <1>8 DEF Reconcile, Done, EndsAs, NoDump, ReconcileFails, Step,
         LatchRecovery, LatchFails
<1>9. CASE (StartLoad \/ StartBoost("single") \/ StartBoost("squad") \/
         SelectSnapshot \/ AppExit) /\ UNCHANGED plugin /\ TempIsNotShared
  BY <1>9 DEF StartLoad, StartBoost, SelectSnapshot, AppExit, Done, EndsAs,
         NoDump, Boosting
<1>10. CASE (GameProgress \/ PluginRestart) /\ UNCHANGED client /\
         TempIsNotShared
  BY <1>10 DEF GameProgress, PluginRestart, Status, NoIndex
<1>11. CASE (RequestExpires \/ ForceScan) /\ UNCHANGED <<plugin, client>>
  BY <1>11 DEF RequestExpires, ForceScan
<1>12. CASE UNCHANGED vars
  BY <1>12 DEF vars
<1> HIDE DEF IdsIssued, PassedOn, WorkAgrees, DumpLocations, BoostLocations,
       KindsAgree, KindAgrees, Boosts, CommandsAgree, VerifiedIsApplied,
       Terminal, files, plugin, client, pollVars, workVars, history
<1> QED
  BY <1>1, <1>2, <1>3, <1>4, <1>5, <1>6, <1>7, <1>8, <1>9, <1>10, <1>11, <1>12, NextCases

(* A reconciled boost is over.                                              *)
LEMMA ReconciledStep ==
    ASSUME TypeOK, CommandsAgree, AnsweredIsFinished, ReconciledIsFinal, \A i
           \in Ids : Finished(i) => Finished(i)', [Next]_vars
    PROVE  ReconciledIsFinal'
<1> USE KindFacts DEF AnsweredIsFinished, StatusIsFinal, Terminal,
       CommandsAgree, ReconciledIsFinal, files, plugin, client, pollVars,
       workVars, history
<1>1. CASE (PollRead \/ PollDelete \/ PollReject \/ PollForce \/ PollEnter) /\
         UNCHANGED client /\ TempIsNotShared
  BY <1>1 DEF PollRead, PollDelete, PollReject, Status, PollForce, PollEnter
<1>2. CASE (RefreshRead \/ RefreshWrite \/ RefreshMove \/ LoseRequest) /\
         UNCHANGED client /\ TempIsNotShared
  BY <1>2 DEF RefreshRead, RefreshWrite, RefreshMove, LoseRequest
<1>3. CASE (BeginDump \/ Scan \/ ReplaceDump \/ FailDump \/ InstallIndex \/
         ReportDump \/ CrashDump) /\ UNCHANGED client /\ TempIsNotShared
  BY <1>3 DEF BeginDump, Status, Goto, Scan, ReplaceDump, FailDump,
         InstallIndex, NoIndex, ReportDump, CrashDump
<1>4. CASE (BeginBoost \/ RefuseEarly \/ CheckBoost \/ RereadBoost \/
         WriteBoost \/ ReportBoost \/ CrashBoost \/ WorkExit) /\ UNCHANGED
         client /\ TempIsNotShared
  BY <1>4 DEF BeginBoost, Status, Goto, RefuseEarly, CheckBoost, IndexServes,
         Refuse, Mismatch, Conclude, NoIndex, RereadBoost, WriteBoost,
         AdvanceIndex, ReportBoost, CrashBoost, WorkExit
<1>5. CASE (WriteTemp \/ RenameTemp \/ RenameFails) /\ UNCHANGED plugin /\
         TempIsNotShared
  BY <1>5 DEF WriteTemp, Step, RenameTemp, RenameFails, FailAs, Done, EndsAs,
         NoDump
<1>6. CASE (SeeDumpReady \/ SeeDumpFailed \/ SeeBoostReady \/ SeeBoostFailed
         \/ GiveUp) /\ UNCHANGED plugin /\ TempIsNotShared
  BY <1>6 DEF SeeDumpReady, Answered, Step, SeeDumpFailed, Done, NoDump,
         SeeBoostReady, SeeBoostFailed, FailAs, EndsAs, GiveUp
<1>7. CASE (CopyDump \/ Recheck \/ Publish) /\ UNCHANGED plugin /\
         TempIsNotShared
  BY <1>7 DEF CopyDump, Recheck, Done, Step, NoDump, Publish
<1>8. CASE (Reconcile \/ ReconcileFails \/ LatchRecovery \/ LatchFails) /\
         UNCHANGED plugin /\ TempIsNotShared
  BY <1>8 DEF Reconcile, Done, EndsAs, NoDump, ReconcileFails, Step,
         LatchRecovery, LatchFails
<1>9. CASE (StartLoad \/ StartBoost("single") \/ StartBoost("squad") \/
         SelectSnapshot \/ AppExit) /\ UNCHANGED plugin /\ TempIsNotShared
  BY <1>9 DEF StartLoad, StartBoost, SelectSnapshot, AppExit, Done, EndsAs,
         NoDump, Boosting
<1>10. CASE (GameProgress \/ PluginRestart) /\ UNCHANGED client /\
         TempIsNotShared
  BY <1>10 DEF GameProgress, PluginRestart, Status, NoIndex
<1>11. CASE (RequestExpires \/ ForceScan) /\ UNCHANGED <<plugin, client>>
  BY <1>11 DEF RequestExpires, ForceScan
<1>12. CASE UNCHANGED vars
  BY <1>12 DEF vars
<1> HIDE DEF AnsweredIsFinished, StatusIsFinal, Terminal, CommandsAgree,
       ReconciledIsFinal, files, plugin, client, pollVars, workVars, history
<1> QED
  BY <1>1, <1>2, <1>3, <1>4, <1>5, <1>6, <1>7, <1>8, <1>9, <1>10, <1>11, <1>12, NextCases

(* A scan is made once.                                                     *)
LEMMA ScannedOnceStep ==
    ASSUME TypeOK, PassedOn, KindsAgree, ScansAreMadeOnce, BoostsAreServed,
           [Next]_vars
    PROVE  ScansAreMadeOnce'
<1> USE HandFacts, KindFacts, StoreFacts, Constructed DEF PassedOn, IdsIssued,
       WorkAgrees, UnsentIsNowhere, WaitingIsNotTaken, ServedIsTaken,
       DumpLocations, BoostLocations, KindsAgree, KindAgrees, Boosts,
       ScansAreMadeOnce, ScannedOnce, NoId, files, plugin, client, pollVars,
       workVars, history
<1>1. CASE (PollRead \/ PollDelete \/ PollReject \/ PollForce \/ PollEnter) /\
         UNCHANGED client /\ TempIsNotShared
  BY <1>1 DEF PollRead, PollDelete, PollReject, Status, PollForce, PollEnter
<1>2. CASE (RefreshRead \/ RefreshWrite \/ RefreshMove \/ LoseRequest) /\
         UNCHANGED client /\ TempIsNotShared
  BY <1>2 DEF RefreshRead, RefreshWrite, RefreshMove, LoseRequest
<1>3. CASE (BeginDump \/ Scan \/ ReplaceDump \/ FailDump \/ InstallIndex \/
         ReportDump \/ CrashDump) /\ UNCHANGED client /\ TempIsNotShared
  <2>1. CASE BeginDump
    BY <1>3, <2>1 DEF BeginDump, Status, Goto
  <2>2. CASE Scan
    BY <1>3, <2>2 DEF Scan, Goto
  <2>3. CASE ReplaceDump
    BY <1>3, <2>3 DEF ReplaceDump, Goto
  <2>4. CASE FailDump
    BY <1>3, <2>4 DEF FailDump, Status, Goto
  <2>5. CASE InstallIndex
    <3>1. /\ index'.source \in {NoId, workReq.id}
          /\ workPc = "install" /\ workPc' = "reportDump"
      BY <1>3, <2>5 DEF InstallIndex, NoIndex, Goto
    <3>2. UNCHANGED <<dump, copy, taken, outcome, pollPc, pollSeen, workReq>>
      BY <1>3, <2>5 DEF InstallIndex
    <3> QED
      BY <3>1, <3>2
  <2>6. CASE ReportDump
    BY <1>3, <2>6 DEF ReportDump, Status, Goto
  <2>7. CASE CrashDump
    BY <1>3, <2>7 DEF CrashDump, Status, Goto
  <2> QED
    BY <1>3, <2>1, <2>2, <2>3, <2>4, <2>5, <2>6, <2>7
<1>4. CASE (BeginBoost \/ RefuseEarly \/ CheckBoost \/ RereadBoost \/
         WriteBoost \/ ReportBoost \/ CrashBoost \/ WorkExit) /\ UNCHANGED
         client /\ TempIsNotShared
  <2>1. CASE BeginBoost
    BY <1>4, <2>1 DEF BeginBoost, Status, Goto
  <2>2. CASE RefuseEarly
    BY <1>4, <2>2 DEF RefuseEarly, Status, Goto
  <2>3. CASE CheckBoost
    BY <1>4, <2>3 DEF CheckBoost, IndexServes, Refuse, Mismatch, Conclude,
           Goto, NoIndex
  <2>4. CASE RereadBoost
    BY <1>4, <2>4 DEF RereadBoost, Refuse, Mismatch, Conclude, Goto, NoIndex
  <2>5. CASE WriteBoost
    <3>1. /\ index'.source \in {NoId, index.source}
          /\ workPc' = "reportBoost" /\ index.source = workReq.source
      BY <1>4, <2>5, WriteFacts DEF BoostsAreServed
    <3>2. UNCHANGED <<dump, copy, taken, outcome, pollPc, pollSeen, workReq>>
      BY <1>4, <2>5 DEF WriteBoost
    <3> QED
      BY <3>1, <3>2
  <2>6. CASE ReportBoost
    BY <1>4, <2>6 DEF ReportBoost, Status, Goto
  <2>7. CASE CrashBoost
    BY <1>4, <2>7 DEF CrashBoost, Status, Goto, NoIndex
  <2>8. CASE WorkExit
    BY <1>4, <2>8 DEF WorkExit, Goto
  <2> QED
    BY <1>4, <2>1, <2>2, <2>3, <2>4, <2>5, <2>6, <2>7, <2>8
<1>5. CASE (WriteTemp \/ RenameTemp \/ RenameFails) /\ UNCHANGED plugin /\
         TempIsNotShared
  BY <1>5 DEF WriteTemp, Step, RenameTemp, RenameFails, FailAs, Done, EndsAs,
         NoDump
<1>6. CASE (SeeDumpReady \/ SeeDumpFailed \/ SeeBoostReady \/ SeeBoostFailed
         \/ GiveUp) /\ UNCHANGED plugin /\ TempIsNotShared
  BY <1>6 DEF SeeDumpReady, Answered, Step, SeeDumpFailed, Done, NoDump,
         SeeBoostReady, SeeBoostFailed, FailAs, EndsAs, GiveUp
<1>7. CASE (CopyDump \/ Recheck \/ Publish) /\ UNCHANGED plugin /\
         TempIsNotShared
  BY <1>7 DEF CopyDump, Recheck, Done, Step, NoDump, Publish
<1>8. CASE (Reconcile \/ ReconcileFails \/ LatchRecovery \/ LatchFails) /\
         UNCHANGED plugin /\ TempIsNotShared
  BY <1>8 DEF Reconcile, Done, EndsAs, NoDump, ReconcileFails, Step,
         LatchRecovery, LatchFails
<1>9. CASE (StartLoad \/ StartBoost("single") \/ StartBoost("squad") \/
         SelectSnapshot \/ AppExit) /\ UNCHANGED plugin /\ TempIsNotShared
  BY <1>9 DEF StartLoad, StartBoost, SelectSnapshot, AppExit, Done, EndsAs,
         NoDump, Boosting
<1>10. CASE (GameProgress \/ PluginRestart) /\ UNCHANGED client /\
         TempIsNotShared
  BY <1>10 DEF GameProgress, PluginRestart, Status, NoIndex
<1>11. CASE (RequestExpires \/ ForceScan) /\ UNCHANGED <<plugin, client>>
  BY <1>11 DEF RequestExpires, ForceScan
<1>12. CASE UNCHANGED vars
  BY <1>12 DEF vars
<1> HIDE DEF PassedOn, IdsIssued, WorkAgrees, UnsentIsNowhere,
       WaitingIsNotTaken, ServedIsTaken, DumpLocations, BoostLocations,
       KindsAgree, KindAgrees, Boosts, ScansAreMadeOnce, ScannedOnce, NoId,
       files, plugin, client, pollVars, workVars, history
<1> QED
  BY <1>1, <1>2, <1>3, <1>4, <1>5, <1>6, <1>7, <1>8, <1>9, <1>10, <1>11, <1>12, NextCases

(* What is published is over.                                               *)
LEMMA PublishedStep ==
    ASSUME TypeOK, KindsAgree, KindsAgree', CommandsAgree, AnsweredIsFinished,
           SnapshotsAreFinished, \A i \in Ids : Finished(i) => Finished(i)',
           \A i \in Ids \ Boosts : i < nextId => i \notin Boosts',
           IdsIssued,
           Snapshots' # Snapshots => Publish,
           Snapshots' \subseteq Snapshots \cup {mine.id}
    PROVE  SnapshotsAreFinished'
<1>1. \A s \in Snapshots : s \in Ids /\ s < nextId
  BY DEF SnapshotsAreFinished, Finished, IdsIssued, Snapshots
<1>2. ASSUME NEW s \in Snapshots PROVE Finished(s)' /\ s \notin Boosts'
  BY <1>1, <1>2 DEF SnapshotsAreFinished
<1>3. ASSUME Publish, NEW m, m = mine.id PROVE Finished(m)' /\ m \notin Boosts'
  <2>1. appPc = "publish" /\ mine.id \in Ids /\ mine.kind = "dump"
    BY <1>3, KindFacts DEF Publish, CommandsAgree
  <2>2. Finished(mine.id) /\ mine.id \notin Boosts /\ mine.id < nextId
    BY <2>1 DEF AnsweredIsFinished, ScanIsFinal, KindsAgree, KindAgrees, IdsIssued
  <2> QED
    BY <1>3, <2>1, <2>2
<1>4. PICK m : m = mine.id
  OBVIOUS
<1>5. \A s \in Snapshots' : s \in Snapshots \/ (Publish /\ s = m)
  BY <1>4
<1>6. \A s \in Snapshots' : Finished(s)' /\ s \notin Boosts'
  BY <1>2, <1>3, <1>4, <1>5
<1> QED
  BY <1>6 DEF SnapshotsAreFinished

(* An id that names no boost will not do so later.                          *)
LEMMA BoostsStep ==
    ASSUME TypeOK, KindsAgree, CommandsAgree, [Next]_vars
    PROVE  \A i \in Ids \ Boosts : i < nextId => i \notin Boosts'
<1> USE KindFacts DEF KindsAgree, Boosts, CommandsAgree, files, plugin,
       client, pollVars, workVars, history
<1>1. CASE (PollRead \/ PollDelete \/ PollReject \/ PollForce \/ PollEnter) /\
         UNCHANGED client /\ TempIsNotShared
  BY <1>1 DEF PollRead, PollDelete, PollReject, Status, PollForce, PollEnter
<1>2. CASE (RefreshRead \/ RefreshWrite \/ RefreshMove \/ LoseRequest) /\
         UNCHANGED client /\ TempIsNotShared
  BY <1>2 DEF RefreshRead, RefreshWrite, RefreshMove, LoseRequest
<1>3. CASE (BeginDump \/ Scan \/ ReplaceDump \/ FailDump \/ InstallIndex \/
         ReportDump \/ CrashDump) /\ UNCHANGED client /\ TempIsNotShared
  BY <1>3 DEF BeginDump, Status, Goto, Scan, ReplaceDump, FailDump,
         InstallIndex, NoIndex, ReportDump, CrashDump
<1>4. CASE (BeginBoost \/ RefuseEarly \/ CheckBoost \/ RereadBoost \/
         WriteBoost \/ ReportBoost \/ CrashBoost \/ WorkExit) /\ UNCHANGED
         client /\ TempIsNotShared
  BY <1>4 DEF BeginBoost, Status, Goto, RefuseEarly, CheckBoost, IndexServes,
         Refuse, Mismatch, Conclude, NoIndex, RereadBoost, WriteBoost,
         AdvanceIndex, ReportBoost, CrashBoost, WorkExit
<1>5. CASE (WriteTemp \/ RenameTemp \/ RenameFails) /\ UNCHANGED plugin /\
         TempIsNotShared
  BY <1>5 DEF WriteTemp, Step, RenameTemp, RenameFails, FailAs, Done, EndsAs,
         NoDump
<1>6. CASE (SeeDumpReady \/ SeeDumpFailed \/ SeeBoostReady \/ SeeBoostFailed
         \/ GiveUp) /\ UNCHANGED plugin /\ TempIsNotShared
  BY <1>6 DEF SeeDumpReady, Answered, Step, SeeDumpFailed, Done, NoDump,
         SeeBoostReady, SeeBoostFailed, FailAs, EndsAs, GiveUp
<1>7. CASE (CopyDump \/ Recheck \/ Publish) /\ UNCHANGED plugin /\
         TempIsNotShared
  BY <1>7 DEF CopyDump, Recheck, Done, Step, NoDump, Publish
<1>8. CASE (Reconcile \/ ReconcileFails \/ LatchRecovery \/ LatchFails) /\
         UNCHANGED plugin /\ TempIsNotShared
  BY <1>8 DEF Reconcile, Done, EndsAs, NoDump, ReconcileFails, Step,
         LatchRecovery, LatchFails
<1>9. CASE (StartLoad \/ StartBoost("single") \/ StartBoost("squad") \/
         SelectSnapshot \/ AppExit) /\ UNCHANGED plugin /\ TempIsNotShared
  BY <1>9 DEF StartLoad, StartBoost, SelectSnapshot, AppExit, Done, EndsAs,
         NoDump, Boosting
<1>10. CASE (GameProgress \/ PluginRestart) /\ UNCHANGED client /\
         TempIsNotShared
  BY <1>10 DEF GameProgress, PluginRestart, Status, NoIndex
<1>11. CASE (RequestExpires \/ ForceScan) /\ UNCHANGED <<plugin, client>>
  BY <1>11 DEF RequestExpires, ForceScan
<1>12. CASE UNCHANGED vars
  BY <1>12 DEF vars
<1> HIDE DEF KindsAgree, Boosts, CommandsAgree, files, plugin, client,
       pollVars, workVars, history
<1> QED
  BY <1>1, <1>2, <1>3, <1>4, <1>5, <1>6, <1>7, <1>8, <1>9, <1>10, <1>11, <1>12, NextCases

(* A new scan is younger than every snapshot.                               *)
LEMMA NewLoadStep ==
    ASSUME TypeOK, IdsIssued, SnapshotsAreFinished, LoadsAreNew, Snapshots' =
           Snapshots, [Next]_vars
    PROVE  LoadsAreNew'
<1> USE HandFacts, KindFacts, StoreFacts, Constructed DEF IdsIssued,
       SnapshotsAreFinished, LoadsAreNew, Finished, files, plugin, client,
       pollVars, workVars, history
<1>1. CASE (PollRead \/ PollDelete \/ PollReject \/ PollForce \/ PollEnter) /\
         UNCHANGED client /\ TempIsNotShared
  BY <1>1 DEF PollRead, PollDelete, PollReject, Status, PollForce, PollEnter
<1>2. CASE (RefreshRead \/ RefreshWrite \/ RefreshMove \/ LoseRequest) /\
         UNCHANGED client /\ TempIsNotShared
  BY <1>2 DEF RefreshRead, RefreshWrite, RefreshMove, LoseRequest
<1>3. CASE (BeginDump \/ Scan \/ ReplaceDump \/ FailDump \/ InstallIndex \/
         ReportDump \/ CrashDump) /\ UNCHANGED client /\ TempIsNotShared
  BY <1>3 DEF BeginDump, Status, Goto, Scan, ReplaceDump, FailDump,
         InstallIndex, NoIndex, ReportDump, CrashDump
<1>4. CASE (BeginBoost \/ RefuseEarly \/ CheckBoost \/ RereadBoost \/
         WriteBoost \/ ReportBoost \/ CrashBoost \/ WorkExit) /\ UNCHANGED
         client /\ TempIsNotShared
  BY <1>4 DEF BeginBoost, Status, Goto, RefuseEarly, CheckBoost, IndexServes,
         Refuse, Mismatch, Conclude, NoIndex, RereadBoost, WriteBoost,
         AdvanceIndex, ReportBoost, CrashBoost, WorkExit
<1>5. CASE (WriteTemp \/ RenameTemp \/ RenameFails) /\ UNCHANGED plugin /\
         TempIsNotShared
  BY <1>5 DEF WriteTemp, Step, RenameTemp, RenameFails, FailAs, Done, EndsAs,
         NoDump
<1>6. CASE (SeeDumpReady \/ SeeDumpFailed \/ SeeBoostReady \/ SeeBoostFailed
         \/ GiveUp) /\ UNCHANGED plugin /\ TempIsNotShared
  BY <1>6 DEF SeeDumpReady, Answered, Step, SeeDumpFailed, Done, NoDump,
         SeeBoostReady, SeeBoostFailed, FailAs, EndsAs, GiveUp
<1>7. CASE (CopyDump \/ Recheck \/ Publish) /\ UNCHANGED plugin /\
         TempIsNotShared
  BY <1>7 DEF CopyDump, Recheck, Done, Step, NoDump, Publish
<1>8. CASE (Reconcile \/ ReconcileFails \/ LatchRecovery \/ LatchFails) /\
         UNCHANGED plugin /\ TempIsNotShared
  BY <1>8 DEF Reconcile, Done, EndsAs, NoDump, ReconcileFails, Step,
         LatchRecovery, LatchFails
<1>9. CASE (StartLoad \/ StartBoost("single") \/ StartBoost("squad") \/
         SelectSnapshot \/ AppExit) /\ UNCHANGED plugin /\ TempIsNotShared
  BY <1>9 DEF StartLoad, StartBoost, SelectSnapshot, AppExit, Done, EndsAs,
         NoDump, Boosting
<1>10. CASE (GameProgress \/ PluginRestart) /\ UNCHANGED client /\
         TempIsNotShared
  BY <1>10 DEF GameProgress, PluginRestart, Status, NoIndex
<1>11. CASE (RequestExpires \/ ForceScan) /\ UNCHANGED <<plugin, client>>
  BY <1>11 DEF RequestExpires, ForceScan
<1>12. CASE UNCHANGED vars
  BY <1>12 DEF vars
<1> HIDE DEF IdsIssued, SnapshotsAreFinished, LoadsAreNew, Finished, files,
       plugin, client, pollVars, workVars, history
<1> QED
  BY <1>1, <1>2, <1>3, <1>4, <1>5, <1>6, <1>7, <1>8, <1>9, <1>10, <1>11, <1>12, NextCases

(* The dump and the index tell the same of a scan until it is published.    *)
LEMMA DumpStep ==
    ASSUME TypeOK, PassedOn, ScansAreMadeOnce, DumpAgrees, BoostsAreServed,
           BoostsKeepTheirTerms, KindsAgree, Snapshots \subseteq Snapshots',
           [Next]_vars
    PROVE  DumpAgrees'
<1> USE StoreFacts, KindFacts DEF PassedOn, WorkAgrees, DumpLocations,
       BoostLocations, ScansAreMadeOnce, ScannedOnce, DumpAgrees, OfOneScan,
       BoostsAreServed, BoostsKeepTheirTerms, TermsAreKept, NoId, files,
       plugin, client, pollVars, workVars, history
<1>1. CASE (PollRead \/ PollDelete \/ PollReject \/ PollForce \/ PollEnter) /\
         UNCHANGED client /\ TempIsNotShared
  BY <1>1 DEF PollRead, PollDelete, PollReject, Status, PollForce, PollEnter
<1>2. CASE (RefreshRead \/ RefreshWrite \/ RefreshMove \/ LoseRequest) /\
         UNCHANGED client /\ TempIsNotShared
  BY <1>2 DEF RefreshRead, RefreshWrite, RefreshMove, LoseRequest
<1>3. CASE (BeginDump \/ Scan \/ ReplaceDump \/ FailDump \/ InstallIndex \/
         ReportDump \/ CrashDump) /\ UNCHANGED client /\ TempIsNotShared
  BY <1>3 DEF BeginDump, Status, Goto, Scan, ReplaceDump, FailDump,
         InstallIndex, NoIndex, ReportDump, CrashDump
<1>4. CASE (BeginBoost \/ RefuseEarly \/ CheckBoost \/ RereadBoost \/
         WriteBoost \/ ReportBoost \/ CrashBoost \/ WorkExit) /\ UNCHANGED
         client /\ TempIsNotShared
  <2>1. CASE BeginBoost
    BY <1>4, <2>1 DEF BeginBoost, Status, Goto
  <2>2. CASE RefuseEarly
    BY <1>4, <2>2 DEF RefuseEarly, Status, Goto
  <2>3. CASE CheckBoost
    BY <1>4, <2>3 DEF CheckBoost, IndexServes, Refuse, Mismatch, Conclude,
           Goto, NoIndex
  <2>4. CASE RereadBoost
    BY <1>4, <2>4 DEF RereadBoost, Refuse, Mismatch, Conclude, Goto, NoIndex
  <2>5. CASE WriteBoost
    <3>1. /\ index'.source \in {NoId, index.source}
          /\ workPc' = "reportBoost" /\ index.source = workReq.source
      BY <1>4, <2>5, WriteFacts
    <3>2. workReq.source \in Snapshots
      BY <1>4, <2>5 DEF WriteBoost
    <3>3. UNCHANGED <<dump, copy, workReq>>
      BY <1>4, <2>5 DEF WriteBoost
    <3> QED
      BY <3>1, <3>2, <3>3
  <2>6. CASE ReportBoost
    BY <1>4, <2>6 DEF ReportBoost, Status, Goto
  <2>7. CASE CrashBoost
    BY <1>4, <2>7 DEF CrashBoost, Status, Goto, NoIndex
  <2>8. CASE WorkExit
    BY <1>4, <2>8 DEF WorkExit, Goto
  <2> QED
    BY <1>4, <2>1, <2>2, <2>3, <2>4, <2>5, <2>6, <2>7, <2>8
<1>5. CASE (WriteTemp \/ RenameTemp \/ RenameFails) /\ UNCHANGED plugin /\
         TempIsNotShared
  BY <1>5 DEF WriteTemp, Step, RenameTemp, RenameFails, FailAs, Done, EndsAs,
         NoDump
<1>6. CASE (SeeDumpReady \/ SeeDumpFailed \/ SeeBoostReady \/ SeeBoostFailed
         \/ GiveUp) /\ UNCHANGED plugin /\ TempIsNotShared
  BY <1>6 DEF SeeDumpReady, Answered, Step, SeeDumpFailed, Done, NoDump,
         SeeBoostReady, SeeBoostFailed, FailAs, EndsAs, GiveUp
<1>7. CASE (CopyDump \/ Recheck \/ Publish) /\ UNCHANGED plugin /\
         TempIsNotShared
  BY <1>7 DEF CopyDump, Recheck, Done, Step, NoDump, Publish
<1>8. CASE (Reconcile \/ ReconcileFails \/ LatchRecovery \/ LatchFails) /\
         UNCHANGED plugin /\ TempIsNotShared
  BY <1>8 DEF Reconcile, Done, EndsAs, NoDump, ReconcileFails, Step,
         LatchRecovery, LatchFails
<1>9. CASE (StartLoad \/ StartBoost("single") \/ StartBoost("squad") \/
         SelectSnapshot \/ AppExit) /\ UNCHANGED plugin /\ TempIsNotShared
  BY <1>9 DEF StartLoad, StartBoost, SelectSnapshot, AppExit, Done, EndsAs,
         NoDump, Boosting
<1>10. CASE (GameProgress \/ PluginRestart) /\ UNCHANGED client /\
         TempIsNotShared
  BY <1>10 DEF GameProgress, PluginRestart, Status, NoIndex
<1>11. CASE (RequestExpires \/ ForceScan) /\ UNCHANGED <<plugin, client>>
  BY <1>11 DEF RequestExpires, ForceScan
<1>12. CASE UNCHANGED vars
  BY <1>12 DEF vars
<1> HIDE DEF PassedOn, WorkAgrees, DumpLocations, BoostLocations,
       ScansAreMadeOnce, ScannedOnce, DumpAgrees, OfOneScan, BoostsAreServed,
       BoostsKeepTheirTerms, TermsAreKept, NoId, files, plugin, client,
       pollVars, workVars, history
<1> QED
  BY <1>1, <1>2, <1>3, <1>4, <1>5, <1>6, <1>7, <1>8, <1>9, <1>10, <1>11, <1>12, NextCases

(* The index a boost is checked against is the one it writes.               *)
LEMMA ServedStep ==
    ASSUME TypeOK, PassedOn, BoostsAreServed, [Next]_vars
    PROVE  BoostsAreServed'
<1> USE DEF BoostsAreServed, files, plugin, client, pollVars, workVars,
       history
<1>1. CASE (PollRead \/ PollDelete \/ PollReject \/ PollForce \/ PollEnter) /\
         UNCHANGED client /\ TempIsNotShared
  BY <1>1 DEF PollRead, PollDelete, PollReject, Status, PollForce, PollEnter
<1>2. CASE (RefreshRead \/ RefreshWrite \/ RefreshMove \/ LoseRequest) /\
         UNCHANGED client /\ TempIsNotShared
  BY <1>2 DEF RefreshRead, RefreshWrite, RefreshMove, LoseRequest
<1>3. CASE (BeginDump \/ Scan \/ ReplaceDump \/ FailDump \/ InstallIndex \/
         ReportDump \/ CrashDump) /\ UNCHANGED client /\ TempIsNotShared
  BY <1>3 DEF BeginDump, Status, Goto, Scan, ReplaceDump, FailDump,
         InstallIndex, NoIndex, ReportDump, CrashDump
<1>4. CASE (BeginBoost \/ RefuseEarly \/ CheckBoost \/ RereadBoost \/
         WriteBoost \/ ReportBoost \/ CrashBoost \/ WorkExit) /\ UNCHANGED
         client /\ TempIsNotShared
  BY <1>4 DEF BeginBoost, Status, Goto, RefuseEarly, CheckBoost, IndexServes,
         Refuse, Mismatch, Conclude, NoIndex, RereadBoost, WriteBoost,
         AdvanceIndex, ReportBoost, CrashBoost, WorkExit
<1>5. CASE (WriteTemp \/ RenameTemp \/ RenameFails) /\ UNCHANGED plugin /\
         TempIsNotShared
  BY <1>5 DEF WriteTemp, Step, RenameTemp, RenameFails, FailAs, Done, EndsAs,
         NoDump
<1>6. CASE (SeeDumpReady \/ SeeDumpFailed \/ SeeBoostReady \/ SeeBoostFailed
         \/ GiveUp) /\ UNCHANGED plugin /\ TempIsNotShared
  BY <1>6 DEF SeeDumpReady, Answered, Step, SeeDumpFailed, Done, NoDump,
         SeeBoostReady, SeeBoostFailed, FailAs, EndsAs, GiveUp
<1>7. CASE (CopyDump \/ Recheck \/ Publish) /\ UNCHANGED plugin /\
         TempIsNotShared
  BY <1>7 DEF CopyDump, Recheck, Done, Step, NoDump, Publish
<1>8. CASE (Reconcile \/ ReconcileFails \/ LatchRecovery \/ LatchFails) /\
         UNCHANGED plugin /\ TempIsNotShared
  BY <1>8 DEF Reconcile, Done, EndsAs, NoDump, ReconcileFails, Step,
         LatchRecovery, LatchFails
<1>9. CASE (StartLoad \/ StartBoost("single") \/ StartBoost("squad") \/
         SelectSnapshot \/ AppExit) /\ UNCHANGED plugin /\ TempIsNotShared
  BY <1>9 DEF StartLoad, StartBoost, SelectSnapshot, AppExit, Done, EndsAs,
         NoDump, Boosting
<1>10. CASE (GameProgress \/ PluginRestart) /\ UNCHANGED client /\
         TempIsNotShared
  BY <1>10 DEF GameProgress, PluginRestart, Status, NoIndex
<1>11. CASE (RequestExpires \/ ForceScan) /\ UNCHANGED <<plugin, client>>
  BY <1>11 DEF RequestExpires, ForceScan
<1>12. CASE UNCHANGED vars
  BY <1>12 DEF vars
<1> HIDE DEF BoostsAreServed, files, plugin, client, pollVars, workVars,
       history
<1> QED
  BY <1>1, <1>2, <1>3, <1>4, <1>5, <1>6, <1>7, <1>8, <1>9, <1>10, <1>11, <1>12, NextCases

(* The snapshot that is published is the scan in the index.                 *)
LEMMA PublishFollows ==
    ASSUME TypeOK, CommandsAgree, LoadsAreNew, CaptureOwnDump, DumpAgrees,
           Publish, UNCHANGED plugin,
           NEW s \in Snapshots', s \notin latched', index'.source = s,
           s \in Snapshots /\ index.source = s => IndexFollows(s)
    PROVE  IndexFollows(s)'
<1> USE DEF plugin
<1>1. ~Boosting /\ ~Boosting' /\ appPc = "publish" /\ appMode = "load"
  BY DEF Publish, Done, Boosting, CommandsAgree
<1>2. db \in [Ids -> Abilities \cup {Unknown}] /\ s \in Ids /\ mine.id \in Ids
  BY KindFacts, <1>1 DEF TypeOK, ClientTypeOK, Snapshots
<1>3. index.source = s /\ index'.ability = index.ability
  OBVIOUS
<1>4. CASE s \in Snapshots
  <2>1. s < mine.id /\ s \in Nat
    BY <1>1, <1>4, StoreFacts DEF LoadsAreNew
  <2>2. db'[s] = db[s]
    BY <1>2, <2>1, HandFacts DEF Publish
  <2> QED
    BY <1>1, <1>3, <1>4, <2>2 DEF IndexFollows
<1>5. CASE s \notin Snapshots
  <2>1. db[s] = Unknown /\ db'[s] # Unknown
    BY <1>2, <1>5 DEF Snapshots
  <2>2. s = mine.id /\ db'[s] = copy.ability
    BY <1>2, <2>1 DEF Publish
  <2>3. copy.by = mine.id /\ mine.id # NoId
    BY <1>1, <1>2 DEF CaptureOwnDump, Ids, NoId
  <2>4. index.ability = copy.ability
    BY <1>3, <1>5, <2>2, <2>3 DEF DumpAgrees, OfOneScan
  <2> QED
    BY <1>1, <1>3, <2>2, <2>4 DEF IndexFollows
<1> QED
  BY <1>4, <1>5

(* A reconciled boost takes the snapshot to where the index is.             *)
LEMMA ReconcileFollows ==
    ASSUME TypeOK, VerifiedIsApplied, Reconcile, UNCHANGED plugin,
           NEW s \in Snapshots, index.source = s, IndexFollows(s)
    PROVE  IndexFollows(s)'
<1> USE DEF plugin
<1>1. Boosting /\ mine.id \in applied /\ ~Boosting'
  BY KindFacts DEF Reconcile, Done, VerifiedIsApplied, Boosting
<1>2. db \in [Ids -> Abilities \cup {Unknown}] /\ s \in Ids
  BY DEF TypeOK, ClientTypeOK, Snapshots
<1>3. db'[s] = IF s = mine.source THEN Target(mine.expected) ELSE db[s]
  BY <1>2 DEF Reconcile
<1> QED
  BY <1>1, <1>3 DEF IndexFollows

(* A verified write puts the index one boost ahead of its snapshot: the     *)
(* boost is that of the command that still waits for it.                    *)
LEMMA WriteFollows ==
    ASSUME TypeOK, PassedOn, KindsAgree, AnsweredIsFinished,
           BoostsKeepTheirTerms, OpenIsMine, ReconciledIsFinal,
           BoostsAreServed, WriteBoost, UNCHANGED client,
           NEW s \in Snapshots, s \notin latched, index'.source = s, Disowned = {}
    PROVE  IndexFollows(s)'
<1> USE KindFacts DEF client
<1>1. /\ workPc = "write" /\ index.source = workReq.source
      /\ workReq.kind = "boost" /\ s # 0
  BY WriteFacts, StoreFacts DEF BoostsAreServed, BoostLocations
<1>2. /\ applied' = applied \cup {workReq.id}
      /\ index'.source = index.source /\ index'.ability = Target(workReq.expected)
  BY <1>1, WriteFacts
<1>12. workReq.id \in Ids /\ ~Finished(workReq.id)
  BY <1>1 DEF Finished, Active
<1>3. workReq.id \in Ids /\ ~Finished(workReq.id) /\ outcome[workReq.id] # "none"
  BY <1>1, <1>12 DEF KindsAgree, KindAgrees, Boosts
<1>4. workReq.id \in taken
  BY <1>1 DEF PassedOn, ServedIsTaken
<1>5. outcome[workReq.id] \notin {"rejected", "unwritten", "reconciled"}
  BY <1>3, <1>4 DEF AnsweredIsFinished, RejectionIsFinal, UnwrittenIsNowhere,
                    ReconciledIsFinal
<1>6. outcome[workReq.id] \notin {"exited", "unlatched"}
  BY <1>3 DEF Disowned
<1>7. workReq.source = s /\ s \notin latched
  BY <1>1, <1>2
<1>8. outcome[workReq.id] # "latched"
  BY <1>1, <1>3, <1>7 DEF BoostsKeepTheirTerms, TermsAreKept
<1>9. outcome[workReq.id] = "open"
  BY <1>3, <1>5, <1>6, <1>8 DEF Outcomes
<1>10. Boosting /\ mine.id = workReq.id
  BY <1>3, <1>9 DEF OpenIsMine
<1>11. mine.source = s /\ mine.expected = workReq.expected
  BY <1>1, <1>7, <1>10 DEF BoostsKeepTheirTerms, TermsAreKept
<1> QED
  BY <1>2, <1>10, <1>11 DEF IndexFollows, Boosting

(* No other step takes the index and a snapshot apart.                      *)
LEMMA FollowsStep ==
    ASSUME TypeOK, PassedOn, KindsAgree, CommandsAgree, UnwrittenIsNotApplied,
           RefusedNotApplied', SnapshotsAreFinished, NEW s \in Snapshots, s
           \notin latched', index'.source = s, Disowned' = {}, index.source =
           s => IndexFollows(s), ~Publish, ~Reconcile, ~WriteBoost,
           [Next]_vars
    PROVE  IndexFollows(s)'
<1> USE KindFacts, Constructed DEF IndexFollows, Boosting, CommandsAgree,
       files, plugin, client, pollVars, workVars, history
<1>1. CASE (PollRead \/ PollDelete \/ PollReject \/ PollForce \/ PollEnter) /\
         UNCHANGED client /\ TempIsNotShared
  BY <1>1 DEF PollRead, PollDelete, PollReject, Status, PollForce, PollEnter
<1>2. CASE (RefreshRead \/ RefreshWrite \/ RefreshMove \/ LoseRequest) /\
         UNCHANGED client /\ TempIsNotShared
  BY <1>2 DEF RefreshRead, RefreshWrite, RefreshMove, LoseRequest
<1>3. CASE (BeginDump \/ Scan \/ ReplaceDump \/ FailDump \/ InstallIndex \/
         ReportDump \/ CrashDump) /\ UNCHANGED client /\ TempIsNotShared
  <2>1. CASE InstallIndex
    <3>1. index'.source = workReq.id /\ workPc = "install"
      BY <1>3, <2>1, StoreFacts DEF InstallIndex, NoId
    <3>2. s \in Snapshots
      OBVIOUS
    <3> QED
      BY <3>1, <3>2 DEF SnapshotsAreFinished, Finished, Active
  <2>2. CASE BeginDump \/ Scan \/ ReplaceDump \/ FailDump \/ ReportDump \/
           CrashDump
    BY <1>3, <2>2 DEF BeginDump, Status, Goto, Scan, ReplaceDump, FailDump,
           ReportDump, CrashDump
  <2> QED
    BY <1>3, <2>1, <2>2
<1>4. CASE (BeginBoost \/ RefuseEarly \/ CheckBoost \/ RereadBoost \/
         WriteBoost \/ ReportBoost \/ CrashBoost \/ WorkExit) /\ UNCHANGED
         client /\ TempIsNotShared
  <2>1. CASE WriteBoost
    BY <1>4, <2>1 DEF WriteBoost, AdvanceIndex, Refuse, Conclude, Goto,
           NoIndex
  <2>2. CASE BeginBoost \/ RefuseEarly \/ CheckBoost \/ RereadBoost \/
           ReportBoost \/ CrashBoost \/ WorkExit
    BY <1>4, <2>2, StoreFacts DEF BeginBoost, Status, Goto, RefuseEarly,
           CheckBoost, IndexServes, Refuse, Mismatch, Conclude, NoIndex,
           RereadBoost, ReportBoost, CrashBoost, WorkExit
  <2> QED
    BY <1>4, <2>1, <2>2
<1>5. CASE (WriteTemp \/ RenameTemp \/ RenameFails) /\ UNCHANGED plugin /\
         TempIsNotShared
  <2>1. CASE WriteTemp
    BY <1>5, <2>1 DEF WriteTemp, Step
  <2>2. CASE RenameTemp
    BY <1>5, <2>2 DEF RenameTemp, Step
  <2>3. CASE RenameFails
    <3>1. mine.id \notin applied
      BY <1>5, <2>3 DEF RenameFails, PassedOn, UnsentIsNowhere, UnwrittenIsNotApplied
    <3> QED
      BY <1>5, <2>3, <3>1 DEF RenameFails, FailAs, Done, Step, EndsAs, NoDump
  <2> QED
    BY <1>5, <2>1, <2>2, <2>3
<1>6. CASE (SeeDumpReady \/ SeeDumpFailed \/ SeeBoostReady \/ SeeBoostFailed
         \/ GiveUp) /\ UNCHANGED plugin /\ TempIsNotShared
  <2>1. CASE SeeDumpReady
    BY <1>6, <2>1 DEF SeeDumpReady, Answered, Step
  <2>2. CASE SeeDumpFailed
    BY <1>6, <2>2 DEF SeeDumpFailed, Answered, Done, NoDump
  <2>3. CASE SeeBoostReady
    BY <1>6, <2>3 DEF SeeBoostReady, Answered
  <2>4. CASE SeeBoostFailed
    <3>1. CASE Step("latch")
      BY <1>6, <2>4, <3>1 DEF SeeBoostFailed, Answered, Step
    <3>2. CASE Done /\ EndsAs("rejected")
      <4>1. mine.id \in Ids /\ outcome'[mine.id] = "rejected"
        BY <1>6, <2>4, <3>2 DEF SeeBoostFailed, Answered, EndsAs
      <4>2. mine.id \notin applied
        BY <1>6, <2>4, <4>1 DEF RefusedNotApplied
      <4> QED
        BY <1>6, <2>4, <3>2, <4>2 DEF SeeBoostFailed, Done, NoDump
    <3> QED
      BY <1>6, <2>4, <3>1, <3>2 DEF SeeBoostFailed, FailAs
  <2>5. CASE GiveUp
    BY <1>6, <2>5 DEF GiveUp, Done, Step, NoDump
  <2> QED
    BY <1>6, <2>1, <2>2, <2>3, <2>4, <2>5
<1>7. CASE (CopyDump \/ Recheck \/ Publish) /\ UNCHANGED plugin /\
         TempIsNotShared
  <2>1. CASE Publish
    BY <1>7, <2>1 DEF Publish, Done, NoDump
  <2>2. CASE CopyDump \/ Recheck
    BY <1>7, <2>2 DEF CopyDump, Recheck, Done, Step, NoDump
  <2> QED
    BY <1>7, <2>1, <2>2
<1>8. CASE (Reconcile \/ ReconcileFails \/ LatchRecovery \/ LatchFails) /\
         UNCHANGED plugin /\ TempIsNotShared
  <2>1. CASE Reconcile
    BY <1>8, <2>1 DEF Reconcile, Done, EndsAs, NoDump
  <2>2. CASE LatchRecovery
    BY <1>8, <2>2 DEF LatchRecovery, Done, EndsAs, NoDump
  <2>3. CASE LatchFails
    <3>1. mine.id \in Ids /\ outcome'[mine.id] = "unlatched"
      BY <1>8, <2>3 DEF LatchFails, EndsAs
    <3> QED
      BY <3>1 DEF Disowned
  <2>4. CASE ReconcileFails
    BY <1>8, <2>4 DEF ReconcileFails, Step
  <2> QED
    BY <1>8, <2>1, <2>2, <2>3, <2>4
<1>9. CASE (StartLoad \/ StartBoost("single") \/ StartBoost("squad") \/
         SelectSnapshot \/ AppExit) /\ UNCHANGED plugin /\ TempIsNotShared
  <2>1. CASE StartLoad
    BY <1>9, <2>1 DEF StartLoad
  <2>2. CASE StartBoost("single")
    <3>1. nextId \notin applied
      BY <1>9, <2>2, HandFacts DEF PassedOn, IdsIssued, UnwrittenIsNotApplied
    <3> QED
      BY <1>9, <2>2, <3>1 DEF StartBoost
  <2>3. CASE StartBoost("squad")
    <3>1. nextId \notin applied
      BY <1>9, <2>3, HandFacts DEF PassedOn, IdsIssued, UnwrittenIsNotApplied
    <3> QED
      BY <1>9, <2>3, <3>1 DEF StartBoost
  <2>4. CASE SelectSnapshot
    BY <1>9, <2>4 DEF SelectSnapshot
  <2>5. CASE AppExit
    <3>1. CASE Boosting
      <4>1. mine.id \in Ids /\ outcome'[mine.id] = "exited"
        BY <1>9, <2>5, <3>1 DEF AppExit, EndsAs
      <4> QED
        BY <4>1 DEF Disowned
    <3>2. CASE ~Boosting
      BY <1>9, <2>5, <3>2 DEF AppExit, Done
    <3> QED
      BY <3>1, <3>2
  <2> QED
    BY <1>9, <2>1, <2>2, <2>3, <2>4, <2>5
<1>10. CASE (GameProgress \/ PluginRestart) /\ UNCHANGED client /\
         TempIsNotShared
  BY <1>10, StoreFacts DEF GameProgress, PluginRestart, Status, NoIndex
<1>11. CASE (RequestExpires \/ ForceScan) /\ UNCHANGED <<plugin, client>>
  BY <1>11 DEF RequestExpires, ForceScan
<1>12. CASE UNCHANGED vars
  BY <1>12 DEF vars
<1> HIDE DEF IndexFollows, Boosting, CommandsAgree, files, plugin, client,
       pollVars, workVars, history
<1> QED
  BY <1>1, <1>2, <1>3, <1>4, <1>5, <1>6, <1>7, <1>8, <1>9, <1>10, <1>11, <1>12, NextCases

-----------------------------------------------------------------------------
(* Scans come in the order of their ids as far as the snapshots can tell.   *)

(* A scan that can still be made stays younger than s, if the command's     *)
(* own unsent one is.                                                       *)
LEMMA OlderStep ==
    ASSUME TypeOK, PassedOn, CommandsAgree, NEW s \in Nat, s < nextId,
           NoneIsOlder(s), appPc \in {"writeTemp", "rename"} /\ appMode =
           "load" => s <= mine.id, [Next]_vars
    PROVE  NoneIsOlder(s)'
<1> USE HandFacts, SameRequest, Constructed DEF PassedOn, IdsIssued,
       WorkAgrees, TempIsOwned, CommandsAgree, DumpLocations, BoostLocations,
       NoneIsOlder, Active, files, plugin, client, pollVars, workVars, history
<1>1. CASE (PollRead \/ PollDelete \/ PollReject \/ PollForce \/ PollEnter) /\
         UNCHANGED client /\ TempIsNotShared
  BY <1>1 DEF PollRead, PollDelete, PollReject, Status, PollForce, PollEnter
<1>2. CASE (RefreshRead \/ RefreshWrite \/ RefreshMove \/ LoseRequest) /\
         UNCHANGED client /\ TempIsNotShared
  BY <1>2 DEF RefreshRead, RefreshWrite, RefreshMove, LoseRequest
<1>3. CASE (BeginDump \/ Scan \/ ReplaceDump \/ FailDump \/ InstallIndex \/
         ReportDump \/ CrashDump) /\ UNCHANGED client /\ TempIsNotShared
  BY <1>3 DEF BeginDump, Status, Goto, Scan, ReplaceDump, FailDump,
         InstallIndex, NoIndex, ReportDump, CrashDump
<1>4. CASE (BeginBoost \/ RefuseEarly \/ CheckBoost \/ RereadBoost \/
         WriteBoost \/ ReportBoost \/ CrashBoost \/ WorkExit) /\ UNCHANGED
         client /\ TempIsNotShared
  BY <1>4 DEF BeginBoost, Status, Goto, RefuseEarly, CheckBoost, IndexServes,
         Refuse, Mismatch, Conclude, NoIndex, RereadBoost, WriteBoost,
         AdvanceIndex, ReportBoost, CrashBoost, WorkExit
<1>5. CASE (WriteTemp \/ RenameTemp \/ RenameFails) /\ UNCHANGED plugin /\
         TempIsNotShared
  BY <1>5, KindFacts DEF WriteTemp, Step, RenameTemp, RenameFails, FailAs,
         Done, EndsAs, NoDump
<1>6. CASE (SeeDumpReady \/ SeeDumpFailed \/ SeeBoostReady \/ SeeBoostFailed
         \/ GiveUp) /\ UNCHANGED plugin /\ TempIsNotShared
  BY <1>6 DEF SeeDumpReady, Answered, Step, SeeDumpFailed, Done, NoDump,
         SeeBoostReady, SeeBoostFailed, FailAs, EndsAs, GiveUp
<1>7. CASE (CopyDump \/ Recheck \/ Publish) /\ UNCHANGED plugin /\
         TempIsNotShared
  BY <1>7 DEF CopyDump, Recheck, Done, Step, NoDump, Publish
<1>8. CASE (Reconcile \/ ReconcileFails \/ LatchRecovery \/ LatchFails) /\
         UNCHANGED plugin /\ TempIsNotShared
  BY <1>8 DEF Reconcile, Done, EndsAs, NoDump, ReconcileFails, Step,
         LatchRecovery, LatchFails
<1>9. CASE (StartLoad \/ StartBoost("single") \/ StartBoost("squad") \/
         SelectSnapshot \/ AppExit) /\ UNCHANGED plugin /\ TempIsNotShared
  BY <1>9 DEF StartLoad, StartBoost, SelectSnapshot, AppExit, Done, EndsAs,
         NoDump, Boosting
<1>10. CASE (GameProgress \/ PluginRestart) /\ UNCHANGED client /\
         TempIsNotShared
  BY <1>10 DEF GameProgress, PluginRestart, Status, NoIndex
<1>11. CASE (RequestExpires \/ ForceScan) /\ UNCHANGED <<plugin, client>>
  BY <1>11 DEF RequestExpires, ForceScan
<1>12. CASE UNCHANGED vars
  BY <1>12 DEF vars
<1> HIDE DEF PassedOn, IdsIssued, WorkAgrees, TempIsOwned, CommandsAgree,
       DumpLocations, BoostLocations, NoneIsOlder, Active, files, plugin,
       client, pollVars, workVars, history
<1> QED
  BY <1>1, <1>2, <1>3, <1>4, <1>5, <1>6, <1>7, <1>8, <1>9, <1>10, <1>11, <1>12, NextCases

(* The index is only replaced by a younger scan.                            *)
LEMMA AsNewStep ==
    ASSUME TypeOK, PassedOn, NEW s \in Nat, NoneIsOlder(s), IndexIsAsNew(s),
           [Next]_vars
    PROVE  IndexIsAsNew(s)'
<1> USE StoreFacts, WriteFacts DEF PassedOn, WorkAgrees, DumpLocations,
       BoostLocations, NoneIsOlder, Active, IndexIsAsNew, NoId, files, plugin,
       client, pollVars, workVars, history
<1>1. CASE (PollRead \/ PollDelete \/ PollReject \/ PollForce \/ PollEnter) /\
         UNCHANGED client /\ TempIsNotShared
  BY <1>1 DEF PollRead, PollDelete, PollReject, Status, PollForce, PollEnter
<1>2. CASE (RefreshRead \/ RefreshWrite \/ RefreshMove \/ LoseRequest) /\
         UNCHANGED client /\ TempIsNotShared
  BY <1>2 DEF RefreshRead, RefreshWrite, RefreshMove, LoseRequest
<1>3. CASE (BeginDump \/ Scan \/ ReplaceDump \/ FailDump \/ InstallIndex \/
         ReportDump \/ CrashDump) /\ UNCHANGED client /\ TempIsNotShared
  BY <1>3 DEF BeginDump, Status, Goto, Scan, ReplaceDump, FailDump,
         InstallIndex, NoIndex, ReportDump, CrashDump
<1>4. CASE (BeginBoost \/ RefuseEarly \/ CheckBoost \/ RereadBoost \/
         WriteBoost \/ ReportBoost \/ CrashBoost \/ WorkExit) /\ UNCHANGED
         client /\ TempIsNotShared
  BY <1>4 DEF BeginBoost, Status, Goto, RefuseEarly, CheckBoost, IndexServes,
         Refuse, Mismatch, Conclude, NoIndex, RereadBoost, WriteBoost,
         AdvanceIndex, ReportBoost, CrashBoost, WorkExit
<1>5. CASE (WriteTemp \/ RenameTemp \/ RenameFails) /\ UNCHANGED plugin /\
         TempIsNotShared
  BY <1>5 DEF WriteTemp, Step, RenameTemp, RenameFails, FailAs, Done, EndsAs,
         NoDump
<1>6. CASE (SeeDumpReady \/ SeeDumpFailed \/ SeeBoostReady \/ SeeBoostFailed
         \/ GiveUp) /\ UNCHANGED plugin /\ TempIsNotShared
  BY <1>6 DEF SeeDumpReady, Answered, Step, SeeDumpFailed, Done, NoDump,
         SeeBoostReady, SeeBoostFailed, FailAs, EndsAs, GiveUp
<1>7. CASE (CopyDump \/ Recheck \/ Publish) /\ UNCHANGED plugin /\
         TempIsNotShared
  BY <1>7 DEF CopyDump, Recheck, Done, Step, NoDump, Publish
<1>8. CASE (Reconcile \/ ReconcileFails \/ LatchRecovery \/ LatchFails) /\
         UNCHANGED plugin /\ TempIsNotShared
  BY <1>8 DEF Reconcile, Done, EndsAs, NoDump, ReconcileFails, Step,
         LatchRecovery, LatchFails
<1>9. CASE (StartLoad \/ StartBoost("single") \/ StartBoost("squad") \/
         SelectSnapshot \/ AppExit) /\ UNCHANGED plugin /\ TempIsNotShared
  BY <1>9 DEF StartLoad, StartBoost, SelectSnapshot, AppExit, Done, EndsAs,
         NoDump, Boosting
<1>10. CASE (GameProgress \/ PluginRestart) /\ UNCHANGED client /\
         TempIsNotShared
  BY <1>10 DEF GameProgress, PluginRestart, Status, NoIndex
<1>11. CASE (RequestExpires \/ ForceScan) /\ UNCHANGED <<plugin, client>>
  BY <1>11 DEF RequestExpires, ForceScan
<1>12. CASE UNCHANGED vars
  BY <1>12 DEF vars
<1> HIDE DEF PassedOn, WorkAgrees, DumpLocations, BoostLocations, NoneIsOlder,
       Active, IndexIsAsNew, NoId, files, plugin, client, pollVars, workVars,
       history
<1> QED
  BY <1>1, <1>2, <1>3, <1>4, <1>5, <1>6, <1>7, <1>8, <1>9, <1>10, <1>11, <1>12, NextCases

(* A dump is reported under the index it installed.                         *)
LEMMA OwnIndexStep ==
    ASSUME TypeOK, workPc = "reportDump" => index.source \in {NoId,
           workReq.id}, [Next]_vars
    PROVE  workPc' = "reportDump" => index'.source \in {NoId, workReq'.id}
<1> USE StoreFacts DEF NoId, files, plugin, client, pollVars, workVars,
       history
<1>1. CASE (PollRead \/ PollDelete \/ PollReject \/ PollForce \/ PollEnter) /\
         UNCHANGED client /\ TempIsNotShared
  BY <1>1 DEF PollRead, PollDelete, PollReject, Status, PollForce, PollEnter
<1>2. CASE (RefreshRead \/ RefreshWrite \/ RefreshMove \/ LoseRequest) /\
         UNCHANGED client /\ TempIsNotShared
  BY <1>2 DEF RefreshRead, RefreshWrite, RefreshMove, LoseRequest
<1>3. CASE (BeginDump \/ Scan \/ ReplaceDump \/ FailDump \/ InstallIndex \/
         ReportDump \/ CrashDump) /\ UNCHANGED client /\ TempIsNotShared
  BY <1>3 DEF BeginDump, Status, Goto, Scan, ReplaceDump, FailDump,
         InstallIndex, NoIndex, ReportDump, CrashDump
<1>4. CASE (BeginBoost \/ RefuseEarly \/ CheckBoost \/ RereadBoost \/
         WriteBoost \/ ReportBoost \/ CrashBoost \/ WorkExit) /\ UNCHANGED
         client /\ TempIsNotShared
  BY <1>4 DEF BeginBoost, Status, Goto, RefuseEarly, CheckBoost, IndexServes,
         Refuse, Mismatch, Conclude, NoIndex, RereadBoost, WriteBoost,
         AdvanceIndex, ReportBoost, CrashBoost, WorkExit
<1>5. CASE (WriteTemp \/ RenameTemp \/ RenameFails) /\ UNCHANGED plugin /\
         TempIsNotShared
  BY <1>5 DEF WriteTemp, Step, RenameTemp, RenameFails, FailAs, Done, EndsAs,
         NoDump
<1>6. CASE (SeeDumpReady \/ SeeDumpFailed \/ SeeBoostReady \/ SeeBoostFailed
         \/ GiveUp) /\ UNCHANGED plugin /\ TempIsNotShared
  BY <1>6 DEF SeeDumpReady, Answered, Step, SeeDumpFailed, Done, NoDump,
         SeeBoostReady, SeeBoostFailed, FailAs, EndsAs, GiveUp
<1>7. CASE (CopyDump \/ Recheck \/ Publish) /\ UNCHANGED plugin /\
         TempIsNotShared
  BY <1>7 DEF CopyDump, Recheck, Done, Step, NoDump, Publish
<1>8. CASE (Reconcile \/ ReconcileFails \/ LatchRecovery \/ LatchFails) /\
         UNCHANGED plugin /\ TempIsNotShared
  BY <1>8 DEF Reconcile, Done, EndsAs, NoDump, ReconcileFails, Step,
         LatchRecovery, LatchFails
<1>9. CASE (StartLoad \/ StartBoost("single") \/ StartBoost("squad") \/
         SelectSnapshot \/ AppExit) /\ UNCHANGED plugin /\ TempIsNotShared
  BY <1>9 DEF StartLoad, StartBoost, SelectSnapshot, AppExit, Done, EndsAs,
         NoDump, Boosting
<1>10. CASE (GameProgress \/ PluginRestart) /\ UNCHANGED client /\
         TempIsNotShared
  BY <1>10 DEF GameProgress, PluginRestart, Status, NoIndex
<1>11. CASE (RequestExpires \/ ForceScan) /\ UNCHANGED <<plugin, client>>
  BY <1>11 DEF RequestExpires, ForceScan
<1>12. CASE UNCHANGED vars
  BY <1>12 DEF vars
<1> HIDE DEF NoId, files, plugin, client, pollVars, workVars, history
<1> QED
  BY <1>1, <1>2, <1>3, <1>4, <1>5, <1>6, <1>7, <1>8, <1>9, <1>10, <1>11, <1>12, NextCases

(* When the scan of a command is taken, no other waits.                     *)
LEMMA TakenLoadStep ==
    ASSUME TypeOK, PassedOn, CommandsAgree, appPc' # "idle", appMode' =
           "load", mine'.id \in taken', FilesAreReliable, ~(mine' = mine /\
           appPc # "idle" /\ appMode = "load" /\ mine.id \in taken),
           [Next]_vars
    PROVE  NoneIsOlder(mine.id)' /\ mine' = mine
<1> USE HandFacts, KindFacts, Constructed DEF PassedOn, IdsIssued, WorkAgrees,
       CommandsAgree, DumpLocations, BoostLocations, NoneIsOlder, Active,
       FilesAreReliable, files, plugin, client, pollVars, workVars, history
<1>1. CASE (PollRead \/ PollDelete \/ PollReject \/ PollForce \/ PollEnter) /\
         UNCHANGED client /\ TempIsNotShared
  <2>1. CASE PollRead
    BY <1>1, <2>1 DEF PollRead
  <2>2. CASE PollDelete
    <3>1. ~busy /\ request' = NoRequest /\ pollSeen' = pollSeen /\ workPc = "off"
          /\ UNCHANGED <<mine, appPc, appMode, workPc>> /\ taken' = taken \cup {pollSeen.id}
      BY <1>1, <2>2 DEF PollDelete
    <3>2. mine.id = pollSeen.id
      BY <3>1
    <3> QED
      BY <3>1, <3>2
  <2>3. CASE PollReject
    BY <1>1, <2>3 DEF PollReject, Status
  <2>4. CASE PollForce
    BY <1>1, <2>4 DEF PollForce
  <2>5. CASE PollEnter
    BY <1>1, <2>5 DEF PollEnter
  <2> QED
    BY <1>1, <2>1, <2>2, <2>3, <2>4, <2>5
<1>2. CASE (RefreshRead \/ RefreshWrite \/ RefreshMove \/ LoseRequest) /\
         UNCHANGED client /\ TempIsNotShared
  BY <1>2 DEF RefreshRead, RefreshWrite, RefreshMove, LoseRequest
<1>3. CASE (BeginDump \/ Scan \/ ReplaceDump \/ FailDump \/ InstallIndex \/
         ReportDump \/ CrashDump) /\ UNCHANGED client /\ TempIsNotShared
  BY <1>3 DEF BeginDump, Status, Goto, Scan, ReplaceDump, FailDump,
         InstallIndex, NoIndex, ReportDump, CrashDump
<1>4. CASE (BeginBoost \/ RefuseEarly \/ CheckBoost \/ RereadBoost \/
         WriteBoost \/ ReportBoost \/ CrashBoost \/ WorkExit) /\ UNCHANGED
         client /\ TempIsNotShared
  BY <1>4 DEF BeginBoost, Status, Goto, RefuseEarly, CheckBoost, IndexServes,
         Refuse, Mismatch, Conclude, NoIndex, RereadBoost, WriteBoost,
         AdvanceIndex, ReportBoost, CrashBoost, WorkExit
<1>5. CASE (WriteTemp \/ RenameTemp \/ RenameFails) /\ UNCHANGED plugin /\
         TempIsNotShared
  BY <1>5 DEF WriteTemp, Step, RenameTemp, RenameFails, FailAs, Done, EndsAs,
         NoDump
<1>6. CASE (SeeDumpReady \/ SeeDumpFailed \/ SeeBoostReady \/ SeeBoostFailed
         \/ GiveUp) /\ UNCHANGED plugin /\ TempIsNotShared
  BY <1>6 DEF SeeDumpReady, Answered, Step, SeeDumpFailed, Done, NoDump,
         SeeBoostReady, SeeBoostFailed, FailAs, EndsAs, GiveUp
<1>7. CASE (CopyDump \/ Recheck \/ Publish) /\ UNCHANGED plugin /\
         TempIsNotShared
  BY <1>7 DEF CopyDump, Recheck, Done, Step, NoDump, Publish
<1>8. CASE (Reconcile \/ ReconcileFails \/ LatchRecovery \/ LatchFails) /\
         UNCHANGED plugin /\ TempIsNotShared
  BY <1>8 DEF Reconcile, Done, EndsAs, NoDump, ReconcileFails, Step,
         LatchRecovery, LatchFails
<1>9. CASE (StartLoad \/ StartBoost("single") \/ StartBoost("squad") \/
         SelectSnapshot \/ AppExit) /\ UNCHANGED plugin /\ TempIsNotShared
  BY <1>9 DEF StartLoad, StartBoost, SelectSnapshot, AppExit, Done, EndsAs,
         NoDump, Boosting
<1>10. CASE (GameProgress \/ PluginRestart) /\ UNCHANGED client /\
         TempIsNotShared
  BY <1>10 DEF GameProgress, PluginRestart, Status, NoIndex
<1>11. CASE (RequestExpires \/ ForceScan) /\ UNCHANGED <<plugin, client>>
  BY <1>11 DEF RequestExpires, ForceScan
<1>12. CASE UNCHANGED vars
  BY <1>12 DEF vars
<1> HIDE DEF PassedOn, IdsIssued, WorkAgrees, CommandsAgree, DumpLocations,
       BoostLocations, NoneIsOlder, Active, FilesAreReliable, files, plugin,
       client, pollVars, workVars, history
<1> QED
  BY <1>1, <1>2, <1>3, <1>4, <1>5, <1>6, <1>7, <1>8, <1>9, <1>10, <1>11, <1>12, NextCases

(* A command sees its scan when the work thread reports it.                 *)
LEMMA ScanIsInStep ==
    ASSUME TypeOK, PassedOn, KindsAgree, CommandsAgree, ScanIsIn', ~ScanIsIn,
           workPc = "reportDump" => index.source \in {NoId, workReq.id},
           [Next]_vars
    PROVE  IndexIsAsNew(mine.id)' /\ mine' = mine
<1> USE HandFacts, KindFacts, StoreFacts, Constructed DEF PassedOn, IdsIssued,
       WorkAgrees, CommandsAgree, KindsAgree, KindAgrees, DumpLocations,
       BoostLocations, ScanIsIn, IndexIsAsNew, NoId, files, plugin, client,
       pollVars, workVars, history
<1>1. CASE (PollRead \/ PollDelete \/ PollReject \/ PollForce \/ PollEnter) /\
         UNCHANGED client /\ TempIsNotShared
  BY <1>1 DEF PollRead, PollDelete, PollReject, Status, PollForce, PollEnter
<1>2. CASE (RefreshRead \/ RefreshWrite \/ RefreshMove \/ LoseRequest) /\
         UNCHANGED client /\ TempIsNotShared
  BY <1>2 DEF RefreshRead, RefreshWrite, RefreshMove, LoseRequest
<1>3. CASE (BeginDump \/ Scan \/ ReplaceDump \/ FailDump \/ InstallIndex \/
         ReportDump \/ CrashDump) /\ UNCHANGED client /\ TempIsNotShared
  BY <1>3 DEF BeginDump, Status, Goto, Scan, ReplaceDump, FailDump,
         InstallIndex, NoIndex, ReportDump, CrashDump
<1>4. CASE (BeginBoost \/ RefuseEarly \/ CheckBoost \/ RereadBoost \/
         WriteBoost \/ ReportBoost \/ CrashBoost \/ WorkExit) /\ UNCHANGED
         client /\ TempIsNotShared
  BY <1>4 DEF BeginBoost, Status, Goto, RefuseEarly, CheckBoost, IndexServes,
         Refuse, Mismatch, Conclude, NoIndex, RereadBoost, WriteBoost,
         AdvanceIndex, ReportBoost, CrashBoost, WorkExit
<1>5. CASE (WriteTemp \/ RenameTemp \/ RenameFails) /\ UNCHANGED plugin /\
         TempIsNotShared
  BY <1>5 DEF WriteTemp, Step, RenameTemp, RenameFails, FailAs, Done, EndsAs,
         NoDump
<1>6. CASE (SeeDumpReady \/ SeeDumpFailed \/ SeeBoostReady \/ SeeBoostFailed
         \/ GiveUp) /\ UNCHANGED plugin /\ TempIsNotShared
  BY <1>6 DEF SeeDumpReady, Answered, Step, SeeDumpFailed, Done, NoDump,
         SeeBoostReady, SeeBoostFailed, FailAs, EndsAs, GiveUp
<1>7. CASE (CopyDump \/ Recheck \/ Publish) /\ UNCHANGED plugin /\
         TempIsNotShared
  BY <1>7 DEF CopyDump, Recheck, Done, Step, NoDump, Publish
<1>8. CASE (Reconcile \/ ReconcileFails \/ LatchRecovery \/ LatchFails) /\
         UNCHANGED plugin /\ TempIsNotShared
  BY <1>8 DEF Reconcile, Done, EndsAs, NoDump, ReconcileFails, Step,
         LatchRecovery, LatchFails
<1>9. CASE (StartLoad \/ StartBoost("single") \/ StartBoost("squad") \/
         SelectSnapshot \/ AppExit) /\ UNCHANGED plugin /\ TempIsNotShared
  BY <1>9 DEF StartLoad, StartBoost, SelectSnapshot, AppExit, Done, EndsAs,
         NoDump, Boosting
<1>10. CASE (GameProgress \/ PluginRestart) /\ UNCHANGED client /\
         TempIsNotShared
  BY <1>10 DEF GameProgress, PluginRestart, Status, NoIndex
<1>11. CASE (RequestExpires \/ ForceScan) /\ UNCHANGED <<plugin, client>>
  BY <1>11 DEF RequestExpires, ForceScan
<1>12. CASE UNCHANGED vars
  BY <1>12 DEF vars
<1> HIDE DEF PassedOn, IdsIssued, WorkAgrees, CommandsAgree, KindsAgree,
       KindAgrees, DumpLocations, BoostLocations, ScanIsIn, IndexIsAsNew,
       NoId, files, plugin, client, pollVars, workVars, history
<1> QED
  BY <1>1, <1>2, <1>3, <1>4, <1>5, <1>6, <1>7, <1>8, <1>9, <1>10, <1>11, <1>12, NextCases

-----------------------------------------------------------------------------
(* Nothing is published and nothing scanned at the start.                   *)
LEMMA InitAgrees == Init => IndexAndSnapshots /\ ScansComeInOrder
<1> SUFFICES ASSUME Init PROVE IndexAndSnapshots /\ ScansComeInOrder
  OBVIOUS
<1>1. /\ request.kind = "none" /\ pollSeen.kind = "none"
      /\ workReq.kind = "none" /\ mine.kind = "none"
      /\ dump.by = NoId /\ copy.by = NoId /\ index.source = NoId
      /\ status.state = "idle"
  BY DEF Init, FilesInit, PluginInit, ClientInit, NoRequest, Status, NoDump, NoIndex
<1>2. /\ pollPc = "idle" /\ workPc = "off" /\ appPc = "idle"
      /\ Snapshots = {} /\ \A i \in Ids : outcome[i] = "none"
  BY DEF Init, FilesInit, PluginInit, ClientInit, Snapshots
<1>3. BoostsKeepTheirTerms /\ OpenIsMine /\ ReconciledIsFinal /\ VerifiedIsApplied
  BY <1>1, <1>2 DEF BoostsKeepTheirTerms, TermsAreKept, OpenIsMine,
                    ReconciledIsFinal, VerifiedIsApplied
<1>4. ScansAreMadeOnce /\ SnapshotsAreFinished /\ LoadsAreNew /\ DumpAgrees
  BY <1>1, <1>2 DEF ScansAreMadeOnce, ScannedOnce, SnapshotsAreFinished,
                    LoadsAreNew, DumpAgrees, OfOneScan
<1>5. BoostsAreServed /\ IndexAgrees
  BY <1>2 DEF BoostsAreServed, IndexAgrees
<1>6. ScansComeInOrder
  BY <1>1, <1>2 DEF ScansComeInOrder, ScanIsIn
<1> QED
  BY <1>3, <1>4, <1>5, <1>6 DEF IndexAndSnapshots

(* Every step keeps the index and the snapshots in agreement.               *)
LEMMA AgreementStep ==
    ASSUME TypeOK, HandOff, HandOff', IndexAndSnapshots, [Next]_vars
    PROVE  IndexAndSnapshots'
<1> USE DEF HandOff
<1>1. /\ Snapshots \subseteq Snapshots'
      /\ Snapshots' # Snapshots => Publish
      /\ Snapshots' \subseteq Snapshots \cup {mine.id}
      /\ latched \subseteq latched' /\ Disowned \subseteq Disowned'
  BY SnapshotsStay, StoreStep, DisownedStay DEF IndexAndSnapshots
<1>2. \A i \in Ids : Finished(i) => Finished(i)'
  BY FinishedStays
<1>3. BoostsKeepTheirTerms' /\ OpenIsMine' /\ VerifiedIsApplied' /\ ReconciledIsFinal'
  BY <1>1, <1>2, TermsStep, OpenStep, VerifiedStep, ReconciledStep
  DEF IndexAndSnapshots
<1>4. ScansAreMadeOnce' /\ BoostsAreServed' /\ DumpAgrees'
  BY <1>1, ScannedOnceStep, ServedStep, DumpStep DEF IndexAndSnapshots
<1>5. SnapshotsAreFinished'
  BY <1>1, <1>2, BoostsStep, PublishedStep DEF IndexAndSnapshots, PassedOn
<1>6. LoadsAreNew'
  <2>1. CASE Publish
    BY <2>1 DEF Publish, Done, LoadsAreNew
  <2>2. CASE Snapshots' = Snapshots
    BY <2>2, NewLoadStep DEF IndexAndSnapshots, PassedOn
  <2> QED
    BY <1>1, <2>1, <2>2
<1>7. IndexAgrees'
  <2> SUFFICES ASSUME NEW s \in Snapshots', s \notin latched',
                      index'.source = s, Disowned' = {}
               PROVE  IndexFollows(s)'
    BY DEF IndexAgrees
  <2>1. /\ s \notin latched /\ Disowned = {}
        /\ s \in Snapshots /\ index.source = s => IndexFollows(s)
    BY <1>1 DEF IndexAndSnapshots, IndexAgrees
  <2>2. CASE Publish
    <3>1. UNCHANGED plugin
      BY <2>2, NextCases DEF vars, Publish, Done, client
    <3> QED
      BY <2>1, <2>2, <3>1, PublishFollows DEF IndexAndSnapshots
  <2>3. CASE ~Publish /\ s \in Snapshots /\ Reconcile
    <3>1. UNCHANGED plugin
      BY <2>3, NextCases DEF vars, Reconcile, Done, client
    <3> QED
      BY <2>1, <2>3, <3>1, ReconcileFollows DEF IndexAndSnapshots, plugin
  <2>4. CASE ~Publish /\ s \in Snapshots /\ WriteBoost
    <3>1. UNCHANGED client
      BY <2>4, WriteFacts, NextCases DEF vars, plugin
    <3> QED
      BY <2>1, <2>4, <3>1, WriteFollows DEF IndexAndSnapshots
  <2>5. CASE ~Publish /\ s \in Snapshots /\ ~Reconcile /\ ~WriteBoost
    BY <2>1, <2>5, FollowsStep DEF IndexAndSnapshots
  <2> QED
    BY <1>1, <2>2, <2>3, <2>4, <2>5
<1> QED
  BY <1>3, <1>4, <1>5, <1>6, <1>7 DEF IndexAndSnapshots

(* A command works for one request from its start to its end.               *)
LEMMA OneCommand == [Next]_vars /\ appPc # "idle" /\ appPc' # "idle" => mine' = mine
BY NextCases DEF WriteTemp, Step, RenameTemp, RenameFails, FailAs, Done,
       SeeDumpReady, SeeDumpFailed, SeeBoostReady, SeeBoostFailed, Answered, GiveUp,
       CopyDump, Recheck, Publish, Reconcile, ReconcileFails, LatchRecovery,
       LatchFails, StartLoad, StartBoost, SelectSnapshot, AppExit, client, vars

(* FM is only changed for a boost by a write.                               *)
LEMMA OnlyWrites == [Next]_vars /\ applied' # applied => WriteBoost
BY NextCases DEF PollRead, PollDelete, PollReject, PollForce, PollEnter,
       RefreshRead, RefreshWrite, RefreshMove, LoseRequest, BeginDump, Scan,
       ReplaceDump, FailDump, InstallIndex, ReportDump, CrashDump, BeginBoost,
       RefuseEarly, CheckBoost, RereadBoost, ReportBoost, CrashBoost, WorkExit,
       GameProgress, PluginRestart, plugin, history, vars

(* Every step keeps the scans in order.                                     *)
LEMMA OrderStep ==
    ASSUME TypeOK, FilesAreReliable, HandOff, IndexAndSnapshots,
           ScansComeInOrder, [Next]_vars
    PROVE  ScansComeInOrder'
<1> USE DEF HandOff
<1>1. Snapshots' \subseteq Snapshots \cup {mine.id} /\ (Snapshots' # Snapshots => Publish)
  BY SnapshotsStay DEF IndexAndSnapshots
<1>2. mine.id \in Nat /\ mine.id < nextId
  BY HandFacts DEF PassedOn, IdsIssued
<1>3. ASSUME NEW s \in Nat, s < nextId, NoneIsOlder(s),
             appPc \in {"writeTemp", "rename"} /\ appMode = "load" => s <= mine.id
      PROVE  NoneIsOlder(s)'
  BY <1>3, OlderStep
<1>4. ASSUME NEW s \in Nat, NoneIsOlder(s), IndexIsAsNew(s)
      PROVE  IndexIsAsNew(s)'
  BY <1>4, AsNewStep
<1>5. NoneIsOlder(mine.id) => \A m : m = mine.id => NoneIsOlder(m)'
  BY <1>2, <1>3
<1>6. NoneIsOlder(mine.id) /\ IndexIsAsNew(mine.id)
          => \A m : m = mine.id => IndexIsAsNew(m)'
  BY <1>2, <1>4
<1>7. ScanIsIn => mine.id \in taken /\ NoneIsOlder(mine.id) /\ IndexIsAsNew(mine.id)
  <2>1. ScanIsIn => Finished(mine.id)
    BY DEF ScanIsIn, AnsweredIsFinished, StatusIsFinal, ScanIsFinal, Terminal
  <2> QED
    BY <2>1 DEF ScansComeInOrder, ScanIsIn, Finished
<1>8. \A s \in Snapshots : NoneIsOlder(s)' /\ IndexIsAsNew(s)'
  <2> SUFFICES ASSUME NEW s \in Snapshots PROVE NoneIsOlder(s)' /\ IndexIsAsNew(s)'
    OBVIOUS
  <2>1. s \in Nat /\ s < nextId
    BY StoreFacts DEF IndexAndSnapshots, SnapshotsAreFinished, Finished, PassedOn, IdsIssued
  <2>2. appPc \in {"writeTemp", "rename"} /\ appMode = "load" => s <= mine.id
    BY <1>2, <2>1 DEF IndexAndSnapshots, LoadsAreNew
  <2> QED
    BY <1>3, <1>4, <2>1, <2>2 DEF ScansComeInOrder
<1>9. \A s \in Snapshots' : NoneIsOlder(s)' /\ IndexIsAsNew(s)'
  <2>1. Publish => ScanIsIn
    BY DEF Publish, ScanIsIn, CommandsAgree
  <2>2. \A s \in Snapshots' : s \notin Snapshots => Publish /\ s = mine.id
    BY <1>1
  <2> QED
    BY <1>5, <1>6, <1>7, <1>8, <2>1, <2>2
<1>10. appPc' # "idle" /\ appMode' = "load" /\ mine'.id \in taken'
           => NoneIsOlder(mine.id)'
  <2>1. mine' = mine /\ appPc # "idle" /\ appMode = "load" /\ mine.id \in taken
            => NoneIsOlder(mine.id)'
    BY <1>5 DEF ScansComeInOrder
  <2> QED
    BY <2>1, TakenLoadStep
<1>11. ScanIsIn' => IndexIsAsNew(mine.id)'
  <2>1. ScanIsIn /\ mine' = mine => IndexIsAsNew(mine.id)'
    BY <1>6, <1>7
  <2>2. ScanIsIn /\ ScanIsIn' => mine' = mine
    BY OneCommand DEF ScanIsIn
  <2> QED
    BY <2>1, <2>2, ScanIsInStep DEF ScansComeInOrder
<1>12. workPc' = "reportDump" => index'.source \in {NoId, workReq'.id}
  BY OwnIndexStep DEF ScansComeInOrder
<1> QED
  BY <1>9, <1>10, <1>11, <1>12 DEF ScansComeInOrder

-----------------------------------------------------------------------------
(* One scan and one boost are followed through the plugin and the app,      *)
(* whichever of them stops meanwhile.                                       *)
THEOREM IndexIsFollowed ==
    FilesAreReliable /\ Spec => [](IndexAndSnapshots /\ ScansComeInOrder)
<1> SUFFICES ASSUME FilesAreReliable
             PROVE  Spec => [](IndexAndSnapshots /\ ScansComeInOrder)
  OBVIOUS
<1>1. TypeOK /\ HandOff /\ HandOff' /\ IndexAndSnapshots /\ ScansComeInOrder /\ [Next]_vars
          => (IndexAndSnapshots /\ ScansComeInOrder)'
  BY AgreementStep, OrderStep
<1>2. FilesAreReliable /\ Spec => []HandOff
  BY RequestsAreHandedOff
<1> QED
  BY <1>1, <1>2, InitAgrees, TypeCorrect, PTL DEF Spec

(* A published snapshot and the live index made of the same scan agree, so  *)
(* that the next boost passes the stale-value check, although each is       *)
(* advanced by its own side (TryUpdateCurrentAbility,                       *)
(* reconcile_verified_boost).                                               *)
THEOREM IndexAndSnapshotsAgree == FilesAreReliable /\ Spec => []IndexMatchesSnapshot
<1>1. IndexAndSnapshots => IndexMatchesSnapshot
  BY DEF IndexAndSnapshots, IndexAgrees, IndexFollows, IndexMatchesSnapshot
<1> QED
  BY <1>1, IndexIsFollowed, PTL

(* A boost changes FM only for the newest snapshot there is                 *)
(* (PlayerMutationIndex.TryGet).                                            *)
THEOREM BoostsAreForTheNewest == FilesAreReliable /\ Spec => BoostsAreNotStale
<1>1. TypeOK /\ IndexAndSnapshots /\ ScansComeInOrder /\ [Next]_vars
          => [applied' # applied => \A s \in Snapshots : s <= workReq.source]_vars
  <2> SUFFICES ASSUME TypeOK, IndexAndSnapshots, ScansComeInOrder, Next, applied' # applied
               PROVE  \A s \in Snapshots : s <= workReq.source
    BY DEF vars, plugin
  <2>1. WriteBoost
    BY OnlyWrites
  <2>2. index.source = workReq.source /\ workReq.source \in Snapshots
    BY <2>1, KindFacts DEF WriteBoost, IndexAndSnapshots, BoostsAreServed,
           BoostsKeepTheirTerms, TermsAreKept, BoostLocations
  <2> QED
    BY <2>2, StoreFacts DEF ScansComeInOrder, IndexIsAsNew, NoId
<1> QED
  BY <1>1, IndexIsFollowed, TypeCorrect, PTL DEF Spec, BoostsAreNotStale

-----------------------------------------------------------------------------
(* The session keeps the contract of a boost.                               *)

(* What the contract sees of a command.                                     *)
LEMMA OpenFacts ==
    ASSUME TypeOK, HandOff, IndexAndSnapshots
    PROVE  /\ ~Boosting <=> OpenBoost = Contract!Nothing
           /\ Boosting => /\ OpenBoost.id = mine.id /\ OpenBoost.source = mine.source
                          /\ OpenBoost.expected = mine.expected
                          /\ mine.id \in Ids /\ mine.source \in Ids /\ mine.expected \in Abilities
                          /\ mine.kind = "boost" /\ outcome[mine.id] = "open"
           /\ Contract!Ids = Ids
           /\ \A a : Contract!Raised(a) = Target(a)
           /\ Contract!Shown = Snapshots
           /\ \A i \in Ids : (ToldOf[i] = "none" <=> outcome[i] = "none")
                             /\ (outcome[i] = "latched" => ToldOf[i] = "doubtful")
                             /\ (outcome[i] \in {"exited", "unlatched"} => ToldOf[i] = "lost")
<1>1. Boosting => mine \in BoostRequests
  BY DEF TypeOK, ClientTypeOK, Boosting
<1>2. Boosting => mine.id \in Ids /\ mine.source \in Ids /\ mine.expected \in Abilities /\ mine.kind = "boost"
  BY <1>1 DEF BoostRequests
<1>3. Boosting => outcome[mine.id] = "open"
  BY DEF HandOff, CommandsAgree, Boosting
<1>4. \A i \in Ids : outcome[i] \in Outcomes
  BY DEF TypeOK, ClientTypeOK
<1>5. \A i \in Ids : /\ ToldOf[i] = "none" <=> outcome[i] = "none"
                     /\ outcome[i] = "latched" => ToldOf[i] = "doubtful"
                     /\ outcome[i] \in {"exited", "unlatched"} => ToldOf[i] = "lost"
  BY <1>4 DEF ToldOf, Outcomes
<1>6. ~Boosting <=> OpenBoost = Contract!Nothing
  <2>1. Boosting => OpenBoost.id # 0
    BY <1>2 DEF OpenBoost, Ids
  <2>2. QED
    BY <2>1 DEF OpenBoost, Contract!Nothing, NoId, Unknown
<1>7. Boosting => /\ OpenBoost.id = mine.id /\ OpenBoost.source = mine.source
                  /\ OpenBoost.expected = mine.expected
  BY DEF OpenBoost
<1>8. Contract!Ids = Ids /\ (\A a : Contract!Raised(a) = Target(a)) /\ Contract!Shown = Snapshots
  BY DEF Contract!Ids, Ids, Contract!Raised, Target, Contract!Shown, Snapshots, Unknown
<1>9. QED
  BY <1>2, <1>3, <1>5, <1>6, <1>7, <1>8

(* A step that answers nobody and writes nothing is no step of the contract.*)
LEMMA NothingIsTold ==
    ASSUME UNCHANGED <<db, latched, outcome, applied>>,
           Boosting' <=> Boosting, Boosting => mine' = mine
    PROVE  UNCHANGED Contract!contractVars
<1>1. ToldOf' = ToldOf
  BY DEF ToldOf
<1>2. OpenBoost' = OpenBoost
  BY DEF OpenBoost
<1>3. QED
  BY <1>1, <1>2 DEF Contract!contractVars

(* An answer closes the boost.                                              *)
LEMMA AnswersClose ==
    ASSUME TypeOK, HandOff, IndexAndSnapshots, Boosting, Done, UNCHANGED applied,
           NEW o \in Outcomes, EndsAs(o), NEW end,
           end = CASE o = "reconciled" -> "stored"
                   [] o \in {"rejected", "unwritten"} -> "refused"
                   [] o = "latched" -> "doubtful"
                   [] o \in {"exited", "unlatched"} -> "lost"
                   [] OTHER -> o
    PROVE  Contract!Closed(end)
<1>1. mine.id \in Ids /\ OpenBoost.id = mine.id /\ OpenBoost # Contract!Nothing
  BY OpenFacts
<1>2. ~Boosting'
  BY DEF Done, Boosting
<1>3. OpenBoost' = Contract!Nothing
  BY <1>2 DEF OpenBoost, Contract!Nothing, NoId, Unknown
<1>4. outcome' = [outcome EXCEPT ![mine.id] = o] /\ outcome \in [Ids -> Outcomes]
  BY DEF EndsAs, TypeOK, ClientTypeOK
<1>5. \A i \in Ids : outcome'[i] = IF i = mine.id THEN o ELSE outcome[i]
  BY <1>1, <1>4
<1>6. \A i \in Ids : ToldOf'[i] = IF i = mine.id THEN end ELSE ToldOf[i]
  BY <1>5 DEF ToldOf
<1>7. ToldOf' = [ToldOf EXCEPT ![mine.id] = end]
  BY <1>6 DEF ToldOf
<1>8. QED
  BY <1>1, <1>3, <1>7 DEF Contract!Closed

(* A scan becomes a snapshot.                                               *)
LEMMA PublishKeeps ==
    ASSUME TypeOK, HandOff, IndexAndSnapshots, Publish, UNCHANGED plugin
    PROVE  Contract!Next \/ UNCHANGED Contract!contractVars
<1>1. /\ appMode = "load" /\ appPc = "publish" /\ ~Boosting /\ ~Boosting'
      /\ UNCHANGED <<latched, outcome, applied>>
  BY DEF Publish, Done, Boosting, HandOff, CommandsAgree, plugin, history
<1>2. mine \in Requests /\ mine.id \in Ids /\ mine.kind = "dump"
  BY <1>1, RequestFacts DEF TypeOK, ClientTypeOK, HandOff, CommandsAgree
<1>3. CASE db' = db
  BY <1>1, <1>3, NothingIsTold
<1>4. CASE db' # db
  <2>1. db' = [db EXCEPT ![mine.id] = copy.ability]
    BY <1>4 DEF Publish
  <2>2. \A s \in Snapshots : s < mine.id
    BY <1>1 DEF IndexAndSnapshots, LoadsAreNew
  <2>3. mine.id \notin Snapshots
    BY <1>2, <2>2 DEF Ids
  <2>4. db[mine.id] = 0 /\ db \in [Ids -> Abilities \cup {Unknown}]
    BY <1>2, <2>3 DEF Snapshots, Unknown, TypeOK, ClientTypeOK
  <2>5. copy.ability \in Abilities \cup {Unknown} /\ copy.ability # 0
    BY <1>2, <1>4, <2>1, <2>4 DEF TypeOK, ClientTypeOK, Dumps
  <2>6. copy.ability \in 1..Cap
    BY <2>5 DEF Abilities, Unknown
  <2>7. outcome[mine.id] = "none"
    BY <1>2 DEF HandOff, KindsAgree, KindAgrees, Boosts
  <2>8. OpenBoost = Contract!Nothing /\ OpenBoost' = OpenBoost
    BY <1>1, OpenFacts DEF OpenBoost
  <2>9. ToldOf' = ToldOf
    BY <1>1 DEF ToldOf
  <2>10. Contract!Publish(mine.id, copy.ability)
    BY <1>1, <1>2, <2>1, <2>2, <2>7, <2>8, <2>9, OpenFacts DEF Contract!Publish
  <2>11. QED
    BY <1>2, <2>6, <2>10, OpenFacts DEF Contract!Next
<1>5. QED
  BY <1>3, <1>4

(* A boost is asked for.                                                    *)
LEMMA StartKeeps ==
    ASSUME TypeOK, HandOff, IndexAndSnapshots, NEW mode \in {"single", "squad"},
           StartBoost(mode), UNCHANGED plugin
    PROVE  Contract!Next
<1>1. /\ appPc = "idle" /\ nextId <= MaxId /\ current \in Snapshots \ latched
      /\ Target(db[current]) > db[current]
      /\ mine' = BoostRequest(nextId, current, db[current])
      /\ appMode' = mode /\ appPc' = "writeTemp"
      /\ outcome' = [outcome EXCEPT ![nextId] = "open"]
      /\ UNCHANGED <<db, latched, applied>>
  BY DEF StartBoost, plugin, history
<1>2. nextId \in Ids /\ current \in Ids
  BY <1>1, BridgeAssumption DEF TypeOK, FilesTypeOK, Ids, Snapshots
<1>3. outcome[nextId] = "none"
  BY <1>2, BridgeAssumption DEF HandOff, KindsAgree, Boosts, Ids
<1>4. nextId \notin Snapshots
  BY <1>2, BridgeAssumption DEF HandOff, PassedOn, IdsIssued, IndexAndSnapshots, SnapshotsAreFinished, Finished, Ids
<1>5. ~Boosting /\ Boosting'
  BY <1>1 DEF Boosting
<1>6. OpenBoost' = [id |-> nextId, source |-> current, expected |-> db[current]]
  BY <1>1, <1>5 DEF OpenBoost, BoostRequest
<1>7. \A i \in Ids : outcome'[i] = IF i = nextId THEN "open" ELSE outcome[i]
  BY <1>1, <1>2 DEF TypeOK, ClientTypeOK
<1>8. ToldOf' = [ToldOf EXCEPT ![nextId] = "open"]
  BY <1>7 DEF ToldOf
<1>9. Contract!Ask(nextId, current)
  BY <1>1, <1>2, <1>3, <1>4, <1>5, <1>6, <1>8, OpenFacts DEF Contract!Ask
<1>10. QED
  BY <1>2, <1>9, OpenFacts DEF Contract!Next

(* A boost is written: once, because nobody holds it a second time, and not *)
(* after a refusal, because a refused one is finished or nowhere.           *)
LEMMA WriteKeeps ==
    ASSUME TypeOK, HandOff, IndexAndSnapshots, ScansComeInOrder, WriteBoost, UNCHANGED client
    PROVE  Contract!Next \/ UNCHANGED Contract!contractVars
<1>1. /\ workPc = "write" /\ workReq \in BoostRequests /\ workReq.id \in Ids
      /\ UNCHANGED <<db, latched, outcome, mine, appPc, appMode>>
  BY DEF WriteBoost, TypeOK, PluginTypeOK, BoostLocations, BoostRequests, client
<1>2. OpenBoost' = OpenBoost /\ ToldOf' = ToldOf
  BY <1>1 DEF OpenBoost, ToldOf, Boosting
<1>3. CASE applied' = applied
  BY <1>1, <1>2, <1>3 DEF Contract!contractVars
<1>4. CASE applied' # applied
  <2>1. applied' = applied \cup {workReq.id}
    BY <1>4 DEF WriteBoost
  <2>2. workReq.id \notin applied
    BY <1>1 DEF HandOff, UnwrittenIsNotApplied
  <2>3. workReq.id \in Boosts /\ ~Finished(workReq.id) /\ workReq.id \in taken
    BY <1>1 DEF HandOff, KindsAgree, KindAgrees, BoostRequests, Finished, Active,
                PassedOn, ServedIsTaken
  <2>4. outcome[workReq.id] \in {"open", "latched", "exited", "unlatched"}
    <3>1. outcome[workReq.id] \in Outcomes
      BY <1>1 DEF TypeOK, ClientTypeOK
    <3>2. outcome[workReq.id] \notin {"none", "rejected", "reconciled", "unwritten"}
      BY <1>1, <2>3 DEF Boosts, HandOff, AnsweredIsFinished, RejectionIsFinal, UnwrittenIsNowhere,
                        IndexAndSnapshots, ReconciledIsFinal
    <3>3. QED
      BY <3>1, <3>2 DEF Outcomes
  <2>5. ASSUME outcome[workReq.id] = "open"
        PROVE  OpenBoost.id = workReq.id /\ \A s \in Snapshots : s <= OpenBoost.source
    <3>1. Boosting /\ mine.id = workReq.id
      BY <1>1, <2>5 DEF IndexAndSnapshots, OpenIsMine
    <3>2. index.source = workReq.source /\ workReq.source = mine.source /\ workReq.source \in Snapshots
      BY <1>1, <3>1 DEF IndexAndSnapshots, BoostsAreServed, BoostsKeepTheirTerms, TermsAreKept, BoostRequests
    <3>3. \A s \in Snapshots : s <= mine.source
      BY <3>2, StoreFacts DEF ScansComeInOrder, IndexIsAsNew, NoId
    <3>4. QED
      BY <3>1, <3>3, OpenFacts
  <2>6. Contract!Write(workReq.id)
    BY <1>1, <1>2, <2>1, <2>2, <2>4, <2>5, OpenFacts DEF Contract!Write
  <2>7. QED
    BY <1>1, <2>6, OpenFacts DEF Contract!Next
<1>5. QED
  BY <1>3, <1>4

(* Everything else the plugin does is no business of the contract.          *)
LEMMA PluginIsSilent ==
    ASSUME [Next]_vars, ~WriteBoost, UNCHANGED client
    PROVE  UNCHANGED Contract!contractVars
<1>1. applied' = applied
  BY OnlyWrites
<1>2. QED
  BY <1>1, NothingIsTold DEF client, Boosting

(* A command that is refused, stored, doubted or lost, and one that goes on.*)
LEMMA CommandKeeps ==
    ASSUME TypeOK, HandOff, IndexAndSnapshots, UNCHANGED plugin,
           \/ RenameFails \/ SeeDumpFailed \/ SeeBoostFailed \/ GiveUp
           \/ Reconcile \/ LatchRecovery \/ LatchFails \/ AppExit
    PROVE  Contract!Next \/ UNCHANGED Contract!contractVars
<1>1. applied' = applied
  BY DEF plugin, history
<1>2. appPc # "idle" => (appMode = "load" <=> ~Boosting)
  BY DEF TypeOK, ClientTypeOK, Boosting
<1>3. ASSUME Done, UNCHANGED <<db, latched, outcome>>, appMode = "load"
      PROVE  UNCHANGED Contract!contractVars
  <2>1. ~Boosting /\ ~Boosting'
    BY <1>3 DEF Done, Boosting
  <2>2. QED
    BY <1>1, <1>3, <2>1, NothingIsTold
<1>4. ASSUME Step("latch"), UNCHANGED <<db, latched, outcome>>, appPc # "idle"
      PROVE  UNCHANGED Contract!contractVars
  <2>1. (Boosting' <=> Boosting) /\ mine' = mine
    BY <1>4 DEF Step, Boosting
  <2>2. QED
    BY <1>1, <1>4, <2>1, NothingIsTold
<1>5. ASSUME Boosting, Done, NEW o \in {"rejected", "unwritten"}, EndsAs(o),
             UNCHANGED <<db, latched>>, mine.id \notin applied
      PROVE  Contract!Next
  <2>1. Contract!Closed("refused")
    BY <1>1, <1>5, AnswersClose DEF Outcomes
  <2>2. Contract!Refuse
    BY <1>5, <2>1, OpenFacts DEF Contract!Refuse
  <2>3. QED
    BY <2>2 DEF Contract!Next
<1>6. CASE RenameFails
  <2>1. appPc = "rename" /\ UNCHANGED <<db, latched>>
    BY <1>6 DEF RenameFails
  <2>2. mine.id \notin applied
    BY <2>1 DEF HandOff, PassedOn, UnsentIsNowhere, UnwrittenIsNotApplied
  <2>3. CASE appMode = "load"
    BY <1>3, <1>6, <2>1, <2>3 DEF RenameFails
  <2>4. CASE appMode = "squad"
    BY <1>4, <1>6, <2>1, <2>4 DEF RenameFails, FailAs
  <2>5. CASE appMode \notin {"load", "squad"}
    BY <1>2, <1>5, <1>6, <2>1, <2>2, <2>5 DEF RenameFails, FailAs
  <2>6. QED
    BY <2>3, <2>4, <2>5
<1>7. CASE SeeDumpFailed
  BY <1>3, <1>7 DEF SeeDumpFailed
<1>8. CASE SeeBoostFailed
  <2> DEFINE marks == \/ status.verdict = "uncertain"
                      \/ status.verdict = "rejected" /\ appMode = "squad"
  <2>1. /\ appPc = "wait" /\ status.id = mine.id /\ status.state = "failed" /\ appMode # "load"
        /\ UNCHANGED <<db, latched>> /\ FailAs("rejected", marks)
    BY <1>8 DEF SeeBoostFailed, Answered
  <2>2. Boosting
    BY <1>2, <2>1
  <2>3. CASE marks
    BY <1>4, <2>1, <2>3 DEF FailAs
  <2>4. CASE ~marks
    <3>1. status.verdict \in Verdicts
      BY StatusFacts DEF TypeOK, FilesTypeOK
    <3>2. mine.id \in Boosts
      BY <2>2, OpenFacts DEF Boosts
    <3>3. status.verdict \in {"liveValue", "rejected"}
      BY <2>1, <2>4, <3>1, <3>2 DEF Verdicts, HandOff, UnwrittenIsNotApplied
    <3>4. mine.id \notin applied
      BY <2>1, <3>3 DEF HandOff, UnwrittenIsNotApplied
    <3>5. Done /\ EndsAs("rejected")
      BY <2>1, <2>4 DEF FailAs
    <3>6. QED
      BY <1>5, <2>1, <2>2, <3>4, <3>5
  <2>5. QED
    BY <2>3, <2>4
<1>9. CASE GiveUp
  <2>1. appPc = "wait" /\ UNCHANGED <<db, latched, outcome>>
        /\ IF appMode = "load" THEN Done ELSE Step("latch")
    BY <1>9 DEF GiveUp
  <2>2. CASE appMode = "load"
    BY <1>3, <2>1, <2>2
  <2>3. CASE appMode # "load"
    BY <1>4, <2>1, <2>3
  <2>4. QED
    BY <2>2, <2>3
<1>10. CASE Reconcile
  <2>1. /\ appPc = "reconcile" /\ verified = Target(mine.expected)
        /\ db[mine.source] = mine.expected
        /\ db' = [db EXCEPT ![mine.source] = verified]
        /\ Done /\ EndsAs("reconciled") /\ latched' = latched
    BY <1>10 DEF Reconcile
  <2>2. Boosting
    BY <2>1 DEF TypeOK, ClientTypeOK, Boosting
  <2>3. mine.id \in applied
    BY <2>1 DEF IndexAndSnapshots, VerifiedIsApplied
  <2>4. Contract!Closed("stored")
    BY <1>1, <2>1, <2>2, AnswersClose DEF Outcomes
  <2>5. Contract!Store
    BY <2>1, <2>2, <2>3, <2>4, OpenFacts DEF Contract!Store
  <2>6. QED
    BY <2>5 DEF Contract!Next
<1>11. CASE LatchRecovery
  <2>1. /\ appPc = "latch" /\ latched' = latched \cup {mine.source}
        /\ Done /\ EndsAs("latched") /\ db' = db
    BY <1>11 DEF LatchRecovery
  <2>2. Boosting
    BY <2>1 DEF TypeOK, ClientTypeOK, Boosting
  <2>3. Contract!Closed("doubtful")
    BY <1>1, <2>1, <2>2, AnswersClose DEF Outcomes
  <2>4. Contract!Doubt
    BY <2>1, <2>2, <2>3, OpenFacts DEF Contract!Doubt
  <2>5. QED
    BY <2>4 DEF Contract!Next
<1>12. ASSUME NEW o \in {"exited", "unlatched"}, Boosting, Done, EndsAs(o),
              UNCHANGED <<db, latched>>, "appExits" \in Faults \/ "latchFails" \in Faults
       PROVE  Contract!Next
  <2>1. Contract!Closed("lost")
    BY <1>1, <1>12, AnswersClose DEF Outcomes
  <2>2. Contract!Lose
    BY <1>12, <2>1 DEF Contract!Lose
  <2>3. QED
    BY <2>2 DEF Contract!Next
<1>13. CASE LatchFails
  <2>1. Boosting
    BY <1>13 DEF LatchFails, TypeOK, ClientTypeOK, Boosting
  <2>2. QED
    BY <1>12, <1>13, <2>1 DEF LatchFails
<1>14. CASE AppExit
  <2>1. CASE Boosting
    BY <1>12, <1>14, <2>1 DEF AppExit
  <2>2. CASE ~Boosting
    BY <1>2, <1>3, <1>14, <2>2 DEF AppExit
  <2>3. QED
    BY <2>1, <2>2
<1>15. QED
  BY <1>6, <1>7, <1>8, <1>9, <1>10, <1>11, <1>13, <1>14

(* A command that only goes from one statement to the next.                 *)
LEMMA GoingOnIsSilent ==
    ASSUME TypeOK, UNCHANGED plugin,
           \/ WriteTemp \/ RenameTemp \/ SeeDumpReady \/ SeeBoostReady \/ CopyDump
           \/ Recheck \/ ReconcileFails \/ StartLoad \/ SelectSnapshot,
           HandOff
    PROVE  UNCHANGED Contract!contractVars
<1>1. UNCHANGED <<db, latched, outcome, applied>>
  BY DEF plugin, history, WriteTemp, RenameTemp, SeeDumpReady, SeeBoostReady, CopyDump,
         Recheck, ReconcileFails, StartLoad, SelectSnapshot
<1>2. (Boosting' <=> Boosting) /\ (Boosting => mine' = mine)
  BY DEF Boosting, Step, Done, Answered, WriteTemp, RenameTemp, SeeDumpReady, SeeBoostReady, CopyDump,
         Recheck, ReconcileFails, StartLoad, SelectSnapshot, HandOff, CommandsAgree,
         TypeOK, ClientTypeOK
<1>3. QED
  BY <1>1, <1>2, NothingIsTold

(* Every step of the session is a step of the contract, or none.            *)
LEMMA StepKeepsContract ==
    ASSUME TypeOK, HandOff, IndexAndSnapshots, ScansComeInOrder, [Next]_vars
    PROVE  Contract!Next \/ UNCHANGED Contract!contractVars
<1>1. CASE UNCHANGED client
  <2>1. CASE WriteBoost
    BY <1>1, <2>1, WriteKeeps
  <2>2. CASE ~WriteBoost
    BY <1>1, <2>2, PluginIsSilent
  <2>3. QED
    BY <2>1, <2>2
<1>2. CASE UNCHANGED plugin /\ ClientStep
  <2>1. CASE Publish
    BY <1>2, <2>1, PublishKeeps
  <2>2. CASE StartBoost("single") \/ StartBoost("squad")
    BY <1>2, <2>2, StartKeeps
  <2>3. CASE \/ RenameFails \/ SeeDumpFailed \/ SeeBoostFailed \/ GiveUp
             \/ Reconcile \/ LatchRecovery \/ LatchFails \/ AppExit
    BY <1>2, <2>3, CommandKeeps
  <2>4. CASE \/ WriteTemp \/ RenameTemp \/ SeeDumpReady \/ SeeBoostReady \/ CopyDump
             \/ Recheck \/ ReconcileFails \/ StartLoad \/ SelectSnapshot
    BY <1>2, <2>4, GoingOnIsSilent
  <2>5. QED
    BY <1>2, <2>1, <2>2, <2>3, <2>4 DEF ClientStep, CommandStep
<1>3. QED
  BY <1>1, <1>2 DEF Next, PluginActs, ClientActs, vars

(* The files, the two threads of the plugin and the commands of the app     *)
(* keep the contract of a boost: FM is changed at most once by it, for the  *)
(* newest snapshot, and what the user is told and the snapshot shows is     *)
(* what happened (Plugin.cs, commands.rs execute_player_boost_with).        *)
THEOREM ContractIsKept == FilesAreReliable /\ Spec => KeepsContract
<1>1. Init => Contract!Init
  <2> SUFFICES ASSUME Init PROVE Contract!Init
    OBVIOUS
  <2>1. /\ db = [i \in Ids |-> 0] /\ latched = {} /\ applied = {}
        /\ outcome = [i \in Ids |-> "none"] /\ ~Boosting
    BY DEF Init, ClientInit, PluginInit, Boosting, Unknown
  <2>2. OpenBoost = Contract!Nothing /\ ToldOf = [i \in Ids |-> "none"] /\ Contract!Ids = Ids
    BY <2>1 DEF OpenBoost, ToldOf, Contract!Nothing, NoId, Unknown, Contract!Ids, Ids
  <2>3. QED
    BY <2>1, <2>2 DEF Contract!Init
<1>2. TypeOK /\ HandOff /\ IndexAndSnapshots /\ ScansComeInOrder /\ [Next]_vars
          => [Contract!Next]_(Contract!contractVars)
  BY StepKeepsContract
<1>3. FilesAreReliable /\ Spec => []HandOff
  BY RequestsAreHandedOff
<1>4. QED
  BY <1>1, <1>2, <1>3, TypeCorrect, IndexIsFollowed, PTL DEF Spec, KeepsContract, Contract!Spec
=============================================================================
