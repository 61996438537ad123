---------------------------- MODULE BridgeHandOff ----------------------------
(***************************************************************************)
(* Why a request is served once: the inductive invariant of the bridge     *)
(* session when request.json can be deleted and its temporary file is not  *)
(* shared.  It follows one request id from the command that made it,       *)
(* through request.json and the poll thread, to the work thread and the    *)
(* status that answers it.  On top of that, why the live index and the     *)
(* snapshots agree, and why no boost is for an old snapshot.               *)
(***************************************************************************)
EXTENDS BridgeSession

FilesAreReliable == "deleteFails" \notin Faults /\ "sharedTemp" \notin Faults

Active == workPc \notin {"off", "exit"}

(* The request with id i has been judged and nobody will act on it again.   *)
Finished(i) ==
    /\ i \in taken
    /\ ~(pollPc \in {"enter", "reject"} /\ pollSeen.id = i)
    /\ ~(Active /\ workReq.id = i)

-----------------------------------------------------------------------------
(* Ids come from one counter.                                               *)
IdsIssued ==
    /\ request.id < nextId /\ temp.id < nextId /\ pollSeen.id < nextId
    /\ workReq.id < nextId /\ mine.id < nextId /\ status.id < nextId
    /\ \A i \in taken : i < nextId

(* An id names a boost from the start or never.                             *)
Boosts == {i \in Ids : outcome[i] # "none"}
KindAgrees(r) == r.kind # "none" => (r.kind = "boost" <=> r.id \in Boosts)
KindsAgree ==
    /\ KindAgrees(request) /\ KindAgrees(temp) /\ KindAgrees(pollSeen)
    /\ KindAgrees(workReq) /\ KindAgrees(mine)
    /\ \A i \in Boosts : i < nextId

(* The locations of each thread and what it holds there.                    *)
CommandsAgree ==
    /\ appPc # "idle" => (appMode = "load") = (mine.kind = "dump")
    /\ appPc \in {"copy", "recheck", "publish"} => appMode = "load"
    /\ appPc # "idle" /\ appMode # "load" => outcome[mine.id] = "open"
WorkAgrees ==
    /\ busy = (workPc # "off")
    /\ workPc \in DumpLocations => workReq.kind = "dump"
    /\ pollPc \in {"delete", "reject", "enter"} => ~busy
    /\ workPc = "reportBoost" => workVerdict # "none"

(* The temporary file belongs to whoever is between writing and renaming it.*)
TempIsOwned ==
    /\ ~(pollPc = "moveTemp" /\ appPc = "rename")
    /\ appPc = "rename" => temp = mine
    /\ pollPc = "moveTemp" => temp = Refreshed(pollSeen)

(* A request is unsent, then waiting, then taken.                           *)
UnsentIsNowhere ==
    appPc \in {"writeTemp", "rename"} =>
        mine.id \notin taken /\ mine.id # request.id /\ mine.id # pollSeen.id
WaitingIsNotTaken ==
    /\ request.id \notin taken
    /\ pollPc \in {"delete", "writeTemp", "moveTemp"} => pollSeen.id \notin taken
ServedIsTaken ==
    /\ pollPc \in {"enter", "reject"} => pollSeen.id \in taken
    /\ workPc # "off" => workReq.id \in taken

PassedOn ==
    /\ IdsIssued
    /\ WorkAgrees
    /\ TempIsOwned
    /\ UnsentIsNowhere
    /\ WaitingIsNotTaken
    /\ ServedIsTaken

(* Whoever holds an answer to a request holds the only one.                 *)
StatusIsFinal == Terminal(status) => Finished(status.id)
ScanIsFinal == appPc \in {"copy", "recheck", "publish"} => Finished(mine.id)
RejectionIsFinal == \A i \in Ids : outcome[i] = "rejected" => Finished(i)
UnwrittenIsNowhere ==
    \A i \in Ids : outcome[i] = "unwritten" =>
        i \notin taken /\ i # request.id /\ i # pollSeen.id
AnsweredIsFinished ==
    /\ StatusIsFinal
    /\ ScanIsFinal
    /\ RejectionIsFinal
    /\ UnwrittenIsNowhere

(* A ready status of a scan speaks of the dump that is there.               *)
ReadyIsThisDump ==
    /\ status.state = "ready" => status.verdict \in {"none", "verified"}
    /\ status.state = "ready" /\ status.verdict = "none" => dump.by = status.id
    /\ status.state = "ready" /\ status.verdict = "verified" => status.id \in Boosts
    /\ workPc \in {"scan", "replaceDump"} => ~Terminal(status)
    /\ workPc \in {"install", "reportDump"} => dump.by = workReq.id
    /\ appPc = "recheck" /\ status.state = "ready" /\ status.id = mine.id
           => copy.by = mine.id

(* What is said not to have been written has not been.                      *)
UnwrittenIsNotApplied ==
    /\ applied \subseteq taken \cap Boosts
    /\ pollPc \in {"enter", "reject"} => pollSeen.id \notin applied
    /\ workPc \in {"beginBoost", "check", "reread", "write"}
           => workReq.id \notin applied
    /\ workPc = "reportBoost" /\ workVerdict \in {"liveValue", "rejected"}
           => workReq.id \notin applied
    /\ status.state = "failed" /\ status.verdict \in {"liveValue", "rejected"}
           => status.id \notin applied
    /\ status.state = "failed" /\ status.verdict = "none" => status.id \notin Boosts
    /\ status.state = "failed" => status.verdict # "verified"

(* Only the failures of an instance disown a boost.                         *)
OutcomesHaveCauses ==
    \A i \in Ids :
        /\ outcome[i] = "exited" => "appExits" \in Faults
        /\ outcome[i] = "unlatched" => "latchFails" \in Faults

(* A request is handed from the app to the poll thread, from there to the   *)
(* work thread, and back in one status, without ever being in two hands     *)
(* (service.rs write_player_dump_request, RequestAcceptance.TryAccept).     *)
HandOff ==
    /\ PassedOn
    /\ KindsAgree
    /\ CommandsAgree
    /\ AnsweredIsFinished
    /\ ReadyIsThisDump
    /\ UnwrittenIsNotApplied
    /\ OutcomesHaveCauses
    /\ CaptureOwnDump
    /\ RefusedNotApplied

-----------------------------------------------------------------------------
(* Why the index and the snapshots agree.  It follows one scan from the     *)
(* dump it wrote to the index and the snapshot made of it, and one boost    *)
(* from the snapshot it was prepared from to the two it changes.            *)

(* A boost keeps the terms it was made with, as long as they matter.        *)
TermsAreKept(r) ==
    r.kind = "boost" =>
        /\ r.source \in Snapshots
        /\ Boosting /\ r.id = mine.id
               => r.source = mine.source /\ r.expected = mine.expected
        /\ outcome[r.id] = "latched" => r.source \in latched
BoostsKeepTheirTerms ==
    /\ TermsAreKept(request) /\ TermsAreKept(pollSeen)
    /\ TermsAreKept(workReq) /\ TermsAreKept(mine)

(* The command's own boost is the only open one; a reconciled one is over.  *)
OpenIsMine == \A i \in Ids : outcome[i] = "open" => Boosting /\ mine.id = i
ReconciledIsFinal ==
    /\ \A i \in Ids : outcome[i] = "reconciled" => Finished(i)
    /\ appPc = "reconcile" => Finished(mine.id)
VerifiedIsApplied ==
    /\ workPc = "reportBoost" /\ workVerdict = "verified" => workReq.id \in applied
    /\ status.state = "ready" /\ status.id \in Boosts => status.id \in applied
    /\ appPc = "reconcile" => mine.id \in applied

(* A scan that is in the dump, in its copy, in the index or in a snapshot   *)
(* is not made a second time.                                               *)
ScannedOnce(i, todo) ==
    i # NoId =>
        /\ i \in taken \ Boosts
        /\ ~(pollPc \in {"enter", "reject"} /\ pollSeen.id = i)
        /\ ~(workPc \in todo /\ workReq.id = i)
ScansAreMadeOnce ==
    /\ ScannedOnce(dump.by, {"beginDump", "scan", "replaceDump"})
    /\ ScannedOnce(copy.by, {"beginDump", "scan", "replaceDump"})
    /\ ScannedOnce(index.source, {"beginDump", "scan", "replaceDump", "install"})
SnapshotsAreFinished == \A s \in Snapshots : Finished(s) /\ s \notin Boosts
LoadsAreNew ==
    appPc # "idle" /\ appMode = "load" => \A s \in Snapshots : s < mine.id

(* Until it is published a scan is the same in the dump and in the index.   *)
OfOneScan(d) ==
    d.by # NoId /\ d.by \notin Snapshots =>
        /\ index.source = d.by => index.ability = d.ability
        /\ workPc = "install" /\ workReq.id = d.by => workAbility = d.ability
DumpAgrees ==
    /\ OfOneScan(dump) /\ OfOneScan(copy)
    /\ workPc = "install" => dump.by = workReq.id

(* From the lookup to the write the index is what the boost expects; after  *)
(* a verified write it is one boost ahead of the snapshot.                  *)
BoostsAreServed ==
    workPc \in {"reread", "write"} =>
        index.source = workReq.source /\ index.ability = workReq.expected
IndexFollows(s) ==
    index.ability = IF Boosting /\ mine.source = s /\ mine.id \in applied
                       THEN Target(mine.expected) ELSE db[s]
IndexAgrees ==
    \A s \in Snapshots \ latched :
        index.source = s /\ Disowned = {} => IndexFollows(s)

IndexAndSnapshots ==
    /\ BoostsKeepTheirTerms
    /\ OpenIsMine
    /\ ReconciledIsFinal
    /\ VerifiedIsApplied
    /\ ScansAreMadeOnce
    /\ SnapshotsAreFinished
    /\ LoadsAreNew
    /\ DumpAgrees
    /\ BoostsAreServed
    /\ IndexAgrees

-----------------------------------------------------------------------------
(* Why a boost is never for an old snapshot: scans that can still be made   *)
(* are younger than those published, although ids are not served in order.  *)
NoneIsOlder(s) ==
    /\ Active /\ workReq.kind = "dump" => s <= workReq.id
    /\ pollPc # "idle" /\ pollSeen.kind = "dump" => s <= pollSeen.id
    /\ request.kind = "dump" => s <= request.id
IndexIsAsNew(s) == index.source # NoId => s <= index.source
ScanIsIn ==
    /\ appPc # "idle" /\ appMode = "load"
    /\ \/ appPc \in {"copy", "recheck", "publish"}
       \/ status.state = "ready" /\ status.id = mine.id

ScansComeInOrder ==
    /\ \A s \in Snapshots : NoneIsOlder(s) /\ IndexIsAsNew(s)
    /\ appPc # "idle" /\ appMode = "load" /\ mine.id \in taken => NoneIsOlder(mine.id)
    /\ ScanIsIn => IndexIsAsNew(mine.id)
    /\ workPc = "reportDump" => index.source \in {NoId, workReq.id}
=============================================================================
