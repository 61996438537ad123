---------------------------- MODULE BridgeFiles ----------------------------
(***************************************************************************)
(* The directory through which the desktop app and the FM plugin talk:     *)
(* request.json and the temporary file both sides write before they rename *)
(* it, status.json, dump.json and the force-scan flag.  A file is the      *)
(* record of what its reader takes from it.  Request ids are unique on     *)
(* both sides (a clock, a sequence number or a GUID), so they are drawn    *)
(* from one counter.                                                       *)
(***************************************************************************)
EXTENDS Naturals

CONSTANTS MaxId,      \* bound: how many requests a behaviour makes
          Cap,        \* the highest ability: min(potential, 200)
          Increment,  \* what one boost adds
          Faults      \* the optional failures this instance lets happen

(* FM stopped and started again, the app closed in the middle of a command, *)
(* a recovery mark that cannot be stored, a delete of request.json that     *)
(* fails, and the two sides using the request's temporary file at once.     *)
FaultKinds == {"fmStops", "appExits", "latchFails", "deleteFails", "sharedTemp"}

ASSUME BridgeAssumption ==
    /\ MaxId \in Nat
    /\ Cap \in Nat \ {0}
    /\ Increment \in Nat \ {0}
    /\ Faults \subseteq FaultKinds

VARIABLES
    request,    \* request.json
    temp,       \* request.json.tmp
    status,     \* status.json
    dump,       \* dump.json
    forceFlag,  \* is the force-scan flag there?
    nextId      \* the next request id

files == <<request, temp, status, dump, forceFlag, nextId>>

Ids == 1..MaxId
NoId == 0
Abilities == 1..Cap
Unknown == 0

(* The value a boost aims at: ability + increment, never above the cap.     *)
Target(a) == IF a + Increment <= Cap THEN a + Increment ELSE Cap

(* A request names, for a boost, the scan its snapshot came from and the    *)
(* ability the snapshot shows; fresh says createdAtUtc is within the TTL.   *)
DumpRequests == [id: Ids, kind: {"dump"}, source: {NoId}, expected: {Unknown},
                 fresh: BOOLEAN]
BoostRequests == [id: Ids, kind: {"boost"}, source: Ids, expected: Abilities,
                  fresh: BOOLEAN]
Requests == DumpRequests \cup BoostRequests
NoRequest == [id |-> NoId, kind |-> "none", source |-> NoId,
              expected |-> Unknown, fresh |-> FALSE]
DumpRequest(i) == [id |-> i, kind |-> "dump", source |-> NoId,
                   expected |-> Unknown, fresh |-> TRUE]
BoostRequest(i, s, a) == [id |-> i, kind |-> "boost", source |-> s,
                          expected |-> a, fresh |-> TRUE]
Refreshed(r) == [r EXCEPT !.fresh = TRUE]
Expired(r) == [r EXCEPT !.fresh = FALSE]

(* The verdict is what the app makes of the boost result and the error of a *)
(* terminal status: a verified result; a live value that differed; any      *)
(* other failure known to have left FM as it was; anything else.            *)
Verdicts == {"none", "verified", "liveValue", "rejected", "uncertain"}
Statuses == [state: {"idle", "scanning", "ready", "failed"},
             id: Ids \cup {NoId}, boosts: BOOLEAN, verdict: Verdicts,
             ability: Abilities \cup {Unknown}]
Status(st, i, b, v, a) == [state |-> st, id |-> i, boosts |-> b,
                           verdict |-> v, ability |-> a]
Terminal(st) == st.state \in {"ready", "failed"}

Dumps == [by: Ids \cup {NoId}, ability: Abilities \cup {Unknown}]

FilesTypeOK ==
    /\ request \in Requests \cup {NoRequest}
    /\ temp \in Requests \cup {NoRequest}
    /\ status \in Statuses
    /\ dump \in Dumps
    /\ forceFlag \in BOOLEAN
    /\ nextId \in 1..(MaxId + 1)

(* The plugin has just loaded over an empty directory.                      *)
FilesInit ==
    /\ request = NoRequest
    /\ temp = NoRequest
    /\ status = Status("idle", NoId, FALSE, "none", Unknown)
    /\ dump = [by |-> NoId, ability |-> Unknown]
    /\ forceFlag = FALSE
    /\ nextId = 1

-----------------------------------------------------------------------------
(* RequestTtlSeconds pass over the request that is waiting.                 *)
RequestExpires ==
    /\ request.fresh
    /\ request' = Expired(request)
    /\ UNCHANGED <<temp, status, dump, forceFlag, nextId>>

(* An operator asks for a scan by hand.                                     *)
ForceScan ==
    /\ ~forceFlag
    /\ forceFlag' = TRUE
    /\ UNCHANGED <<request, temp, status, dump, nextId>>
=============================================================================
