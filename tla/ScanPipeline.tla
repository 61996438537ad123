---------------------------- MODULE ScanPipeline ----------------------------
(***************************************************************************)
(* From the request to the dump: a scan of the game's own memory, one more *)
(* of a clone of it when too much could not be read, the reading of every  *)
(* candidate, the choice of the manager, the document that replaces the    *)
(* dump, and the addresses that boosts may write to afterwards.            *)
(***************************************************************************)
EXTENDS PersonScan

VARIABLES
    stage,    \* where CapADumpPipeline.Run is
    source,   \* what is read: the game's own memory, or the clone
    unloaded, \* the plugin is asked to stop
    document, \* what is to be written
    dump,     \* the dump file, or Nowhere for the one there was
    live      \* the candidates whose addresses are kept for boosts

pipelineVars == <<stage, source, unloaded, document, dump, live>>
vars == <<scanVars, pipelineVars>>

Init ==
    /\ heap \in Heaps
    /\ moves = 0 /\ lost = 0 /\ token = FALSE
    /\ workers = <<>> /\ totals = NoQuality /\ result = Nowhere
    /\ stage = "begin" /\ source = "live" /\ unloaded = FALSE
    /\ document = Nowhere /\ dump = Nowhere /\ live = {}

Fail ==
    /\ stage' = "failed"
    /\ UNCHANGED <<scanVars, source, unloaded, document, dump, live>>

-----------------------------------------------------------------------------
(* A game whose version has no layout is not scanned.                       *)
Begin ==
    /\ stage = "begin"
    /\ \/ Fail
       \/ /\ StartWorkers(unloaded)
          /\ stage' = "scan"
          /\ UNCHANGED <<heap, source, unloaded, document, dump, live>>

(* What one worker found, or what it threw, when all of them have ended.    *)
EndScan ==
    /\ stage = "scan" /\ AllEnded
    /\ \/ AnyFailed /\ Fail
       \/ /\ MergeWorkers
          /\ stage' = "judge"
          /\ UNCHANGED <<source, unloaded, document, dump, live>>

Incomplete == MateriallyIncomplete(result.quality)

(* A clone of the memory is taken if there is room for it, and only once.   *)
RetryOnClone ==
    /\ source' = "clone"
    /\ StartWorkers(unloaded)
    /\ stage' = "scan"
    /\ UNCHANGED <<heap, unloaded, document, dump, live>>

Judge ==
    /\ stage = "judge"
    /\ \/ result.cancelled /\ Fail
       \/ /\ ~result.cancelled /\ Incomplete
          /\ \/ Fail
             \/ source = "live" /\ RetryOnClone
       \/ /\ ~result.cancelled /\ ~Incomplete
          /\ unloaded \/ result.players = {}
          /\ Fail
       \/ /\ ~result.cancelled /\ ~Incomplete
          /\ ~unloaded /\ result.players # {}
          /\ stage' = "extract"
          /\ UNCHANGED <<scanVars, source, unloaded, document, dump, live>>

(* Mutant: any manager the scan found.                                      *)
AnyManager(staff, named) == result.managers

(* HumanManagerSelector: a manager is one of the staff and has a name; whom *)
(* the clubs prefer is the matter of SquadIndex.                            *)
Selectable(staff, named) ==
    {m \in result.managers : m.uid \in {c.uid : c \in staff \cap named}}

Manager(staff, named) ==
    IF Selectable(staff, named) = {} THEN {Nowhere} ELSE Selectable(staff, named)

Drafted == {c \in result.staff : c.uid \notin {p.uid : p \in result.players}}

(* A player whose name or birth cannot be read is left out; a member of the *)
(* staff stays, with or without a name.                                     *)
Extract ==
    /\ stage = "extract"
    /\ \/ unloaded /\ Fail
       \/ \E identified \in SUBSET result.players, named \in SUBSET Drafted :
            \/ identified = {} /\ Fail
            \/ /\ identified # {} /\ ~unloaded
               /\ \E manager \in Manager(Drafted, named) :
                     document' = [players |-> identified, staff |-> Drafted,
                                  named |-> named, manager |-> manager]
               /\ stage' = "write"
               /\ UNCHANGED <<scanVars, source, unloaded, dump, live>>

(* The document replaces the dump, unless the write fails; the diagnostics  *)
(* that are written after it may fail too.                                  *)
Kept == IF source = "live" THEN document.players \cup document.staff ELSE {}

Write ==
    /\ stage = "write"
    /\ \/ Fail
       \/ /\ ~unloaded
          /\ dump' = document
          /\ \/ stage' = "done" /\ live' = Kept
             \/ stage' = "failed" /\ UNCHANGED live
          /\ UNCHANGED <<scanVars, source, unloaded, document>>

(* The plugin is unloaded: every stage looks at the token.                  *)
Unload ==
    /\ ~unloaded /\ stage \notin {"begin", "done", "failed"}
    /\ unloaded' = TRUE
    /\ token' = (token \/ stage = "scan")
    /\ UNCHANGED <<heap, moves, lost, workers, totals, result>>
    /\ UNCHANGED <<stage, source, document, dump, live>>

Scan == stage = "scan" /\ WorkerStep /\ UNCHANGED pipelineVars
Move == stage = "scan" /\ source = "live" /\ MoveMemory /\ UNCHANGED pipelineVars

PipelineStep == Begin \/ Scan \/ EndScan \/ Judge \/ Extract \/ Write
Ended == stage \in {"done", "failed"} /\ UNCHANGED vars
Next == PipelineStep \/ Move \/ Unload \/ Ended

Spec == Init /\ [][Next]_vars
(* The thread of the scan and its workers go on; no failure is promised.    *)
ScanGoesOn == stage = "scan" /\ WorkerGoesOn /\ UNCHANGED pipelineVars
FairSpec == Spec /\ WF_vars(Begin \/ ScanGoesOn \/ EndScan \/ Judge \/ Extract \/ Write)

-----------------------------------------------------------------------------
(* What a scan of memory that stays as it is has to find, whatever the size *)
(* of the blocks and the number of workers: every object of a region with a *)
(* header that can be read, by UID the one at the lowest address, and every *)
(* word of the regions counted once.                                        *)
Scannable == {i \in DOMAIN Regions : Regions[i].size >= Header}
Within(word, i) == Regions[i].base <= word /\ word < EndOf(Regions[i])
Readable ==
    {a \in DOMAIN heap.objects :
        \E i \in Scannable : \A word \in a..(a + Header - 1) :
            Within(word, i) /\ word \notin heap.holes}
LowestOf(facets, included(_)) ==
    {[uid |-> heap.objects[a].uid, at |-> a] :
        a \in {x \in Readable :
                 /\ heap.objects[x].facet \in facets /\ included(x)
                 /\ \A y \in Readable :
                       (/\ heap.objects[y].facet \in facets /\ included(y)
                        /\ heap.objects[y].uid = heap.objects[x].uid) => x <= y}}
Whoever(a) == TRUE
InScope(a) == heap.objects[a].included

Undisturbed == result # Nowhere /\ ~result.cancelled /\ moves = 0 /\ lost = 0

EverybodyIsFound ==
    Undisturbed =>
        /\ result.players = LowestOf({"player"}, InScope)
        /\ result.managers = LowestOf({"manager"}, Whoever)
        /\ result.staff = {c \in LowestOf({"staff", "manager"}, Whoever) :
                              c.uid \notin {p.uid : p \in result.players}}
        /\ result.clubs = {a \in Readable : heap.objects[a].facet = "club"}

WordsAreCountedOnce ==
    Undisturbed =>
        /\ result.quality.requested = MapThenSumSet(LAMBDA i : Regions[i].size, Scannable)
        /\ result.quality.unread =
              Cardinality({word \in heap.holes : \E i \in Scannable : Within(word, i)})

ScanIsComplete == EverybodyIsFound /\ WordsAreCountedOnce

(* The dump that is written is one the app accepts, whatever the memory did *)
(* during the scan: there are players, no UID is listed twice, none is both *)
(* a player and of the staff, and the manager is of the staff and has a     *)
(* name.  It rests on a scan that read nine tenths of the memory.  Boosts   *)
(* know the addresses of its people only if these are the game's own.       *)
Distinct(people) == \A p, q \in people : p.uid = q.uid => p = q
DumpIsAccepted ==
    /\ dump # Nowhere =>
          /\ dump.players # {}
          /\ Distinct(dump.players \cup dump.staff)
          /\ dump.players \cap dump.staff = {}
          /\ dump.manager # Nowhere =>
                \E c \in dump.staff \cap dump.named : c.uid = dump.manager.uid
          /\ result.quality.unread * 10 <= result.quality.requested
    /\ live # {} => source = "live" /\ live = dump.players \cup dump.staff

(* Every scan ends: the last blocks of a region are no larger than what two *)
(* blocks share, and yet each one goes on.                                  *)
EveryScanEnds == stage # "begin" ~> stage \in {"done", "failed"}
=============================================================================
