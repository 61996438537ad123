----------------------------- MODULE PersonScan -----------------------------
(***************************************************************************)
(* The scan of the game's memory for players, staff, managers and clubs.   *)
(* Workers walk their share of the regions block by block, each looking at *)
(* every word as the beginning of an object; their results are merged when *)
(* all of them have ended.  They share the token that cancels them all and *)
(* the memory, which the game may change while they read.                  *)
(*                                                                         *)
(* An address counts words of eight bytes; regions are of whole pages and  *)
(* so begin at a word.  An object is what the checks behind its header say *)
(* it is: its facet by the class offset, its UID, and whether the database *)
(* scope includes it; what fails a check is not an object.                 *)
(***************************************************************************)
EXTENDS Integers, Sequences, FiniteSets, FiniteSetsExt

CONSTANTS Header,   \* words that must be read to know an object
          Block,    \* words read at once
          Regions,  \* the candidate regions, as base and size
          Heaps,    \* what the memory may hold: objects by address, holes
          MaxMoves, \* bound: changes of the memory during a scan
          MaxLost,  \* bound: blocks whose read fails as a whole
          Nowhere

ASSUME ScanAssumption ==
    Header \in Nat \ {0} /\ Block \in Nat /\ Block > Header
\* They are enumerated upwards, and none begins before the last has ended.
ASSUME RegionsAssumption ==
    /\ Regions \in Seq([base : Nat, size : Nat])
    /\ \A i, j \in DOMAIN Regions : i < j => Regions[i].base + Regions[i].size <= Regions[j].base
ASSUME HeapsAssumption ==
    \A h \in Heaps : DOMAIN h.objects \subseteq Nat /\ h.holes \subseteq Nat
\* Nowhere stands for no address at all.
ASSUME NowhereAssumption == Nowhere \notin Nat

VARIABLES
    heap,    \* the memory that is read
    moves,   \* changes of the memory during this scan
    lost,    \* blocks lost during this scan
    token,   \* the workers are asked to stop
    workers, \* each worker: what is left to do, what it found
    totals,  \* the words requested and unread: each worker counts its own,
             \* and nobody reads but the sum
    result   \* the merged result, or Nowhere

scanVars == <<heap, moves, lost, token, workers, totals, result>>

-----------------------------------------------------------------------------
(* ScanWorkerPolicy: no more workers than regions, than processors but one, *)
(* than eight; two when memory is low.                                      *)
MaximumWorkerCount == 8
LowMemoryWorkerCount == 2
WorkerCount(regions, processors, low) ==
    LET free == Max({1, Min({processors - 1, MaximumWorkerCount})})
        count == Min({regions, free})
    IN  IF low THEN Min({count, LowMemoryWorkerCount}) ELSE count

(* The consecutive regions of the worker-th of n.                           *)
Share(worker, n) ==
    SubSeq(Regions, (Len(Regions) * (worker - 1)) \div n + 1, (Len(Regions) * worker) \div n)

(* Mutants: blocks that have nothing in common; a step that may be none.     *)
NoOverlap == 0
StepBack(read) == read - Header

(* The words that two blocks have in common: the header, aligned.           *)
Overlap == Header
Step(read) == IF read > Overlap THEN read - Overlap ELSE 1

(* KeepLowestAddress: of the candidates of one UID the lowest.              *)
Lowest(candidates) ==
    {c \in candidates : \A d \in candidates : d.uid = c.uid => c.at <= d.at}

NoQuality == [requested |-> 0, unread |-> 0]
NothingFound == [players |-> {}, staff |-> {}, managers |-> {}, clubs |-> {}]

(* More than a tenth of the words requested were not read.                  *)
IncompletePercent == 10
MateriallyIncomplete(quality) ==
    quality.unread * 100 > quality.requested * IncompletePercent

-----------------------------------------------------------------------------
(* What the slots of a block show: a candidate under its facets, or a club. *)
Candidates(slots, facets) ==
    {[uid |-> heap.objects[a].uid, at |-> a] :
        a \in {x \in slots : heap.objects[x].facet \in facets}}

Shown(slots) ==
    [players  |-> Candidates({a \in slots : heap.objects[a].included}, {"player"}),
     staff    |-> Candidates(slots, {"staff", "manager"}),
     managers |-> Candidates(slots, {"manager"}),
     clubs    |-> {a \in slots : heap.objects[a].facet = "club"}]

Merged(f, g) ==
    [players  |-> Lowest(f.players \cup g.players),
     staff    |-> Lowest(f.staff \cup g.staff),
     managers |-> Lowest(f.managers \cup g.managers),
     clubs    |-> f.clubs \cup g.clubs]

(* What a block adds to the quality, given the words that it counts.        *)
BlockQuality(counted, fails) ==
    [requested |-> Cardinality(counted),
     unread |-> Cardinality(IF fails THEN counted ELSE counted \cap heap.holes)]

Added(q, r) ==
    [requested |-> q.requested + r.requested, unread |-> q.unread + r.unread]

(* BuildResult leaves out the staff that are players.                       *)
Built(found, quality, cancelled) ==
    [players   |-> found.players,
     staff     |-> {c \in found.staff : \A p \in found.players : p.uid # c.uid},
     managers  |-> found.managers,
     clubs     |-> found.clubs,
     quality   |-> quality,
     cancelled |-> cancelled]

-----------------------------------------------------------------------------
Worker(regions) ==
    [todo |-> regions, at |-> Nowhere, prior |-> FALSE,
     found |-> NothingFound, pc |-> "running"]

(* The scan starts with as many workers as the policy allows; their token   *)
(* is linked to the caller's, which may be cancelled already.               *)
StartWorkers(cancelled) ==
    /\ \E processors \in 1..(Len(Regions) + 1), low \in BOOLEAN :
          LET n == WorkerCount(Len(Regions), processors, low)
          IN  workers' = [w \in 1..n |-> Worker(Share(w, n))]
    /\ token' = cancelled /\ result' = Nowhere
    /\ moves' = 0 /\ lost' = 0 /\ totals' = NoQuality

Running(w) == workers[w].pc = "running"
End(w, how) == workers' = [workers EXCEPT ![w].pc = how]

(* A worker sees the token before each region and before each block.        *)
StopWorker(w) ==
    /\ Running(w) /\ token
    /\ workers[w].todo # <<>>
    /\ End(w, "cancelled")
    /\ UNCHANGED <<heap, moves, lost, token, totals, result>>

(* The next region of a worker; one too small for a header is passed over.  *)
EnterRegion(w) ==
    LET worker == workers[w] IN
    /\ Running(w) /\ ~token
    /\ worker.at = Nowhere /\ worker.todo # <<>>
    /\ workers' = [workers EXCEPT ![w] =
          IF Head(worker.todo).size < Header
          THEN [worker EXCEPT !.todo = Tail(@)]
          ELSE [worker EXCEPT !.at = Head(worker.todo).base, !.prior = FALSE]]
    /\ UNCHANGED <<heap, moves, lost, token, totals, result>>

EndOf(region) == region.base + region.size

(* One block: a word is counted by the first block that holds it.  A block  *)
(* that could not be read, or whose coverage is not known, shows nothing.   *)
ReadBlock(w) ==
    LET worker == workers[w]
        read == Min({Block, EndOf(Head(worker.todo)) - worker.at})
        counted == (worker.at + IF worker.prior THEN Min({Overlap, read}) ELSE 0)
                      .. (worker.at + read - 1)
        slots == {a \in worker.at .. (worker.at + read - Header) :
                     a \in DOMAIN heap.objects
                     /\ \A word \in a..(a + Header - 1) : word \notin heap.holes}
        next == worker.at + Step(read)
        ended == EndOf(Head(worker.todo)) - next < Header
    IN
    /\ Running(w) /\ ~token
    /\ worker.at # Nowhere
    /\ \E fails \in BOOLEAN :
          /\ fails => lost < MaxLost
          /\ lost' = IF fails THEN lost + 1 ELSE lost
          /\ workers' = [workers EXCEPT ![w] =
                [worker EXCEPT
                    !.todo = IF ended THEN Tail(@) ELSE @,
                    !.at = IF ended THEN Nowhere ELSE next,
                    !.prior = TRUE,
                    !.found = IF fails THEN @ ELSE Merged(@, Shown(slots))]]
          /\ totals' = Added(totals, BlockQuality(counted, fails))
    /\ UNCHANGED <<heap, moves, token, result>>

(* The regions of a worker are all read.                                    *)
FinishWorker(w) ==
    /\ Running(w) /\ workers[w].todo = <<>>
    /\ End(w, "finished")
    /\ UNCHANGED <<heap, moves, lost, token, totals, result>>

(* A read behind a header throws, or a read is cancelled: all are to stop.  *)
FailWorker(w) ==
    /\ Running(w) /\ workers[w].at # Nowhere
    /\ \E how \in {"failed", "cancelled"} : End(w, how)
    /\ token' = TRUE
    /\ UNCHANGED <<heap, moves, lost, totals, result>>

(* Task.WaitAll, and the results in the order of the workers.               *)
AllEnded == \A w \in DOMAIN workers : ~Running(w)
AnyFailed == \E w \in DOMAIN workers : workers[w].pc = "failed"

(* All that the workers found in one part of their results.                 *)
Together(part) == UNION {workers[w].found[part] : w \in DOMAIN workers}

MergeWorkers ==
    /\ result = Nowhere
    /\ AllEnded /\ ~AnyFailed
    /\ result' = Built([players  |-> Lowest(Together("players")),
                        staff    |-> Lowest(Together("staff")),
                        managers |-> Lowest(Together("managers")),
                        clubs    |-> Together("clubs")],
                       totals,
                       \E w \in DOMAIN workers : workers[w].pc = "cancelled")
    /\ UNCHANGED <<heap, moves, lost, token, workers, totals>>

(* The game moves an object, makes or drops one, or a page comes or goes.   *)
MoveMemory ==
    /\ moves < MaxMoves
    /\ \E w \in DOMAIN workers : Running(w)
    /\ heap' \in Heaps \ {heap}
    /\ moves' = moves + 1
    /\ UNCHANGED <<lost, token, workers, totals, result>>

(* What a worker does unless something fails.                               *)
WorkerGoesOn ==
    \E w \in DOMAIN workers : StopWorker(w) \/ EnterRegion(w) \/ ReadBlock(w) \/ FinishWorker(w)

WorkerStep == WorkerGoesOn \/ \E w \in DOMAIN workers : FailWorker(w)
=============================================================================
