------------------------- MODULE ScanAndSearchProofs -------------------------
(* How the people of a save come into the app, and how they are searched:   *)
(* the scan of the memory, the clubs and dates it is told by squads, the    *)
(* fields of the dump, and the pages of the search, proved for any regions, *)
(* memories, games, saves and criteria.                                     *)
EXTENDS ScanPipeline, SquadIndex, DumpFields, ResultContext,
        FiniteSetTheorems, WellFoundedInduction, TLAPS

-----------------------------------------------------------------------------
(* The scan of the memory.  Workers divide the regions among them; what a   *)
(* worker has found accounts for every object of the blocks behind it.      *)

Region == [base : Nat, size : Nat]

IsCandidate(c) == c = [uid |-> c.uid, at |-> c.at] /\ c.at \in Nat

FoundTypes(f) ==
    /\ f = [players |-> f.players, staff |-> f.staff, managers |-> f.managers, clubs |-> f.clubs]
    /\ \A c \in f.players \cup f.staff \cup f.managers : IsCandidate(c)

WorkerTypes(worker) ==
    /\ worker = [todo |-> worker.todo, at |-> worker.at, prior |-> worker.prior,
                 found |-> worker.found, pc |-> worker.pc]
    /\ worker.pc \in {"running", "finished", "cancelled", "failed"}
    /\ worker.todo \in Seq(Region)
    /\ worker.at # Nowhere =>
          /\ worker.todo # <<>> /\ worker.at \in Nat
          /\ Head(worker.todo).base <= worker.at
          /\ worker.at + Header <= EndOf(Head(worker.todo))
    /\ FoundTypes(worker.found)
    /\ worker.pc = "finished" => worker.todo = <<>>

ScanTypes ==
    /\ heap \in Heaps /\ moves \in Nat /\ lost \in Nat /\ token \in BOOLEAN
    /\ totals \in [requested : Nat, unread : Nat]
    /\ \A w \in DOMAIN workers : WorkerTypes(workers[w])

(* The share of a worker, by the regions' indices.                          *)
ShareEnd(w, n) == (Len(Regions) * w) \div n
ShareStart(w, n) == ShareEnd(w - 1, n) + 1

(* The objects of a region, and what it is to have found one: itself, or    *)
(* one of its UID at a lower address.                                       *)
ObjectsOf(i) ==
    {a \in DOMAIN heap.objects :
        \A word \in a..(a + Header - 1) : Within(word, i) /\ word \notin heap.holes}

Player(a) == heap.objects[a].facet = "player" /\ heap.objects[a].included
OfStaff(a) == heap.objects[a].facet \in {"staff", "manager"}
IsManager(a) == heap.objects[a].facet = "manager"
Known(candidates, a) == \E c \in candidates : c.uid = heap.objects[a].uid /\ c.at <= a
IsFound(f, a) ==
    /\ Player(a) => Known(f.players, a)
    /\ OfStaff(a) => Known(f.staff, a)
    /\ IsManager(a) => Known(f.managers, a)
    /\ heap.objects[a].facet = "club" => a \in f.clubs

(* What is found is there.                                                  *)
IsAt(c, a) == c = [uid |-> heap.objects[a].uid, at |-> a]
IsThere(f) ==
    /\ \A c \in f.players : \E a \in Readable : Player(a) /\ IsAt(c, a)
    /\ \A c \in f.staff : \E a \in Readable : OfStaff(a) /\ IsAt(c, a)
    /\ \A c \in f.managers : \E a \in Readable : IsManager(a) /\ IsAt(c, a)
    /\ \A a \in f.clubs : a \in Readable /\ heap.objects[a].facet = "club"

(* A worker that is at the k-th region has found all that is behind it.     *)
IsAtRegion(worker, w, n, k) ==
    /\ k \in ShareStart(w, n)..(ShareEnd(w, n) + 1)
    /\ worker.todo = SubSeq(Regions, k, ShareEnd(w, n))
    /\ IsThere(worker.found)
    /\ \A i \in ShareStart(w, n)..(k - 1) :
          i \in Scannable => \A a \in ObjectsOf(i) : IsFound(worker.found, a)
    /\ worker.at # Nowhere =>
          \A a \in ObjectsOf(k) : a < worker.at => IsFound(worker.found, a)

AllAreAt(crew, n) ==
    /\ DOMAIN crew = 1..n
    /\ n = 0 => Regions = <<>>
    /\ \A w \in 1..n : \E k \in Nat : IsAtRegion(crew[w], w, n, k)

(* The words that a worker has counted: those of the regions it has done,   *)
(* and in the region it is at those of the blocks before the next one,      *)
(* which begins a header earlier.                                           *)
WordsOf(i) == Regions[i].base..(EndOf(Regions[i]) - 1)
WordsOfAll(s) == UNION {WordsOf(i) : i \in s}
AllTheWords == WordsOfAll(Scannable)

Turn(worker, w, n) == ShareEnd(w, n) + 1 - Len(worker.todo)
DoneBy(worker, w, n) == {i \in Scannable : ShareStart(w, n) <= i /\ i < Turn(worker, w, n)}
Covered(worker) == worker.at + IF worker.prior THEN Header ELSE 0
CountedHere(worker) ==
    IF worker.at = Nowhere THEN {} ELSE Head(worker.todo).base..(Covered(worker) - 1)
CountedBy(worker, w, n) == WordsOfAll(DoneBy(worker, w, n)) \cup CountedHere(worker)
CountedWords(crew, n) == UNION {CountedBy(crew[w], w, n) : w \in 1..n}

BlocksFollow(worker) ==
    worker.at # Nowhere => worker.prior \/ worker.at = Head(worker.todo).base

CountedOnce(crew, sums, n) ==
    /\ \A w \in 1..n : BlocksFollow(crew[w])
    /\ sums.requested = Cardinality(CountedWords(crew, n))
    /\ sums.unread = Cardinality(CountedWords(crew, n) \cap heap.holes)

NothingMissed ==
    stage = "scan" /\ moves = 0 /\ lost = 0 =>
       \E n \in Nat : AllAreAt(workers, n) /\ CountedOnce(workers, totals, n)

(* What the stages know.                                                    *)
ResultIsRight ==
    /\ FoundTypes([players |-> result.players, staff |-> result.staff,
                   managers |-> result.managers, clubs |-> result.clubs])
    /\ Lowest(result.players) = result.players /\ Lowest(result.staff) = result.staff
    /\ \A c \in result.staff : \A p \in result.players : p.uid # c.uid
    /\ result.quality \in [requested : Nat, unread : Nat]

DocumentIsRight ==
    /\ document.players # {}
    /\ document.players \subseteq result.players /\ document.staff \subseteq result.staff
    /\ document.manager # Nowhere =>
          \E c \in document.staff \cap document.named : c.uid = document.manager.uid

PipelineInv ==
    /\ stage \in {"begin", "scan", "judge", "extract", "write", "done", "failed"}
    /\ source \in {"live", "clone"}
    /\ stage = "scan" => result = Nowhere
    /\ stage \in {"judge", "extract", "write"} => ResultIsRight
    /\ stage \in {"extract", "write"} => ~Incomplete
    /\ stage = "write" => DocumentIsRight
    /\ dump # Nowhere =>
          /\ stage \in {"done", "failed"}
          /\ dump = document /\ DocumentIsRight /\ ResultIsRight /\ ~Incomplete
    /\ live # {} =>
          /\ stage \in {"done", "failed"}
          /\ source = "live" /\ live = dump.players \cup dump.staff

LEMMA LeastNumber ==
    ASSUME NEW T, T \subseteq Nat, T # {}
    PROVE  \E x \in T : \A y \in T : x <= y
<1> DEFINE Less == OpToRel(<, Nat)
<1>1. PICK x \in T : \A y \in T : ~ (<<y, x>> \in Less)
  BY NatLessThanWellFounded, WFMin
<1>2. \A y \in T : ~(y < x)
  BY <1>1 DEF OpToRel
<1> HIDE DEF Less
<1>3. QED
  BY <1>2

(* The helpers: the least and the greatest of two, the shares, and what is  *)
(* left of a share when its first region is done.                           *)
LEMMA OfTwo ==
    ASSUME NEW a \in Int, NEW b \in Int
    PROVE  /\ Min({a, b}) = IF a <= b THEN a ELSE b
           /\ Max({a, b}) = IF a >= b THEN a ELSE b
<1>1. \E m \in {a, b} : \A y \in {a, b} : m <= y
  OBVIOUS
<1>2. \E m \in {a, b} : \A y \in {a, b} : m >= y
  OBVIOUS
<1>3. Min({a, b}) \in {a, b} /\ \A y \in {a, b} : Min({a, b}) <= y
  BY <1>1 DEF Min
<1>4. Max({a, b}) \in {a, b} /\ \A y \in {a, b} : Max({a, b}) >= y
  BY <1>2 DEF Max
<1>5. QED
  BY <1>3, <1>4

LEMMA WorkersAreCounted ==
    ASSUME NEW processors \in Nat, NEW low \in BOOLEAN
    PROVE  /\ WorkerCount(Len(Regions), processors, low) \in Nat
           /\ WorkerCount(Len(Regions), processors, low) = 0 => Regions = <<>>
<1> DEFINE wide == Min({processors - 1, MaximumWorkerCount})
           free == Max({1, wide})
           count == Min({Len(Regions), free})
           limited == Min({count, 2})
<1>1. Len(Regions) \in Nat /\ (Len(Regions) = 0 => Regions = <<>>)
  BY RegionsAssumption
<1>2. wide \in Int
  <2>1. processors - 1 \in Int /\ MaximumWorkerCount \in Int
    BY DEF MaximumWorkerCount
  <2>2. QED
    BY <2>1, OfTwo
<1> HIDE DEF wide
<1>3. free \in Nat /\ free >= 1
  <2>1. Max({1, wide}) = IF 1 >= wide THEN 1 ELSE wide
    BY <1>2, OfTwo
  <2>2. QED
    BY <1>2, <2>1
<1> HIDE DEF free
<1>4. count \in Nat /\ (count = 0 => Regions = <<>>)
  BY <1>1, <1>3, OfTwo
<1> HIDE DEF count
<1>5. limited \in Nat /\ (limited = 0 => Regions = <<>>)
  BY <1>4, OfTwo
<1>6. WorkerCount(Len(Regions), processors, low) = IF low THEN limited ELSE count
  BY DEF WorkerCount, LowMemoryWorkerCount, count, free, wide, limited
<1> HIDE DEF limited
<1>7. QED
  BY <1>4, <1>5, <1>6

LEMMA Quotients ==
    ASSUME NEW n \in Nat \ {0}, NEW x \in Nat
    PROVE  /\ x \div n \in Nat
           /\ n * (x \div n) <= x /\ x < n * (x \div n) + n
OBVIOUS

LEMMA SharesAreBounded ==
    ASSUME NEW n \in Nat \ {0}, NEW w \in 0..n
    PROVE  ShareEnd(w, n) \in 0..Len(Regions)
<1> DEFINE l == Len(Regions)
           q == (l * w) \div n
<1>1. l \in Nat
  BY RegionsAssumption
<1>2. l * w \in Nat /\ l * w <= l * n
  BY <1>1
<1>3. q \in Nat /\ n * q <= l * w
  BY <1>2, Quotients
<1> HIDE DEF l, q
<1>4. n * q <= n * l
  BY <1>1, <1>2, <1>3
<1>5. q <= l
  BY <1>1, <1>3, <1>4
<1>6. QED
  BY <1>3, <1>5 DEF ShareEnd, q, l

LEMMA SharesGrow ==
    ASSUME NEW n \in Nat \ {0}, NEW w \in 1..n
    PROVE  ShareEnd(w - 1, n) <= ShareEnd(w, n)
<1> DEFINE l == Len(Regions)
           p == (l * (w - 1)) \div n
           q == (l * w) \div n
<1>1. l \in Nat
  BY RegionsAssumption
<1>2. /\ l * (w - 1) \in Nat /\ l * w \in Nat /\ l * (w - 1) <= l * w
  BY <1>1
<1>3. /\ p \in Nat /\ n * p <= l * (w - 1)
      /\ q \in Nat /\ l * w < n * q + n
  BY <1>2, Quotients
<1> HIDE DEF l, p, q
<1>4. n * p < n * q + n /\ n * q + n = n * (q + 1)
  BY <1>1, <1>2, <1>3
<1>5. p < q + 1
  BY <1>3, <1>4
<1>6. QED
  BY <1>3, <1>5 DEF ShareEnd, l, p, q

LEMMA TheEnds ==
    ASSUME NEW n \in Nat \ {0}
    PROVE  ShareEnd(0, n) = 0 /\ ShareEnd(n, n) = Len(Regions)
<1> DEFINE l == Len(Regions)
<1>1. l \in Nat
  BY RegionsAssumption
<1> HIDE DEF l
<1>2. l * 0 = 0 /\ l * n = n * l
  BY <1>1
<1>3. 0 \div n = 0
  OBVIOUS
<1>4. (n * l) \div n = l
  <2> DEFINE q == (n * l) \div n
  <2>1. n * l \in Nat
    BY <1>1
  <2>2. q \in Nat /\ n * q <= n * l /\ n * l < n * q + n
    BY <2>1, Quotients
  <2> HIDE DEF q
  <2>3. q <= l
    BY <1>1, <2>2
  <2>4. n * q + n = n * (q + 1)
    BY <2>2
  <2>5. l < q + 1
    BY <1>1, <2>2, <2>4
  <2>6. q = l
    BY <1>1, <2>2, <2>3, <2>5
  <2>7. QED
    BY <2>6 DEF q
<1>5. QED
  BY <1>2, <1>3, <1>4 DEF ShareEnd, l

(* Every region is in somebody's share: the first worker whose share does   *)
(* not end before it has it.                                                *)
LEMMA SharesCover ==
    ASSUME NEW n \in Nat \ {0}, NEW i \in DOMAIN Regions
    PROVE  \E w \in 1..n : i \in ShareStart(w, n)..ShareEnd(w, n)
<1> DEFINE Reaching == {w \in 0..n : i <= ShareEnd(w, n)}
<1>1. i \in 1..Len(Regions)
  BY RegionsAssumption
<1>2. Reaching \subseteq Nat /\ n \in Reaching
  BY <1>1, TheEnds
<1>3. PICK w \in Reaching : \A v \in Reaching : w <= v
  BY <1>2, LeastNumber
<1>4. w # 0
  BY <1>1, <1>3, TheEnds
<1>5. w - 1 \in 0..n /\ w - 1 \notin Reaching
  BY <1>3, <1>4
<1>6. ShareEnd(w - 1, n) \in Nat /\ ShareEnd(w, n) \in Nat
  BY <1>3, <1>5, SharesAreBounded
<1>7. QED
  BY <1>1, <1>3, <1>4, <1>5, <1>6 DEF ShareStart

LEMMA RestOfShare ==
    ASSUME NEW k \in 1..Len(Regions), NEW m \in k..Len(Regions)
    PROVE  /\ SubSeq(Regions, k, m) # <<>>
           /\ Head(SubSeq(Regions, k, m)) = Regions[k]
           /\ Tail(SubSeq(Regions, k, m)) = SubSeq(Regions, k + 1, m)
<1>1. Regions \in Seq(Region)
  BY RegionsAssumption DEF Region
<1> DEFINE s == SubSeq(Regions, k, m)
           t == SubSeq(Regions, k + 1, m)
<1>2. /\ s \in Seq(Region) /\ Len(s) = m - k + 1
      /\ \A j \in 1..(m - k + 1) : s[j] = Regions[k + j - 1]
  BY <1>1
<1>3. /\ t \in Seq(Region) /\ Len(t) = m - k
      /\ \A j \in 1..(m - k) : t[j] = Regions[k + j]
  BY <1>1
<1> HIDE DEF s, t
<1>4. s # <<>> /\ Head(s) = Regions[k]
  BY <1>2
<1>5. Tail(s) \in Seq(Region) /\ Len(Tail(s)) = m - k
  BY <1>2
<1>6. \A j \in 1..(m - k) : Tail(s)[j] = t[j]
  BY <1>2, <1>3
<1>7. Tail(s) = t
  BY <1>3, <1>5, <1>6
<1>8. QED
  BY <1>4, <1>7 DEF s, t

LEMMA ShareIsOver ==
    ASSUME NEW k \in Nat, NEW m \in Nat
    PROVE  /\ k > m => SubSeq(Regions, k, m) = <<>>
           /\ k <= m => Len(SubSeq(Regions, k, m)) = m - k + 1
BY RegionsAssumption

(* Of the candidates of one UID the lowest stays.                           *)
LEMMA LowestReaches ==
    ASSUME NEW X, \A c \in X : IsCandidate(c), NEW c \in X
    PROVE  \E d \in Lowest(X) : d.uid = c.uid /\ d.at <= c.at
<1> DEFINE Same == {d \in X : d.uid = c.uid}
           Places == {d.at : d \in Same}
<1>1. Places \subseteq Nat /\ c.at \in Places
  BY DEF IsCandidate
<1>2. PICK p \in Places : \A q \in Places : p <= q
  BY <1>1, LeastNumber
<1>3. PICK d \in Same : d.at = p
  BY <1>2
<1>4. d \in Lowest(X)
  BY <1>2, <1>3 DEF Lowest
<1>5. QED
  BY <1>1, <1>2, <1>3, <1>4

LEMMA LowestIsOfThem ==
    ASSUME NEW X
    PROVE  /\ Lowest(X) \subseteq X
           /\ Lowest(Lowest(X)) = Lowest(X)
BY DEF Lowest

LEMMA OneByUid ==
    ASSUME NEW X, \A c \in X : IsCandidate(c), Lowest(X) = X
    PROVE  Distinct(X)
BY DEF Lowest, Distinct, IsCandidate
-----------------------------------------------------------------------------
(* One block.                                                               *)
WordsRead(worker) == Min({Block, EndOf(Head(worker.todo)) - worker.at})
NextAt(worker) == worker.at + Step(WordsRead(worker))
RegionEnds(worker) == EndOf(Head(worker.todo)) - NextAt(worker) < Header
SlotsRead(worker) ==
    {a \in worker.at..(worker.at + WordsRead(worker) - Header) :
        a \in DOMAIN heap.objects /\ \A word \in a..(a + Header - 1) : word \notin heap.holes}
WordsCounted(worker) ==
    (worker.at + IF worker.prior THEN Min({Overlap, WordsRead(worker)}) ELSE 0)
        ..(worker.at + WordsRead(worker) - 1)

AfterBlock(worker, fails) ==
    [worker EXCEPT
        !.todo = IF RegionEnds(worker) THEN Tail(@) ELSE @,
        !.at = IF RegionEnds(worker) THEN Nowhere ELSE NextAt(worker),
        !.prior = TRUE,
        !.found = IF fails THEN @ ELSE Merged(@, Shown(SlotsRead(worker)))]

LEMMA BlockIsRead ==
    ASSUME NEW w, ReadBlock(w)
    PROVE  /\ workers[w].at # Nowhere /\ workers[w].pc = "running"
           /\ \E fails \in BOOLEAN :
                 /\ lost' = IF fails THEN lost + 1 ELSE lost
                 /\ workers' = [workers EXCEPT ![w] = AfterBlock(workers[w], fails)]
                 /\ totals' = Added(totals, BlockQuality(WordsCounted(workers[w]), fails))
           /\ UNCHANGED <<heap, moves, token, result>>
BY DEF ReadBlock, Running, AfterBlock, RegionEnds, NextAt, SlotsRead, WordsCounted, WordsRead

LEMMA ShareOfRegions ==
    ASSUME NEW s \in Seq(Region), s # <<>>
    PROVE  Head(s) \in Region /\ Tail(s) \in Seq(Region) /\ EndOf(Head(s)) \in Nat
<1>1. Head(s) \in Region /\ Tail(s) \in Seq(Region)
  OBVIOUS
<1>2. QED
  BY <1>1 DEF EndOf, Region

LEMMA BlockBounds ==
    ASSUME NEW worker, WorkerTypes(worker), worker.at # Nowhere
    PROVE  LET end == EndOf(Head(worker.todo)) IN
           /\ worker.at \in Nat /\ end \in Nat /\ worker.todo # <<>>
           /\ WordsRead(worker) \in Nat /\ WordsRead(worker) >= Header
           /\ worker.at + WordsRead(worker) <= end
           /\ NextAt(worker) \in Nat /\ worker.at < NextAt(worker)
           /\ NextAt(worker) <= worker.at + WordsRead(worker) - Header + 1
<1>1. /\ worker.at \in Nat /\ EndOf(Head(worker.todo)) \in Nat /\ worker.todo # <<>>
      /\ worker.at + Header <= EndOf(Head(worker.todo))
  BY ShareOfRegions DEF WorkerTypes
<1>2. /\ Block \in Int /\ EndOf(Head(worker.todo)) - worker.at \in Int
  BY <1>1, ScanAssumption
<1>3. WordsRead(worker) = IF Block <= EndOf(Head(worker.todo)) - worker.at THEN Block
                          ELSE EndOf(Head(worker.todo)) - worker.at
  BY <1>2, OfTwo DEF WordsRead
<1>4. WordsRead(worker) \in Nat /\ WordsRead(worker) >= Header
  BY <1>1, <1>3, ScanAssumption
<1>5. worker.at + WordsRead(worker) <= EndOf(Head(worker.todo))
  BY <1>1, <1>3, ScanAssumption
<1>6. /\ Step(WordsRead(worker)) \in Nat /\ Step(WordsRead(worker)) >= 1
      /\ Step(WordsRead(worker)) <= WordsRead(worker) - Header + 1
  BY <1>4, ScanAssumption DEF Step, Overlap
<1>7. QED
  BY <1>1, <1>4, <1>5, <1>6, ScanAssumption DEF NextAt

LEMMA WordsAreNumbers ==
    ASSUME NEW worker, WorkerTypes(worker), worker.at # Nowhere, NEW fails \in BOOLEAN
    PROVE  BlockQuality(WordsCounted(worker), fails) \in [requested : Nat, unread : Nat]
<1> DEFINE from == worker.at + IF worker.prior THEN Min({Overlap, WordsRead(worker)}) ELSE 0
           to == worker.at + WordsRead(worker) - 1
<1>1. worker.at \in Nat /\ WordsRead(worker) \in Nat
  BY BlockBounds
<1>2. Min({Overlap, WordsRead(worker)}) \in Int
  BY <1>1, OfTwo, ScanAssumption DEF Overlap
<1>3. from \in Int /\ to \in Int
  BY <1>1, <1>2
<1> HIDE DEF from, to
<1>4. IsFiniteSet(from..to)
  BY <1>3, FS_Interval
<1>5. IsFiniteSet((from..to) \cap heap.holes)
  BY <1>4, FS_Subset
<1>6. Cardinality(from..to) \in Nat /\ Cardinality((from..to) \cap heap.holes) \in Nat
  BY <1>4, <1>5, FS_CardinalityType
<1>7. WordsCounted(worker) = from..to
  BY DEF WordsCounted, from, to
<1>8. QED
  BY <1>6, <1>7 DEF BlockQuality

LEMMA ShownTypes ==
    ASSUME NEW slots, slots \subseteq Nat
    PROVE  FoundTypes(Shown(slots))
BY DEF FoundTypes, Shown, Candidates, IsCandidate

LEMMA MergedTypes ==
    ASSUME NEW f, NEW g, FoundTypes(f), FoundTypes(g)
    PROVE  FoundTypes(Merged(f, g))
BY LowestIsOfThem DEF FoundTypes, Merged

LEMMA BlockKeepsTypes ==
    ASSUME heap \in Heaps, NEW worker, WorkerTypes(worker), worker.at # Nowhere,
           worker.pc = "running", NEW fails \in BOOLEAN,
           NEW after, after = AfterBlock(worker, fails)
    PROVE  WorkerTypes(after)
<1> DEFINE ended == RegionEnds(worker)
           found == IF fails THEN worker.found ELSE Merged(worker.found, Shown(SlotsRead(worker)))
<1>1. /\ after = [todo |-> after.todo, at |-> after.at, prior |-> after.prior,
                  found |-> after.found, pc |-> after.pc]
      /\ after.todo = IF ended THEN Tail(worker.todo) ELSE worker.todo
      /\ after.at = IF ended THEN Nowhere ELSE NextAt(worker)
      /\ after.found = found /\ after.pc = worker.pc
  BY DEF AfterBlock, WorkerTypes
<1>2. SlotsRead(worker) \subseteq Nat
  BY HeapsAssumption DEF SlotsRead
<1>3. FoundTypes(found)
  BY <1>2, ShownTypes, MergedTypes DEF WorkerTypes
<1>4. /\ worker.todo \in Seq(Region) /\ worker.todo # <<>> /\ Tail(worker.todo) \in Seq(Region)
  BY ShareOfRegions DEF WorkerTypes
<1>5. ~ended => /\ NextAt(worker) \in Nat
                /\ Head(worker.todo).base <= NextAt(worker)
                /\ NextAt(worker) + Header <= EndOf(Head(worker.todo))
  <2>1. /\ worker.at \in Nat /\ NextAt(worker) \in Nat /\ worker.at < NextAt(worker)
        /\ EndOf(Head(worker.todo)) \in Nat
    BY BlockBounds
  <2>2. Head(worker.todo).base \in Nat /\ Head(worker.todo).base <= worker.at
    BY <1>4, ShareOfRegions DEF WorkerTypes, Region
  <2>3. QED
    BY <2>1, <2>2, ScanAssumption DEF RegionEnds
<1> HIDE DEF ended, found
<1>6. QED
  BY <1>1, <1>3, <1>4, <1>5 DEF WorkerTypes

(* Steps of the workers and of the game keep the types.                     *)
LEMMA OneWorkerChanges ==
    ASSUME ScanTypes, NEW w \in DOMAIN workers, NEW after, WorkerTypes(after),
           workers' = [workers EXCEPT ![w] = after],
           heap' = heap, moves' \in Nat, lost' \in Nat, token' \in BOOLEAN,
           totals' \in [requested : Nat, unread : Nat]
    PROVE  ScanTypes'
<1>1. \A v \in DOMAIN workers' : WorkerTypes(workers'[v])
  BY DEF ScanTypes
<1>2. QED
  BY <1>1 DEF ScanTypes

LEMMA EndKeepsTypes ==
    ASSUME NEW worker, WorkerTypes(worker), NEW how \in {"finished", "cancelled", "failed"},
           how = "finished" => worker.todo = <<>>,
           NEW after, after = [worker EXCEPT !.pc = how]
    PROVE  WorkerTypes(after)
<1>1. /\ after = [todo |-> after.todo, at |-> after.at, prior |-> after.prior,
                  found |-> after.found, pc |-> after.pc]
      /\ after.todo = worker.todo /\ after.at = worker.at /\ after.found = worker.found
      /\ after.pc = how
  BY DEF WorkerTypes
<1>2. QED
  BY <1>1 DEF WorkerTypes

LEMMA EnterKeepsTypes ==
    ASSUME NEW worker, WorkerTypes(worker), worker.todo # <<>>, worker.pc = "running",
           worker.at = Nowhere, NEW after,
           after = IF Head(worker.todo).size < Header
                   THEN [worker EXCEPT !.todo = Tail(@)]
                   ELSE [worker EXCEPT !.at = Head(worker.todo).base, !.prior = FALSE]
    PROVE  WorkerTypes(after)
<1>1. worker.todo \in Seq(Region) /\ Tail(worker.todo) \in Seq(Region)
  BY ShareOfRegions DEF WorkerTypes
<1>2. Head(worker.todo).base \in Nat /\ Head(worker.todo).size \in Nat
  BY <1>1, ShareOfRegions DEF Region
<1>3. CASE Head(worker.todo).size < Header
  <2>1. /\ after = [todo |-> after.todo, at |-> after.at, prior |-> after.prior,
                    found |-> after.found, pc |-> after.pc]
        /\ after.todo = Tail(worker.todo) /\ after.at = Nowhere /\ after.found = worker.found
        /\ after.pc = "running"
    BY <1>3 DEF WorkerTypes
  <2>2. QED
    BY <1>1, <2>1 DEF WorkerTypes
<1>4. CASE ~(Head(worker.todo).size < Header)
  <2>1. /\ after = [todo |-> after.todo, at |-> after.at, prior |-> after.prior,
                    found |-> after.found, pc |-> after.pc]
        /\ after.todo = worker.todo /\ after.at = Head(worker.todo).base
        /\ after.found = worker.found /\ after.pc = "running"
    BY <1>4 DEF WorkerTypes
  <2>2. Head(worker.todo).base + Header <= EndOf(Head(worker.todo))
    BY <1>2, <1>4, ScanAssumption DEF EndOf
  <2>3. QED
    BY <1>1, <1>2, <2>1, <2>2 DEF WorkerTypes
<1>5. QED
  BY <1>3, <1>4

LEMMA WorkersKeepTypes == ScanTypes /\ WorkerStep => ScanTypes'
<1> SUFFICES ASSUME ScanTypes, WorkerStep PROVE ScanTypes'
  OBVIOUS
<1>1. PICK w \in DOMAIN workers :
         StopWorker(w) \/ EnterRegion(w) \/ ReadBlock(w) \/ FinishWorker(w) \/ FailWorker(w)
  BY DEF WorkerStep, WorkerGoesOn
<1>2. /\ WorkerTypes(workers[w]) /\ heap \in Heaps /\ moves \in Nat /\ lost \in Nat
      /\ token \in BOOLEAN /\ totals \in [requested : Nat, unread : Nat]
  BY DEF ScanTypes
<1>3. CASE StopWorker(w) \/ FinishWorker(w) \/ FailWorker(w)
  <2>1. PICK how \in {"finished", "cancelled", "failed"} :
           /\ workers' = [workers EXCEPT ![w].pc = how]
           /\ how = "finished" => workers[w].todo = <<>>
    BY <1>3 DEF StopWorker, FinishWorker, FailWorker, End
  <2>2. WorkerTypes([workers[w] EXCEPT !.pc = how])
    BY <1>2, <2>1, EndKeepsTypes
  <2>3. heap' = heap /\ moves' \in Nat /\ lost' \in Nat /\ token' \in BOOLEAN /\ totals' = totals
    BY <1>2, <1>3 DEF StopWorker, FinishWorker, FailWorker
  <2>4. workers' = [workers EXCEPT ![w] = [workers[w] EXCEPT !.pc = how]]
    BY <2>1
  <2>5. QED
    BY <1>2, <2>2, <2>3, <2>4, OneWorkerChanges
<1>4. CASE EnterRegion(w)
  <2> DEFINE after == IF Head(workers[w].todo).size < Header
                      THEN [workers[w] EXCEPT !.todo = Tail(@)]
                      ELSE [workers[w] EXCEPT !.at = Head(workers[w].todo).base, !.prior = FALSE]
  <2>1. /\ workers[w].pc = "running" /\ workers[w].at = Nowhere /\ workers[w].todo # <<>>
        /\ workers' = [workers EXCEPT ![w] = after]
        /\ UNCHANGED <<heap, moves, lost, token, totals>>
    BY <1>4 DEF EnterRegion, Running
  <2>2. WorkerTypes(after)
    BY <1>2, <2>1, EnterKeepsTypes
  <2> HIDE DEF after
  <2>3. QED
    BY <1>2, <2>1, <2>2, OneWorkerChanges
<1>5. CASE ReadBlock(w)
  <2>1. /\ workers[w].at # Nowhere /\ workers[w].pc = "running"
        /\ UNCHANGED <<heap, moves, token>>
    BY <1>5, BlockIsRead
  <2>2. PICK fails \in BOOLEAN :
           /\ lost' = IF fails THEN lost + 1 ELSE lost
           /\ workers' = [workers EXCEPT ![w] = AfterBlock(workers[w], fails)]
           /\ totals' = Added(totals, BlockQuality(WordsCounted(workers[w]), fails))
    BY <1>5, BlockIsRead
  <2>3. WorkerTypes(AfterBlock(workers[w], fails))
    BY <1>2, <2>1, BlockKeepsTypes
  <2>4. BlockQuality(WordsCounted(workers[w]), fails) \in [requested : Nat, unread : Nat]
    BY <1>2, <2>1, WordsAreNumbers
  <2>5. totals' \in [requested : Nat, unread : Nat]
    BY <1>2, <2>2, <2>4 DEF Added
  <2>6. lost' \in Nat
    BY <1>2, <2>2
  <2>7. QED
    BY <1>2, <2>1, <2>2, <2>3, <2>5, <2>6, OneWorkerChanges
<1>6. QED
  BY <1>1, <1>3, <1>4, <1>5

(* A scan begins: every worker with its share, and nothing found.           *)
LEMMA WorkersStart ==
    ASSUME NEW cancelled \in BOOLEAN, StartWorkers(cancelled)
    PROVE  /\ \E n \in Nat : /\ n = 0 => Regions = <<>>
                             /\ workers' = [w \in 1..n |-> Worker(Share(w, n))]
           /\ token' = cancelled /\ result' = Nowhere /\ moves' = 0 /\ lost' = 0
           /\ totals' = NoQuality
<1>1. PICK processors \in 1..(Len(Regions) + 1) : \E low \in BOOLEAN :
         LET n == WorkerCount(Len(Regions), processors, low)
         IN  workers' = [w \in 1..n |-> Worker(Share(w, n))]
  BY DEF StartWorkers
<1>2. PICK low \in BOOLEAN :
         LET n == WorkerCount(Len(Regions), processors, low)
         IN  workers' = [w \in 1..n |-> Worker(Share(w, n))]
  BY <1>1
<1>3. processors \in Nat
  BY RegionsAssumption
<1>4. QED
  BY <1>2, <1>3, WorkersAreCounted DEF StartWorkers

LEMMA ShareIsOfRegions ==
    ASSUME NEW n \in Nat, NEW w \in 1..n
    PROVE  /\ Share(w, n) = SubSeq(Regions, ShareStart(w, n), ShareEnd(w, n))
           /\ Share(w, n) \in Seq(Region)
           /\ ShareStart(w, n) \in 1..(Len(Regions) + 1) /\ ShareEnd(w, n) \in 0..Len(Regions)
           /\ ShareStart(w, n) <= ShareEnd(w, n) + 1
<1>1. n \in Nat \ {0} /\ w \in 0..n /\ w - 1 \in 0..n
  OBVIOUS
<1>2. ShareEnd(w - 1, n) \in 0..Len(Regions) /\ ShareEnd(w, n) \in 0..Len(Regions)
  BY <1>1, SharesAreBounded
<1>3. ShareEnd(w - 1, n) <= ShareEnd(w, n)
  BY <1>1, SharesGrow
<1>4. Regions \in Seq(Region)
  BY RegionsAssumption DEF Region
<1>5. ShareStart(w, n) \in Nat /\ ShareEnd(w, n) \in Nat /\ ShareStart(w, n) >= 1
  BY <1>2, <1>4 DEF ShareStart
<1>6. SubSeq(Regions, ShareStart(w, n), ShareEnd(w, n)) \in Seq(Region)
  BY <1>2, <1>4, <1>5
<1>7. QED
  BY <1>2, <1>3, <1>4, <1>6 DEF Share, ShareStart, ShareEnd

LEMMA StartingKeepsTypes ==
    ASSUME heap \in Heaps, NEW cancelled \in BOOLEAN, StartWorkers(cancelled), heap' = heap
    PROVE  ScanTypes'
<1>1. PICK n \in Nat : workers' = [w \in 1..n |-> Worker(Share(w, n))]
  BY WorkersStart
<1>2. ASSUME NEW w \in 1..n PROVE WorkerTypes(workers'[w])
  <2>1. Share(w, n) \in Seq(Region)
    BY ShareIsOfRegions
  <2>2. workers'[w] = [todo |-> Share(w, n), at |-> Nowhere, prior |-> FALSE,
                       found |-> NothingFound, pc |-> "running"]
    BY <1>1 DEF Worker
  <2>3. FoundTypes(NothingFound)
    BY DEF FoundTypes, NothingFound
  <2>4. QED
    BY <2>1, <2>2, <2>3 DEF WorkerTypes
<1>3. totals' \in [requested : Nat, unread : Nat]
  BY WorkersStart DEF NoQuality
<1>4. QED
  BY <1>1, <1>2, <1>3, WorkersStart DEF ScanTypes

-----------------------------------------------------------------------------
(* The stages of a scan.                                                    *)
LEMMA MergedResult ==
    ASSUME ScanTypes, MergeWorkers
    PROVE  ResultIsRight'
<1> DEFINE P == Lowest(Together("players"))
           S == {c \in Lowest(Together("staff")) : \A p \in P : p.uid # c.uid}
           M == Lowest(Together("managers"))
<1>1. /\ result'.players = P /\ result'.staff = S /\ result'.managers = M
      /\ result'.clubs = Together("clubs") /\ result'.quality = totals
  BY DEF MergeWorkers, Built
<1>2. \A w \in DOMAIN workers :
         \A c \in workers[w].found.players \cup workers[w].found.staff \cup workers[w].found.managers :
            IsCandidate(c)
  BY DEF ScanTypes, WorkerTypes, FoundTypes
<1>3. \A c \in Together("players") \cup Together("staff") \cup Together("managers") : IsCandidate(c)
  BY <1>2 DEF Together
<1>4. P \subseteq Together("players") /\ S \subseteq Together("staff") /\ M \subseteq Together("managers")
  BY LowestIsOfThem
<1>5. Lowest(P) = P
  BY LowestIsOfThem
<1>6. Lowest(S) = S
  BY DEF Lowest
<1>7. \A c \in S : \A p \in P : p.uid # c.uid
  OBVIOUS
<1> HIDE DEF P, S, M
<1>8. \A c \in P \cup S \cup M : IsCandidate(c)
  BY <1>3, <1>4
<1>9. totals \in [requested : Nat, unread : Nat]
  BY DEF ScanTypes
<1>10. QED
  BY <1>1, <1>5, <1>6, <1>7, <1>8, <1>9 DEF ResultIsRight, FoundTypes

LEMMA TheDraftIsOfTheStaff == Drafted \subseteq result.staff
BY DEF Drafted

LEMMA TheManagerIsKnown ==
    ASSUME NEW named, NEW manager \in Manager(Drafted, named), manager # Nowhere
    PROVE  \E c \in Drafted \cap named : c.uid = manager.uid
<1>1. manager \in Selectable(Drafted, named)
  BY DEF Manager
<1>2. QED
  BY <1>1 DEF Selectable

LEMMA DocumentsAreRight ==
    ASSUME Extract, stage' = "write"
    PROVE  DocumentIsRight' /\ UNCHANGED <<scanVars, source, dump, live>>
<1>1. PICK identified \in SUBSET result.players : \E named \in SUBSET Drafted :
         /\ identified # {}
         /\ \E manager \in Manager(Drafted, named) :
               document' = [players |-> identified, staff |-> Drafted,
                            named |-> named, manager |-> manager]
         /\ UNCHANGED <<scanVars, source, dump, live>>
  BY DEF Extract, Fail
<1>2. PICK named \in SUBSET Drafted :
         /\ identified # {}
         /\ \E manager \in Manager(Drafted, named) :
               document' = [players |-> identified, staff |-> Drafted,
                            named |-> named, manager |-> manager]
         /\ UNCHANGED <<scanVars, source, dump, live>>
  BY <1>1
<1>3. PICK manager \in Manager(Drafted, named) :
         document' = [players |-> identified, staff |-> Drafted,
                      named |-> named, manager |-> manager]
  BY <1>2
<1>4. manager # Nowhere => \E c \in Drafted \cap named : c.uid = manager.uid
  BY TheManagerIsKnown
<1>5. result' = result
  BY <1>2 DEF scanVars
<1>6. /\ document'.players = identified /\ document'.staff = Drafted
      /\ document'.named = named /\ document'.manager = manager
  BY <1>3
<1>7. QED
  BY <1>1, <1>2, <1>4, <1>5, <1>6, TheDraftIsOfTheStaff DEF DocumentIsRight

(* Nothing is in the dump before the end.                                   *)
NothingWritten == dump = Nowhere /\ live = {}

LEMMA BeforeTheEnd ==
    ASSUME PipelineInv, stage \notin {"done", "failed"}
    PROVE  NothingWritten
BY DEF PipelineInv, NothingWritten

LEMMA FailingIsRight ==
    ASSUME PipelineInv, stage \notin {"done", "failed"}, Fail
    PROVE  PipelineInv'
<1>1. NothingWritten
  BY BeforeTheEnd
<1>2. stage' = "failed" /\ dump' = dump /\ live' = live /\ source' = source
  BY DEF Fail
<1>3. QED
  BY <1>1, <1>2 DEF PipelineInv, NothingWritten

LEMMA StartingIsRight ==
    ASSUME PipelineInv, stage \notin {"done", "failed"}, StartWorkers(unloaded),
           stage' = "scan", source' \in {"live", "clone"}, UNCHANGED <<dump, live>>
    PROVE  PipelineInv'
<1>1. NothingWritten
  BY BeforeTheEnd
<1>2. result' = Nowhere
  BY DEF StartWorkers
<1>3. QED
  BY <1>1, <1>2 DEF PipelineInv, NothingWritten

LEMMA SameStage ==
    ASSUME PipelineInv, UNCHANGED <<stage, source, document, dump, live, result>>
    PROVE  PipelineInv'
BY DEF PipelineInv, ResultIsRight, DocumentIsRight, Incomplete

ScanInv == ScanTypes /\ unloaded \in BOOLEAN /\ PipelineInv

LEMMA ScanStarts == Init => ScanInv
<1> SUFFICES ASSUME Init PROVE ScanInv
  OBVIOUS
<1>1. ScanTypes
  <2>1. DOMAIN workers = {} /\ totals \in [requested : Nat, unread : Nat]
    BY DEF Init, NoQuality
  <2>2. QED
    BY <2>1 DEF Init, ScanTypes
<1>2. unloaded \in BOOLEAN /\ PipelineInv
  BY DEF Init, PipelineInv
<1>3. QED
  BY <1>1, <1>2 DEF ScanInv

LEMMA TypesHold == ScanInv /\ [Next]_vars => ScanTypes'
<1> SUFFICES ASSUME ScanInv, [Next]_vars PROVE ScanTypes'
  OBVIOUS
<1>1. ScanTypes /\ heap \in Heaps /\ unloaded \in BOOLEAN
  BY DEF ScanInv, ScanTypes
<1>2. CASE UNCHANGED scanVars
  BY <1>1, <1>2 DEF ScanTypes, scanVars
<1>3. CASE StartWorkers(unloaded) /\ heap' = heap
  BY <1>1, <1>3, StartingKeepsTypes
<1>4. CASE WorkerStep
  BY <1>1, <1>4, WorkersKeepTypes
<1>5. CASE MergeWorkers \/ Unload
  <2>1. UNCHANGED <<heap, moves, lost, workers, totals>> /\ token' \in BOOLEAN
    BY <1>1, <1>5 DEF MergeWorkers, Unload, ScanTypes
  <2>2. QED
    BY <1>1, <2>1 DEF ScanTypes
<1>6. CASE MoveMemory
  <2>1. heap' \in Heaps /\ moves' \in Nat /\ UNCHANGED <<lost, token, workers, totals>>
    BY <1>1, <1>6 DEF MoveMemory, ScanTypes
  <2>2. QED
    BY <1>1, <2>1 DEF ScanTypes
<1>7. \/ UNCHANGED scanVars \/ (StartWorkers(unloaded) /\ heap' = heap) \/ WorkerStep
      \/ MergeWorkers \/ Unload \/ MoveMemory
  <2>1. CASE UNCHANGED vars \/ Ended
    BY <2>1 DEF scanVars, vars, Ended
  <2>2. CASE Begin
    BY <2>2 DEF scanVars, Begin, Fail
  <2>3. CASE EndScan
    BY <2>3 DEF scanVars, EndScan, Fail
  <2>4. CASE Judge
    BY <2>4 DEF scanVars, Judge, RetryOnClone, Fail
  <2>5. CASE Extract
    BY <2>5 DEF scanVars, Extract, Fail
  <2>6. CASE Write
    BY <2>6 DEF scanVars, Write, Fail
  <2>7. QED
    BY <2>1, <2>2, <2>3, <2>4, <2>5, <2>6 DEF Next, PipelineStep, Scan, Move
<1>8. QED
  BY <1>2, <1>3, <1>4, <1>5, <1>6, <1>7

LEMMA PipelineHolds == ScanInv /\ [Next]_vars => PipelineInv'
<1> SUFFICES ASSUME ScanInv, [Next]_vars PROVE PipelineInv'
  OBVIOUS
<1>1. ScanTypes /\ PipelineInv
  BY DEF ScanInv
<1>2. CASE UNCHANGED vars \/ Ended \/ Unload
  <2>1. UNCHANGED <<stage, source, document, dump, live, result>>
    BY <1>2 DEF vars, scanVars, pipelineVars, Ended, Unload
  <2>2. QED
    BY <1>1, <2>1, SameStage
<1>3. CASE Scan \/ Move
  <2>1. UNCHANGED <<stage, source, document, dump, live>>
    BY <1>3 DEF Scan, Move, pipelineVars
  <2>2. result' = result
    BY <1>3, BlockIsRead DEF Scan, Move, WorkerStep, WorkerGoesOn, StopWorker, EnterRegion,
       FinishWorker, FailWorker, MoveMemory
  <2>3. QED
    BY <1>1, <2>1, <2>2, SameStage
<1>4. CASE Begin
  <2>1. stage \notin {"done", "failed"} /\ source \in {"live", "clone"}
    BY <1>1, <1>4 DEF Begin, PipelineInv
  <2>2. \/ Fail
        \/ StartWorkers(unloaded) /\ stage' = "scan" /\ UNCHANGED <<source, dump, live>>
    BY <1>4 DEF Begin
  <2>3. QED
    BY <1>1, <2>1, <2>2, FailingIsRight, StartingIsRight
<1>5. CASE EndScan
  <2>1. stage \notin {"done", "failed"} /\ source \in {"live", "clone"}
    BY <1>1, <1>5 DEF EndScan, PipelineInv
  <2>2. CASE Fail
    BY <1>1, <2>1, <2>2, FailingIsRight
  <2>3. CASE MergeWorkers /\ stage' = "judge" /\ UNCHANGED <<source, dump, live>>
    <3>1. ResultIsRight'
      BY <1>1, <2>3, MergedResult
    <3>2. NothingWritten
      BY <1>1, <2>1, BeforeTheEnd
    <3>3. QED
      BY <2>1, <2>3, <3>1, <3>2 DEF PipelineInv, NothingWritten
  <2>4. QED
    BY <1>5, <2>2, <2>3 DEF EndScan
<1>6. CASE Judge
  <2>1. stage \notin {"done", "failed"} /\ source \in {"live", "clone"} /\ ResultIsRight
    BY <1>1, <1>6 DEF Judge, PipelineInv
  <2>2. CASE Fail
    BY <1>1, <2>1, <2>2, FailingIsRight
  <2>3. CASE RetryOnClone
    <3>1. StartWorkers(unloaded) /\ stage' = "scan" /\ source' = "clone" /\ UNCHANGED <<dump, live>>
      BY <2>3 DEF RetryOnClone
    <3>2. QED
      BY <1>1, <2>1, <3>1, StartingIsRight
  <2>4. CASE /\ ~Incomplete /\ stage' = "extract"
             /\ UNCHANGED <<scanVars, source, dump, live>>
    <3>1. result' = result
      BY <2>4 DEF scanVars
    <3>2. ResultIsRight' /\ ~Incomplete'
      BY <2>1, <2>4, <3>1 DEF ResultIsRight, Incomplete
    <3>3. NothingWritten
      BY <1>1, <2>1, BeforeTheEnd
    <3>4. QED
      BY <2>1, <2>4, <3>2, <3>3 DEF PipelineInv, NothingWritten
  <2>5. QED
    BY <1>6, <2>2, <2>3, <2>4 DEF Judge
<1>7. CASE Extract
  <2>1. /\ stage \notin {"done", "failed"} /\ source \in {"live", "clone"}
        /\ ResultIsRight /\ ~Incomplete
    BY <1>1, <1>7 DEF Extract, PipelineInv
  <2>2. CASE Fail
    BY <1>1, <2>1, <2>2, FailingIsRight
  <2>3. CASE stage' = "write"
    <3>1. DocumentIsRight' /\ UNCHANGED <<scanVars, source, dump, live>>
      BY <1>7, <2>3, DocumentsAreRight
    <3>2. result' = result
      BY <3>1 DEF scanVars
    <3>3. ResultIsRight' /\ ~Incomplete'
      BY <2>1, <3>2 DEF ResultIsRight, Incomplete
    <3>4. NothingWritten
      BY <1>1, <2>1, BeforeTheEnd
    <3>5. QED
      BY <2>1, <2>3, <3>1, <3>3, <3>4 DEF PipelineInv, NothingWritten
  <2>4. QED
    BY <1>7, <2>2, <2>3 DEF Extract
<1>8. CASE Write
  <2>1. /\ stage \notin {"done", "failed"} /\ source \in {"live", "clone"}
        /\ ResultIsRight /\ ~Incomplete /\ DocumentIsRight
    BY <1>1, <1>8 DEF Write, PipelineInv
  <2>2. CASE Fail
    BY <1>1, <2>1, <2>2, FailingIsRight
  <2>3. CASE ~Fail
    <3>1. /\ dump' = document /\ stage' \in {"done", "failed"}
          /\ live' = live \/ (stage' = "done" /\ live' = Kept)
          /\ UNCHANGED <<scanVars, source, document>>
      BY <1>8, <2>3 DEF Write
    <3>2. result' = result
      BY <3>1 DEF scanVars
    <3>3. ResultIsRight' /\ ~Incomplete' /\ DocumentIsRight'
      BY <2>1, <3>1, <3>2 DEF ResultIsRight, Incomplete, DocumentIsRight
    <3>4. live' # {} => source' = "live" /\ live' = dump'.players \cup dump'.staff
      BY <1>1, <2>1, <3>1, BeforeTheEnd DEF Kept, NothingWritten
    <3>5. QED
      BY <2>1, <3>1, <3>3, <3>4 DEF PipelineInv
  <2>4. QED
    BY <2>2, <2>3
<1>9. QED
  BY <1>2, <1>3, <1>4, <1>5, <1>6, <1>7, <1>8 DEF Next, PipelineStep

LEMMA ScanInvHolds == ScanInv /\ [Next]_vars => ScanInv'
<1> SUFFICES ASSUME ScanInv, [Next]_vars PROVE unloaded' \in BOOLEAN
  BY TypesHold, PipelineHolds DEF ScanInv
<1>1. unloaded \in BOOLEAN
  BY DEF ScanInv
<1>2. CASE UNCHANGED unloaded
  BY <1>1, <1>2
<1>3. CASE Unload
  BY <1>3 DEF Unload
<1>4. UNCHANGED unloaded \/ Unload
  BY DEF Next, PipelineStep, Begin, Scan, EndScan, Judge, RetryOnClone, Extract, Write, Fail,
     Move, Ended, vars, pipelineVars
<1>5. QED
  BY <1>2, <1>3, <1>4

LEMMA RightDumps == PipelineInv => DumpIsAccepted
<1> SUFFICES ASSUME PipelineInv PROVE DumpIsAccepted
  OBVIOUS
<1>1. ASSUME dump # Nowhere
      PROVE  /\ dump.players # {}
             /\ Distinct(dump.players \cup dump.staff)
             /\ dump.players \cap dump.staff = {}
             /\ dump.manager # Nowhere =>
                   \E c \in dump.staff \cap dump.named : c.uid = dump.manager.uid
             /\ result.quality.unread * 10 <= result.quality.requested
  <2>1. dump = document /\ DocumentIsRight /\ ResultIsRight /\ ~Incomplete
    BY <1>1 DEF PipelineInv
  <2>2. dump.players \subseteq result.players /\ dump.staff \subseteq result.staff
    BY <2>1 DEF DocumentIsRight
  <2>3. \A c \in result.players \cup result.staff : IsCandidate(c)
    BY <2>1 DEF ResultIsRight, FoundTypes
  <2>4. Distinct(result.players) /\ Distinct(result.staff)
    BY <2>1, <2>3, OneByUid DEF ResultIsRight
  <2>5. \A c \in dump.staff, p \in dump.players : p.uid # c.uid
    BY <2>1, <2>2 DEF ResultIsRight
  <2>6. Distinct(dump.players \cup dump.staff) /\ dump.players \cap dump.staff = {}
    BY <2>2, <2>4, <2>5 DEF Distinct
  <2>7. result.quality.unread * 10 <= result.quality.requested
    <3>1. result.quality.unread \in Nat /\ result.quality.requested \in Nat
      BY <2>1 DEF ResultIsRight
    <3>2. ~(result.quality.unread * 100 > result.quality.requested * 10)
      BY <2>1 DEF Incomplete, MateriallyIncomplete, IncompletePercent
    <3>3. QED
      BY <3>1, <3>2
  <2>8. QED
    BY <2>1, <2>6, <2>7 DEF DocumentIsRight
<1>2. QED
  BY <1>1 DEF PipelineInv, DumpIsAccepted

(* The dump that is written is one the app accepts, whatever the memory is  *)
(* and does during the scan, however many regions and workers there are.    *)
THEOREM DumpsAreAccepted == Spec => []DumpIsAccepted
<1>1. ScanInv => DumpIsAccepted
  BY RightDumps DEF ScanInv
<1>2. QED
  BY ScanStarts, ScanInvHolds, <1>1, PTL DEF Spec
-----------------------------------------------------------------------------
(* What is found stays found, and what is read is found.                    *)
LEMMA KnownAmongMore ==
    ASSUME NEW X, NEW Y, X \subseteq Y, \A c \in Y : IsCandidate(c),
           NEW a \in Nat, Known(X, a)
    PROVE  Known(Lowest(Y), a)
<1>1. PICK c \in X : c.uid = heap.objects[a].uid /\ c.at <= a
  BY DEF Known
<1>2. PICK d \in Lowest(Y) : d.uid = c.uid /\ d.at <= c.at
  BY LowestReaches
<1>3. IsCandidate(c) /\ IsCandidate(d)
  BY LowestIsOfThem
<1>4. c.at \in Nat /\ d.at \in Nat
  BY <1>3 DEF IsCandidate
<1>5. QED
  BY <1>1, <1>2, <1>4 DEF Known

LEMMA FoundStaysFound ==
    ASSUME NEW f, NEW g, FoundTypes(f), FoundTypes(g), NEW a \in Nat,
           IsFound(f, a) \/ IsFound(g, a)
    PROVE  IsFound(Merged(f, g), a)
<1>1. /\ Merged(f, g).players = Lowest(f.players \cup g.players)
      /\ Merged(f, g).staff = Lowest(f.staff \cup g.staff)
      /\ Merged(f, g).managers = Lowest(f.managers \cup g.managers)
      /\ Merged(f, g).clubs = f.clubs \cup g.clubs
  BY DEF Merged
<1>2. /\ \A c \in f.players \cup g.players : IsCandidate(c)
      /\ \A c \in f.staff \cup g.staff : IsCandidate(c)
      /\ \A c \in f.managers \cup g.managers : IsCandidate(c)
  BY DEF FoundTypes
<1>3. Player(a) => Known(Merged(f, g).players, a)
  BY <1>1, <1>2, KnownAmongMore DEF IsFound
<1>4. OfStaff(a) => Known(Merged(f, g).staff, a)
  BY <1>1, <1>2, KnownAmongMore DEF IsFound
<1>5. IsManager(a) => Known(Merged(f, g).managers, a)
  BY <1>1, <1>2, KnownAmongMore DEF IsFound
<1>6. QED
  BY <1>1, <1>3, <1>4, <1>5 DEF IsFound

LEMMA ShownIsFound ==
    ASSUME NEW slots, NEW a \in slots, a \in Nat
    PROVE  IsFound(Shown(slots), a)
<1> DEFINE c == [uid |-> heap.objects[a].uid, at |-> a]
<1>1. /\ Player(a) => c \in Shown(slots).players
      /\ OfStaff(a) => c \in Shown(slots).staff
      /\ IsManager(a) => c \in Shown(slots).managers
      /\ heap.objects[a].facet = "club" => a \in Shown(slots).clubs
  BY DEF Shown, Candidates, Player, OfStaff, IsManager
<1>2. c.uid = heap.objects[a].uid /\ c.at <= a
  OBVIOUS
<1> HIDE DEF c
<1>3. QED
  BY <1>1, <1>2 DEF IsFound, Known

LEMMA ShownIsThere ==
    ASSUME NEW slots, slots \subseteq Readable
    PROVE  IsThere(Shown(slots))
BY DEF IsThere, Shown, Candidates, IsAt, Player, OfStaff, IsManager

LEMMA MergedIsThere ==
    ASSUME NEW f, NEW g, IsThere(f), IsThere(g)
    PROVE  IsThere(Merged(f, g))
<1>1. /\ Merged(f, g).players \subseteq f.players \cup g.players
      /\ Merged(f, g).staff \subseteq f.staff \cup g.staff
      /\ Merged(f, g).managers \subseteq f.managers \cup g.managers
      /\ Merged(f, g).clubs = f.clubs \cup g.clubs
  BY LowestIsOfThem DEF Merged
<1>2. QED
  BY <1>1 DEF IsThere

LEMMA RegionsAreOfNumbers ==
    ASSUME NEW i \in DOMAIN Regions
    PROVE  /\ Regions[i].base \in Nat /\ Regions[i].size \in Nat
           /\ EndOf(Regions[i]) \in Nat
<1>1. Regions \in Seq(Region)
  BY RegionsAssumption DEF Region
<1>2. Regions[i] \in Region
  BY <1>1
<1>3. QED
  BY <1>2 DEF Region, EndOf

(* The objects of a region lie in it.                                       *)
LEMMA ObjectsAreInside ==
    ASSUME heap \in Heaps, NEW i \in DOMAIN Regions, NEW a \in ObjectsOf(i)
    PROVE  /\ a \in Nat /\ a \in DOMAIN heap.objects
           /\ Regions[i].base <= a /\ a + Header <= EndOf(Regions[i])
<1>1. a \in Nat /\ a \in DOMAIN heap.objects
  BY HeapsAssumption DEF ObjectsOf
<1>2. a \in a..(a + Header - 1) /\ a + Header - 1 \in a..(a + Header - 1)
  BY <1>1, ScanAssumption
<1>3. Within(a, i) /\ Within(a + Header - 1, i)
  BY <1>2 DEF ObjectsOf
<1>4. Regions[i].base \in Nat /\ EndOf(Regions[i]) \in Nat
  BY RegionsAreOfNumbers
<1>5. QED
  BY <1>1, <1>3, <1>4, ScanAssumption DEF Within

(* What a worker at the k-th region has before it.                          *)
LEMMA TheRegionAhead ==
    ASSUME NEW n \in Nat, NEW w \in 1..n, NEW k \in Nat, NEW worker,
           IsAtRegion(worker, w, n, k), worker.todo # <<>>
    PROVE  /\ k \in DOMAIN Regions /\ k \in ShareStart(w, n)..ShareEnd(w, n)
           /\ Head(worker.todo) = Regions[k]
           /\ Tail(worker.todo) = SubSeq(Regions, k + 1, ShareEnd(w, n))
           /\ k + 1 \in ShareStart(w, n)..(ShareEnd(w, n) + 1)
<1>1. /\ ShareStart(w, n) \in 1..(Len(Regions) + 1) /\ ShareEnd(w, n) \in 0..Len(Regions)
      /\ Len(Regions) \in Nat /\ DOMAIN Regions = 1..Len(Regions)
  BY ShareIsOfRegions, RegionsAssumption
<1>2. k \in ShareStart(w, n)..(ShareEnd(w, n) + 1) /\ worker.todo = SubSeq(Regions, k, ShareEnd(w, n))
  BY DEF IsAtRegion
<1>3. k <= ShareEnd(w, n)
  BY <1>1, <1>2, ShareIsOver
<1>4. k \in 1..Len(Regions) /\ ShareEnd(w, n) \in k..Len(Regions)
  BY <1>1, <1>2, <1>3
<1>5. /\ Head(worker.todo) = Regions[k]
      /\ Tail(worker.todo) = SubSeq(Regions, k + 1, ShareEnd(w, n))
  BY <1>2, <1>4, RestOfShare
<1>6. k \in ShareStart(w, n)..ShareEnd(w, n) /\ k + 1 \in ShareStart(w, n)..(ShareEnd(w, n) + 1)
  BY <1>1, <1>2, <1>3
<1>7. QED
  BY <1>1, <1>4, <1>5, <1>6

LEMMA EndingMissesNothing ==
    ASSUME NEW w, NEW n, NEW k, NEW worker, IsAtRegion(worker, w, n, k), NEW after,
           after.todo = worker.todo, after.at = worker.at, after.found = worker.found
    PROVE  IsAtRegion(after, w, n, k)
BY DEF IsAtRegion

(* Behind the region that is passed over.                                   *)
LEMMA RegionIsDone ==
    ASSUME NEW n \in Nat, NEW w \in 1..n, NEW k \in Nat, NEW worker,
           IsAtRegion(worker, w, n, k), worker.todo # <<>>,
           NEW after, after.todo = Tail(worker.todo), after.at = Nowhere,
           IsThere(after.found),
           \A a \in Nat : IsFound(worker.found, a) => IsFound(after.found, a),
           heap \in Heaps,
           k \in Scannable => \A a \in ObjectsOf(k) : IsFound(after.found, a)
    PROVE  IsAtRegion(after, w, n, k + 1)
<1>1. /\ after.todo = SubSeq(Regions, k + 1, ShareEnd(w, n))
      /\ k + 1 \in ShareStart(w, n)..(ShareEnd(w, n) + 1)
  BY TheRegionAhead
<1>2. ASSUME NEW i \in ShareStart(w, n)..((k + 1) - 1), i \in Scannable, NEW a \in ObjectsOf(i)
      PROVE  IsFound(after.found, a)
  <2>1. CASE i = k
    BY <1>2, <2>1
  <2>2. CASE i # k
    <3>1. ShareStart(w, n) \in Int
      BY ShareIsOfRegions, RegionsAssumption
    <3>2. i \in ShareStart(w, n)..(k - 1)
      BY <1>2, <2>2, <3>1
    <3>3. IsFound(worker.found, a)
      BY <1>2, <3>2 DEF IsAtRegion
    <3>4. a \in Nat
      BY <1>2, ObjectsAreInside DEF Scannable
    <3>5. QED
      BY <3>3, <3>4
  <2>3. QED
    BY <2>1, <2>2
<1>3. QED
  BY <1>1, <1>2 DEF IsAtRegion

LEMMA EnteringMissesNothing ==
    ASSUME heap \in Heaps, NEW n \in Nat, NEW w \in 1..n, NEW k \in Nat, NEW worker,
           IsAtRegion(worker, w, n, k), worker.todo # <<>>,
           NEW after, after.found = worker.found,
           Head(worker.todo).size < Header =>
              after.todo = Tail(worker.todo) /\ after.at = Nowhere,
           ~(Head(worker.todo).size < Header) =>
              after.todo = worker.todo /\ after.at = Head(worker.todo).base
    PROVE  \E j \in Nat : IsAtRegion(after, w, n, j)
<1>1. k \in DOMAIN Regions /\ Head(worker.todo) = Regions[k]
  BY TheRegionAhead
<1>2. IsThere(worker.found)
  BY DEF IsAtRegion
<1>3. CASE Head(worker.todo).size < Header
  <2>1. after.todo = Tail(worker.todo) /\ after.at = Nowhere /\ after.found = worker.found
    BY <1>3
  <2>2. k \notin Scannable
    <3>1. Regions[k].size \in Nat
      BY <1>1, RegionsAreOfNumbers
    <3>2. QED
      BY <1>1, <1>3, <3>1, ScanAssumption DEF Scannable
  <2>3. IsAtRegion(after, w, n, k + 1)
    BY <1>2, <2>1, <2>2, RegionIsDone
  <2>4. QED
    BY <2>3
<1>4. CASE ~(Head(worker.todo).size < Header)
  <2>1. /\ after.todo = worker.todo /\ after.at = Regions[k].base
        /\ after.found = worker.found
    BY <1>1, <1>4
  <2>2. \A a \in ObjectsOf(k) : ~(a < Regions[k].base)
    <3>1. Regions[k].base \in Nat
      BY <1>1, RegionsAreOfNumbers
    <3>2. QED
      BY <1>1, <3>1, ObjectsAreInside
  <2>3. IsAtRegion(after, w, n, k)
    BY <2>1, <2>2 DEF IsAtRegion
  <2>4. QED
    BY <2>3
<1>5. QED
  BY <1>3, <1>4

(* The slots of a block that was read, and the objects up to the next one.  *)
LEMMA BlockMissesNothing ==
    ASSUME heap \in Heaps, NEW n \in Nat, NEW w \in 1..n, NEW k \in Nat, NEW worker,
           WorkerTypes(worker), IsAtRegion(worker, w, n, k), worker.at # Nowhere,
           NEW after, NEW failed, failed = FALSE, after = AfterBlock(worker, failed)
    PROVE  \E j \in Nat : IsAtRegion(after, w, n, j)
<1> DEFINE slots == SlotsRead(worker)
           end == EndOf(Regions[k])
<1>1. /\ worker.todo # <<>> /\ worker.todo \in Seq(Region)
      /\ FoundTypes(worker.found) /\ Head(worker.todo).base <= worker.at
  BY DEF WorkerTypes
<1>2. k \in DOMAIN Regions /\ Head(worker.todo) = Regions[k]
  BY <1>1, TheRegionAhead
<1>3. /\ worker.at \in Nat /\ end \in Nat
      /\ WordsRead(worker) \in Nat /\ WordsRead(worker) >= Header
      /\ worker.at + WordsRead(worker) <= end
      /\ NextAt(worker) \in Nat /\ worker.at < NextAt(worker)
      /\ NextAt(worker) <= worker.at + WordsRead(worker) - Header + 1
      /\ Regions[k].base \in Nat /\ Regions[k].size \in Nat /\ Regions[k].base <= worker.at
      /\ end = Regions[k].base + Regions[k].size
  BY <1>1, <1>2, BlockBounds, RegionsAreOfNumbers DEF EndOf
<1>4. k \in Scannable
  BY <1>2, <1>3, ScanAssumption DEF Scannable
<1>5. ASSUME NEW a \in slots PROVE a \in Readable
  <2>1. /\ a \in DOMAIN heap.objects /\ a \in Nat /\ a >= worker.at
        /\ a <= worker.at + WordsRead(worker) - Header
        /\ \A word \in a..(a + Header - 1) : word \notin heap.holes
    BY <1>5, HeapsAssumption, <1>3, ScanAssumption DEF SlotsRead
  <2>2. \A word \in a..(a + Header - 1) : Within(word, k)
    BY <1>3, <2>1, ScanAssumption DEF Within
  <2>3. QED
    BY <1>4, <2>1, <2>2 DEF Readable
<1>6. slots \subseteq Nat
  BY HeapsAssumption DEF SlotsRead
<1>7. /\ after.found = Merged(worker.found, Shown(slots))
      /\ after.todo = IF RegionEnds(worker) THEN Tail(worker.todo) ELSE worker.todo
      /\ after.at = IF RegionEnds(worker) THEN Nowhere ELSE NextAt(worker)
  BY DEF AfterBlock, WorkerTypes
<1>8. FoundTypes(Shown(slots)) /\ IsThere(Shown(slots))
  BY <1>5, <1>6, ShownTypes, ShownIsThere
<1>9. IsThere(after.found)
  BY <1>7, <1>8, MergedIsThere DEF IsAtRegion
<1>10. \A a \in Nat : IsFound(worker.found, a) => IsFound(after.found, a)
  BY <1>1, <1>7, <1>8, FoundStaysFound
<1>11. ASSUME NEW a \in ObjectsOf(k), a < NextAt(worker) PROVE IsFound(after.found, a)
  <2>1. a \in Nat /\ a \in DOMAIN heap.objects
    BY <1>2, <1>11, ObjectsAreInside
  <2>2. CASE a < worker.at
    BY <1>10, <1>11, <2>1, <2>2 DEF IsAtRegion
  <2>3. CASE a >= worker.at
    <3>1. a \in worker.at..(worker.at + WordsRead(worker) - Header)
      BY <1>3, <1>11, <2>1, <2>3, ScanAssumption
    <3>2. a \in slots
      BY <1>11, <2>1, <3>1 DEF SlotsRead, ObjectsOf
    <3>3. IsFound(Shown(slots), a)
      BY <1>6, <3>2, ShownIsFound
    <3>4. QED
      BY <1>1, <1>7, <1>8, <2>1, <3>3, FoundStaysFound
  <2>4. QED
    BY <1>3, <2>1, <2>2, <2>3
<1> HIDE DEF slots
<1>12. CASE RegionEnds(worker)
  <2>1. \A a \in ObjectsOf(k) : a < NextAt(worker)
    <3>1. \A a \in ObjectsOf(k) : a \in Nat /\ a + Header <= end
      BY <1>2, ObjectsAreInside
    <3>2. end - NextAt(worker) < Header
      BY <1>2, <1>12 DEF RegionEnds
    <3>3. QED
      BY <1>3, <3>1, <3>2, ScanAssumption
  <2>2. \A a \in ObjectsOf(k) : IsFound(after.found, a)
    BY <1>11, <2>1
  <2>3. IsAtRegion(after, w, n, k + 1)
    BY <1>1, <1>7, <1>9, <1>10, <1>12, <2>2, RegionIsDone
  <2>4. QED
    BY <2>3
<1>13. CASE ~RegionEnds(worker)
  <2>1. after.todo = worker.todo /\ after.at = NextAt(worker)
    BY <1>7, <1>13
  <2>2. ASSUME NEW i \in ShareStart(w, n)..(k - 1), i \in Scannable, NEW a \in ObjectsOf(i)
        PROVE  IsFound(after.found, a)
    <3>1. IsFound(worker.found, a)
      BY <2>2 DEF IsAtRegion
    <3>2. a \in Nat
      BY <2>2, ObjectsAreInside DEF Scannable
    <3>3. QED
      BY <1>10, <3>1, <3>2
  <2>3. IsAtRegion(after, w, n, k)
    BY <1>9, <1>11, <2>1, <2>2 DEF IsAtRegion
  <2>4. QED
    BY <2>3
<1>14. QED
  BY <1>12, <1>13
-----------------------------------------------------------------------------
(* How many words there are: the sum of the sizes.                          *)
LEMMA RegionsAreApart ==
    ASSUME NEW i \in DOMAIN Regions, NEW j \in DOMAIN Regions, NEW word,
           word \in WordsOf(i), word \in WordsOf(j)
    PROVE  i = j
<1>1. /\ EndOf(Regions[i]) \in Nat /\ Regions[i].base \in Nat
      /\ EndOf(Regions[j]) \in Nat /\ Regions[j].base \in Nat
  BY RegionsAreOfNumbers
<1>2. DOMAIN Regions \subseteq Int
  BY RegionsAssumption
<1>3. word \in Int /\ word < EndOf(Regions[i]) /\ word >= Regions[i].base
      /\ word < EndOf(Regions[j]) /\ word >= Regions[j].base
  BY <1>1 DEF WordsOf
<1>4. ~(i < j) /\ ~(j < i)
  <2>1. /\ i < j => EndOf(Regions[i]) <= Regions[j].base
        /\ j < i => EndOf(Regions[j]) <= Regions[i].base
    BY RegionsAssumption DEF EndOf
  <2>2. QED
    BY <1>1, <1>3, <2>1
<1>5. QED
  BY <1>2, <1>4

LEMMA WordsAreFinite ==
    ASSUME NEW s \in SUBSET DOMAIN Regions
    PROVE  IsFiniteSet(s) /\ IsFiniteSet(WordsOfAll(s)) /\ WordsOfAll(s) \subseteq Nat
<1>1. IsFiniteSet(DOMAIN Regions)
  <2>1. DOMAIN Regions = 1..Len(Regions) /\ Len(Regions) \in Nat
    BY RegionsAssumption
  <2>2. QED
    BY <2>1, FS_Interval
<1>2. IsFiniteSet(s)
  BY <1>1, FS_Subset
<1>3. \A i \in s : IsFiniteSet(WordsOf(i)) /\ WordsOf(i) \subseteq Nat
  <2>1. ASSUME NEW i \in s PROVE IsFiniteSet(WordsOf(i)) /\ WordsOf(i) \subseteq Nat
    <3>1. EndOf(Regions[i]) - 1 \in Int /\ Regions[i].base \in Nat
      BY RegionsAreOfNumbers
    <3>2. IsFiniteSet(Regions[i].base..(EndOf(Regions[i]) - 1))
      BY <3>1, FS_Interval
    <3>3. QED
      BY <3>1, <3>2 DEF WordsOf
  <2>2. QED
    BY <2>1
<1>4. IsFiniteSet({WordsOf(i) : i \in s})
  <2> DEFINE f == [i \in s |-> WordsOf(i)]
             T == {WordsOf(i) : i \in s}
  <2>1. f \in Surjection(s, T)
    BY DEF Surjection
  <2> HIDE DEF f, T
  <2>2. IsFiniteSet(T)
    BY <1>2, <2>1, FS_Surjection
  <2>3. QED
    BY <2>2 DEF T
<1>5. IsFiniteSet(UNION {WordsOf(i) : i \in s})
  BY <1>3, <1>4, FS_UNION
<1>6. QED
  BY <1>2, <1>3, <1>5 DEF WordsOfAll

LEMMA ApartTheyAdd ==
    ASSUME NEW A, NEW B, IsFiniteSet(A), IsFiniteSet(B), A \cap B = {}
    PROVE  IsFiniteSet(A \cup B) /\ Cardinality(A \cup B) = Cardinality(A) + Cardinality(B)
<1>1. Cardinality(A) \in Nat /\ Cardinality(B) \in Nat /\ Cardinality(A \cap B) = 0
  <2>1. Cardinality(A \cap B) = Cardinality({})
    BY Zenon
  <2>2. QED
    BY <2>1, FS_CardinalityType, FS_EmptySet
<1>2. Cardinality(A \cup B) = Cardinality(A) + Cardinality(B) - Cardinality(A \cap B)
  BY FS_Union
<1>3. IsFiniteSet(A \cup B)
  BY FS_Union
<1>4. QED
  BY <1>1, <1>2, <1>3

LEMMA OneRegionMore ==
    ASSUME NEW s \in SUBSET DOMAIN Regions, NEW x \in s
    PROVE  Cardinality(WordsOfAll(s)) = Regions[x].size + Cardinality(WordsOfAll(s \ {x}))
<1>1. WordsOfAll(s) = WordsOf(x) \cup WordsOfAll(s \ {x})
  BY DEF WordsOfAll
<1>2. WordsOf(x) \cap WordsOfAll(s \ {x}) = {}
  BY RegionsAreApart DEF WordsOfAll
<1>3. s \ {x} \in SUBSET DOMAIN Regions
  OBVIOUS
<1>4. IsFiniteSet(WordsOfAll(s \ {x}))
  BY <1>3, WordsAreFinite
<1>5. IsFiniteSet(WordsOf(x)) /\ Cardinality(WordsOf(x)) = Regions[x].size
  <2>1. /\ Regions[x].base \in Nat /\ Regions[x].size \in Nat
        /\ EndOf(Regions[x]) = Regions[x].base + Regions[x].size
    BY RegionsAreOfNumbers DEF EndOf
  <2> DEFINE from == Regions[x].base
             to == EndOf(Regions[x]) - 1
  <2>2. from \in Int /\ to \in Int /\ to - from + 1 = Regions[x].size
    BY <2>1
  <2>3. from > to <=> Regions[x].size = 0
    BY <2>1
  <2> HIDE DEF from, to
  <2>4. IsFiniteSet(from..to) /\ Cardinality(from..to) = IF from > to THEN 0 ELSE to - from + 1
    BY <2>2, FS_Interval
  <2>5. QED
    BY <2>2, <2>3, <2>4 DEF WordsOf, from, to
<1>6. QED
  BY <1>1, <1>2, <1>4, <1>5, ApartTheyAdd

(* MapThenSumSet by its definition: a function of the subsets that takes    *)
(* the element it picks, and adds the sum of the others.  There is one such *)
(* function, since two would differ at a smallest set first.                *)
Picked(s) == CHOOSE x \in s : TRUE
IsSum(g, S) ==
    g = [s \in SUBSET S |-> IF s = {} THEN 0 ELSE Regions[Picked(s)].size + g[s \ {Picked(s)}]]

LEMMA PickedIsOne ==
    ASSUME NEW s, s # {}
    PROVE  Picked(s) \in s
BY DEF Picked

LEMMA CountIsSum ==
    ASSUME NEW S \in SUBSET DOMAIN Regions
    PROVE  IsSum([s \in SUBSET S |-> Cardinality(WordsOfAll(s))], S)
<1> DEFINE g == [s \in SUBSET S |-> Cardinality(WordsOfAll(s))]
<1>1. ASSUME NEW s \in SUBSET S
      PROVE  g[s] = IF s = {} THEN 0 ELSE Regions[Picked(s)].size + g[s \ {Picked(s)}]
  <2>1. CASE s = {}
    <3>1. WordsOfAll(s) = {}
      BY <2>1 DEF WordsOfAll
    <3>2. QED
      BY <2>1, <3>1, FS_EmptySet
  <2>2. CASE s # {}
    <3>1. Picked(s) \in s /\ s \in SUBSET DOMAIN Regions /\ s \ {Picked(s)} \in SUBSET S
      BY <2>2, PickedIsOne
    <3>2. QED
      BY <2>2, <3>1, OneRegionMore
  <2>3. QED
    BY <2>1, <2>2
<1>2. g = [s \in SUBSET S |-> g[s]]
  OBVIOUS
<1> HIDE DEF g
<1>3. IsSum(g, S)
  BY <1>1, <1>2 DEF IsSum
<1>4. QED
  BY <1>3 DEF g

LEMMA SumsAreOne ==
    ASSUME NEW S, IsFiniteSet(S), NEW g, NEW h, IsSum(g, S), IsSum(h, S)
    PROVE  g[S] = h[S]
<1> DEFINE Wrong == {s \in SUBSET S : g[s] # h[s]}
           Sizes == {Cardinality(s) : s \in Wrong}
<1>1. SUFFICES ASSUME S \in Wrong PROVE FALSE
  OBVIOUS
<1>2. \A s \in SUBSET S : IsFiniteSet(s) /\ Cardinality(s) \in Nat
  BY FS_Subset, FS_CardinalityType
<1>3. Sizes \subseteq Nat /\ Sizes # {}
  BY <1>1, <1>2
<1>4. PICK m \in Sizes : \A k \in Sizes : m <= k
  <2> HIDE DEF Sizes
  <2>1. QED
    BY <1>3, LeastNumber
<1>5. PICK s \in Wrong : m = Cardinality(s)
  BY <1>4
<1>6. s \in SUBSET S /\ g[s] # h[s]
  BY <1>5
<1>7. /\ g[s] = IF s = {} THEN 0 ELSE Regions[Picked(s)].size + g[s \ {Picked(s)}]
      /\ h[s] = IF s = {} THEN 0 ELSE Regions[Picked(s)].size + h[s \ {Picked(s)}]
  BY <1>6 DEF IsSum
<1>8. s # {} /\ g[s \ {Picked(s)}] # h[s \ {Picked(s)}]
  BY <1>6, <1>7
<1>9. s \ {Picked(s)} \in Wrong
  BY <1>6, <1>8
<1>10. m <= Cardinality(s \ {Picked(s)})
  BY <1>4, <1>9
<1>11. Cardinality(s \ {Picked(s)}) = Cardinality(s) - 1
  BY <1>2, <1>6, <1>8, PickedIsOne, FS_RemoveElement
<1>12. QED
  BY <1>2, <1>5, <1>6, <1>10, <1>11

LEMMA SizesAreSummed ==
    ASSUME NEW S \in SUBSET DOMAIN Regions
    PROVE  (CHOOSE g : IsSum(g, S))[S] = Cardinality(WordsOfAll(S))
<1> DEFINE count == [s \in SUBSET S |-> Cardinality(WordsOfAll(s))]
<1>1. IsSum(count, S)
  BY CountIsSum
<1>2. count[S] = Cardinality(WordsOfAll(S))
  OBVIOUS
<1> HIDE DEF count
<1>3. IsSum(CHOOSE g : IsSum(g, S), S)
  BY <1>1
<1>4. IsFiniteSet(S)
  BY WordsAreFinite
<1>5. QED
  BY <1>1, <1>2, <1>3, <1>4, SumsAreOne

(* The second half of ScanIsComplete without the sum.                       *)
LEMMA SumOfSizes ==
    WordsAreCountedOnce <=>
       (Undisturbed => /\ result.quality.requested = (CHOOSE g : IsSum(g, Scannable))[Scannable]
                       /\ result.quality.unread =
                             Cardinality({word \in heap.holes : \E i \in Scannable : Within(word, i)}))
BY DEF WordsAreCountedOnce, MapThenSumSet, MapThenFoldSet, IsSum, Picked
-----------------------------------------------------------------------------
(* Every word is counted once.                                              *)
LEMMA SharesAreOfNumbers ==
    ASSUME NEW n \in Nat, NEW w \in 1..n
    PROVE  /\ ShareStart(w, n) \in Nat /\ ShareEnd(w, n) \in Nat
           /\ ShareStart(w, n) \in ShareStart(w, n)..(ShareEnd(w, n) + 1)
<1>1. Len(Regions) \in Nat
  BY RegionsAssumption
<1>2. /\ ShareStart(w, n) \in 1..(Len(Regions) + 1) /\ ShareEnd(w, n) \in 0..Len(Regions)
      /\ ShareStart(w, n) <= ShareEnd(w, n) + 1
  BY ShareIsOfRegions
<1>3. QED
  BY <1>1, <1>2

LEMMA ScannableAreNumbers == Scannable \subseteq DOMAIN Regions /\ Scannable \subseteq Nat
<1>1. DOMAIN Regions = 1..Len(Regions) /\ Len(Regions) \in Nat
  BY RegionsAssumption
<1>2. Scannable \subseteq DOMAIN Regions
  BY DEF Scannable
<1>3. QED
  BY <1>1, <1>2

LEMMA SharesAreApart ==
    ASSUME NEW n \in Nat, NEW v \in 1..n, NEW w \in 1..n, NEW i \in Nat,
           i \in ShareStart(v, n)..ShareEnd(v, n), i \in ShareStart(w, n)..ShareEnd(w, n)
    PROVE  v = w
<1>1. ASSUME NEW a \in 1..n, NEW b \in 1..n, a < b,
             i \in ShareStart(a, n)..ShareEnd(a, n), i \in ShareStart(b, n)..ShareEnd(b, n)
      PROVE  FALSE
  <2> DEFINE l == Len(Regions)
             p == (l * a) \div n
             q == (l * (b - 1)) \div n
  <2>1. l \in Nat /\ n \in Nat \ {0}
    BY RegionsAssumption
  <2>2. l * a \in Nat /\ l * (b - 1) \in Nat /\ l * a <= l * (b - 1)
    BY <1>1, <2>1
  <2>3. /\ p \in Nat /\ n * p <= l * a
        /\ q \in Nat /\ l * (b - 1) < n * q + n
    BY <2>1, <2>2, Quotients
  <2>4. i <= p /\ q + 1 <= i
    BY <1>1, <2>3 DEF ShareStart, ShareEnd
  <2> HIDE DEF l, p, q
  <2>5. n * p < n * q + n /\ n * q + n = n * (q + 1)
    BY <2>1, <2>2, <2>3
  <2>6. p < q + 1
    BY <2>1, <2>3, <2>5
  <2>7. QED
    BY <2>3, <2>4, <2>6
<1>2. QED
  BY <1>1

LEMMA TurnsAreRegions ==
    ASSUME NEW n \in Nat, NEW w \in 1..n, NEW worker, NEW k \in Nat,
           IsAtRegion(worker, w, n, k)
    PROVE  Turn(worker, w, n) = k
<1>1. /\ k \in ShareStart(w, n)..(ShareEnd(w, n) + 1)
      /\ worker.todo = SubSeq(Regions, k, ShareEnd(w, n))
  BY DEF IsAtRegion
<1>2. ShareStart(w, n) \in Nat /\ ShareEnd(w, n) \in Nat
  BY SharesAreOfNumbers
<1>3. CASE k <= ShareEnd(w, n)
  <2>1. Len(worker.todo) = ShareEnd(w, n) - k + 1
    BY <1>1, <1>2, <1>3, ShareIsOver
  <2>2. QED
    BY <1>2, <1>3, <2>1 DEF Turn
<1>4. CASE k > ShareEnd(w, n)
  <2>1. worker.todo = <<>> /\ k = ShareEnd(w, n) + 1
    BY <1>1, <1>2, <1>4, ShareIsOver
  <2>2. Len(worker.todo) = 0
    BY <2>1
  <2>3. QED
    BY <1>2, <2>1, <2>2 DEF Turn
<1>5. QED
  BY <1>2, <1>3, <1>4

(* What a worker has counted lies in the regions of its share.              *)
LEMMA CountedIsInTheShare ==
    ASSUME NEW n \in Nat, NEW w \in 1..n, NEW worker, NEW k \in Nat, WorkerTypes(worker),
           IsAtRegion(worker, w, n, k), NEW word \in CountedBy(worker, w, n)
    PROVE  \E i \in Scannable :
              /\ i \in ShareStart(w, n)..ShareEnd(w, n) /\ word \in WordsOf(i)
              /\ i < k \/ (i = k /\ word \in CountedHere(worker))
<1>1. Turn(worker, w, n) = k
  BY TurnsAreRegions
<1>2. /\ ShareStart(w, n) \in Nat /\ ShareEnd(w, n) \in Nat
      /\ k \in ShareStart(w, n)..(ShareEnd(w, n) + 1)
      /\ Scannable \subseteq Nat
  BY SharesAreOfNumbers, ScannableAreNumbers DEF IsAtRegion
<1>3. CASE word \in WordsOfAll(DoneBy(worker, w, n))
  <2>1. PICK i \in DoneBy(worker, w, n) : word \in WordsOf(i)
    BY <1>3 DEF WordsOfAll
  <2>2. i \in Scannable /\ ShareStart(w, n) <= i /\ i < k /\ i \in Nat
    BY <1>1, <1>2, <2>1 DEF DoneBy
  <2>3. i \in ShareStart(w, n)..ShareEnd(w, n)
    BY <1>2, <2>2
  <2>4. QED
    BY <2>1, <2>2, <2>3
<1>4. CASE word \in CountedHere(worker)
  <2>1. /\ worker.at # Nowhere /\ worker.todo # <<>> /\ worker.at \in Nat
        /\ worker.at + Header <= EndOf(Head(worker.todo))
        /\ Head(worker.todo).base <= worker.at
        /\ word \in Head(worker.todo).base..(Covered(worker) - 1)
    BY <1>4 DEF CountedHere, WorkerTypes
  <2>2. /\ k \in DOMAIN Regions /\ k \in ShareStart(w, n)..ShareEnd(w, n)
        /\ Head(worker.todo) = Regions[k]
    BY <2>1, TheRegionAhead
  <2>3. /\ Regions[k].base \in Nat /\ Regions[k].size \in Nat /\ EndOf(Regions[k]) \in Nat
        /\ EndOf(Regions[k]) = Regions[k].base + Regions[k].size
    BY <2>2, RegionsAreOfNumbers DEF EndOf
  <2>4. k \in Scannable
    BY <2>1, <2>2, <2>3, ScanAssumption DEF Scannable
  <2>5. Covered(worker) \in Nat /\ Covered(worker) <= EndOf(Regions[k])
    BY <2>1, <2>2, <2>3, ScanAssumption DEF Covered
  <2>6. word \in WordsOf(k)
    BY <2>1, <2>2, <2>3, <2>5 DEF WordsOf
  <2>7. QED
    BY <1>4, <2>2, <2>4, <2>6
<1>5. QED
  BY <1>3, <1>4 DEF CountedBy

LEMMA CountedIsOfTheRegions ==
    ASSUME ScanTypes, NEW n \in Nat, AllAreAt(workers, n)
    PROVE  CountedWords(workers, n) \subseteq AllTheWords
<1>1. ASSUME NEW w \in 1..n, NEW word \in CountedBy(workers[w], w, n) PROVE word \in AllTheWords
  <2>1. WorkerTypes(workers[w]) /\ \E k \in Nat : IsAtRegion(workers[w], w, n, k)
    BY DEF ScanTypes, AllAreAt
  <2>2. \E i \in Scannable : word \in WordsOf(i)
    BY <1>1, <2>1, CountedIsInTheShare
  <2>3. QED
    BY <2>2 DEF AllTheWords, WordsOfAll
<1>2. QED
  BY <1>1 DEF CountedWords

(* The regions a worker has done when it goes on to the next one.           *)
LEMMA OneRegionDone ==
    ASSUME NEW n \in Nat, NEW w \in 1..n, NEW worker, NEW k \in Nat,
           IsAtRegion(worker, w, n, k), worker.todo # <<>>, worker.todo \in Seq(Region),
           NEW after, after.todo = Tail(worker.todo)
    PROVE  /\ DoneBy(after, w, n) =
                 DoneBy(worker, w, n) \cup (IF k \in Scannable THEN {k} ELSE {})
           /\ k \notin DoneBy(worker, w, n)
<1>1. Turn(worker, w, n) = k
  BY TurnsAreRegions
<1>2. Len(after.todo) = Len(worker.todo) - 1 /\ Len(worker.todo) \in Nat
  OBVIOUS
<1>3. ShareEnd(w, n) \in Nat /\ ShareStart(w, n) \in Nat
  BY SharesAreOfNumbers
<1>4. Turn(after, w, n) = k + 1
  BY <1>1, <1>2, <1>3 DEF Turn
<1>5. ShareStart(w, n) <= k /\ Scannable \subseteq Nat
  BY <1>3, ScannableAreNumbers DEF IsAtRegion
<1>6. ASSUME NEW i \in Scannable
      PROVE  i \in DoneBy(after, w, n) <=> i \in DoneBy(worker, w, n) \/ i = k
  <2>1. i \in DoneBy(after, w, n) <=> ShareStart(w, n) <= i /\ i < k + 1
    BY <1>4 DEF DoneBy
  <2>2. i \in DoneBy(worker, w, n) <=> ShareStart(w, n) <= i /\ i < k
    BY <1>1 DEF DoneBy
  <2>3. i \in Nat
    BY <1>5
  <2>4. QED
    BY <1>3, <1>5, <2>1, <2>2, <2>3
<1>7. /\ DoneBy(after, w, n) \subseteq Scannable /\ DoneBy(worker, w, n) \subseteq Scannable
      /\ k \notin DoneBy(worker, w, n)
  BY <1>1 DEF DoneBy
<1>8. QED
  BY <1>6, <1>7

LEMMA PassingCountsNothing ==
    ASSUME NEW n \in Nat, NEW w \in 1..n, NEW k \in Nat, NEW worker,
           WorkerTypes(worker), IsAtRegion(worker, w, n, k), worker.todo # <<>>,
           worker.at = Nowhere,
           NEW after,
           Head(worker.todo).size < Header =>
              after.todo = Tail(worker.todo) /\ after.at = Nowhere,
           ~(Head(worker.todo).size < Header) =>
              /\ after.todo = worker.todo /\ after.at = Head(worker.todo).base
              /\ after.prior = FALSE
    PROVE  CountedBy(after, w, n) = CountedBy(worker, w, n) /\ BlocksFollow(after)
<1>1. k \in DOMAIN Regions /\ Head(worker.todo) = Regions[k] /\ worker.todo \in Seq(Region)
  BY TheRegionAhead DEF WorkerTypes
<1>2. Regions[k].base \in Nat /\ Regions[k].size \in Nat
  BY <1>1, RegionsAreOfNumbers
<1>3. CountedHere(worker) = {}
  BY DEF CountedHere
<1>4. CASE Head(worker.todo).size < Header
  <2>1. k \notin Scannable
    BY <1>1, <1>2, <1>4, ScanAssumption DEF Scannable
  <2>2. DoneBy(after, w, n) = DoneBy(worker, w, n)
    <3>1. after.todo = Tail(worker.todo)
      BY <1>4
    <3>2. DoneBy(after, w, n) = DoneBy(worker, w, n) \cup (IF k \in Scannable THEN {k} ELSE {})
      BY <1>1, <3>1, OneRegionDone
    <3>3. QED
      BY <2>1, <3>2
  <2>3. CountedHere(after) = {} /\ BlocksFollow(after)
    BY <1>4 DEF CountedHere, BlocksFollow
  <2>4. QED
    BY <1>3, <2>2, <2>3 DEF CountedBy
<1>5. CASE ~(Head(worker.todo).size < Header)
  <2>1. /\ after.todo = worker.todo /\ after.at = Regions[k].base /\ after.prior = FALSE
    BY <1>1, <1>5
  <2>2. DoneBy(after, w, n) = DoneBy(worker, w, n)
    BY <2>1 DEF DoneBy, Turn
  <2>3. CountedHere(after) = {}
    BY <1>1, <1>2, <2>1 DEF CountedHere, Covered
  <2>4. BlocksFollow(after)
    BY <1>1, <2>1 DEF BlocksFollow
  <2>5. QED
    BY <1>3, <2>2, <2>3, <2>4 DEF CountedBy
<1>6. QED
  BY <1>4, <1>5

LEMMA EndingCountsNothing ==
    ASSUME NEW w, NEW n, NEW worker, BlocksFollow(worker), NEW after,
           after.todo = worker.todo, after.at = worker.at, after.prior = worker.prior
    PROVE  CountedBy(after, w, n) = CountedBy(worker, w, n) /\ BlocksFollow(after)
BY DEF CountedBy, DoneBy, Turn, CountedHere, Covered, BlocksFollow

LEMMA TwoIntervals ==
    ASSUME NEW a \in Nat, NEW b \in Nat, NEW c \in Nat, a <= b, b <= c
    PROVE  /\ a..(c - 1) = (a..(b - 1)) \cup (b..(c - 1))
           /\ (b..(c - 1)) \cap (a..(b - 1)) = {}
           /\ \A e \in Nat : c <= e => b..(c - 1) \subseteq a..(e - 1)
OBVIOUS

(* A block counts its words but those it has in common with the last one.   *)
LEMMA BlockCountsItsWords ==
    ASSUME NEW n \in Nat, NEW w \in 1..n, NEW k \in Nat, NEW worker,
           WorkerTypes(worker), IsAtRegion(worker, w, n, k), worker.at # Nowhere,
           BlocksFollow(worker),
           NEW fails, NEW after, after = AfterBlock(worker, fails)
    PROVE  /\ CountedBy(after, w, n) = CountedBy(worker, w, n) \cup WordsCounted(worker)
           /\ WordsCounted(worker) \subseteq WordsOf(k)
           /\ WordsCounted(worker) \cap CountedHere(worker) = {}
           /\ BlocksFollow(after)
<1> DEFINE cov == Covered(worker)
           end == EndOf(Regions[k])
           read == WordsRead(worker)
           to == worker.at + read
<1>1. /\ worker.todo # <<>> /\ worker.todo \in Seq(Region)
      /\ Head(worker.todo).base <= worker.at
  BY DEF WorkerTypes
<1>2. k \in DOMAIN Regions /\ Head(worker.todo) = Regions[k]
  BY <1>1, TheRegionAhead
<1>3. /\ worker.at \in Nat /\ end \in Nat /\ read \in Nat /\ read >= Header
      /\ worker.at + read <= end
      /\ read = IF Block <= end - worker.at THEN Block ELSE end - worker.at
      /\ Regions[k].base \in Nat /\ Regions[k].size \in Nat /\ Regions[k].base <= worker.at
      /\ end = Regions[k].base + Regions[k].size
  <2>1. /\ worker.at \in Nat /\ end \in Nat /\ read \in Nat /\ read >= Header
        /\ worker.at + read <= end
    BY <1>2, BlockBounds
  <2>2. /\ Regions[k].base \in Nat /\ Regions[k].size \in Nat /\ Regions[k].base <= worker.at
        /\ end = Regions[k].base + Regions[k].size
    BY <1>1, <1>2, RegionsAreOfNumbers DEF EndOf
  <2>3. Block \in Int /\ end - worker.at \in Int
    BY <2>1, ScanAssumption
  <2>4. read = IF Block <= end - worker.at THEN Block ELSE end - worker.at
    BY <1>2, <2>3, OfTwo DEF WordsRead
  <2>5. QED
    BY <2>1, <2>2, <2>4
<1>4. k \in Scannable
  BY <1>2, <1>3, ScanAssumption DEF Scannable
<1>5. WordsCounted(worker) = cov..(to - 1)
  <2>1. Min({Overlap, read}) = Header
    BY <1>3, ScanAssumption, OfTwo DEF Overlap
  <2>2. cov = worker.at + IF worker.prior THEN Min({Overlap, read}) ELSE 0
    BY <2>1 DEF Covered
  <2> HIDE DEF cov, to
  <2>3. WordsCounted(worker) = cov..(worker.at + read - 1)
    BY <2>2 DEF WordsCounted
  <2>4. worker.at \in Nat /\ read \in Nat
    BY <1>3
  <2> HIDE DEF read
  <2>5. worker.at + read - 1 = to - 1
    BY <2>4 DEF to
  <2>6. QED
    BY <2>3, <2>5
<1>6. /\ cov \in Nat /\ Regions[k].base <= cov
      /\ to \in Nat /\ cov <= to /\ to <= end
      /\ CountedHere(worker) = Regions[k].base..(cov - 1)
  <2>1. /\ worker.at \in Nat /\ read \in Nat /\ read >= Header /\ worker.at + read <= end
        /\ end \in Nat /\ Regions[k].base \in Nat /\ Regions[k].base <= worker.at
    BY <1>3
  <2>2. CountedHere(worker) = Regions[k].base..(cov - 1)
    BY <1>2 DEF CountedHere
  <2>3. Header \in Nat /\ (cov = worker.at \/ cov = worker.at + Header)
    <3>1. worker.prior => cov = worker.at + Header
      BY DEF Covered
    <3>2. ~worker.prior => cov = worker.at
      BY <2>1 DEF Covered
    <3>3. QED
      BY <3>1, <3>2, ScanAssumption
  <2>4. to = worker.at + read
    OBVIOUS
  <2> HIDE DEF cov, end, read, to
  <2>5. cov \in Nat /\ Regions[k].base <= cov /\ to \in Nat /\ cov <= to /\ to <= end
    BY <2>1, <2>3, <2>4
  <2>6. QED
    BY <2>2, <2>5
<1>7. /\ after.todo = IF RegionEnds(worker) THEN Tail(worker.todo) ELSE worker.todo
      /\ after.at = IF RegionEnds(worker) THEN Nowhere ELSE NextAt(worker)
      /\ after.prior = TRUE
  BY DEF AfterBlock, WorkerTypes
<1>8. /\ NextAt(worker) = worker.at + (IF read > Header THEN read - Header ELSE 1)
      /\ RegionEnds(worker) <=> end - NextAt(worker) < Header
  BY <1>2 DEF NextAt, Step, Overlap, RegionEnds
<1>9. BlocksFollow(after)
  BY <1>7 DEF BlocksFollow
<1> HIDE DEF cov, end, read, to
<1>10. /\ WordsCounted(worker) \subseteq WordsOf(k)
       /\ WordsCounted(worker) \cap CountedHere(worker) = {}
  <2>1. WordsOf(k) = Regions[k].base..(end - 1)
    BY DEF WordsOf, end
  <2>2. end \in Nat /\ Regions[k].base \in Nat
    BY <1>3
  <2>3. QED
    BY <1>5, <1>6, <2>1, <2>2, TwoIntervals
<1>11. CASE RegionEnds(worker)
  <2>1. to = end
    BY <1>3, <1>8, <1>11, ScanAssumption DEF to
  <2>2. DoneBy(after, w, n) = DoneBy(worker, w, n) \cup {k}
    BY <1>1, <1>4, <1>7, <1>11, OneRegionDone
  <2>3. CountedHere(after) = {}
    BY <1>7, <1>11 DEF CountedHere
  <2>4. WordsOf(k) = CountedHere(worker) \cup WordsCounted(worker)
    <3>1. WordsOf(k) = Regions[k].base..(end - 1)
      BY DEF WordsOf, end
    <3>2. Regions[k].base \in Nat
      BY <1>3
    <3>3. QED
      BY <1>5, <1>6, <2>1, <3>1, <3>2, TwoIntervals
  <2>5. WordsOfAll(DoneBy(after, w, n)) = WordsOfAll(DoneBy(worker, w, n)) \cup WordsOf(k)
    BY <2>2 DEF WordsOfAll
  <2>6. QED
    BY <1>9, <1>10, <2>3, <2>4, <2>5 DEF CountedBy
<1>12. CASE ~RegionEnds(worker)
  <2>1. NextAt(worker) \in Nat /\ NextAt(worker) + Header = worker.at + read
    BY <1>3, <1>8, <1>12, ScanAssumption
  <2>2. after.todo = worker.todo /\ after.at = NextAt(worker)
    BY <1>7, <1>12
  <2>3. DoneBy(after, w, n) = DoneBy(worker, w, n)
    BY <2>2 DEF DoneBy, Turn
  <2>4. after.at # Nowhere
    BY <2>1, <2>2, NowhereAssumption
  <2>5. Covered(after) = to
    BY <1>7, <2>1, <2>2 DEF Covered, to
  <2>6. CountedHere(after) = Regions[k].base..(to - 1)
    <3>1. Head(after.todo).base = Regions[k].base
      BY <1>2, <2>2
    <3>2. QED
      BY <2>4, <2>5, <3>1 DEF CountedHere
  <2>7. CountedHere(after) = CountedHere(worker) \cup WordsCounted(worker)
    <3>1. Regions[k].base \in Nat
      BY <1>3
    <3>2. QED
      BY <1>5, <1>6, <2>6, <3>1, TwoIntervals
  <2>8. QED
    BY <1>9, <1>10, <2>3, <2>7 DEF CountedBy
<1>13. QED
  BY <1>11, <1>12

LEMMA BlocksAreApart ==
    ASSUME ScanTypes, NEW n \in Nat, AllAreAt(workers, n),
           NEW w \in 1..n, NEW k \in Nat, IsAtRegion(workers[w], w, n, k),
           workers[w].todo # <<>>,
           NEW B, B \subseteq WordsOf(k), B \cap CountedHere(workers[w]) = {}
    PROVE  B \cap CountedWords(workers, n) = {}
<1>1. SUFFICES ASSUME NEW word \in B, NEW v \in 1..n, word \in CountedBy(workers[v], v, n)
               PROVE  FALSE
  BY DEF CountedWords
<1>2. WorkerTypes(workers[v])
  BY DEF ScanTypes, AllAreAt
<1>3. PICK j \in Nat : IsAtRegion(workers[v], v, n, j)
  BY DEF AllAreAt
<1>4. PICK i \in Scannable :
         /\ i \in ShareStart(v, n)..ShareEnd(v, n) /\ word \in WordsOf(i)
         /\ i < j \/ (i = j /\ word \in CountedHere(workers[v]))
  BY <1>1, <1>2, <1>3, CountedIsInTheShare
<1>5. i \in DOMAIN Regions /\ i \in Nat
  BY ScannableAreNumbers
<1>6. k \in DOMAIN Regions /\ k \in ShareStart(w, n)..ShareEnd(w, n) /\ word \in WordsOf(k)
  BY <1>1, TheRegionAhead
<1>7. i = k
  BY <1>4, <1>5, <1>6, RegionsAreApart
<1>8. v = w
  BY <1>4, <1>5, <1>6, <1>7, SharesAreApart
<1>9. j = k
  BY <1>3, <1>8, TurnsAreRegions
<1>10. word \in CountedHere(workers[w])
  BY <1>4, <1>5, <1>7, <1>8, <1>9
<1>11. QED
  BY <1>1, <1>10

LEMMA OneWorkerCounts ==
    ASSUME NEW n \in Nat, NEW w \in 1..n, NEW B,
           CountedBy(workers'[w], w, n) = CountedBy(workers[w], w, n) \cup B,
           \A v \in 1..n : v # w => workers'[v] = workers[v]
    PROVE  CountedWords(workers', n) = CountedWords(workers, n) \cup B
<1>1. CountedBy(workers'[w], w, n) = CountedBy(workers[w], w, n) \cup B
  OBVIOUS
<1>2. \A v \in 1..n : v # w => CountedBy(workers'[v], v, n) = CountedBy(workers[v], v, n)
  OBVIOUS
<1>3. \A v \in 1..n : CountedBy(workers'[v], v, n) \subseteq CountedWords(workers, n) \cup B
  BY <1>1, <1>2 DEF CountedWords
<1>4. \A v \in 1..n : CountedBy(workers[v], v, n) \subseteq CountedBy(workers'[v], v, n)
  BY <1>1, <1>2
<1>5. B \subseteq CountedBy(workers'[w], w, n)
  BY <1>1
<1>6. QED
  BY <1>3, <1>4, <1>5 DEF CountedWords

LEMMA NothingMoreIsCounted ==
    ASSUME NEW n \in Nat, DOMAIN workers = 1..n, CountedOnce(workers, totals, n),
           NEW w \in 1..n, NEW after, workers' = [workers EXCEPT ![w] = after],
           CountedBy(after, w, n) = CountedBy(workers[w], w, n), BlocksFollow(after),
           totals' = totals
    PROVE  CountedOnce(workers', totals', n)
<1> DEFINE none == {}
<1>1. /\ CountedBy(workers'[w], w, n) = CountedBy(workers[w], w, n) \cup none
      /\ \A v \in 1..n : v # w => workers'[v] = workers[v]
  OBVIOUS
<1> HIDE DEF none
<1>2. CountedWords(workers', n) = CountedWords(workers, n) \cup none
  BY <1>1, OneWorkerCounts
<1>3. CountedWords(workers', n) = CountedWords(workers, n)
  BY <1>2 DEF none
<1>4. \A v \in 1..n : BlocksFollow(workers'[v])
  BY DEF CountedOnce
<1>5. QED
  BY <1>3, <1>4 DEF CountedOnce

LEMMA ABlockMoreIsCounted ==
    ASSUME ScanTypes, NEW n \in Nat, AllAreAt(workers, n), CountedOnce(workers, totals, n),
           NEW w \in 1..n, NEW after, workers' = [workers EXCEPT ![w] = after],
           NEW B, B \subseteq AllTheWords, B \cap CountedWords(workers, n) = {},
           CountedBy(after, w, n) = CountedBy(workers[w], w, n) \cup B, BlocksFollow(after),
           NEW failed, failed = FALSE, totals' = Added(totals, BlockQuality(B, failed))
    PROVE  CountedOnce(workers', totals', n)
<1> DEFINE C == CountedWords(workers, n)
           H == heap.holes
<1>1. IsFiniteSet(AllTheWords)
  BY ScannableAreNumbers, WordsAreFinite DEF AllTheWords
<1>2. C \subseteq AllTheWords
  BY CountedIsOfTheRegions
<1>3. IsFiniteSet(B) /\ IsFiniteSet(C) /\ IsFiniteSet(B \cap H) /\ IsFiniteSet(C \cap H)
  <2> HIDE DEF C, H
  <2>1. /\ B \in SUBSET AllTheWords /\ B \cap H \in SUBSET AllTheWords
        /\ C \in SUBSET AllTheWords /\ C \cap H \in SUBSET AllTheWords
    BY <1>2
  <2>2. \A s \in SUBSET AllTheWords : IsFiniteSet(s)
    BY <1>1, FS_Subset
  <2>3. QED
    BY <2>1, <2>2, Zenon
<1>4. CountedWords(workers', n) = C \cup B
  <2>1. /\ CountedBy(workers'[w], w, n) = CountedBy(workers[w], w, n) \cup B
        /\ \A v \in 1..n : v # w => workers'[v] = workers[v]
    BY DEF AllAreAt
  <2>2. QED
    BY <2>1, OneWorkerCounts
<1>5. \A v \in 1..n : BlocksFollow(workers'[v])
  BY DEF CountedOnce, AllAreAt
<1>6. /\ totals.requested = Cardinality(C) /\ totals.unread = Cardinality(C \cap H)
  BY DEF CountedOnce
<1>7. /\ totals'.requested = totals.requested + Cardinality(B)
      /\ totals'.unread = totals.unread + Cardinality(B \cap H)
  BY DEF Added, BlockQuality
<1> HIDE DEF C, H
<1>8. Cardinality(C \cup B) = Cardinality(C) + Cardinality(B)
  <2>1. C \cap B = {}
    BY DEF C
  <2>2. QED
    BY <1>3, <2>1, ApartTheyAdd
<1>9. Cardinality((C \cup B) \cap H) = Cardinality(C \cap H) + Cardinality(B \cap H)
  <2>1. (C \cap H) \cap (B \cap H) = {}
    BY DEF C
  <2>2. (C \cup B) \cap H = (C \cap H) \cup (B \cap H)
    OBVIOUS
  <2>3. Cardinality((C \cap H) \cup (B \cap H)) = Cardinality(C \cap H) + Cardinality(B \cap H)
    BY <1>3, <2>1, ApartTheyAdd
  <2>4. QED
    BY <2>2, <2>3
<1>10. /\ totals'.requested = Cardinality(CountedWords(workers', n))
       /\ totals'.unread = Cardinality(CountedWords(workers', n) \cap H)
  BY <1>4, <1>6, <1>7, <1>8, <1>9
<1>11. QED
  BY <1>5, <1>10 DEF CountedOnce, H

LEMMA WorkersCountOnce ==
    ASSUME ScanTypes, WorkerStep, lost' = lost, NEW n \in Nat, AllAreAt(workers, n),
           CountedOnce(workers, totals, n)
    PROVE  CountedOnce(workers', totals', n)
<1>1. PICK w \in DOMAIN workers :
         StopWorker(w) \/ EnterRegion(w) \/ ReadBlock(w) \/ FinishWorker(w) \/ FailWorker(w)
  BY DEF WorkerStep, WorkerGoesOn
<1>2. /\ WorkerTypes(workers[w]) /\ lost \in Nat /\ w \in 1..n /\ DOMAIN workers = 1..n
      /\ BlocksFollow(workers[w])
  BY DEF ScanTypes, AllAreAt, CountedOnce
<1>3. PICK k \in Nat : IsAtRegion(workers[w], w, n, k)
  BY <1>2 DEF AllAreAt
<1>4. CASE StopWorker(w) \/ FinishWorker(w) \/ FailWorker(w)
  <2>1. PICK how : workers' = [workers EXCEPT ![w].pc = how]
    BY <1>4 DEF StopWorker, FinishWorker, FailWorker, End
  <2> DEFINE after == [workers[w] EXCEPT !.pc = how]
  <2>2. /\ after.todo = workers[w].todo /\ after.at = workers[w].at
        /\ after.prior = workers[w].prior
    BY <1>2 DEF WorkerTypes
  <2>3. workers' = [workers EXCEPT ![w] = after]
    BY <2>1
  <2> HIDE DEF after
  <2>4. CountedBy(after, w, n) = CountedBy(workers[w], w, n) /\ BlocksFollow(after)
    BY <1>2, <2>2, EndingCountsNothing
  <2>5. totals' = totals
    BY <1>4 DEF StopWorker, FinishWorker, FailWorker
  <2>6. QED
    BY <1>2, <2>3, <2>4, <2>5, NothingMoreIsCounted
<1>5. CASE EnterRegion(w)
  <2>1. PICK after :
           /\ after = IF Head(workers[w].todo).size < Header
                      THEN [workers[w] EXCEPT !.todo = Tail(@)]
                      ELSE [workers[w] EXCEPT !.at = Head(workers[w].todo).base, !.prior = FALSE]
           /\ workers[w].at = Nowhere /\ workers[w].todo # <<>> /\ totals' = totals
           /\ workers' = [workers EXCEPT ![w] = after]
    BY <1>5 DEF EnterRegion
  <2>2. /\ Head(workers[w].todo).size < Header =>
              after.todo = Tail(workers[w].todo) /\ after.at = Nowhere
        /\ ~(Head(workers[w].todo).size < Header) =>
              /\ after.todo = workers[w].todo /\ after.at = Head(workers[w].todo).base
              /\ after.prior = FALSE
    BY <1>2, <2>1 DEF WorkerTypes
  <2>3. workers[w].todo # <<>> /\ workers[w].at = Nowhere
    BY <2>1
  <2>4. CountedBy(after, w, n) = CountedBy(workers[w], w, n) /\ BlocksFollow(after)
    BY <1>2, <1>3, <2>2, <2>3, PassingCountsNothing
  <2>5. workers' = [workers EXCEPT ![w] = after] /\ totals' = totals
    BY <2>1
  <2>6. QED
    BY <1>2, <2>4, <2>5, NothingMoreIsCounted
<1>6. CASE ReadBlock(w)
  <2>1. workers[w].at # Nowhere
    BY <1>6, BlockIsRead
  <2>2. PICK fails \in BOOLEAN :
           /\ lost' = IF fails THEN lost + 1 ELSE lost
           /\ workers' = [workers EXCEPT ![w] = AfterBlock(workers[w], fails)]
           /\ totals' = Added(totals, BlockQuality(WordsCounted(workers[w]), fails))
    BY <1>6, BlockIsRead
  <2>3. fails = FALSE
    BY <1>2, <2>2
  <2> DEFINE after == AfterBlock(workers[w], fails)
             B == WordsCounted(workers[w])
  <2>4. /\ CountedBy(after, w, n) = CountedBy(workers[w], w, n) \cup B
        /\ B \subseteq WordsOf(k) /\ B \cap CountedHere(workers[w]) = {}
        /\ BlocksFollow(after)
    BY <1>2, <1>3, <2>1, BlockCountsItsWords
  <2>5. workers' = [workers EXCEPT ![w] = after] /\ totals' = Added(totals, BlockQuality(B, fails))
    BY <2>2
  <2> HIDE DEF after, B
  <2>6. workers[w].todo # <<>>
    BY <1>2, <2>1 DEF WorkerTypes
  <2>7. B \cap CountedWords(workers, n) = {}
    BY <1>2, <1>3, <2>4, <2>6, BlocksAreApart
  <2>8. B \subseteq AllTheWords
    <3>1. /\ Head(workers[w].todo).base <= workers[w].at /\ workers[w].at \in Nat
          /\ workers[w].at + Header <= EndOf(Head(workers[w].todo))
          /\ k \in DOMAIN Regions /\ Head(workers[w].todo) = Regions[k]
      BY <1>2, <1>3, <2>1, <2>6, TheRegionAhead DEF WorkerTypes
    <3>2. Regions[k].base \in Nat /\ Regions[k].size \in Nat
      BY <3>1, RegionsAreOfNumbers
    <3>3. k \in Scannable
      BY <3>1, <3>2, ScanAssumption DEF Scannable, EndOf
    <3>4. QED
      BY <2>4, <3>3 DEF AllTheWords, WordsOfAll
  <2>9. QED
    BY <1>2, <2>3, <2>4, <2>5, <2>7, <2>8, ABlockMoreIsCounted
<1>7. QED
  BY <1>1, <1>4, <1>5, <1>6

LEMMA NothingIsCountedAtFirst ==
    ASSUME NEW n \in Nat, workers' = [w \in 1..n |-> Worker(Share(w, n))],
           totals' = NoQuality
    PROVE  CountedOnce(workers', totals', n)
<1>1. ASSUME NEW w \in 1..n
      PROVE  CountedBy(workers'[w], w, n) = {} /\ BlocksFollow(workers'[w])
  <2>1. workers'[w].todo = Share(w, n) /\ workers'[w].at = Nowhere
    BY DEF Worker
  <2>2. /\ Share(w, n) = SubSeq(Regions, ShareStart(w, n), ShareEnd(w, n))
        /\ ShareStart(w, n) <= ShareEnd(w, n) + 1
        /\ ShareStart(w, n) \in Nat /\ ShareEnd(w, n) \in Nat
    BY SharesAreOfNumbers, ShareIsOfRegions
  <2>3. Len(Share(w, n)) = ShareEnd(w, n) + 1 - ShareStart(w, n)
    <3>1. CASE ShareStart(w, n) <= ShareEnd(w, n)
      BY <2>2, <3>1, ShareIsOver
    <3>2. CASE ShareStart(w, n) > ShareEnd(w, n)
      <4>1. Share(w, n) = <<>>
        BY <2>2, <3>2, ShareIsOver
      <4>2. Len(Share(w, n)) = 0
        BY <4>1
      <4>3. QED
        BY <2>2, <3>2, <4>2
    <3>3. QED
      BY <2>2, <3>1, <3>2
  <2>4. Turn(workers'[w], w, n) = ShareStart(w, n)
    <3>1. Turn(workers'[w], w, n) = ShareEnd(w, n) + 1 - Len(Share(w, n))
      BY <2>1 DEF Turn
    <3>2. QED
      BY <2>2, <2>3, <3>1
  <2>5. DoneBy(workers'[w], w, n) = {}
    BY <2>2, <2>4, ScannableAreNumbers DEF DoneBy
  <2>6. WordsOfAll(DoneBy(workers'[w], w, n)) = {} /\ CountedHere(workers'[w]) = {}
    BY <2>1, <2>5 DEF WordsOfAll, CountedHere
  <2>7. QED
    BY <2>1, <2>6 DEF CountedBy, BlocksFollow
<1>2. CountedWords(workers', n) = {}
  BY <1>1 DEF CountedWords
<1>3. CountedWords(workers', n) \cap heap.holes = {}
  BY <1>2
<1>4. Cardinality({}) = 0
  BY FS_EmptySet
<1>5. totals'.requested = 0 /\ totals'.unread = 0
  BY DEF NoQuality
<1>6. QED
  BY <1>1, <1>2, <1>3, <1>4, <1>5 DEF CountedOnce

LEMMA SameCounts ==
    ASSUME heap' = heap, NEW n \in Nat, CountedOnce(workers', totals', n)
    PROVE  CountedOnce(workers, totals, n)'
BY DEF CountedOnce

(* The workers are through: the words that they have counted are all.       *)
LEMMA AllIsCounted ==
    ASSUME ScanTypes, NEW n \in Nat, AllAreAt(workers, n),
           \A w \in DOMAIN workers : workers[w].pc = "finished"
    PROVE  CountedWords(workers, n) = AllTheWords
<1>1. CountedWords(workers, n) \subseteq AllTheWords
  BY CountedIsOfTheRegions
<1>2. ASSUME NEW i \in Scannable, NEW word \in WordsOf(i) PROVE word \in CountedWords(workers, n)
  <2>1. i \in DOMAIN Regions /\ i \in Nat
    BY ScannableAreNumbers
  <2>2. n # 0
    BY <2>1 DEF AllAreAt
  <2>3. PICK w \in 1..n : i \in ShareStart(w, n)..ShareEnd(w, n)
    BY <2>1, <2>2, SharesCover
  <2>4. workers[w].todo = <<>>
    BY DEF ScanTypes, WorkerTypes, AllAreAt
  <2>5. Len(workers[w].todo) = 0
    BY <2>4
  <2>6. Turn(workers[w], w, n) = ShareEnd(w, n) + 1
    BY <2>5, SharesAreOfNumbers DEF Turn
  <2>7. i \in DoneBy(workers[w], w, n)
    BY <2>1, <2>3, <2>6, SharesAreOfNumbers DEF DoneBy
  <2>8. QED
    BY <2>7 DEF CountedWords, CountedBy, WordsOfAll
<1>3. QED
  BY <1>1, <1>2 DEF AllTheWords, WordsOfAll

LEMMA CountsAreOfTheWords ==
    ASSUME heap \in Heaps
    PROVE  {word \in heap.holes : \E i \in Scannable : Within(word, i)} = AllTheWords \cap heap.holes
<1>1. heap.holes \subseteq Nat
  BY HeapsAssumption
<1>2. ASSUME NEW word \in heap.holes, NEW i \in Scannable
      PROVE  Within(word, i) <=> word \in WordsOf(i)
  <2>1. Regions[i].base \in Nat /\ EndOf(Regions[i]) \in Nat /\ word \in Nat
    BY <1>1, ScannableAreNumbers, RegionsAreOfNumbers
  <2>2. QED
    BY <2>1 DEF Within, WordsOf
<1>3. QED
  BY <1>2 DEF AllTheWords, WordsOfAll

LEMMA MergingCountsOnce ==
    ASSUME ScanTypes, NEW n \in Nat, AllAreAt(workers, n), CountedOnce(workers, totals, n),
           MergeWorkers, ~result'.cancelled
    PROVE  WordsAreCountedOnce'
<1>1. \A w \in DOMAIN workers : workers[w].pc = "finished"
  <2>1. \A w \in DOMAIN workers : workers[w].pc \notin {"running", "failed"}
    BY DEF MergeWorkers, AllEnded, AnyFailed, Running
  <2>2. ~ \E w \in DOMAIN workers : workers[w].pc = "cancelled"
    BY DEF MergeWorkers, Built
  <2>3. QED
    BY <2>1, <2>2 DEF ScanTypes, WorkerTypes
<1>2. CountedWords(workers, n) = AllTheWords
  BY <1>1, AllIsCounted
<1>3. result'.quality = totals /\ heap' = heap
  BY DEF MergeWorkers, Built
<1>4. /\ result'.quality.requested = Cardinality(AllTheWords)
      /\ result'.quality.unread = Cardinality(AllTheWords \cap heap.holes)
  BY <1>2, <1>3 DEF CountedOnce
<1>5. (CHOOSE g : IsSum(g, Scannable))[Scannable] = Cardinality(AllTheWords)
  BY ScannableAreNumbers, SizesAreSummed DEF AllTheWords
<1>6. {word \in heap.holes : \E i \in Scannable : Within(word, i)} = AllTheWords \cap heap.holes
  BY CountsAreOfTheWords DEF ScanTypes
<1>7. /\ result'.quality.requested = (CHOOSE g : IsSum(g, Scannable))[Scannable]
      /\ result'.quality.unread =
            Cardinality({word \in heap'.holes : \E i \in Scannable : Within(word, i)})
  BY <1>3, <1>4, <1>5, <1>6
<1>8. QED
  BY <1>7 DEF WordsAreCountedOnce, MapThenSumSet, MapThenFoldSet, IsSum, Picked
-----------------------------------------------------------------------------
(* All the workers: the memory stays as it is.                              *)
LEMMA SameMemory ==
    ASSUME heap' = heap, NEW n \in Nat, AllAreAt(workers', n)
    PROVE  AllAreAt(workers, n)'
<1>1. \A i : ObjectsOf(i)' = ObjectsOf(i)
  BY DEF ObjectsOf
<1>2. Readable' = Readable
  BY DEF Readable
<1>3. ASSUME NEW f, IsThere(f) PROVE IsThere(f)'
  BY <1>2, <1>3 DEF IsThere, IsAt, Player, OfStaff, IsManager
<1>4. ASSUME NEW f, NEW a, IsFound(f, a) PROVE IsFound(f, a)'
  BY <1>4 DEF IsFound, Known, Player, OfStaff, IsManager
<1>5. ASSUME NEW w \in 1..n, NEW k \in Nat, NEW worker, IsAtRegion(worker, w, n, k)
      PROVE  IsAtRegion(worker, w, n, k)'
  <2>1. IsThere(worker.found)'
    BY <1>3, <1>5 DEF IsAtRegion
  <2>2. \A i \in ShareStart(w, n)..(k - 1) :
           i \in Scannable => \A a \in ObjectsOf(i)' : IsFound(worker.found, a)'
    BY <1>1, <1>4, <1>5 DEF IsAtRegion
  <2>3. worker.at # Nowhere =>
           \A a \in ObjectsOf(k)' : a < worker.at => IsFound(worker.found, a)'
    BY <1>1, <1>4, <1>5 DEF IsAtRegion
  <2>4. QED
    BY <1>5, <2>1, <2>2, <2>3 DEF IsAtRegion
<1>6. QED
  BY <1>5 DEF AllAreAt

LEMMA OneWorkerGoesOn ==
    ASSUME NEW n \in Nat, AllAreAt(workers, n), NEW w \in DOMAIN workers, NEW after,
           workers' = [workers EXCEPT ![w] = after],
           \A k \in Nat : IsAtRegion(workers[w], w, n, k) =>
              \E j \in Nat : IsAtRegion(after, w, n, j)
    PROVE  AllAreAt(workers', n)
<1>1. ASSUME NEW v \in 1..n PROVE \E k \in Nat : IsAtRegion(workers'[v], v, n, k)
  <2>1. PICK k \in Nat : IsAtRegion(workers[v], v, n, k)
    BY DEF AllAreAt
  <2>2. CASE v = w
    <3>1. workers'[v] = after
      BY <2>2
    <3>2. QED
      BY <2>1, <2>2, <3>1
  <2>3. CASE v # w
    <3>1. workers'[v] = workers[v]
      BY <2>3 DEF AllAreAt
    <3>2. QED
      BY <2>1, <3>1
  <2>4. QED
    BY <2>2, <2>3
<1>2. DOMAIN workers' = 1..n
  BY DEF AllAreAt
<1>3. QED
  BY <1>1, <1>2 DEF AllAreAt

LEMMA WorkersMissNothing ==
    ASSUME ScanTypes, WorkerStep, lost' = lost, NEW n \in Nat, AllAreAt(workers, n)
    PROVE  AllAreAt(workers', n) /\ heap' = heap
<1>1. PICK w \in DOMAIN workers :
         StopWorker(w) \/ EnterRegion(w) \/ ReadBlock(w) \/ FinishWorker(w) \/ FailWorker(w)
  BY DEF WorkerStep, WorkerGoesOn
<1>2. /\ WorkerTypes(workers[w]) /\ heap \in Heaps /\ lost \in Nat /\ w \in 1..n
  BY DEF ScanTypes, AllAreAt
<1>3. CASE StopWorker(w) \/ FinishWorker(w) \/ FailWorker(w)
  <2>1. PICK how : workers' = [workers EXCEPT ![w].pc = how]
    BY <1>3 DEF StopWorker, FinishWorker, FailWorker, End
  <2> DEFINE after == [workers[w] EXCEPT !.pc = how]
  <2>2. after.todo = workers[w].todo /\ after.at = workers[w].at /\ after.found = workers[w].found
    BY <1>2 DEF WorkerTypes
  <2>3. workers' = [workers EXCEPT ![w] = after]
    BY <2>1
  <2> HIDE DEF after
  <2>4. \A k \in Nat : IsAtRegion(workers[w], w, n, k) => IsAtRegion(after, w, n, k)
    BY <2>2, EndingMissesNothing
  <2>5. heap' = heap
    BY <1>3 DEF StopWorker, FinishWorker, FailWorker
  <2>6. QED
    BY <2>3, <2>4, <2>5, OneWorkerGoesOn
<1>4. CASE EnterRegion(w)
  <2>1. PICK after :
           /\ after = IF Head(workers[w].todo).size < Header
                      THEN [workers[w] EXCEPT !.todo = Tail(@)]
                      ELSE [workers[w] EXCEPT !.at = Head(workers[w].todo).base, !.prior = FALSE]
           /\ workers[w].at = Nowhere /\ workers[w].todo # <<>> /\ heap' = heap
           /\ workers' = [workers EXCEPT ![w] = after]
    BY <1>4 DEF EnterRegion
  <2>2. /\ after.found = workers[w].found
        /\ Head(workers[w].todo).size < Header =>
              after.todo = Tail(workers[w].todo) /\ after.at = Nowhere
        /\ ~(Head(workers[w].todo).size < Header) =>
              after.todo = workers[w].todo /\ after.at = Head(workers[w].todo).base
    BY <1>2, <2>1 DEF WorkerTypes
  <2>3. ASSUME NEW k \in Nat, IsAtRegion(workers[w], w, n, k)
        PROVE  \E j \in Nat : IsAtRegion(after, w, n, j)
    <3>1. workers[w].todo # <<>> /\ heap \in Heaps /\ w \in 1..n
      BY <1>2, <2>1
    <3>2. QED
      BY <2>2, <2>3, <3>1, EnteringMissesNothing
  <2>4. QED
    BY <2>1, <2>3, OneWorkerGoesOn
<1>5. CASE ReadBlock(w)
  <2>1. workers[w].at # Nowhere /\ heap' = heap
    BY <1>5, BlockIsRead
  <2>2. PICK fails \in BOOLEAN :
           /\ lost' = IF fails THEN lost + 1 ELSE lost
           /\ workers' = [workers EXCEPT ![w] = AfterBlock(workers[w], fails)]
    BY <1>5, BlockIsRead
  <2>3. fails = FALSE
    BY <1>2, <2>2
  <2> DEFINE after == AfterBlock(workers[w], fails)
  <2>4. \A k \in Nat : IsAtRegion(workers[w], w, n, k) =>
           \E j \in Nat : IsAtRegion(after, w, n, j)
    BY <1>2, <2>1, <2>3, BlockMissesNothing
  <2>5. workers' = [workers EXCEPT ![w] = after]
    BY <2>2
  <2> HIDE DEF after
  <2>6. QED
    BY <2>1, <2>4, <2>5, OneWorkerGoesOn
<1>6. QED
  BY <1>1, <1>3, <1>4, <1>5

LEMMA NothingMissedAtFirst ==
    ASSUME NEW cancelled \in BOOLEAN, StartWorkers(cancelled)
    PROVE  \E n \in Nat : AllAreAt(workers', n) /\ CountedOnce(workers', totals', n)
<1>1. PICK n \in Nat : /\ n = 0 => Regions = <<>>
                       /\ workers' = [w \in 1..n |-> Worker(Share(w, n))]
  BY WorkersStart
<1>2. ASSUME NEW w \in 1..n PROVE IsAtRegion(workers'[w], w, n, ShareStart(w, n))
  <2>1. /\ Share(w, n) = SubSeq(Regions, ShareStart(w, n), ShareEnd(w, n))
        /\ ShareStart(w, n) \in ShareStart(w, n)..(ShareEnd(w, n) + 1)
        /\ ShareStart(w, n) \in Nat
    BY SharesAreOfNumbers, ShareIsOfRegions
  <2>2. /\ workers'[w].todo = Share(w, n) /\ workers'[w].at = Nowhere
        /\ workers'[w].found = NothingFound
    BY <1>1 DEF Worker
  <2>3. IsThere(NothingFound)
    BY DEF IsThere, NothingFound
  <2>4. ShareStart(w, n)..(ShareStart(w, n) - 1) = {}
    BY <2>1
  <2>5. QED
    BY <2>1, <2>2, <2>3, <2>4 DEF IsAtRegion
<1>3. \A w \in 1..n : ShareStart(w, n) \in Nat
  BY SharesAreOfNumbers
<1>4. AllAreAt(workers', n)
  BY <1>1, <1>2, <1>3 DEF AllAreAt
<1>5. totals' = NoQuality
  BY WorkersStart
<1>6. CountedOnce(workers', totals', n)
  BY <1>1, <1>5, NothingIsCountedAtFirst
<1>7. QED
  BY <1>4, <1>6

(* The workers are through.                                                 *)
LEMMA ThroughAndFound ==
    ASSUME ScanTypes, NEW n \in Nat, AllAreAt(workers, n),
           \A w \in DOMAIN workers : workers[w].pc = "finished",
           NEW a \in Readable
    PROVE  \E w \in DOMAIN workers : IsFound(workers[w].found, a)
<1>1. PICK i \in Scannable : \A word \in a..(a + Header - 1) : Within(word, i) /\ word \notin heap.holes
  BY DEF Readable
<1>2. a \in ObjectsOf(i) /\ i \in DOMAIN Regions
  BY <1>1 DEF ObjectsOf, Readable, Scannable
<1>3. n # 0
  BY <1>2 DEF AllAreAt
<1>4. PICK w \in 1..n : i \in ShareStart(w, n)..ShareEnd(w, n)
  BY <1>2, <1>3, SharesCover
<1>5. w \in DOMAIN workers
  BY DEF AllAreAt
<1>6. PICK k \in Nat : IsAtRegion(workers[w], w, n, k)
  BY DEF AllAreAt
<1>7. SubSeq(Regions, k, ShareEnd(w, n)) = <<>>
  BY <1>5, <1>6 DEF ScanTypes, WorkerTypes, IsAtRegion
<1>8. ShareEnd(w, n) \in Nat /\ ShareStart(w, n) \in Nat
  BY SharesAreOfNumbers
<1>9. k > ShareEnd(w, n)
  <2>1. k <= ShareEnd(w, n) => Len(<<>>) = ShareEnd(w, n) - k + 1
    BY <1>7, <1>8, ShareIsOver
  <2>2. QED
    BY <1>8, <2>1
<1>10. i \in ShareStart(w, n)..(k - 1)
  BY <1>4, <1>8, <1>9
<1>11. QED
  BY <1>1, <1>2, <1>5, <1>6, <1>10 DEF IsAtRegion

(* Of the candidates that stand for the addresses T the lowest are those of *)
(* the lowest addresses.                                                    *)
LEMMA LowestAreOfTheLowest ==
    ASSUME NEW T, T \subseteq Nat, NEW X,
           \A c \in X : \E a \in T : IsAt(c, a),
           \A a \in T : Known(X, a)
    PROVE  Lowest(X) =
              {[uid |-> heap.objects[a].uid, at |-> a] :
                  a \in {x \in T : \A y \in T : heap.objects[y].uid = heap.objects[x].uid => x <= y}}
<1> DEFINE Earliest == {x \in T : \A y \in T : heap.objects[y].uid = heap.objects[x].uid => x <= y}
<1>1. ASSUME NEW c \in Lowest(X) PROVE \E a \in Earliest : IsAt(c, a)
  <2>1. c \in X /\ \A d \in X : d.uid = c.uid => c.at <= d.at
    BY DEF Lowest
  <2>2. PICK a \in T : IsAt(c, a)
    BY <2>1
  <2>3. c.uid = heap.objects[a].uid /\ c.at = a
    BY <2>2 DEF IsAt
  <2>4. ASSUME NEW y \in T, heap.objects[y].uid = heap.objects[a].uid PROVE a <= y
    <3>1. PICK d \in X : d.uid = heap.objects[y].uid /\ d.at <= y
      BY DEF Known
    <3>2. PICK b \in T : IsAt(d, b)
      BY <3>1
    <3>3. d.at = b
      BY <3>2 DEF IsAt
    <3>4. a <= d.at
      BY <2>1, <2>3, <2>4, <3>1
    <3>5. a \in Nat /\ y \in Nat /\ b \in Nat
      OBVIOUS
    <3>6. QED
      BY <3>1, <3>3, <3>4, <3>5
  <2>5. QED
    BY <2>2, <2>4
<1>2. ASSUME NEW a \in Earliest, NEW c, IsAt(c, a) PROVE c \in Lowest(X)
  <2>1. /\ a \in T /\ a \in Nat
        /\ \A y \in T : heap.objects[y].uid = heap.objects[a].uid => a <= y
    OBVIOUS
  <2>2. c.uid = heap.objects[a].uid /\ c.at = a
    BY <1>2 DEF IsAt
  <2>3. PICK d \in X : d.uid = heap.objects[a].uid /\ d.at <= a
    BY <2>1 DEF Known
  <2>4. PICK b \in T : IsAt(d, b)
    BY <2>3
  <2>5. d.uid = heap.objects[b].uid /\ d.at = b
    BY <2>4 DEF IsAt
  <2>6. b = a
    <3>1. b \in Nat /\ b <= a /\ a <= b
      BY <2>1, <2>3, <2>5
    <3>2. QED
      BY <2>1, <3>1
  <2>7. d = c
    BY <1>2, <2>4, <2>6 DEF IsAt
  <2>8. ASSUME NEW e \in X, e.uid = c.uid PROVE c.at <= e.at
    <3>1. PICK y \in T : IsAt(e, y)
      OBVIOUS
    <3>2. e.uid = heap.objects[y].uid /\ e.at = y
      BY <3>1 DEF IsAt
    <3>3. QED
      BY <2>1, <2>2, <2>8, <3>2
  <2>9. QED
    BY <2>3, <2>7, <2>8 DEF Lowest
<1> HIDE DEF Earliest
<1>3. Lowest(X) = {[uid |-> heap.objects[a].uid, at |-> a] : a \in Earliest}
  BY <1>1, <1>2 DEF IsAt
<1>4. QED
  BY <1>3 DEF Earliest

LEMMA MergingMissesNothing ==
    ASSUME ScanTypes, NEW n \in Nat, AllAreAt(workers, n), MergeWorkers,
           ~result'.cancelled
    PROVE  EverybodyIsFound'
<1>1. \A w \in DOMAIN workers : workers[w].pc = "finished"
  <2>1. \A w \in DOMAIN workers : workers[w].pc \notin {"running", "failed"}
    BY DEF MergeWorkers, AllEnded, AnyFailed, Running
  <2>2. ~ \E w \in DOMAIN workers : workers[w].pc = "cancelled"
    BY DEF MergeWorkers, Built
  <2>3. QED
    BY <2>1, <2>2 DEF ScanTypes, WorkerTypes
<1>2. \A a \in Readable : \E w \in DOMAIN workers : IsFound(workers[w].found, a)
  BY <1>1, ThroughAndFound
<1>3. \A w \in DOMAIN workers : IsThere(workers[w].found)
  BY DEF AllAreAt, IsAtRegion
<1>4. Readable \subseteq Nat
  BY HeapsAssumption DEF ScanTypes, Readable
<1>5. Lowest(Together("players")) = LowestOf({"player"}, InScope)
  <2> DEFINE T == {a \in Readable : Player(a)}
             X == Together("players")
  <2>1. \A c \in X : \E a \in T : IsAt(c, a)
    BY <1>3 DEF Together, IsThere
  <2>2. \A a \in T : Known(X, a)
    BY <1>2 DEF Together, IsFound, Known
  <2>3. LowestOf({"player"}, InScope) =
           {[uid |-> heap.objects[a].uid, at |-> a] :
               a \in {x \in T : \A y \in T : heap.objects[y].uid = heap.objects[x].uid => x <= y}}
    BY DEF LowestOf, InScope, Player
  <2> HIDE DEF X
  <2>4. QED
    BY <1>4, <2>1, <2>2, <2>3, LowestAreOfTheLowest DEF X
<1>6. Lowest(Together("staff")) = LowestOf({"staff", "manager"}, Whoever)
  <2> DEFINE T == {a \in Readable : OfStaff(a)}
             X == Together("staff")
  <2>1. \A c \in X : \E a \in T : IsAt(c, a)
    BY <1>3 DEF Together, IsThere
  <2>2. \A a \in T : Known(X, a)
    BY <1>2 DEF Together, IsFound, Known
  <2>3. LowestOf({"staff", "manager"}, Whoever) =
           {[uid |-> heap.objects[a].uid, at |-> a] :
               a \in {x \in T : \A y \in T : heap.objects[y].uid = heap.objects[x].uid => x <= y}}
    BY DEF LowestOf, Whoever, OfStaff
  <2> HIDE DEF X
  <2>4. QED
    BY <1>4, <2>1, <2>2, <2>3, LowestAreOfTheLowest DEF X
<1>7. Lowest(Together("managers")) = LowestOf({"manager"}, Whoever)
  <2> DEFINE T == {a \in Readable : IsManager(a)}
             X == Together("managers")
  <2>1. \A c \in X : \E a \in T : IsAt(c, a)
    BY <1>3 DEF Together, IsThere
  <2>2. \A a \in T : Known(X, a)
    BY <1>2 DEF Together, IsFound, Known
  <2>3. LowestOf({"manager"}, Whoever) =
           {[uid |-> heap.objects[a].uid, at |-> a] :
               a \in {x \in T : \A y \in T : heap.objects[y].uid = heap.objects[x].uid => x <= y}}
    BY DEF LowestOf, Whoever, IsManager
  <2> HIDE DEF X
  <2>4. QED
    BY <1>4, <2>1, <2>2, <2>3, LowestAreOfTheLowest DEF X
<1>8. Together("clubs") = {a \in Readable : heap.objects[a].facet = "club"}
  BY <1>2, <1>3 DEF Together, IsThere, IsFound
<1>9. /\ result'.players = Lowest(Together("players"))
      /\ result'.staff = {c \in Lowest(Together("staff")) :
                             \A p \in Lowest(Together("players")) : p.uid # c.uid}
      /\ result'.managers = Lowest(Together("managers"))
      /\ result'.clubs = Together("clubs")
      /\ heap' = heap
  BY DEF MergeWorkers, Built
<1>10. Readable' = Readable
  BY <1>9 DEF Readable
<1>11. /\ LowestOf({"player"}, InScope)' = LowestOf({"player"}, InScope)
       /\ LowestOf({"staff", "manager"}, Whoever)' = LowestOf({"staff", "manager"}, Whoever)
       /\ LowestOf({"manager"}, Whoever)' = LowestOf({"manager"}, Whoever)
  BY <1>9, <1>10 DEF LowestOf, InScope, Whoever
<1>12. result'.staff = {c \in LowestOf({"staff", "manager"}, Whoever) :
                           c.uid \notin {p.uid : p \in result'.players}}
  BY <1>6, <1>9
<1>13. QED
  BY <1>5, <1>7, <1>8, <1>9, <1>10, <1>11, <1>12 DEF EverybodyIsFound

LEMMA NothingMissedHolds == ScanInv /\ NothingMissed /\ [Next]_vars => NothingMissed'
<1> SUFFICES ASSUME ScanInv, NothingMissed, [Next]_vars,
                    stage' = "scan", moves' = 0, lost' = 0
             PROVE  (\E n \in Nat : AllAreAt(workers, n) /\ CountedOnce(workers, totals, n))'
  BY DEF NothingMissed
<1>1. ScanTypes /\ moves \in Nat /\ lost \in Nat /\ unloaded \in BOOLEAN
  BY DEF ScanInv, ScanTypes
<1>2. heap' = heap /\ \E n \in Nat : AllAreAt(workers', n) /\ CountedOnce(workers', totals', n)
  <2>1. CASE StartWorkers(unloaded) /\ heap' = heap
    BY <1>1, <2>1, NothingMissedAtFirst
  <2>2. CASE UNCHANGED <<stage, workers, totals, heap, moves, lost>>
    BY <2>2 DEF NothingMissed
  <2>3. CASE Scan
    <3>1. PICK w \in DOMAIN workers :
             StopWorker(w) \/ EnterRegion(w) \/ ReadBlock(w) \/ FinishWorker(w) \/ FailWorker(w)
      BY <2>3 DEF Scan, WorkerStep, WorkerGoesOn
    <3>2. moves' = moves /\ (lost' = lost \/ lost' = lost + 1)
      <4>1. CASE ReadBlock(w)
        BY <4>1, BlockIsRead
      <4>2. CASE ~ReadBlock(w)
        BY <3>1, <4>2 DEF StopWorker, EnterRegion, FinishWorker, FailWorker
      <4>3. QED
        BY <4>1, <4>2
    <3>3. lost' = lost /\ lost = 0 /\ moves = 0 /\ stage = "scan"
      BY <1>1, <2>3, <3>2 DEF Scan
    <3>4. PICK n \in Nat : AllAreAt(workers, n) /\ CountedOnce(workers, totals, n)
      BY <3>3 DEF NothingMissed
    <3>5. AllAreAt(workers', n) /\ heap' = heap
      BY <1>1, <2>3, <3>3, <3>4, WorkersMissNothing DEF Scan
    <3>6. CountedOnce(workers', totals', n)
      BY <1>1, <2>3, <3>3, <3>4, WorkersCountOnce DEF Scan
    <3>7. QED
      BY <3>5, <3>6
  <2>4. CASE Move
    BY <1>1, <2>4 DEF Move, MoveMemory
  <2>5. CASE UNCHANGED vars \/ Ended \/ Unload
    BY <2>2, <2>5 DEF vars, scanVars, pipelineVars, Ended, Unload
  <2>6. CASE Begin
    BY <2>1, <2>6 DEF Begin, Fail
  <2>7. CASE EndScan
    BY <2>7 DEF EndScan, Fail
  <2>8. CASE Judge
    BY <2>1, <2>8 DEF Judge, RetryOnClone, Fail
  <2>9. CASE Extract
    BY <2>9 DEF Extract, Fail
  <2>10. CASE Write
    BY <2>10 DEF Write, Fail
  <2>11. QED
    BY <2>3, <2>4, <2>5, <2>6, <2>7, <2>8, <2>9, <2>10 DEF Next, PipelineStep
<1>3. PICK n \in Nat : AllAreAt(workers', n) /\ CountedOnce(workers', totals', n)
  BY <1>2
<1>4. AllAreAt(workers, n)' /\ CountedOnce(workers, totals, n)'
  BY <1>2, <1>3, SameMemory, SameCounts
<1>5. QED
  BY <1>4

LEMMA ResultStays ==
    ASSUME ScanIsComplete, UNCHANGED <<heap, moves, lost, result>>
    PROVE  ScanIsComplete'
<1>1. Readable' = Readable
  BY DEF Readable
<1>2. /\ LowestOf({"player"}, InScope)' = LowestOf({"player"}, InScope)
      /\ LowestOf({"staff", "manager"}, Whoever)' = LowestOf({"staff", "manager"}, Whoever)
      /\ LowestOf({"manager"}, Whoever)' = LowestOf({"manager"}, Whoever)
  BY <1>1 DEF LowestOf, InScope, Whoever
<1>3. Undisturbed' <=> Undisturbed
  BY DEF Undisturbed
<1>4. EverybodyIsFound'
  BY <1>1, <1>2, <1>3 DEF ScanIsComplete, EverybodyIsFound
<1>5. WordsAreCountedOnce'
  BY <1>3 DEF ScanIsComplete, WordsAreCountedOnce, MapThenSumSet, MapThenFoldSet
<1>6. QED
  BY <1>4, <1>5 DEF ScanIsComplete

LEMMA ScanStaysComplete ==
    ScanInv /\ NothingMissed /\ ScanIsComplete /\ [Next]_vars => ScanIsComplete'
<1> SUFFICES ASSUME ScanInv, NothingMissed, ScanIsComplete, [Next]_vars
             PROVE  ScanIsComplete'
  OBVIOUS
<1>1. ScanTypes /\ PipelineInv
  BY DEF ScanInv
<1>2. CASE UNCHANGED <<heap, moves, lost, result>>
  BY <1>2, ResultStays
<1>3. CASE result' = Nowhere
  BY <1>3 DEF ScanIsComplete, EverybodyIsFound, WordsAreCountedOnce, Undisturbed
<1>4. CASE stage = "scan" /\ MergeWorkers
  <2>1. SUFFICES ASSUME Undisturbed' PROVE ScanIsComplete'
    BY DEF ScanIsComplete, EverybodyIsFound, WordsAreCountedOnce
  <2>2. moves = 0 /\ lost = 0 /\ ~result'.cancelled
    BY <1>4, <2>1 DEF Undisturbed, MergeWorkers
  <2>3. PICK n \in Nat : AllAreAt(workers, n) /\ CountedOnce(workers, totals, n)
    BY <1>4, <2>2 DEF NothingMissed
  <2>4. EverybodyIsFound'
    BY <1>1, <1>4, <2>2, <2>3, MergingMissesNothing
  <2>5. WordsAreCountedOnce'
    BY <1>1, <1>4, <2>2, <2>3, MergingCountsOnce
  <2>6. QED
    BY <2>4, <2>5 DEF ScanIsComplete
<1>5. \/ UNCHANGED <<heap, moves, lost, result>> \/ result' = Nowhere
      \/ stage = "scan" /\ MergeWorkers
  <2>1. CASE UNCHANGED vars \/ Ended \/ Unload
    BY <2>1 DEF vars, scanVars, Ended, Unload
  <2>2. CASE Begin
    BY <2>2 DEF Begin, Fail, scanVars, StartWorkers
  <2>3. CASE Scan \/ Move
    <3>1. result = Nowhere
      BY <1>1, <2>3 DEF Scan, Move, PipelineInv
    <3>2. result' = result
      BY <2>3, BlockIsRead DEF Scan, Move, WorkerStep, WorkerGoesOn, StopWorker, EnterRegion,
         FinishWorker, FailWorker, MoveMemory
    <3>3. QED
      BY <3>1, <3>2
  <2>4. CASE EndScan
    BY <2>4 DEF EndScan, Fail, scanVars
  <2>5. CASE Judge
    BY <2>5 DEF Judge, RetryOnClone, StartWorkers, Fail, scanVars
  <2>6. CASE Extract
    BY <2>6 DEF Extract, Fail, scanVars
  <2>7. CASE Write
    BY <2>7 DEF Write, Fail, scanVars
  <2>8. QED
    BY <2>1, <2>2, <2>3, <2>4, <2>5, <2>6, <2>7 DEF Next, PipelineStep
<1>6. QED
  BY <1>2, <1>3, <1>4, <1>5

(* Nobody is missed, and every word is counted once: if the memory stays as *)
(* it is and every block is read, a scan that is not cancelled finds every  *)
(* object of the regions whose header can be read, of each UID the lowest,  *)
(* and requests and fails to read just the words that there are, whatever   *)
(* the size of the blocks, the regions and the number of the workers.       *)
THEOREM ScansAreComplete == Spec => []ScanIsComplete
<1> DEFINE CompleteInv == ScanInv /\ NothingMissed /\ ScanIsComplete
<1>1. Init => CompleteInv
  BY ScanStarts DEF Init, NothingMissed, ScanIsComplete, EverybodyIsFound,
     WordsAreCountedOnce, Undisturbed
<1>2. CompleteInv /\ [Next]_vars => CompleteInv'
  BY ScanInvHolds, NothingMissedHolds, ScanStaysComplete
<1>3. CompleteInv => ScanIsComplete
  OBVIOUS
<1>4. QED
  BY <1>1, <1>2, <1>3, PTL DEF Spec
-----------------------------------------------------------------------------
(* What the search page shows.  Every query is in step with the database or *)
(* is still to be told of a change; a page that is asked for is asked for   *)
(* of the active save, and the pages are gone before another is active.     *)

IsQuery(q) ==
    /\ q = [data |-> q.data, sent |-> q.sent, read |-> q.read, answer |-> q.answer]
    /\ q.sent \in BOOLEAN /\ q.read \in BOOLEAN /\ ~(q.sent /\ q.read)

IsPages(p) ==
    p = [rows |-> p.rows, sent |-> p.sent, read |-> p.read, answer |-> p.answer]

ResultTypes ==
    /\ active \in Saves
    /\ stored \in [Saves -> Seq(Nat)]
    /\ tokens \in Nat
    /\ IsQuery(savesQ) /\ IsQuery(currentQ)
    /\ \A c \in DOMAIN pages : IsPages(pages[c])
    /\ change = [pc |-> change.pc, kind |-> change.kind,
                 target |-> change.target, done |-> change.done]
    /\ change.pc \in {"idle", "cancel", "remove", "command", "answer", "await"}
    /\ change.kind = "switch" => change.target \in Saves
    /\ load = [pc |-> load.pc, save |-> load.save, answer |-> load.answer, live |-> load.live]
    /\ load.pc \in {"idle", "running", "answer", "remove", "invalidate"}
    /\ unseen \in BOOLEAN

(* The window has yet to be told of what its own command did.               *)
Untold == change.pc = "answer" /\ change.done

(* A query has sent its command, or has read x, or has shown it.            *)
Told(q, x) == \/ q.sent
              \/ q.read /\ q.answer = x
              \/ ~Fetching(q) /\ q.data = x
SaveIsKnown == Untold \/ Told(savesQ, active)

(* A Load Data that published has yet to invalidate the queries.            *)
LoadIsDue == \/ load.pc = "answer" /\ load.answer = "current"
             \/ load.pc \in {"remove", "invalidate"}
CurrentIsKnown == Untold \/ unseen \/ LoadIsDue \/ Told(currentQ, Current)

IsStored(x) ==
    \/ x = NoSave
    \/ /\ x.save \in Saves
       /\ x.id \in 1..Len(stored[x.save])
       /\ x = SnapshotAt(x.save, x.id)
OnlyTheStored ==
    \/ Untold \/ currentQ.sent
    \/ IF currentQ.read THEN IsStored(currentQ.answer) ELSE IsStored(currentQ.data)

(* Contexts are of snapshots that are stored, since what is deleted takes   *)
(* the pages along; those of the current snapshot have no rows but its own. *)
PagesAreOfSnapshots ==
    \A c \in DOMAIN pages :
        /\ c.save \in Saves
        /\ c = [save |-> c.save, id |-> c.id]
        /\ c.id \in 1..Len(stored[c.save])
        /\ pages[c].sent => c.save = active
        /\ pages[c].read => pages[c].answer = NoSave \/ pages[c].answer.save = c.save
        /\ c.save = active /\ c.id = Len(stored[active]) =>
              /\ pages[c].rows \subseteq {Current}
              /\ pages[c].read => pages[c].answer = Current

NoPagesMeanwhile ==
    change.pc \in {"command", "answer", "await"} => DOMAIN pages = {}

ResultInv ==
    /\ ResultTypes /\ SaveIsKnown /\ CurrentIsKnown /\ OnlyTheStored
    /\ RowsAreOfTheSave /\ PagesAreOfSnapshots /\ NoPagesMeanwhile

LEMMA QuerySteps ==
    ASSUME NEW q, IsQuery(q), NEW x
    PROVE  /\ IsQuery(Refetch(q)) /\ IsQuery(Read(q, x)) /\ IsQuery(Delivered(q))
           /\ Refetch(q).sent
           /\ Read(q, x).read /\ Read(q, x).answer = x /\ ~Read(q, x).sent
           /\ ~Fetching(Delivered(q)) /\ Delivered(q).data = q.answer
<1>1. ASSUME NEW r, r = Refetch(q) PROVE IsQuery(r) /\ r.sent
  BY <1>1 DEF IsQuery, Refetch
<1>2. ASSUME NEW r, r = Read(q, x) PROVE IsQuery(r) /\ r.read /\ r.answer = x /\ ~r.sent
  BY <1>2 DEF IsQuery, Read
<1>3. ASSUME NEW r, r = Delivered(q) PROVE IsQuery(r) /\ ~Fetching(r) /\ r.data = q.answer
  BY <1>3 DEF IsQuery, Delivered, Settled, Fetching
<1>4. QED
  BY <1>1, <1>2, <1>3

LEMMA RefetchIsAQuery == \A q : IsQuery(q) => IsQuery(Refetch(q))
BY QuerySteps

LEMMA PageSteps ==
    ASSUME NEW p, IsPages(p), NEW x
    PROVE  /\ IsPages(Read(p, x)) /\ Read(p, x).read /\ ~Read(p, x).sent
           /\ Read(p, x).answer = x /\ Read(p, x).rows = p.rows
<1>1. ASSUME NEW r, r = Read(p, x)
      PROVE  IsPages(r) /\ r.read /\ ~r.sent /\ r.answer = x /\ r.rows = p.rows
  BY <1>1 DEF IsPages, Read
<1>2. QED
  BY <1>1

LEMMA NewPages ==
    ASSUME NEW r
    PROVE  /\ IsPages([NoPages EXCEPT !.rows = r])
           /\ [NoPages EXCEPT !.rows = r].rows = r
           /\ ~[NoPages EXCEPT !.rows = r].sent /\ ~[NoPages EXCEPT !.rows = r].read
           /\ IsPages([NoPages EXCEPT !.rows = r, !.sent = TRUE])
           /\ [NoPages EXCEPT !.rows = r, !.sent = TRUE].rows = r
           /\ [NoPages EXCEPT !.rows = r, !.sent = TRUE].sent
           /\ ~[NoPages EXCEPT !.rows = r, !.sent = TRUE].read
<1>1. ASSUME NEW p, p = [NoPages EXCEPT !.rows = r]
      PROVE  IsPages(p) /\ p.rows = r /\ ~p.sent /\ ~p.read
  BY <1>1 DEF IsPages, NoPages
<1>2. ASSUME NEW p, p = [NoPages EXCEPT !.rows = r, !.sent = TRUE]
      PROVE  IsPages(p) /\ p.rows = r /\ p.sent /\ ~p.read
  BY <1>2 DEF IsPages, NoPages
<1>3. QED
  BY <1>1, <1>2

(* What a step leaves of the database is current and stored as it was.      *)
LEMMA SameDatabase ==
    ASSUME UNCHANGED databaseVars
    PROVE  Current' = Current /\ \A x : IsStored(x)' <=> IsStored(x)
BY DEF databaseVars, Current, IsStored, SnapshotAt

LEMMA CurrentIsStored ==
    ASSUME ResultTypes
    PROVE  IsStored(Current) /\ (Current # NoSave => Current.save = active)
BY DEF ResultTypes, IsStored, Current, SnapshotAt

(* The changes of the pages as a whole.                                     *)
LEMMA PagesDropped ==
    /\ DOMAIN Removed = {}
    /\ DOMAIN Cancelled = DOMAIN pages
    /\ \A c \in DOMAIN pages : /\ IsPages(Cancelled[c])
                               /\ Cancelled[c].rows = pages[c].rows
                               /\ ~Cancelled[c].sent /\ ~Cancelled[c].read
BY NewPages DEF Removed, Cancelled

LEMMA QueriesKeepTypes == ResultInv /\ QueryStep => ResultTypes'
<1> SUFFICES ASSUME ResultInv, QueryStep PROVE ResultTypes'
  OBVIOUS
<1> USE DEF ResultInv, ResultTypes, databaseVars
<1>1. CASE ReadSaves \/ ReadCurrent \/ DeliverCurrent
  <2>1. IsQuery(savesQ') /\ IsQuery(currentQ')
    BY <1>1, QuerySteps DEF ReadSaves, ReadCurrent, DeliverCurrent
  <2>2. unseen' \in BOOLEAN /\ UNCHANGED <<databaseVars, pages, change, load>>
    BY <1>1 DEF ReadSaves, ReadCurrent, DeliverCurrent
  <2>3. QED
    BY <2>1, <2>2
<1>2. CASE DeliverSaves
  <2>1. IsQuery(savesQ') /\ UNCHANGED <<databaseVars, currentQ, pages, change, unseen>>
    BY <1>2, QuerySteps DEF DeliverSaves
  <2>2. load' = [load EXCEPT !.live = @ /\ savesQ.answer = savesQ.data]
    BY <1>2 DEF DeliverSaves
  <2>3. /\ load' = [pc |-> load'.pc, save |-> load'.save, answer |-> load'.answer,
                    live |-> load'.live]
        /\ load'.pc = load.pc
    BY <2>2
  <2>4. QED
    BY <2>1, <2>3
<1>3. CASE AskPage
  <2>1. \A c \in DOMAIN pages' : IsPages(pages'[c])
    BY <1>3, NewPages DEF AskPage
  <2>2. QED
    BY <1>3, <2>1 DEF AskPage
<1>4. CASE ReadPage
  <2>1. PICK c \in DOMAIN pages : pages' = [pages EXCEPT ![c] = Read(@, Current)]
    BY <1>4 DEF ReadPage
  <2>2. \A d \in DOMAIN pages' : IsPages(pages'[d])
    BY <2>1, PageSteps
  <2>3. QED
    BY <1>4, <2>2 DEF ReadPage
<1>5. CASE DeliverPage
  <2>1. PICK c \in DOMAIN pages :
           pages' = [pages EXCEPT ![c] = [NoPages EXCEPT
                        !.rows = pages[c].rows \cup ({pages[c].answer} \ {NoSave})]]
    BY <1>5 DEF DeliverPage
  <2>2. \A d \in DOMAIN pages' : IsPages(pages'[d])
    BY <2>1, NewPages
  <2>3. QED
    BY <1>5, <2>2 DEF DeliverPage
<1>6. QED
  BY <1>1, <1>2, <1>3, <1>4, <1>5 DEF QueryStep

LEMMA ChangesKeepTypes == ResultInv /\ ChangeStep => ResultTypes'
<1> SUFFICES ASSUME ResultInv, ChangeStep PROVE ResultTypes'
  OBVIOUS
<1> USE DEF ResultInv, ResultTypes, databaseVars, queryVars
<1>1. CASE BeginSwitch \/ BeginDelete
  <2>1. PICK kind, target :
           BeginChange(kind, target) /\ (kind = "switch" => target \in Saves)
    BY <1>1 DEF BeginSwitch, BeginDelete
  <2>2. change' = [pc |-> "cancel", kind |-> kind, target |-> target, done |-> FALSE]
    BY <2>1 DEF BeginChange, NoChange
  <2>3. UNCHANGED <<databaseVars, queryVars, load, unseen>>
    BY <2>1 DEF BeginChange
  <2>4. QED
    BY <2>1, <2>2, <2>3
<1>2. CASE ChangeCancels \/ ChangeRemoves
  <2>1. \A c \in DOMAIN pages' : IsPages(pages'[c])
    BY <1>2, PagesDropped DEF ChangeCancels, ChangeRemoves
  <2>2. /\ change' = [pc |-> change'.pc, kind |-> change.kind, target |-> change.target,
                      done |-> change.done]
        /\ change'.pc \in {"remove", "command"}
    BY <1>2 DEF ChangeCancels, ChangeRemoves
  <2>3. UNCHANGED <<databaseVars, savesQ, currentQ, load, unseen>>
    BY <1>2 DEF ChangeCancels, ChangeRemoves
  <2>4. QED
    BY <2>1, <2>2, <2>3
<1>3. CASE CommandDone \/ CommandRefused
  <2>1. /\ change' = [pc |-> "answer", kind |-> change.kind, target |-> change.target,
                      done |-> change'.done]
    BY <1>3 DEF CommandDone, CommandRefused
  <2>2. active' \in Saves /\ stored' \in [Saves -> Seq(Nat)]
    <3>1. CASE UNCHANGED stored
      BY <1>3, <3>1 DEF CommandDone, CommandRefused
    <3>2. CASE stored' # stored
      <4>1. /\ stored[change.target.save] # <<>>
            /\ stored' = [stored EXCEPT ![change.target.save] = Front(@)]
            /\ UNCHANGED active
        BY <1>3, <3>2 DEF CommandDone, CommandRefused
      <4>2. change.target.save \in Saves =>
               Front(stored[change.target.save]) \in Seq(Nat)
        BY <4>1 DEF Front
      <4>3. QED
        BY <4>1, <4>2
    <3>3. QED
      BY <3>1, <3>2
  <2>3. UNCHANGED <<tokens, queryVars, load, unseen>>
    BY <1>3 DEF CommandDone, CommandRefused
  <2>4. QED
    BY <2>1, <2>2, <2>3
<1>4. CASE ChangeAnswered
  <2>1. IsQuery(savesQ') /\ IsQuery(currentQ')
    <3>1. \/ savesQ' = Refetch(savesQ) /\ currentQ' = Refetch(currentQ)
          \/ savesQ' = savesQ /\ currentQ' = currentQ
      BY <1>4 DEF ChangeAnswered
    <3>2. IsQuery(savesQ) /\ IsQuery(currentQ)
      OBVIOUS
    <3>3. QED
      BY <3>1, <3>2, RefetchIsAQuery
  <2>2. \/ change' = NoChange
        \/ change' = [pc |-> "await", kind |-> change.kind, target |-> change.target,
                      done |-> change.done]
    BY <1>4 DEF ChangeAnswered
  <2>3. UNCHANGED <<databaseVars, pages, load, unseen>>
    BY <1>4 DEF ChangeAnswered
  <2>4. QED
    BY <2>1, <2>2, <2>3 DEF NoChange
<1>5. CASE ChangeSettled
  BY <1>5 DEF ChangeSettled, NoChange
<1>6. QED
  BY <1>1, <1>2, <1>3, <1>4, <1>5 DEF ChangeStep

LEMMA LoadsKeepTypes == ResultInv /\ LoadStep => ResultTypes'
<1> SUFFICES ASSUME ResultInv, LoadStep PROVE ResultTypes'
  OBVIOUS
<1> USE DEF ResultInv, ResultTypes, databaseVars, queryVars
<1>1. CASE BeginLoad \/ PublishBehind \/ LoadFails
  <2>1. /\ load' = [pc |-> load'.pc, save |-> load'.save, answer |-> load'.answer,
                    live |-> load'.live]
        /\ load'.pc \in {"running", "answer"}
    BY <1>1 DEF BeginLoad, PublishBehind, LoadFails, NoLoad
  <2>2. UNCHANGED <<databaseVars, queryVars, change, unseen>>
    BY <1>1 DEF BeginLoad, PublishBehind, LoadFails
  <2>3. QED
    BY <2>1, <2>2
<1>2. CASE Publish
  <2>1. load' = [pc |-> "answer", save |-> load.save, answer |-> "current", live |-> load.live]
    BY <1>2 DEF Publish
  <2>2. /\ tokens' \in Nat /\ active' \in Saves
        /\ stored' = [stored EXCEPT ![active] = Append(@, tokens')]
    BY <1>2 DEF Publish
  <2>3. Append(stored[active], tokens') \in Seq(Nat)
    BY <2>2
  <2>4. stored' \in [Saves -> Seq(Nat)]
    BY <2>2, <2>3
  <2>5. UNCHANGED <<queryVars, change, unseen>>
    BY <1>2 DEF Publish
  <2>6. QED
    BY <2>1, <2>2, <2>4, <2>5
<1>3. CASE LoadAnswered \/ LoadRemoves
  <2>1. \/ load' = NoLoad
        \/ load' = [pc |-> "remove", save |-> load.save, answer |-> load.answer, live |-> TRUE]
        \/ load' = [pc |-> "invalidate", save |-> load.save, answer |-> load.answer,
                    live |-> load.live]
    BY <1>3 DEF LoadAnswered, LoadRemoves
  <2>2. \A c \in DOMAIN pages' : IsPages(pages'[c])
    BY <1>3, PagesDropped DEF LoadAnswered, LoadRemoves
  <2>3. unseen' \in BOOLEAN /\ UNCHANGED <<databaseVars, savesQ, currentQ, change>>
    BY <1>3 DEF LoadAnswered, LoadRemoves
  <2>4. QED
    BY <2>1, <2>2, <2>3 DEF NoLoad
<1>4. CASE LoadInvalidates
  <2>1. IsQuery(savesQ') /\ IsQuery(currentQ')
    <3>1. IsQuery(savesQ) /\ IsQuery(currentQ)
      OBVIOUS
    <3>2. IsQuery(Refetch(savesQ)) /\ IsQuery(Refetch(currentQ))
      BY <3>1, QuerySteps
    <3>3. \/ savesQ' = Refetch(savesQ) /\ currentQ' = Refetch(currentQ)
          \/ savesQ' = savesQ /\ currentQ' = currentQ
      BY <1>4 DEF LoadInvalidates
    <3>4. QED
      BY <3>1, <3>2, <3>3
  <2>2. unseen' \in BOOLEAN /\ load' = NoLoad /\ UNCHANGED <<databaseVars, pages, change>>
    BY <1>4 DEF LoadInvalidates
  <2>3. QED
    BY <2>1, <2>2 DEF NoLoad
<1>5. QED
  BY <1>1, <1>2, <1>3, <1>4 DEF LoadStep

(* What becomes of the two queries.                                         *)
LEMMA QueriesMove ==
    ASSUME ResultTypes
    PROVE  /\ Refetch(savesQ).sent /\ Refetch(currentQ).sent
           /\ Read(savesQ, active).read /\ Read(savesQ, active).answer = active
           /\ Read(currentQ, Current).read /\ Read(currentQ, Current).answer = Current
           /\ ~Delivered(savesQ).sent /\ ~Delivered(savesQ).read
           /\ Delivered(savesQ).data = savesQ.answer
           /\ ~Delivered(currentQ).sent /\ ~Delivered(currentQ).read
           /\ Delivered(currentQ).data = currentQ.answer
           /\ ~(savesQ.sent /\ savesQ.read) /\ ~(currentQ.sent /\ currentQ.read)
<1>1. IsQuery(savesQ) /\ IsQuery(currentQ)
  BY DEF ResultTypes
<1>2. /\ Refetch(savesQ).sent /\ Refetch(currentQ).sent
      /\ Read(savesQ, active).read /\ Read(savesQ, active).answer = active
      /\ Read(currentQ, Current).read /\ Read(currentQ, Current).answer = Current
  BY <1>1, QuerySteps
<1>3. /\ ~Fetching(Delivered(savesQ)) /\ Delivered(savesQ).data = savesQ.answer
      /\ ~Fetching(Delivered(currentQ)) /\ Delivered(currentQ).data = currentQ.answer
  BY <1>1, QuerySteps
<1>4. QED
  BY <1>1, <1>2, <1>3 DEF IsQuery, Fetching

(* What a Load Data adds is behind whatever is stored.                      *)
LEMMA PublishAppends ==
    ASSUME ResultTypes, Publish
    PROVE  /\ \A s \in Saves : \A i \in 1..Len(stored[s]) :
                 i \in 1..Len(stored'[s]) /\ stored'[s][i] = stored[s][i]
           /\ Len(stored'[active]) = Len(stored[active]) + 1
           /\ UNCHANGED active
<1>1. /\ active \in Saves /\ stored \in [Saves -> Seq(Nat)] /\ tokens + 1 \in Nat
      /\ stored' = [stored EXCEPT ![active] = Append(@, tokens + 1)]
      /\ UNCHANGED active
  BY DEF Publish, ResultTypes
<1>2. \A s \in Saves \ {active} : stored'[s] = stored[s]
  BY <1>1
<1>3. stored'[active] = Append(stored[active], tokens + 1) /\ stored[active] \in Seq(Nat)
  BY <1>1
<1>4. \A i \in 1..Len(stored[active]) :
         i \in 1..Len(stored'[active]) /\ stored'[active][i] = stored[active][i]
  BY <1>1, <1>3
<1>5. QED
  BY <1>1, <1>2, <1>3, <1>4

(* Who is told what.                                                        *)
LEMMA SaveStaysKnown == ResultInv /\ [ResultNext]_resultVars => SaveIsKnown'
<1> SUFFICES ASSUME ResultInv, [ResultNext]_resultVars PROVE SaveIsKnown'
  OBVIOUS
<1> USE DEF SaveIsKnown, Untold, Told
<1>0. SaveIsKnown /\ ResultTypes
  BY DEF ResultInv
<1>1. ASSUME UNCHANGED <<active, savesQ>>, change'.pc = change.pc, change'.done = change.done
      PROVE  SaveIsKnown'
  BY <1>0, <1>1 DEF Fetching
<1>2. CASE ReadSaves \/ DeliverSaves
  BY <1>0, <1>2, QueriesMove DEF ReadSaves, DeliverSaves, databaseVars, Fetching
<1>3. CASE QueryStep /\ ~ReadSaves /\ ~DeliverSaves
  BY <1>1, <1>3 DEF QueryStep, ReadCurrent, DeliverCurrent, AskPage, ReadPage, DeliverPage,
       databaseVars
<1>4. CASE BeginSwitch \/ BeginDelete \/ ChangeCancels \/ ChangeRemoves
  BY <1>0, <1>4 DEF BeginSwitch, BeginDelete, BeginChange, ChangeCancels, ChangeRemoves,
       NoChange, ResultTypes, databaseVars, queryVars, Fetching
<1>5. CASE CommandDone
  BY <1>0, <1>5 DEF CommandDone, ResultTypes
<1>6. CASE CommandRefused
  BY <1>0, <1>6 DEF CommandRefused, ResultTypes, databaseVars, queryVars, Fetching
<1>7. CASE ChangeAnswered
  <2>1. CASE change.done
    BY <1>0, <1>7, <2>1, QueriesMove DEF ChangeAnswered
  <2>2. CASE ~change.done
    BY <1>0, <1>7, <2>2 DEF ChangeAnswered, NoChange, databaseVars, Fetching
  <2>3. QED
    BY <2>1, <2>2
<1>8. CASE ChangeSettled
  BY <1>0, <1>8 DEF ChangeSettled, NoChange, databaseVars, queryVars, Fetching
<1>9. CASE LoadInvalidates
  BY <1>0, <1>9, QueriesMove DEF LoadInvalidates, databaseVars, Fetching
<1>10. CASE LoadStep /\ ~LoadInvalidates
  BY <1>1, <1>10 DEF LoadStep, BeginLoad, Publish, PublishBehind, LoadFails, LoadAnswered,
       LoadRemoves, databaseVars, queryVars
<1>11. CASE UNCHANGED resultVars
  BY <1>1, <1>11 DEF resultVars, databaseVars, queryVars
<1>12. QED
  BY <1>2, <1>3, <1>4, <1>5, <1>6, <1>7, <1>8, <1>9, <1>10, <1>11
     DEF ResultNext, ChangeStep

LEMMA CurrentStaysKnown == ResultInv /\ [ResultNext]_resultVars => CurrentIsKnown'
<1> SUFFICES ASSUME ResultInv, [ResultNext]_resultVars PROVE CurrentIsKnown'
  OBVIOUS
<1> USE DEF CurrentIsKnown, Untold, Told, LoadIsDue
<1>0. CurrentIsKnown /\ ResultTypes
  BY DEF ResultInv
<1>1. ASSUME UNCHANGED databaseVars, UNCHANGED currentQ, ~Untold \/ Untold',
             unseen => unseen', LoadIsDue => LoadIsDue' \/ unseen'
      PROVE  CurrentIsKnown'
  BY <1>0, <1>1, SameDatabase DEF Fetching
<1>2. CASE ReadCurrent \/ DeliverCurrent
  BY <1>0, <1>2, QueriesMove, SameDatabase DEF ReadCurrent, DeliverCurrent, Fetching
<1>3. CASE QueryStep /\ ~ReadCurrent /\ ~DeliverCurrent
  BY <1>0, <1>1, <1>3 DEF QueryStep, ReadSaves, DeliverSaves, AskPage, ReadPage, DeliverPage,
       ResultTypes
<1>4. CASE BeginSwitch \/ BeginDelete \/ ChangeCancels \/ ChangeRemoves
  BY <1>0, <1>1, <1>4 DEF BeginSwitch, BeginDelete, BeginChange, ChangeCancels, ChangeRemoves,
       NoChange, ResultTypes, queryVars
<1>5. CASE CommandDone
  BY <1>0, <1>5 DEF CommandDone, ResultTypes
<1>6. CASE CommandRefused
  BY <1>0, <1>1, <1>6 DEF CommandRefused, ResultTypes, queryVars
<1>7. CASE ChangeAnswered
  <2>1. CASE change.done
    BY <1>0, <1>7, <2>1, QueriesMove DEF ChangeAnswered
  <2>2. CASE ~change.done
    BY <1>1, <1>7, <2>2 DEF ChangeAnswered, NoChange
  <2>3. QED
    BY <2>1, <2>2
<1>8. CASE ChangeSettled
  BY <1>1, <1>8 DEF ChangeSettled, NoChange, queryVars
<1>9. CASE BeginLoad \/ PublishBehind \/ LoadFails
  BY <1>0, <1>1, <1>9 DEF BeginLoad, PublishBehind, LoadFails, ResultTypes, queryVars
<1>10. CASE Publish
  BY <1>0, <1>10 DEF Publish, ResultTypes
<1>11. CASE LoadAnswered \/ LoadRemoves
  BY <1>0, <1>1, <1>11 DEF LoadAnswered, LoadRemoves, ResultTypes, NoLoad
<1>12. CASE LoadInvalidates
  <2>1. CASE load.live
    BY <1>0, <1>12, <2>1, QueriesMove DEF LoadInvalidates
  <2>2. CASE ~load.live
    BY <1>12, <2>2 DEF LoadInvalidates
  <2>3. QED
    BY <2>1, <2>2
<1>13. CASE UNCHANGED resultVars
  BY <1>1, <1>13 DEF resultVars, queryVars
<1>14. QED
  BY <1>2, <1>3, <1>4, <1>5, <1>6, <1>7, <1>8, <1>9, <1>10, <1>11, <1>12, <1>13
     DEF ResultNext, ChangeStep, LoadStep

LEMMA TheStoredStay == ResultInv /\ [ResultNext]_resultVars => OnlyTheStored'
<1> SUFFICES ASSUME ResultInv, [ResultNext]_resultVars PROVE OnlyTheStored'
  OBVIOUS
<1> USE DEF OnlyTheStored, Untold
<1>0. OnlyTheStored /\ ResultTypes
  BY DEF ResultInv
<1>1. ASSUME UNCHANGED currentQ, ~Untold \/ Untold', \A x : IsStored(x) => IsStored(x)'
      PROVE  OnlyTheStored'
  BY <1>0, <1>1
<1>2. UNCHANGED databaseVars => \A x : IsStored(x) => IsStored(x)'
  BY SameDatabase
<1>3. CASE ReadCurrent
  BY <1>0, <1>2, <1>3, QueriesMove, CurrentIsStored DEF ReadCurrent
<1>4. CASE DeliverCurrent
  <2>1. ~currentQ'.read /\ currentQ'.data = currentQ.answer
    BY <1>0, <1>4, QueriesMove DEF DeliverCurrent
  <2>2. Untold \/ IsStored(currentQ.answer)
    BY <1>0, <1>4, QueriesMove DEF DeliverCurrent
  <2>3. QED
    BY <1>2, <1>4, <2>1, <2>2 DEF DeliverCurrent
<1>5. CASE QueryStep /\ ~ReadCurrent /\ ~DeliverCurrent
  BY <1>1, <1>2, <1>5 DEF QueryStep, ReadSaves, DeliverSaves, AskPage, ReadPage, DeliverPage
<1>6. CASE BeginSwitch \/ BeginDelete \/ ChangeCancels \/ ChangeRemoves
  BY <1>0, <1>1, <1>2, <1>6 DEF BeginSwitch, BeginDelete, BeginChange, ChangeCancels,
       ChangeRemoves, NoChange, ResultTypes, queryVars
<1>7. CASE CommandDone
  BY <1>0, <1>7 DEF CommandDone, ResultTypes
<1>8. CASE CommandRefused
  BY <1>0, <1>1, <1>2, <1>8 DEF CommandRefused, ResultTypes, queryVars
<1>9. CASE ChangeAnswered
  <2>1. CASE change.done
    BY <1>0, <1>9, <2>1, QueriesMove DEF ChangeAnswered
  <2>2. CASE ~change.done
    BY <1>1, <1>2, <1>9, <2>2 DEF ChangeAnswered, NoChange
  <2>3. QED
    BY <2>1, <2>2
<1>10. CASE ChangeSettled
  BY <1>1, <1>2, <1>10 DEF ChangeSettled, NoChange, queryVars
<1>11. CASE Publish
  <2>1. ASSUME NEW x, IsStored(x) PROVE IsStored(x)'
    BY <1>0, <1>11, <2>1, PublishAppends DEF IsStored, SnapshotAt
  <2>2. QED
    BY <1>1, <1>11, <2>1 DEF Publish, queryVars
<1>12. CASE LoadInvalidates
  BY <1>0, <1>1, <1>2, <1>12, QueriesMove DEF LoadInvalidates
<1>13. CASE LoadStep /\ ~Publish /\ ~LoadInvalidates
  BY <1>1, <1>2, <1>13 DEF LoadStep, BeginLoad, PublishBehind, LoadFails, LoadAnswered,
       LoadRemoves, queryVars
<1>14. CASE UNCHANGED resultVars
  BY <1>1, <1>2, <1>14 DEF resultVars, queryVars
<1>15. QED
  BY <1>3, <1>4, <1>5, <1>6, <1>7, <1>8, <1>9, <1>10, <1>11, <1>12, <1>13, <1>14
     DEF ResultNext, ChangeStep

(* The pages.  What a step leaves of them, or takes away, stays as it was.  *)
LEMMA NoPagesStay == ResultInv /\ [ResultNext]_resultVars => NoPagesMeanwhile'
<1> SUFFICES ASSUME ResultInv, [ResultNext]_resultVars PROVE NoPagesMeanwhile'
  OBVIOUS
<1> USE DEF NoPagesMeanwhile
<1>0. NoPagesMeanwhile /\ ResultTypes
  BY DEF ResultInv
<1>1. CASE AskPage
  BY <1>1 DEF AskPage, Mounted, Changing, Mutating
<1>2. CASE QueryStep /\ ~AskPage
  BY <1>0, <1>2 DEF QueryStep, ReadSaves, ReadCurrent, DeliverSaves, DeliverCurrent, ReadPage,
       DeliverPage
<1>3. CASE BeginSwitch \/ BeginDelete
  BY <1>3 DEF BeginSwitch, BeginDelete, BeginChange, NoChange
<1>4. CASE ChangeCancels \/ ChangeRemoves
  BY <1>0, <1>4, PagesDropped DEF ChangeCancels, ChangeRemoves, ResultTypes
<1>5. CASE CommandDone \/ CommandRefused \/ ChangeAnswered \/ ChangeSettled
  BY <1>0, <1>5 DEF CommandDone, CommandRefused, ChangeAnswered, ChangeSettled, NoChange, queryVars
<1>6. CASE LoadStep
  BY <1>0, <1>6, PagesDropped DEF LoadStep, BeginLoad, Publish, PublishBehind, LoadFails,
       LoadAnswered, LoadRemoves, LoadInvalidates, queryVars
<1>7. CASE UNCHANGED resultVars
  BY <1>0, <1>7 DEF resultVars, queryVars
<1>8. QED
  BY <1>1, <1>2, <1>3, <1>4, <1>5, <1>6, <1>7 DEF ResultNext, ChangeStep

(* One page of a context is as it has to be.                                *)
PageIsRight(c, p) ==
    /\ \A r \in p.rows : r.save = c.save
    /\ p.sent => c.save = active
    /\ p.read => p.answer = NoSave \/ p.answer.save = c.save
    /\ c.save = active /\ c.id = Len(stored[active]) =>
          p.rows \subseteq {Current} /\ (p.read => p.answer = Current)

ContextIsStored(c) ==
    c.save \in Saves /\ c = [save |-> c.save, id |-> c.id] /\ c.id \in 1..Len(stored[c.save])

LEMMA PagesByContext ==
    RowsAreOfTheSave /\ PagesAreOfSnapshots
        <=> \A c \in DOMAIN pages : ContextIsStored(c) /\ PageIsRight(c, pages[c])
BY DEF RowsAreOfTheSave, PagesAreOfSnapshots, ContextIsStored, PageIsRight

(* While the window shows a context it is of the active save.               *)
LEMMA MountedIsActive ==
    ASSUME ResultInv, Mounted
    PROVE  ContextIsStored(Context) /\ Context.save = active
<1>1. /\ ~Untold /\ ~savesQ.sent /\ ~savesQ.read /\ ~currentQ.sent /\ ~currentQ.read
      /\ currentQ.data # NoSave /\ currentQ.data.save = savesQ.data
      /\ Context = [save |-> currentQ.data.save, id |-> currentQ.data.id]
  BY DEF Mounted, Changing, Mutating, Untold, Fetching, Context
<1>2. savesQ.data = active
  BY <1>1 DEF ResultInv, SaveIsKnown, Told
<1>3. IsStored(currentQ.data)
  BY <1>1 DEF ResultInv, OnlyTheStored
<1>4. QED
  BY <1>1, <1>2, <1>3 DEF IsStored, ContextIsStored

LEMMA PagesStayRight ==
    ResultInv /\ [ResultNext]_resultVars => RowsAreOfTheSave' /\ PagesAreOfSnapshots'
<1> SUFFICES ASSUME ResultInv, [ResultNext]_resultVars
             PROVE  \A c \in DOMAIN pages' : ContextIsStored(c)' /\ PageIsRight(c, pages[c])'
  BY DEF RowsAreOfTheSave, PagesAreOfSnapshots, ContextIsStored, PageIsRight
<1>0. /\ \A c \in DOMAIN pages : ContextIsStored(c) /\ PageIsRight(c, pages[c])
      /\ \A c \in DOMAIN pages : IsPages(pages[c])
      /\ NoPagesMeanwhile /\ ResultTypes
  BY PagesByContext DEF ResultInv, ResultTypes
<1>1. ASSUME UNCHANGED databaseVars
      PROVE  /\ \A c : ContextIsStored(c)' <=> ContextIsStored(c)
             /\ \A c, p : PageIsRight(c, p)' <=> PageIsRight(c, p)
  BY <1>1, SameDatabase DEF databaseVars, ContextIsStored, PageIsRight
<1>2. ASSUME UNCHANGED databaseVars, UNCHANGED pages \/ pages' = Cancelled \/ pages' = Removed
      PROVE  \A c \in DOMAIN pages' : ContextIsStored(c)' /\ PageIsRight(c, pages[c])'
  <2> SUFFICES ASSUME NEW c \in DOMAIN pages'
               PROVE  ContextIsStored(c) /\ PageIsRight(c, pages'[c])
    BY <1>1, <1>2
  <2>1. c \in DOMAIN pages
    BY <1>2, PagesDropped
  <2>2. \/ pages'[c] = pages[c]
        \/ pages'[c].rows = pages[c].rows /\ ~pages'[c].sent /\ ~pages'[c].read
    BY <1>2, <2>1, PagesDropped
  <2>3. QED
    BY <1>0, <2>1, <2>2 DEF PageIsRight
<1>3. CASE AskPage
  <2>1. Mounted /\ UNCHANGED databaseVars
    BY <1>3 DEF AskPage
  <2>2. pages' = [c \in DOMAIN pages \cup {Context} |->
                     IF c = Context
                     THEN [NoPages EXCEPT !.rows = Rows(Context), !.sent = TRUE] ELSE pages[c]]
    BY <1>3 DEF AskPage
  <2>3. /\ pages'[Context].rows = Rows(Context)
        /\ pages'[Context].sent /\ ~pages'[Context].read
    BY <2>2, NewPages
  <2>4. ContextIsStored(Context) /\ Context.save = active
    BY <2>1, MountedIsActive
  <2>5. PageIsRight(Context, pages'[Context])
    BY <1>0, <2>3, <2>4 DEF PageIsRight, Rows
  <2>6. \A c \in DOMAIN pages' : ContextIsStored(c) /\ PageIsRight(c, pages'[c])
    BY <1>0, <2>2, <2>4, <2>5
  <2>7. QED
    BY <1>1, <2>1, <2>6
<1>4. CASE ReadPage
  <2>1. PICK c \in DOMAIN pages : pages[c].sent /\ pages' = [pages EXCEPT ![c] = Read(@, Current)]
    BY <1>4 DEF ReadPage
  <2>2. UNCHANGED databaseVars
    BY <1>4 DEF ReadPage
  <2>3. /\ pages'[c].rows = pages[c].rows /\ pages'[c].answer = Current /\ ~pages'[c].sent
        /\ \A d \in DOMAIN pages \ {c} : pages'[d] = pages[d]
    BY <1>0, <2>1, PageSteps
  <2>4. c.save = active
    BY <1>0, <2>1 DEF PageIsRight
  <2>5. PageIsRight(c, pages'[c])
    BY <1>0, <2>1, <2>3, <2>4, CurrentIsStored DEF PageIsRight
  <2>6. \A d \in DOMAIN pages' : ContextIsStored(d) /\ PageIsRight(d, pages'[d])
    BY <1>0, <2>1, <2>3, <2>5
  <2>7. QED
    BY <1>1, <2>2, <2>6
<1>5. CASE DeliverPage
  <2>1. PICK c \in DOMAIN pages :
           /\ pages[c].read
           /\ pages' = [pages EXCEPT ![c] = [NoPages EXCEPT
                           !.rows = pages[c].rows \cup ({pages[c].answer} \ {NoSave})]]
    BY <1>5 DEF DeliverPage
  <2>2. UNCHANGED databaseVars
    BY <1>5 DEF DeliverPage
  <2>3. /\ pages'[c].rows = pages[c].rows \cup ({pages[c].answer} \ {NoSave})
        /\ ~pages'[c].sent /\ ~pages'[c].read
        /\ \A d \in DOMAIN pages \ {c} : pages'[d] = pages[d]
    BY <2>1, NewPages
  <2>4. PageIsRight(c, pages'[c])
    BY <1>0, <2>1, <2>3 DEF PageIsRight
  <2>5. \A d \in DOMAIN pages' : ContextIsStored(d) /\ PageIsRight(d, pages'[d])
    BY <1>0, <2>1, <2>3, <2>4
  <2>6. QED
    BY <1>1, <2>2, <2>5
<1>6. CASE QueryStep /\ ~AskPage /\ ~ReadPage /\ ~DeliverPage
  BY <1>2, <1>6 DEF QueryStep, ReadSaves, ReadCurrent, DeliverSaves, DeliverCurrent
<1>7. CASE CommandDone
  <2>1. DOMAIN pages' = {}
    BY <1>0, <1>7 DEF CommandDone, NoPagesMeanwhile, queryVars
  <2>2. QED
    BY <2>1
<1>8. CASE ChangeStep /\ ~CommandDone
  BY <1>2, <1>8 DEF ChangeStep, BeginSwitch, BeginDelete, BeginChange, ChangeCancels,
       ChangeRemoves, CommandRefused, ChangeAnswered, ChangeSettled, queryVars
<1>9. CASE Publish
  <2> SUFFICES ASSUME NEW c \in DOMAIN pages
               PROVE  ContextIsStored(c)' /\ PageIsRight(c, pages[c])'
    BY <1>9 DEF Publish, queryVars
  <2>1. UNCHANGED <<active, pages>>
    BY <1>9 DEF Publish, queryVars
  <2>2. ContextIsStored(c) /\ PageIsRight(c, pages[c])
    BY <1>0
  <2>3. /\ c.save \in Saves /\ c.id \in 1..Len(stored'[c.save])
        /\ c.save = active => c.id # Len(stored'[active])
    BY <1>0, <1>9, <2>2, PublishAppends DEF ContextIsStored, ResultTypes
  <2>4. QED
    BY <2>1, <2>2, <2>3 DEF ContextIsStored, PageIsRight
<1>10. CASE LoadStep /\ ~Publish
  BY <1>2, <1>10 DEF LoadStep, BeginLoad, PublishBehind, LoadFails, LoadAnswered, LoadRemoves,
       LoadInvalidates, queryVars
<1>11. CASE UNCHANGED resultVars
  BY <1>2, <1>11 DEF resultVars, queryVars
<1>12. QED
  BY <1>3, <1>4, <1>5, <1>6, <1>7, <1>8, <1>9, <1>10, <1>11 DEF ResultNext

LEMMA ResultInvHolds == ResultSpec => []ResultInv
<1>1. ResultInit => ResultInv
  <2> SUFFICES ASSUME ResultInit PROVE ResultInv
    OBVIOUS
  <2>1. /\ active \in Saves /\ stored \in [Saves -> {<<1>>}] /\ tokens = 1
        /\ savesQ = Settled(active) /\ currentQ = Settled(Current)
        /\ DOMAIN pages = {} /\ change = NoChange /\ load = NoLoad /\ unseen = FALSE
    BY DEF ResultInit
  <2>2. /\ IsQuery(savesQ) /\ ~Fetching(savesQ) /\ savesQ.data = active
        /\ IsQuery(currentQ) /\ ~Fetching(currentQ) /\ currentQ.data = Current
    BY <2>1 DEF IsQuery, Settled, Fetching
  <2>3. stored \in [Saves -> Seq(Nat)]
    <3>1. <<1>> \in Seq(Nat)
      OBVIOUS
    <3>2. QED
      BY <2>1, <3>1
  <2>4. ResultTypes
    BY <2>1, <2>2, <2>3 DEF ResultTypes, NoChange, NoLoad
  <2>5. SaveIsKnown /\ CurrentIsKnown
    BY <2>2 DEF SaveIsKnown, CurrentIsKnown, Told
  <2>6. OnlyTheStored
    BY <2>2, <2>4, CurrentIsStored DEF OnlyTheStored, Fetching
  <2>7. RowsAreOfTheSave /\ PagesAreOfSnapshots /\ NoPagesMeanwhile
    BY <2>1 DEF RowsAreOfTheSave, PagesAreOfSnapshots, NoPagesMeanwhile
  <2>8. QED
    BY <2>4, <2>5, <2>6, <2>7 DEF ResultInv
<1>2. ResultInv /\ [ResultNext]_resultVars => ResultTypes'
  BY QueriesKeepTypes, ChangesKeepTypes, LoadsKeepTypes
     DEF ResultNext, ResultInv, ResultTypes, IsQuery, IsPages, resultVars, databaseVars, queryVars
<1>3. ResultInv /\ [ResultNext]_resultVars => ResultInv'
  BY <1>2, SaveStaysKnown, CurrentStaysKnown, TheStoredStay, PagesStayRight, NoPagesStay
     DEF ResultInv
<1>4. QED
  BY <1>1, <1>3, PTL DEF ResultSpec

(* Whatever is switched, deleted and loaded, and however late each answer   *)
(* comes: no row is shown under another save, and at rest the search page   *)
(* shows the current snapshot of the active save and rows of no other,      *)
(* unless a Load Data that became history has yet to be seen.               *)
THEOREM SearchesDoNotMix == ResultSpec => []ResultsAreOfTheContext
<1>1. ResultInv => ResultsAreOfTheContext
  <2> SUFFICES ASSUME ResultInv PROVE ResultsAreOfTheContext
    OBVIOUS
  <2>1. RowsAreOfTheSave
    BY DEF ResultInv
  <2>2. ASSUME AtRest, ~unseen PROVE savesQ.data = active /\ currentQ.data = Current
    <3>1. ~Untold /\ ~LoadIsDue /\ ~Fetching(savesQ) /\ ~Fetching(currentQ)
      BY <2>2 DEF AtRest, Changing, Mutating, Untold, LoadIsDue
    <3>2. QED
      BY <2>2, <3>1 DEF ResultInv, SaveIsKnown, CurrentIsKnown, Told, Fetching
  <2>3. ASSUME AtRest, ~unseen, Context # NoSave PROVE Rows(Context) \subseteq {Current}
    <3>1. /\ currentQ.data = Current /\ currentQ.data # NoSave
          /\ Context = [save |-> Current.save, id |-> Current.id]
      BY <2>2, <2>3 DEF Context
    <3>2. Context.save = active /\ Context.id = Len(stored[active])
      BY <3>1 DEF Current, SnapshotAt
    <3>3. QED
      BY <3>2 DEF ResultInv, PagesAreOfSnapshots, Rows
  <2>4. QED
    BY <2>1, <2>2, <2>3 DEF ResultsAreOfTheContext, HeadIsCurrent, RowsAreCurrent
<1>2. QED
  BY <1>1, ResultInvHolds, PTL

-----------------------------------------------------------------------------
(* The squads: which club a player plays for, who manages, and what day it *)
(* is.                                                                      *)

(* The order of words of three letters.                                     *)
LEMMA EarlierByLetters ==
    ASSUME NEW a \in Nat, NEW b \in Nat, NEW c \in Nat,
           NEW x \in Nat, NEW y \in Nat, NEW z \in Nat
    PROVE  Earlier(<<a, b, c>>, <<x, y, z>>)
               <=> a < x \/ (a = x /\ b < y) \/ (a = x /\ b = y /\ c < z)
  <1> DEFINE s == <<a, b, c>>  t == <<x, y, z>>
  <1>1. s[1] = a /\ s[2] = b /\ s[3] = c /\ t[1] = x /\ t[2] = y /\ t[3] = z /\ Len(s) = 3
    OBVIOUS
  <1>2. Earlier(s, t) <=> \E i \in 1..3 : s[i] < t[i] /\ \A j \in 1..(i - 1) : s[j] = t[j]
    BY <1>1 DEF Earlier
  <1>3. 1..3 = {1, 2, 3} /\ 1..(1 - 1) = {} /\ 1..(2 - 1) = {1} /\ 1..(3 - 1) = {1, 2}
    OBVIOUS
  <1> HIDE DEF s, t
  <1>4. Earlier(s, t) <=> s[1] < t[1] \/ (s[2] < t[2] /\ s[1] = t[1])
                             \/ (s[3] < t[3] /\ s[1] = t[1] /\ s[2] = t[2])
    BY <1>2, <1>3
  <1>5. QED
    BY <1>1, <1>4 DEF s, t

(* Of some words of three letters, no two of them the same, one is first.   *)
LEMMA FirstWord ==
    ASSUME NEW S, S # {}, NEW a \in [S -> Nat], NEW b \in [S -> Nat], NEW c \in [S -> Nat],
           \A m, n \in S : a[m] = a[n] /\ b[m] = b[n] /\ c[m] = c[n] => m = n
    PROVE  \E m \in S : \A n \in S \ {m} : Earlier(<<a[m], b[m], c[m]>>, <<a[n], b[n], c[n]>>)
  <1> DEFINE A == {a[n] : n \in S}
  <1>1. PICK i \in A : \A j \in A : i <= j
    <2>1. A \subseteq Nat /\ A # {}
      OBVIOUS
    <2> HIDE DEF A
    <2>2. QED
      BY <2>1, LeastNumber
  <1> DEFINE B == {b[n] : n \in {k \in S : a[k] = i}}
  <1>3. PICK p \in B : \A j \in B : p <= j
    <2>1. B \subseteq Nat /\ B # {}
      BY <1>1
    <2> HIDE DEF B
    <2>2. QED
      BY <2>1, LeastNumber
  <1> DEFINE C == {c[n] : n \in {k \in S : a[k] = i /\ b[k] = p}}
  <1>5. PICK q \in C : \A j \in C : q <= j
    <2>1. C \subseteq Nat /\ C # {}
      BY <1>3
    <2> HIDE DEF C
    <2>2. QED
      BY <2>1, LeastNumber
  <1>6. PICK m \in S : a[m] = i /\ b[m] = p /\ c[m] = q
    BY <1>5
  <1>7. ASSUME NEW n \in S, n # m
        PROVE  a[m] < a[n] \/ (a[m] = a[n] /\ b[m] < b[n])
                   \/ (a[m] = a[n] /\ b[m] = b[n] /\ c[m] < c[n])
    <2>1. a[m] <= a[n]
      BY <1>1, <1>6
    <2>2. a[n] = a[m] => b[m] <= b[n]
      BY <1>3, <1>6
    <2>3. a[n] = a[m] /\ b[n] = b[m] => c[m] <= c[n]
      BY <1>5, <1>6
    <2>4. ~(a[m] = a[n] /\ b[m] = b[n] /\ c[m] = c[n])
      BY <1>7
    <2>5. QED
      BY <2>1, <2>2, <2>3, <2>4
  <1>8. QED
    BY <1>7, EarlierByLetters

-----------------------------------------------------------------------------
(* The walk of the clubs.  What is assigned is of the teams walked so far.  *)

(* A place is a team of a club with a name.                                 *)
LEMMA PlacesAreTeams ==
    ASSUME seen \in Games
    PROVE  /\ IsFiniteSet(AllTeams)
           /\ \A p \in AllTeams :
                 /\ p = <<p[1], p[2]>> /\ p[1] \in Nat /\ p[2] \in Nat
                 /\ ClubAt(p) \in Nat /\ IsTeam(TeamAt(p))
  <1>1. /\ IsFiniteSet(seen.found \cup seen.contracts)
        /\ seen.found \cup seen.contracts \subseteq DOMAIN seen.clubs \cap Nat
        /\ \A c \in DOMAIN seen.clubs :
              /\ seen.clubs[c].name \in Nat \cup {Unknown}
              /\ Len(seen.clubs[c].teams) \in Nat
              /\ \A i \in 1..Len(seen.clubs[c].teams) : IsTeam(seen.clubs[c].teams[i])
    BY GamesAssumption
  <1>2. ASSUME NEW p \in AllTeams
        PROVE  /\ p \in (seen.found \cup seen.contracts) \X (1..MaxTeams)
               /\ p = <<p[1], p[2]>> /\ p[1] \in Nat /\ p[2] \in Nat
               /\ ClubAt(p) \in Nat /\ IsTeam(TeamAt(p))
    <2>1. PICK c \in Clubs : p \in {c} \X (1..Len(seen.clubs[c].teams))
      BY DEF AllTeams
    <2>2. /\ c \in seen.found \cup seen.contracts /\ seen.clubs[c].name # Unknown
          /\ Len(seen.clubs[c].teams) \in 1..MaxTeams
      BY DEF Clubs, Plausible, Walked
    <2>3. p = <<c, p[2]>> /\ p[1] = c /\ p[2] \in 1..Len(seen.clubs[c].teams)
      BY <2>1
    <2>4. p[2] \in 1..MaxTeams
      BY <2>2, <2>3, GamesAssumption
    <2>5. QED
      BY <1>1, <2>2, <2>3, <2>4 DEF ClubAt, TeamAt
  <1>3. IsFiniteSet(AllTeams)
    <2>1. IsFiniteSet(1..MaxTeams)
      BY FS_Interval, GamesAssumption
    <2>2. IsFiniteSet((seen.found \cup seen.contracts) \X (1..MaxTeams))
      BY <1>1, <2>1, FS_Product
    <2>3. QED
      BY <1>2, <2>2, FS_Subset
  <1>4. QED
    BY <1>2, <1>3

(* There is a next place, whatever is left.                                 *)
LEMMA NextPlaceIsLeft ==
    ASSUME seen \in Games, towalk \subseteq AllTeams, towalk # {}
    PROVE  NextPlace \in towalk
  <1> DEFINE a == [p \in towalk |-> IF p[1] \in seen.found THEN 0 ELSE 1]
             b == [p \in towalk |-> p[1]]
             c == [p \in towalk |-> p[2]]
  <1>1. /\ a \in [towalk -> Nat] /\ b \in [towalk -> Nat] /\ c \in [towalk -> Nat]
        /\ \A p, q \in towalk : a[p] = a[q] /\ b[p] = b[q] /\ c[p] = c[q] => p = q
    BY PlacesAreTeams
  <1>2. \A p \in towalk : OrderOf(p) = <<a[p], b[p], c[p]>>
    BY DEF OrderOf
  <1> HIDE DEF a, b, c
  <1>3. \E p \in towalk : \A q \in towalk \ {p} : Earlier(OrderOf(p), OrderOf(q))
    <2>1. PICK p \in towalk : \A q \in towalk \ {p} : Earlier(<<a[p], b[p], c[p]>>, <<a[q], b[q], c[q]>>)
      BY <1>1, FirstWord
    <2>2. QED
      BY <1>2, <2>1
  <1>4. QED
    BY <1>3 DEF NextPlace

(* The date a team votes for, if it does.                                   *)
LEMMA VotesAreDates ==
    ASSUME NEW team, IsTeam(team)
    PROVE  NextMatch(team) \in Nat \cup {Unknown}
  <1>1. CASE Dated(team) = {}
    BY <1>1 DEF NextMatch
  <1>2. CASE Dated(team) # {}
    <2>1. Dated(team) \subseteq Nat
      BY DEF IsTeam, Dated
    <2>2. PICK i \in Dated(team) : \A j \in Dated(team) : i <= j
      BY <1>2, <2>1, LeastNumber
    <2>3. (CHOOSE k \in Dated(team) : \A j \in Dated(team) : k <= j) \in Dated(team)
      BY <2>2
    <2>4. QED
      BY <1>2, <2>3 DEF NextMatch, Dated, IsTeam
  <1>3. QED
    BY <1>1, <1>2

(* A player is assigned to a team that shows him: to one of a club that is  *)
(* not his own if there is such a one, and of those, or of his own club's,  *)
(* to one of the lowest type.                                               *)
Shows(place, u) == u \in Members(TeamAt(place))
Elsewhere(club, u) == club # seen.parents[u]
PlayersAreRight(walked, assigned) ==
    /\ DOMAIN assigned = {u \in DOMAIN seen.parents : \E p \in walked : Shows(p, u)}
    /\ \A u \in DOMAIN assigned :
          /\ \E p \in walked : Shows(p, u) /\ assigned[u] = Hit(p)
          /\ \A p \in walked : Shows(p, u) =>
                /\ Elsewhere(ClubAt(p), u) => Elsewhere(assigned[u].club, u)
                /\ (Elsewhere(assigned[u].club, u) => Elsewhere(ClubAt(p), u)) =>
                        assigned[u].type <= SquadType(TeamAt(p))

(* A manager is at one of his teams, one of the lowest type.                *)
ManagersAreRight(walked, posts) ==
    /\ DOMAIN posts = {m \in seen.managers : \E p \in walked : TeamAt(p).manager = m}
    /\ \A m \in DOMAIN posts :
          /\ \E p \in walked : TeamAt(p).manager = m /\ posts[m] = Post(p)
          /\ \A p \in walked : TeamAt(p).manager = m =>
                ManagerType(posts[m].type) <= ManagerType(TeamAt(p).type)

(* A date has the votes of the teams that play next on it.                  *)
Voting(walked, d) == {p \in walked : NextMatch(TeamAt(p)) = d}
VotesAreRight(walked, counted) ==
    /\ DOMAIN counted = {NextMatch(TeamAt(p)) : p \in walked} \ {Unknown}
    /\ \A d \in DOMAIN counted : counted[d] = Cardinality(Voting(walked, d))

SquadInv ==
    /\ seen \in Games
    /\ towalk \subseteq AllTeams
    /\ PlayersAreRight(AllTeams \ towalk, squads)
    /\ ManagersAreRight(AllTeams \ towalk, managed)
    /\ VotesAreRight(AllTeams \ towalk, votes)

(* Of two assignments the one elsewhere is chosen, and else the lower type. *)
LEMMA ChoiceOfTwo ==
    ASSUME NEW current, NEW candidate, NEW parent,
           current.club \in Nat, candidate.club \in Nat, current.type \in Nat, candidate.type \in Nat
    PROVE  LET chosen == Choose(current, candidate, parent) IN
           /\ chosen \in {current, candidate}
           /\ current.club # parent \/ candidate.club # parent => chosen.club # parent
           /\ (current.club = parent) = (candidate.club = parent) =>
                  chosen.type <= current.type /\ chosen.type <= candidate.type
  BY GamesAssumption DEF Choose

(* The types of what is assigned.                                           *)
LEMMA HitTypes ==
    ASSUME seen \in Games, NEW p \in AllTeams
    PROVE  /\ Hit(p).club = ClubAt(p) /\ Hit(p).type = SquadType(TeamAt(p))
           /\ ClubAt(p) \in Nat /\ SquadType(TeamAt(p)) \in Nat
           /\ Post(p).type = TeamAt(p).type /\ Post(p).club = ClubAt(p)
           /\ ManagerType(TeamAt(p).type) \in Nat
           /\ SquadType(TeamAt(p)) \in Nat
  BY PlacesAreTeams DEF Hit, Post, SquadType, ManagerType, IsTeam, NoType

LEMMA PlayersStayRight ==
    ASSUME seen \in Games, NEW walked, walked \subseteq AllTeams, NEW place \in AllTeams,
           NEW assigned, PlayersAreRight(walked, assigned),
           NEW next,
           next = [u \in DOMAIN assigned \cup (Members(TeamAt(place)) \cap DOMAIN seen.parents) |->
                      IF u \notin Members(TeamAt(place)) THEN assigned[u]
                      ELSE IF u \notin DOMAIN assigned THEN Hit(place)
                      ELSE Choose(assigned[u], Hit(place), seen.parents[u])]
    PROVE  PlayersAreRight(walked \cup {place}, next)
  <1> DEFINE further == walked \cup {place}
  <1>1. DOMAIN next = {u \in DOMAIN seen.parents : \E p \in further : Shows(p, u)}
    BY DEF PlayersAreRight, Shows
  <1>2. ASSUME NEW u \in DOMAIN next
        PROVE  /\ \E p \in further : Shows(p, u) /\ next[u] = Hit(p)
               /\ \A p \in further : Shows(p, u) =>
                     /\ Elsewhere(ClubAt(p), u) => Elsewhere(next[u].club, u)
                     /\ (Elsewhere(next[u].club, u) => Elsewhere(ClubAt(p), u)) =>
                             next[u].type <= SquadType(TeamAt(p))
    <2>1. CASE ~Shows(place, u)
      <3>1. u \in DOMAIN assigned /\ next[u] = assigned[u]
        BY <2>1 DEF Shows
      <3>2. QED
        BY <2>1, <3>1 DEF PlayersAreRight
    <2>2. CASE Shows(place, u) /\ u \notin DOMAIN assigned
      <3>1. next[u] = Hit(place) /\ u \in DOMAIN seen.parents
        BY <2>2, <1>1 DEF Shows
      <3>2. \A p \in walked : ~Shows(p, u)
        BY <2>2, <3>1 DEF PlayersAreRight
      <3>3. QED
        BY <2>2, <3>1, <3>2, HitTypes
    <2>3. CASE Shows(place, u) /\ u \in DOMAIN assigned
      <3> DEFINE current == assigned[u]  parent == seen.parents[u]
      <3>1. next[u] = Choose(current, Hit(place), parent)
        BY <2>3 DEF Shows
      <3>2. PICK p \in walked : Shows(p, u) /\ current = Hit(p)
        BY <2>3 DEF PlayersAreRight
      <3>3. /\ current.club \in Nat /\ current.type \in Nat
            /\ Hit(place).club = ClubAt(place) /\ Hit(place).type = SquadType(TeamAt(place))
            /\ ClubAt(place) \in Nat /\ SquadType(TeamAt(place)) \in Nat
        BY <3>2, HitTypes
      <3> DEFINE chosen == next[u]
      <3>4. /\ chosen \in {current, Hit(place)}
            /\ current.club # parent \/ Hit(place).club # parent => chosen.club # parent
            /\ (current.club = parent) = (Hit(place).club = parent) =>
                  chosen.type <= current.type /\ chosen.type <= Hit(place).type
        BY <3>1, <3>3, ChoiceOfTwo
      <3>5. \A q \in walked : Shows(q, u) =>
               /\ SquadType(TeamAt(q)) \in Nat
               /\ ClubAt(q) # parent => current.club # parent
               /\ (current.club # parent => ClubAt(q) # parent) => current.type <= SquadType(TeamAt(q))
        BY <2>3, HitTypes DEF PlayersAreRight, Elsewhere
      <3>6. \E q \in further : Shows(q, u) /\ chosen = Hit(q)
        BY <2>3, <3>2, <3>4
      <3> HIDE DEF chosen, current, parent
      <3>7. ASSUME NEW q \in further, Shows(q, u)
            PROVE  /\ ClubAt(q) # parent => chosen.club # parent
                   /\ (chosen.club # parent => ClubAt(q) # parent) => chosen.type <= SquadType(TeamAt(q))
        <4>1. CASE q = place
          BY <3>3, <3>4, <4>1
        <4>2. CASE q \in walked
          BY <3>3, <3>4, <3>5, <3>7, <4>2
        <4>3. QED
          BY <4>1, <4>2
      <3>8. QED
        BY <3>6, <3>7 DEF chosen, parent, Elsewhere
    <2>4. QED
      BY <2>1, <2>2, <2>3
  <1>3. QED
    BY <1>1, <1>2 DEF PlayersAreRight

LEMMA ManagersStayRight ==
    ASSUME seen \in Games, NEW walked, walked \subseteq AllTeams, NEW place \in AllTeams,
           NEW posts, ManagersAreRight(walked, posts),
           NEW next,
           next = [m \in DOMAIN posts \cup ({TeamAt(place).manager} \cap seen.managers) |->
                      IF m # TeamAt(place).manager THEN posts[m]
                      ELSE IF m \notin DOMAIN posts \/ Outranks(Post(place), posts[m]) THEN Post(place)
                      ELSE posts[m]]
    PROVE  ManagersAreRight(walked \cup {place}, next)
  <1> DEFINE further == walked \cup {place}
  <1>1. DOMAIN next = {m \in seen.managers : \E p \in further : TeamAt(p).manager = m}
    BY DEF ManagersAreRight
  <1>2. ASSUME NEW m \in DOMAIN next
        PROVE  /\ \E p \in further : TeamAt(p).manager = m /\ next[m] = Post(p)
               /\ \A p \in further : TeamAt(p).manager = m =>
                     ManagerType(next[m].type) <= ManagerType(TeamAt(p).type)
    <2>1. CASE TeamAt(place).manager # m
      BY <2>1 DEF ManagersAreRight
    <2>2. CASE TeamAt(place).manager = m /\ m \notin DOMAIN posts
      <3>1. next[m] = Post(place)
        BY <2>2
      <3>2. \A p \in walked : TeamAt(p).manager # m
        BY <1>1, <2>2 DEF ManagersAreRight
      <3>3. QED
        BY <2>2, <3>1, <3>2, HitTypes
    <2>3. CASE TeamAt(place).manager = m /\ m \in DOMAIN posts
      <3>1. PICK p \in walked : TeamAt(p).manager = m /\ posts[m] = Post(p)
        BY <2>3 DEF ManagersAreRight
      <3>2. /\ ManagerType(posts[m].type) \in Nat /\ ManagerType(Post(place).type) \in Nat
            /\ Post(place).type = TeamAt(place).type
        BY <3>1, HitTypes
      <3>3. \A q \in walked : TeamAt(q).manager = m =>
                /\ ManagerType(TeamAt(q).type) \in Nat
                /\ ManagerType(posts[m].type) <= ManagerType(TeamAt(q).type)
        BY <2>3, HitTypes DEF ManagersAreRight
      <3>4. CASE Outranks(Post(place), posts[m])
        <4>1. next[m] = Post(place) /\ ManagerType(Post(place).type) <= ManagerType(posts[m].type)
          BY <2>3, <3>2, <3>4 DEF Outranks
        <4>2. QED
          BY <2>3, <3>2, <3>3, <4>1
      <3>5. CASE ~Outranks(Post(place), posts[m])
        <4>1. next[m] = posts[m] /\ ManagerType(posts[m].type) <= ManagerType(Post(place).type)
          BY <2>3, <3>2, <3>5 DEF Outranks
        <4>2. QED
          BY <2>3, <3>1, <3>2, <3>3, <4>1
      <3>6. QED
        BY <3>4, <3>5
    <2>4. QED
      BY <2>1, <2>2, <2>3
  <1>3. QED
    BY <1>1, <1>2 DEF ManagersAreRight

LEMMA VotesStayRight ==
    ASSUME seen \in Games, NEW walked, walked \subseteq AllTeams,
           NEW place \in AllTeams, place \notin walked,
           NEW counted, VotesAreRight(walked, counted),
           NEW next,
           next = [d \in DOMAIN counted \cup ({NextMatch(TeamAt(place))} \ {Unknown}) |->
                      (IF d \in DOMAIN counted THEN counted[d] ELSE 0)
                          + IF d = NextMatch(TeamAt(place)) THEN 1 ELSE 0]
    PROVE  VotesAreRight(walked \cup {place}, next)
  <1> DEFINE further == walked \cup {place}
             date == NextMatch(TeamAt(place))
  <1>1. DOMAIN next = {NextMatch(TeamAt(p)) : p \in further} \ {Unknown}
    BY DEF VotesAreRight
  <1>2. ASSUME NEW d \in DOMAIN next
        PROVE  next[d] = Cardinality(Voting(further, d))
    <2>1. IsFiniteSet(Voting(walked, d))
      BY PlacesAreTeams, FS_Subset DEF Voting
    <2>2. Cardinality(Voting(walked, d)) \in Nat
      BY <2>1, FS_CardinalityType
    <2>3. (IF d \in DOMAIN counted THEN counted[d] ELSE 0) = Cardinality(Voting(walked, d))
      <3>1. CASE d \in DOMAIN counted
        BY <3>1 DEF VotesAreRight
      <3>2. CASE d \notin DOMAIN counted
        <4>1. Voting(walked, d) = {}
          BY <1>1, <3>2 DEF VotesAreRight, Voting
        <4>2. QED
          BY <3>2, <4>1, FS_EmptySet
      <3>3. QED
        BY <3>1, <3>2
    <2>4. CASE d = date
      <3>1. Voting(further, d) = Voting(walked, d) \cup {place} /\ place \notin Voting(walked, d)
        BY <2>4 DEF Voting
      <3>2. Cardinality(Voting(further, d)) = Cardinality(Voting(walked, d)) + 1
        BY <2>1, <3>1, FS_AddElement
      <3>3. QED
        BY <2>2, <2>3, <2>4, <3>2
    <2>5. CASE d # date
      <3>1. Voting(further, d) = Voting(walked, d)
        BY <2>5 DEF Voting
      <3>2. QED
        BY <2>2, <2>3, <2>5, <3>1
    <2>6. QED
      BY <2>4, <2>5
  <1>3. QED
    BY <1>1, <1>2 DEF VotesAreRight

LEMMA SquadsStart == SquadInit => SquadInv
  <1> SUFFICES ASSUME SquadInit PROVE SquadInv
    OBVIOUS
  <1>1. seen \in Games /\ towalk = AllTeams /\ AllTeams \ towalk = {}
    BY DEF SquadInit, SquadStart
  <1>2. DOMAIN squads = {} /\ DOMAIN managed = {} /\ DOMAIN votes = {}
    BY DEF SquadInit, SquadStart
  <1>3. /\ PlayersAreRight({}, squads) /\ ManagersAreRight({}, managed) /\ VotesAreRight({}, votes)
    BY <1>2 DEF PlayersAreRight, ManagersAreRight, VotesAreRight
  <1>4. QED
    BY <1>1, <1>3 DEF SquadInv

LEMMA SquadsStay == SquadInv /\ [SquadNext]_squadVars => SquadInv'
  <1> SUFFICES ASSUME SquadInv, [SquadNext]_squadVars PROVE SquadInv'
    OBVIOUS
  <1> DEFINE walked == AllTeams \ towalk  further == AllTeams \ towalk'
  <1>1. seen' = seen
    BY DEF SquadNext, WalkTeam, squadVars
  <1>2. /\ towalk' \subseteq AllTeams
        /\ PlayersAreRight(further, squads')
        /\ ManagersAreRight(further, managed')
        /\ VotesAreRight(further, votes')
    <2>1. CASE WalkTeam
      <3> DEFINE place == NextPlace
      <3>1. place \in towalk
        BY <2>1, NextPlaceIsLeft DEF SquadInv, WalkTeam
      <3>2. /\ towalk' = towalk \ {place}
            /\ squads' =
                [u \in DOMAIN squads \cup (Members(TeamAt(place)) \cap DOMAIN seen.parents) |->
                    IF u \notin Members(TeamAt(place)) THEN squads[u]
                    ELSE IF u \notin DOMAIN squads THEN Hit(place)
                    ELSE Choose(squads[u], Hit(place), seen.parents[u])]
            /\ managed' =
                [m \in DOMAIN managed \cup ({TeamAt(place).manager} \cap seen.managers) |->
                    IF m # TeamAt(place).manager THEN managed[m]
                    ELSE IF m \notin DOMAIN managed \/ Outranks(Post(place), managed[m]) THEN Post(place)
                    ELSE managed[m]]
            /\ votes' =
                [d \in DOMAIN votes \cup ({NextMatch(TeamAt(place))} \ {Unknown}) |->
                    (IF d \in DOMAIN votes THEN votes[d] ELSE 0)
                        + IF d = NextMatch(TeamAt(place)) THEN 1 ELSE 0]
        BY <2>1 DEF WalkTeam
      <3> HIDE DEF place
      <3>3. /\ seen \in Games /\ place \in AllTeams /\ place \notin walked /\ walked \subseteq AllTeams
            /\ further = walked \cup {place} /\ towalk' \subseteq AllTeams
        BY <3>1, <3>2 DEF SquadInv
      <3>4. /\ PlayersAreRight(walked, squads) /\ ManagersAreRight(walked, managed)
            /\ VotesAreRight(walked, votes)
        BY DEF SquadInv
      <3> HIDE DEF walked, further
      <3>5. PlayersAreRight(walked \cup {place}, squads')
        BY <3>2, <3>3, <3>4, PlayersStayRight
      <3>6. ManagersAreRight(walked \cup {place}, managed')
        BY <3>2, <3>3, <3>4, ManagersStayRight
      <3>7. VotesAreRight(walked \cup {place}, votes')
        BY <3>2, <3>3, <3>4, VotesStayRight
      <3>8. QED
        BY <3>3, <3>5, <3>6, <3>7
    <2>2. CASE UNCHANGED squadVars
      BY <2>2 DEF squadVars, SquadInv
    <2>3. QED
      BY <2>1, <2>2 DEF SquadNext
  <1>3. AllTeams' = AllTeams
    BY <1>1 DEF AllTeams, Clubs, Plausible, Walked
  <1> HIDE DEF walked, further
  <1>4. PlayersAreRight(AllTeams \ towalk, squads)'
    BY <1>1, <1>2, <1>3 DEF PlayersAreRight, Shows, Elsewhere, Hit, ClubAt, TeamAt, further
  <1>5. ManagersAreRight(AllTeams \ towalk, managed)'
    BY <1>1, <1>2, <1>3 DEF ManagersAreRight, Post, ClubAt, TeamAt, further
  <1>6. VotesAreRight(AllTeams \ towalk, votes)'
    BY <1>1, <1>2, <1>3 DEF VotesAreRight, Voting, TeamAt, further
  <1>7. QED
    BY <1>1, <1>2, <1>3, <1>4, <1>5, <1>6 DEF SquadInv

(* When all teams are walked a player on loan is seen where he plays.       *)
LEMMA LoansGetSeen ==
    ASSUME SquadInv, towalk = {}, NEW u \in DOMAIN seen.parents
    PROVE  LoansAreSeen(u)
  <1> DEFINE parent == seen.parents[u]  others == ClubsOf(u) \ {parent}
  <1>1. AllTeams \ towalk = AllTeams /\ seen \in Games /\ PlayersAreRight(AllTeams, squads)
    BY DEF SquadInv
  <1>2. \A p \in AllTeams : ClubAt(p) \in Nat /\ Hit(p).club = ClubAt(p)
    BY <1>1, HitTypes
  <1>3. CASE u \notin DOMAIN squads
    <2>1. Listing(u) = {} /\ ClubsOf(u) = {}
      BY <1>1, <1>3 DEF PlayersAreRight, Listing, ClubsOf, Shows
    <2>2. CurrentClub(u) = parent
      BY <1>3 DEF CurrentClub
    <2>3. QED
      BY <1>3, <2>1, <2>2 DEF LoansAreSeen, OnLoan
  <1>4. CASE u \in DOMAIN squads
    <2>1. CurrentClub(u) = squads[u].club
      BY <1>4 DEF CurrentClub
    <2>2. PICK p \in Listing(u) : squads[u].club = ClubAt(p)
      BY <1>1, <1>2, <1>4 DEF PlayersAreRight, Listing, Shows
    <2>3. squads[u].club \in ClubsOf(u) /\ squads[u].club # Unknown
      BY <1>2, <2>2, GamesAssumption DEF ClubsOf, Listing
    <2>4. \A q \in Listing(u) :
              /\ ClubAt(q) # parent => squads[u].club # parent
              /\ (squads[u].club # parent => ClubAt(q) # parent) => squads[u].type <= SquadType(TeamAt(q))
      BY <1>1, <1>4 DEF PlayersAreRight, Listing, Shows, Elsewhere
    <2>5. others # {} <=> squads[u].club # parent
      BY <2>3, <2>4 DEF ClubsOf
    <2>6. \A q \in Listing(u) : ClubAt(q) = squads[u].club => squads[u].type <= SquadType(TeamAt(q))
      BY <2>4
    <2>7. QED
      BY <2>1, <2>3, <2>5, <2>6 DEF LoansAreSeen, OnLoan
  <1>5. QED
    BY <1>3, <1>4

(* The manager of a first team is found, if there is one.                   *)
LEMMA ManagersAreFound ==
    ASSUME SquadInv, towalk = {}
    PROVE  ManagerIsFound
  <1>1. AllTeams \ towalk = AllTeams /\ seen \in Games /\ ManagersAreRight(AllTeams, managed)
    BY DEF SquadInv
  <1>2. NamedManagers \subseteq Nat
    BY <1>1, GamesAssumption DEF NamedManagers
  <1>3. \A m \in NamedManagers :
            /\ SourceRank(m) \in 0..3
            /\ m \in DOMAIN managed => ManagerType(managed[m].type) \in Nat
    <2> SUFFICES ASSUME NEW m \in NamedManagers
                 PROVE  /\ SourceRank(m) \in 0..3
                        /\ m \in DOMAIN managed => ManagerType(managed[m].type) \in Nat
      OBVIOUS
    <2>1. SourceRank(m) \in 0..3
      BY DEF SourceRank
    <2>2. ASSUME m \in DOMAIN managed
          PROVE  ManagerType(managed[m].type) \in Nat
      <3>1. PICK p \in AllTeams : managed[m] = Post(p)
        BY <1>1, <2>2 DEF ManagersAreRight
      <3>2. QED
        BY <1>1, <3>1, HitTypes
    <2>3. QED
      BY <2>1, <2>2
  <1>4. CASE NamedManagers = {}
    BY <1>4 DEF ManagerIsFound
  <1>5. CASE NamedManagers # {}
    <2> DEFINE a == [m \in NamedManagers |-> SourceRank(m)]
               b == [m \in NamedManagers |->
                        IF m \in DOMAIN managed THEN ManagerType(managed[m].type) ELSE NoType]
               c == [m \in NamedManagers |-> m]
    <2>1. /\ a \in [NamedManagers -> Nat] /\ b \in [NamedManagers -> Nat] /\ c \in [NamedManagers -> Nat]
          /\ \A m, n \in NamedManagers : a[m] = a[n] /\ b[m] = b[n] /\ c[m] = c[n] => m = n
      BY <1>2, <1>3 DEF NoType
    <2>2. \A m \in NamedManagers : Grade(m) = <<a[m], b[m], c[m]>>
      BY DEF Grade
    <2>3. \A m \in NamedManagers : a[m] = SourceRank(m)
      OBVIOUS
    <2> HIDE DEF a, b, c
    <2>4. \E m \in NamedManagers : \A n \in NamedManagers \ {m} : Earlier(Grade(m), Grade(n))
      <3>1. PICK m \in NamedManagers :
                \A n \in NamedManagers \ {m} : Earlier(<<a[m], b[m], c[m]>>, <<a[n], b[n], c[n]>>)
        BY <1>5, <2>1, FirstWord
      <3>2. QED
        BY <2>2, <3>1
    <2> DEFINE selected == SelectedManager
    <2>5. /\ selected \in NamedManagers
          /\ \A n \in NamedManagers \ {selected} : Earlier(Grade(selected), Grade(n))
      BY <1>5, <2>4 DEF SelectedManager
    <2> HIDE DEF selected
    <2>6. \A n \in NamedManagers : SourceRank(selected) <= SourceRank(n)
      <3> SUFFICES ASSUME NEW n \in NamedManagers, n # selected
                   PROVE  SourceRank(selected) <= SourceRank(n)
        BY <1>3, <2>5
      <3>1. Earlier(<<a[selected], b[selected], c[selected]>>, <<a[n], b[n], c[n]>>)
        BY <2>2, <2>5
      <3>2. /\ a[selected] \in Nat /\ b[selected] \in Nat /\ c[selected] \in Nat
            /\ a[n] \in Nat /\ b[n] \in Nat /\ c[n] \in Nat
        BY <2>1, <2>5
      <3>3. a[selected] <= a[n]
        <4> DEFINE x == a[selected]  y == b[selected]  z == c[selected]
                   i == a[n]  j == b[n]  k == c[n]
        <4>1. /\ x \in Nat /\ y \in Nat /\ z \in Nat /\ i \in Nat /\ j \in Nat /\ k \in Nat
              /\ Earlier(<<x, y, z>>, <<i, j, k>>)
          BY <3>1, <3>2
        <4> HIDE DEF x, y, z, i, j, k
        <4>2. x <= i
          BY <4>1, EarlierByLetters
        <4>3. QED
          BY <4>2 DEF x, i
      <3>4. QED
        BY <2>3, <2>5, <3>3
    <2>7. ASSUME NEW m \in NamedManagers, FirstTeams(m) # {}
          PROVE  /\ FirstTeams(selected) # {}
                 /\ ManagerClub \in {ClubAt(p) : p \in FirstTeams(selected)}
      <3>1. PICK p \in AllTeams : TeamAt(p).manager = m /\ TeamAt(p).type = 0
        BY <2>7 DEF FirstTeams
      <3>2. m \in DOMAIN managed /\ ManagerType(managed[m].type) <= ManagerType(TeamAt(p).type)
        BY <1>1, <3>1 DEF ManagersAreRight, NamedManagers
      <3>3. ManagerType(TeamAt(p).type) = 0
        BY <3>1, GamesAssumption DEF ManagerType
      <3>4. ManagerType(managed[m].type) = 0
        BY <1>3, <3>2, <3>3
      <3>5. managed[m].type = 0
        BY <3>4 DEF ManagerType, NoType
      <3>6. SourceRank(m) = 0
        BY <3>2, <3>5 DEF SourceRank
      <3>7. SourceRank(selected) = 0
        BY <1>3, <2>5, <2>6, <3>6
      <3>8. selected \in DOMAIN managed /\ managed[selected].type = 0
        BY <3>7 DEF SourceRank
      <3>9. PICK q \in AllTeams : TeamAt(q).manager = selected /\ managed[selected] = Post(q)
        BY <1>1, <3>8 DEF ManagersAreRight
      <3>10. TeamAt(q).type = 0 /\ managed[selected].club = ClubAt(q)
        BY <1>1, <3>8, <3>9, HitTypes
      <3>11. ManagerClub = ClubAt(q)
        BY <3>8, <3>10 DEF ManagerClub, selected
      <3>12. QED
        BY <3>9, <3>10, <3>11 DEF FirstTeams
    <2>8. QED
      BY <2>5, <2>7 DEF ManagerIsFound, selected
  <1>6. QED
    BY <1>4, <1>5

(* The date has as many votes as any.                                       *)
LEMMA DatesAreAgreed ==
    ASSUME SquadInv, towalk = {}
    PROVE  DateIsAgreed
  <1>1. AllTeams \ towalk = AllTeams /\ seen \in Games /\ VotesAreRight(AllTeams, votes)
    BY DEF SquadInv
  <1>2. IsFiniteSet(AllTeams) /\ Cardinality(AllTeams) \in Nat
    BY <1>1, PlacesAreTeams, FS_CardinalityType
  <1>3. \A d : /\ IsFiniteSet(Voting(AllTeams, d)) /\ VotesFor(d) = Cardinality(Voting(AllTeams, d))
               /\ VotesFor(d) \in Nat /\ VotesFor(d) <= Cardinality(AllTeams)
    <2> TAKE d
    <2>1. Voting(AllTeams, d) \subseteq AllTeams /\ VotesFor(d) = Cardinality(Voting(AllTeams, d))
      BY DEF Voting, VotesFor
    <2>2. QED
      BY <1>2, <2>1, FS_Subset, FS_CardinalityType
  <1>4. /\ \A d \in DOMAIN votes : votes[d] = VotesFor(d) /\ d \in Nat /\ d # Unknown
        /\ \A d : d # Unknown /\ VotesFor(d) > 0 => d \in DOMAIN votes
    <2>1. \A p \in AllTeams : NextMatch(TeamAt(p)) \in Nat \cup {Unknown}
      BY <1>1, PlacesAreTeams, VotesAreDates
    <2>2. \A d \in DOMAIN votes : votes[d] = VotesFor(d) /\ d \in Nat /\ d # Unknown
      BY <1>1, <1>3, <2>1 DEF VotesAreRight
    <2>3. ASSUME NEW d, d # Unknown, VotesFor(d) > 0
          PROVE  d \in DOMAIN votes
      <3>1. Voting(AllTeams, d) # {}
        BY <1>3, <2>3, FS_EmptySet
      <3>2. QED
        BY <1>1, <2>3, <3>1 DEF VotesAreRight, Voting
    <2>4. QED
      BY <2>2, <2>3
  <1>5. ASSUME NEW d, d # Unknown, VotesFor(d) > 0
        PROVE  GameDate # Unknown /\ VotesFor(d) <= VotesFor(GameDate)
    <2> DEFINE S == DOMAIN votes
               a == [e \in S |-> Cardinality(AllTeams) - VotesFor(e)]
               b == [e \in S |-> e]
    <2>1. d \in S
      BY <1>4, <1>5
    <2>2. a \in [S -> Nat] /\ b \in [S -> Nat] /\ \A e, f \in S : a[e] = a[f] /\ b[e] = b[f] /\ b[e] = b[f] => e = f
      BY <1>2, <1>3, <1>4
    <2>3. \A e \in S : a[e] = Cardinality(AllTeams) - VotesFor(e) /\ b[e] = e
      OBVIOUS
    <2> HIDE DEF S, a, b
    <2>4. PICK e \in S : \A f \in S \ {e} : Earlier(<<a[e], b[e], b[e]>>, <<a[f], b[f], b[f]>>)
      BY <2>1, <2>2, FirstWord
    <2>5. \A f \in S \ {e} : VotesFor(f) < VotesFor(e) \/ (VotesFor(f) = VotesFor(e) /\ e < f)
      <3> TAKE f \in S \ {e}
      <3>1. a[e] \in Nat /\ b[e] \in Nat /\ a[f] \in Nat /\ b[f] \in Nat
        BY <2>2
      <3>2. Earlier(<<a[e], b[e], b[e]>>, <<a[f], b[f], b[f]>>)
        BY <2>4
      <3>3. a[e] < a[f] \/ (a[e] = a[f] /\ b[e] < b[f])
        BY <3>1, <3>2, EarlierByLetters
      <3>4. QED
        BY <1>2, <1>3, <2>3, <3>3
    <2>6. \E x \in DOMAIN votes :
              \A y \in DOMAIN votes \ {x} : votes[y] < votes[x] \/ (votes[y] = votes[x] /\ x < y)
      BY <1>4, <2>5 DEF S
    <2>7. /\ GameDate \in DOMAIN votes
          /\ \A y \in DOMAIN votes \ {GameDate} :
                 votes[y] < votes[GameDate] \/ (votes[y] = votes[GameDate] /\ GameDate < y)
      BY <2>1, <2>6 DEF GameDate, S
    <2>8. VotesFor(d) <= VotesFor(GameDate)
      BY <1>3, <1>4, <2>1, <2>7 DEF S
    <2>9. QED
      BY <1>4, <2>7, <2>8
  <1>6. QED
    BY <1>5 DEF DateIsAgreed

(* In whatever order the clubs lie in memory, loans are seen, the manager   *)
(* of a first team is found, and the date is the one most teams agree on    *)
(* (SquadClubIndex, SquadPick, HumanManagerSelector, GameDateResolver).     *)
THEOREM SquadsGetSettled == SquadSpec => []SquadsAreSettled
<1>1. SquadInv => SquadsAreSettled
  BY LoansGetSeen, ManagersAreFound, DatesAreAgreed DEF SquadsAreSettled
<1>2. QED
  BY <1>1, SquadsStart, SquadsStay, PTL DEF SquadSpec

-----------------------------------------------------------------------------
(* The fields of a dump.                                                    *)

(* What the plugin writes in a field, every later reader of it takes.       *)
LEMMA WrittenIsTaken ==
    ASSUME NEW e \in DOMAIN Fields, NEW f \in Fields[e]
    PROVE  /\ Written(e, f) \subseteq Valid(e, f)
           /\ Written(e, f) \subseteq ReadAs(e, f)
           /\ Written(e, f) \subseteq Scorable(e, f)
  <1> USE DEF Written, Valid, ReadAs, Scorable, Fields,
          PlayerNumbers, PlayerFlags, PlayerTexts, PlayerRatings, StaffNumbers, DumpTexts, DumpWords,
          OrNull, OrAbsent, Natural, Whole, Numbers, Flags, Words, Texts, Kinds, Present,
          Amounts, NullableNumber, NullablePositive, NullableUnsigned, Identifiers, Ratings,
          Familiarity, ValidFamiliarity, ValidStaffRating, OptionalWhole, OptionalPositive, ByteOrNull
  <1>1. CASE e = "player"
    BY <1>1 DEF WrittenOfPlayer, ValidOfPlayer, ReadOfPlayer
  <1>2. CASE e = "staff"
    BY <1>2 DEF WrittenOfStaff, ValidOfStaff, ReadOfStaff
  <1>3. CASE e = "manager"
    BY <1>3 DEF WrittenOfManager, ValidOfManager, ReadOfManager
  <1>4. CASE e = "dump"
    BY <1>4 DEF WrittenOfDump, ValidOfDump, ReadOfDump
  <1>5. QED
    BY <1>1, <1>2, <1>3, <1>4

(* What the validation lets through in a field is read and scored, unless   *)
(* it is a number, and is then a value for its column.                      *)
LEMMA OnlyNumbersFail ==
    ASSUME NEW e \in DOMAIN Fields, NEW f \in Fields[e], NEW kind \in Valid(e, f)
    PROVE  /\ kind \in ReadAs(e, f) \/ kind \in Numbers
           /\ kind \in ReadAs(e, f) => kind \in Scorable(e, f) \/ kind \in Numbers
           /\ kind \in ReadAs(e, f) /\ kind \in Scorable(e, f) => Storable(e, f, kind)
  <1> USE DEF Valid, ReadAs, Scorable, Fields, Storable, NeverNull, Checked, Cell,
          PlayerNumbers, PlayerFlags, PlayerTexts, PlayerRatings, StaffNumbers, DumpTexts, DumpWords,
          OrNull, OrAbsent, Natural, Whole, Numbers, Flags, Words, Texts, Kinds, Present,
          NullableNumber, NullablePositive, NullableUnsigned, Identifiers,
          ValidFamiliarity, ValidStaffRating, OptionalWhole, OptionalPositive, ByteOrNull
  <1>1. CASE e = "player"
    BY <1>1 DEF ValidOfPlayer, ReadOfPlayer
  <1>2. CASE e = "staff"
    BY <1>2 DEF ValidOfStaff, ReadOfStaff
  <1>3. CASE e = "manager"
    BY <1>3 DEF ValidOfManager, ReadOfManager
  <1>4. CASE e = "dump"
    BY <1>4 DEF ValidOfDump, ReadOfDump
  <1>5. QED
    BY <1>1, <1>2, <1>3, <1>4

(* Two lists that have no member twice between them have none twice each,   *)
(* and none in common.                                                      *)
LEMMA ApartWhenJoined ==
    ASSUME NEW p \in Seq(Nat), NEW s \in Seq(Nat), Injective(p \o s)
    PROVE  Injective(p) /\ Injective(s) /\ UidsOf(p) \cap UidsOf(s) = {}
  <1>1. /\ DOMAIN p = 1..Len(p) /\ DOMAIN s = 1..Len(s) /\ Len(p) \in Nat /\ Len(s) \in Nat
        /\ DOMAIN (p \o s) = 1..(Len(p) + Len(s))
        /\ \A i \in 1..Len(p) : (p \o s)[i] = p[i] /\ i \in DOMAIN (p \o s)
        /\ \A j \in 1..Len(s) : (p \o s)[Len(p) + j] = s[j] /\ Len(p) + j \in DOMAIN (p \o s)
    OBVIOUS
  <1>2. Injective(p)
    BY <1>1 DEF Injective
  <1>3. Injective(s)
    <2>1. SUFFICES ASSUME NEW i \in DOMAIN s, NEW j \in DOMAIN s, s[i] = s[j]
                   PROVE  i = j
      BY DEF Injective
    <2>2. Len(p) + i \in DOMAIN (p \o s) /\ Len(p) + j \in DOMAIN (p \o s)
      BY <1>1
    <2>3. (p \o s)[Len(p) + i] = (p \o s)[Len(p) + j]
      BY <1>1, <2>1
    <2>4. Len(p) + i = Len(p) + j
      BY <2>2, <2>3 DEF Injective
    <2>5. QED
      BY <1>1, <2>4
  <1>4. ASSUME NEW u \in UidsOf(p), u \in UidsOf(s)
        PROVE  FALSE
    <2>1. PICK i \in DOMAIN p : p[i] = u
      BY DEF UidsOf
    <2>2. PICK j \in DOMAIN s : s[j] = u
      BY <1>4 DEF UidsOf
    <2>3. i \in DOMAIN (p \o s) /\ Len(p) + j \in DOMAIN (p \o s)
      BY <1>1
    <2>4. (p \o s)[i] = (p \o s)[Len(p) + j]
      BY <1>1, <2>1, <2>2
    <2>5. i = Len(p) + j
      BY <2>3, <2>4 DEF Injective
    <2>6. QED
      BY <1>1, <2>5
  <1>5. QED
    BY <1>2, <1>3, <1>4

(* A document is one of those that are looked at.                           *)
IsDocument(d) ==
    /\ d.shape.players \in Seq(Nat) /\ d.shape.staff \in Seq(Nat)
    /\ d.entity \in DOMAIN Fields /\ d.field \in Fields[d.entity] /\ d.kind \in Kinds

IsValid(d) == ValidShape(d.shape) /\ d.kind \in Valid(d.entity, d.field)

(* What has been let through so far was let through by every list before.   *)
FieldInv ==
    /\ IsDocument(dumped)
    /\ progress \in {"read", "valid", "prepared", "scored", "stored", "refused", "failed"}
    /\ progress \notin {"read", "refused"} => IsValid(dumped)
    /\ progress \in {"prepared", "scored"} => dumped.kind \in ReadAs(dumped.entity, dumped.field)
    /\ progress = "scored" => dumped.kind \in Scorable(dumped.entity, dumped.field)
    /\ progress = "refused" => ~IsValid(dumped)
    /\ progress = "failed" => dumped.kind \in Numbers /\ ~IsWritten(dumped)

(* What the plugin writes passes the validation.                            *)
LEMMA WrittenIsValid ==
    ASSUME NEW d, IsDocument(d), IsWritten(d)
    PROVE  IsValid(d) /\ d.kind \in ReadAs(d.entity, d.field) /\ d.kind \in Scorable(d.entity, d.field)
  <1>1. /\ d.kind \in Valid(d.entity, d.field)
        /\ d.kind \in ReadAs(d.entity, d.field) /\ d.kind \in Scorable(d.entity, d.field)
    BY WrittenIsTaken DEF IsDocument, IsWritten
  <1>2. /\ Injective(d.shape.players) /\ Injective(d.shape.staff)
        /\ UidsOf(d.shape.players) \cap UidsOf(d.shape.staff) = {}
    BY ApartWhenJoined DEF IsDocument, IsWritten, WrittenShape
  <1>3. ValidShape(d.shape)
    BY <1>2 DEF IsWritten, WrittenShape, ValidShape
  <1>4. QED
    BY <1>1, <1>3 DEF IsValid

(* A document that is valid has lists the tables take, and apart.           *)
LEMMA ValidIsApart ==
    ASSUME NEW shape, ValidShape(shape)
    PROVE  /\ StorableShape(shape)
           /\ UidsOf(shape.players) \cap UidsOf(shape.staff) = {}
           /\ shape.manager \in UidsOf(shape.staff) \cup {NoManager}
  <1>1. CASE shape.players = <<>>
    BY <1>1 DEF ValidShape, StorableShape, Injective, UidsOf
  <1>2. CASE shape.players # <<>>
    BY <1>2 DEF ValidShape, StorableShape
  <1>3. QED
    BY <1>1, <1>2

LEMMA FieldsStart == FieldInit => FieldInv
  <1> SUFFICES ASSUME FieldInit PROVE FieldInv
    OBVIOUS
  <1>1. IsDocument(dumped)
    <2>1. CASE \E s \in Shapes : dumped = [shape |-> s, entity |-> "player", field |-> "uid", kind |-> "large"]
      BY <2>1, ShapesAssumption DEF IsDocument, Fields, Kinds, Numbers, Whole, Natural
    <2>2. CASE \E e \in DOMAIN Fields : \E f \in Fields[e] : \E k \in Kinds :
                   dumped = [shape |-> PlainShape, entity |-> e, field |-> f, kind |-> k]
      <3>1. PlainShape.players \in Seq(Nat) /\ PlainShape.staff \in Seq(Nat)
        BY DEF PlainShape
      <3>2. QED
        BY <2>2, <3>1 DEF IsDocument
    <2>3. QED
      BY <2>1, <2>2 DEF FieldInit, Documents
  <1>2. QED
    BY <1>1 DEF FieldInit, FieldInv

LEMMA FieldsStay == FieldInv /\ [FieldNext]_fieldVars => FieldInv'
  <1> SUFFICES ASSUME FieldInv, [FieldNext]_fieldVars PROVE FieldInv'
    OBVIOUS
  <1> DEFINE e == dumped.entity  f == dumped.field  k == dumped.kind
  <1>1. IsWritten(dumped) => IsValid(dumped) /\ k \in ReadAs(e, f) /\ k \in Scorable(e, f)
    BY WrittenIsValid DEF FieldInv
  <1>2. IsValid(dumped) =>
            /\ k \in ReadAs(e, f) \/ k \in Numbers
            /\ k \in ReadAs(e, f) => k \in Scorable(e, f) \/ k \in Numbers
            /\ k \in ReadAs(e, f) /\ k \in Scorable(e, f) => Storable(e, f, k)
            /\ StorableShape(dumped.shape)
    BY OnlyNumbersFail, ValidIsApart DEF FieldInv, IsDocument, IsValid
  <1>3. CASE Validate
    BY <1>3 DEF Validate, Advance, FieldInv, IsValid
  <1>4. CASE Prepare
    BY <1>1, <1>2, <1>4 DEF Prepare, Advance, FieldInv
  <1>5. CASE Score
    BY <1>1, <1>2, <1>5 DEF Score, Advance, FieldInv
  <1>6. CASE Store
    BY <1>1, <1>2, <1>6 DEF Store, Advance, FieldInv
  <1>7. CASE UNCHANGED fieldVars
    BY <1>7 DEF fieldVars, FieldInv
  <1>8. QED
    BY <1>3, <1>4, <1>5, <1>6, <1>7 DEF FieldNext

(* The lists of fields of the plugin, of the validation, of the reading and *)
(* of the tables agree: no dump of the plugin fails, and no dump fails on a *)
(* constraint of the database (dump_validation.rs, ingest.rs).              *)
THEOREM FieldsStayAgreed == FieldSpec => []FieldsAreAgreed
<1>1. FieldInv => FieldsAreAgreed
  <2> SUFFICES ASSUME FieldInv PROVE FieldsAreAgreed
    OBVIOUS
  <2>1. IsWritten(dumped) => IsValid(dumped)
    BY WrittenIsValid DEF FieldInv
  <2>2. IsValid(dumped) =>
            /\ StorableShape(dumped.shape)
            /\ UidsOf(dumped.shape.players) \cap UidsOf(dumped.shape.staff) = {}
            /\ dumped.shape.manager \in UidsOf(dumped.shape.staff) \cup {NoManager}
    BY ValidIsApart DEF IsValid
  <2>3. progress = "scored" => Storable(dumped.entity, dumped.field, dumped.kind)
    BY OnlyNumbersFail DEF FieldInv, IsDocument, IsValid
  <2>4. QED
    BY <2>1, <2>2, <2>3 DEF FieldInv, FieldsAreAgreed
<1>2. QED
  BY <1>1, FieldsStart, FieldsStay, PTL DEF FieldSpec
=============================================================================
