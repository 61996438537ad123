----------------------- MODULE GraphicsRuntimeProofs -----------------------
(***************************************************************************)
(* The pictures are those of the folder in use and the status tells what   *)
(* there is, for any folders, pictures, cache limits and threads; and the  *)
(* cache alone keeps its books for any lookups and reads.                  *)
(***************************************************************************)
EXTENDS GraphicsRuntime, ImageCache, FiniteSetTheorems, SequenceTheorems,
        WellFoundedInduction, TLAPS

-----------------------------------------------------------------------------
(* The cache: what is evicted and in which order does not matter here.      *)

HasFields(c) ==
    DOMAIN c = {"available", "missing", "orderAvailable", "orderMissing", "bytes"}

Kept(c) == HasFields(c) /\ CacheOK(c) /\ DOMAIN c.available \cap c.missing = {}

(* What a cache d has, it has from c or as the value of uid.                *)
ComesFrom(d, c, uid, value) ==
    \A u : Cached(d, u) =>
        \/ u = uid /\ CachedValue(d, u) = value
        \/ u # uid /\ Cached(c, u) /\ CachedValue(d, u) = CachedValue(c, u)

LEMMA ForgetKeeps ==
    ASSUME NEW c, NEW uid, Kept(c)
    PROVE  /\ Kept(Forget(c, uid))
           /\ ~Cached(Forget(c, uid), uid)
           /\ \A u : Cached(Forget(c, uid), u) =>
                  Cached(c, u) /\ CachedValue(Forget(c, uid), u) = CachedValue(c, u)
<1> DEFINE d == Forget(c, uid)
<1>1. /\ d.available = [u \in DOMAIN c.available \ {uid} |-> c.available[u]]
      /\ d.missing = c.missing \ {uid}
      /\ HasFields(d)
  BY DEF Forget, Restricted, HasFields
<1>2. DOMAIN d.available = DOMAIN c.available \ {uid}
  BY <1>1
<1> QED
  BY <1>1, <1>2 DEF Kept, CacheOK, Cached, CachedValue

LEMMA EvictKeeps ==
    ASSUME NEW c, NEW n, Kept(c)
    PROVE  /\ Kept(Evict(c, n))
           /\ \A u : Cached(Evict(c, n), u) =>
                  Cached(c, u) /\ CachedValue(Evict(c, n), u) = CachedValue(c, u)
<1> DEFINE d == Evict(c, n)
           gone == Elements(SubSeq(c.orderAvailable, 1, n)) \cap DOMAIN c.available
<1>1. /\ d.available = [u \in DOMAIN c.available \ gone |-> c.available[u]]
      /\ d.missing = c.missing
      /\ HasFields(d)
  BY DEF Evict, Restricted, Kept, HasFields
<1>2. DOMAIN d.available = DOMAIN c.available \ gone
  BY <1>1
<1> QED
  BY <1>1, <1>2 DEF Kept, CacheOK, Cached, CachedValue

LEMMA EmptyIsKept == Kept(EmptyCache) /\ \A u : ~Cached(EmptyCache, u)
<1>1. /\ EmptyCache.available = [u \in {} |-> Nothing]
      /\ EmptyCache.missing = {}
      /\ HasFields(EmptyCache)
  BY DEF EmptyCache, HasFields
<1> QED
  BY <1>1 DEF Kept, CacheOK, Cached

LEMMA TouchKeeps ==
    ASSUME NEW c, NEW uid, Kept(c)
    PROVE  /\ Kept(Touch(c, uid))
           /\ \A u : /\ Cached(Touch(c, uid), u) <=> Cached(c, u)
                    /\ CachedValue(Touch(c, uid), u) = CachedValue(c, u)
<1>1. /\ Touch(c, uid).available = c.available
      /\ Touch(c, uid).missing = c.missing
      /\ HasFields(Touch(c, uid))
  BY DEF Touch, Kept, HasFields
<1> QED
  BY <1>1 DEF Kept, CacheOK, Cached, CachedValue

(* What is cached after an answer is the answer, and of the others no more  *)
(* than there was.                                                          *)
LEMMA PutKeeps ==
    ASSUME NEW c, NEW uid \in Uids, NEW value \in Images \cup {Nothing}, Kept(c)
    PROVE  /\ Kept(Put(c, uid, value))
           /\ ComesFrom(Put(c, uid, value), c, uid, value)
<1> DEFINE f == Forget(c, uid)
<1>1. /\ Kept(f) /\ ~Cached(f, uid)
      /\ \A u : Cached(f, u) => Cached(c, u) /\ CachedValue(f, u) = CachedValue(c, u)
  BY ForgetKeeps
<1>2. CASE value = Nothing
  <2> DEFINE d == PutAbsence(f, uid)
  <2>1. PICK gone : /\ d.missing = (f.missing \cup {uid}) \ gone
                    /\ d.available = f.available
                    /\ HasFields(d)
    BY <1>1 DEF PutAbsence, Kept, HasFields
  <2>2. Kept(d)
    BY <1>1, <2>1 DEF Kept, CacheOK, Cached
  <2>3. ComesFrom(d, c, uid, value)
    BY <1>1, <1>2, <2>1 DEF ComesFrom, Cached, CachedValue
  <2> QED
    BY <1>2, <2>2, <2>3 DEF Put
<1>3. CASE value # Nothing
  <2>1. CASE value.bytes > ByteLimit
    BY <1>1, <1>3, <2>1 DEF Put, PutImage, ComesFrom
  <2>2. CASE ~(value.bytes > ByteLimit)
    <3> DEFINE e == [f EXCEPT !.available = [u \in DOMAIN @ \cup {uid} |->
                                                IF u = uid THEN value ELSE @[u]],
                              !.orderAvailable = Append(@, uid),
                              !.bytes = @ + value.bytes]
    <3>1. /\ e.available = [u \in DOMAIN f.available \cup {uid} |->
                               IF u = uid THEN value ELSE f.available[u]]
          /\ e.missing = f.missing
          /\ HasFields(e)
      BY <1>1 DEF Kept, HasFields
    <3>2. DOMAIN e.available = DOMAIN f.available \cup {uid}
      BY <3>1
    <3>3. Kept(e)
      BY <1>1, <1>3, <3>1, <3>2 DEF Kept, CacheOK, Cached
    <3>4. ComesFrom(e, c, uid, value)
      BY <1>1, <3>1, <3>2 DEF ComesFrom, Cached, CachedValue
    <3>5. PICK n : EvictUntilItFits(e) = Evict(e, n)
      BY DEF EvictUntilItFits
    <3>6. Put(c, uid, value) = Evict(e, n)
      BY <1>3, <2>2, <3>5 DEF Put, PutImage
    <3> HIDE DEF e
    <3> QED
      BY <3>3, <3>4, <3>6, EvictKeeps DEF ComesFrom
  <2> QED
    BY <2>1, <2>2
<1> QED
  BY <1>2, <1>3

-----------------------------------------------------------------------------
(* The inductive invariant.                                                 *)

Working == worker.pc \in {"scan", "enter", "install"}

(* The gate has one owner, and it is left.                                  *)
GateHasItsOwner ==
    /\ gate = "command" <=> command.pc \in {"persist", "commit"}
    /\ gate = "worker" <=> worker.pc = "install"

(* What is under way was reserved before what will be adopted: an adopted   *)
(* generation is new to the worker and to every request.                    *)
GenerationsRise ==
    /\ committed.generation <= reserved
    /\ command.pc \in {"persist", "commit"} =>
           /\ command.target.generation = reserved
           /\ committed.generation < reserved
    /\ pending # NoTarget => pending.generation <= committed.generation
    /\ Working => worker.target.generation <= committed.generation
    /\ \A l \in Lookups : lookup[l].generation <= committed.generation

(* Where the command is decides what is stored and what it will hand over.  *)
CommandIsFollowed ==
    /\ db = IF command.pc = "commit" THEN command.target.root ELSE committed.root
    /\ command.pc # "idle" /\ command.op = "clear" => command.target.root = NoRoot
    /\ command.pc = "hand" => command.target = committed
    /\ command.pc = "hand" /\ command.op = "clear" => inFlight = NoTarget

(* The index is of the folder in use.                                       *)
IndexIsOfTheFolder ==
    /\ installed = -1 <=> index = NoTarget
    /\ installed # -1 => installed = committed.generation /\ index.root = committed.root
    /\ worker.pc \in {"enter", "install"} => worker.index.root = worker.target.root

(* A picture names the folder it was read from, which is the one that was   *)
(* in use under the generation of the request.                              *)
PicturesNameTheirFolder ==
    /\ \A r \in Roots, u \in Uids : disk[r][u] \in PicturesOf(r)
    /\ chosen[committed.generation] = committed.root
    /\ \A u \in Uids : Cached(cache, u) /\ CachedValue(cache, u) # Nothing =>
           CachedValue(cache, u).dir = committed.root
    /\ \A l \in Lookups :
           /\ lookup[l].pc = "read" =>
                  lookup[l].dir \in {NoRoot, chosen[lookup[l].generation]}
           /\ lookup[l].pc \in {"answer", "done"} /\ lookup[l].value # Nothing =>
                  lookup[l].value.dir = chosen[lookup[l].generation]

Held(u) == IF committed.root = NoRoot THEN Nothing ELSE disk[committed.root][u]

(* While the folder in use does not change, whatever was read of it and may *)
(* still be cached is what is in it.                                        *)
ReadingsAreFresh ==
    unchanged =>
        /\ index # NoTarget => index = Scanned(committed.root)
        /\ worker.pc \in {"enter", "install"} /\ worker.target = committed =>
               worker.index = Scanned(committed.root)
        /\ \A u \in Uids : Cached(cache, u) => CachedValue(cache, u) = Held(u)
        /\ \A l \in Lookups : lookup[l].generation = committed.generation =>
               /\ lookup[l].pc = "read" =>
                      lookup[l].dir = IF Held(lookup[l].uid) = Nothing THEN NoRoot
                                      ELSE committed.root
               /\ lookup[l].pc = "answer" => lookup[l].value = Held(lookup[l].uid)

InFlightIsCommitted == inFlight # NoTarget => inFlight = committed

IInv ==
    /\ TypeOK
    /\ Kept(cache)
    /\ GateHasItsOwner
    /\ GenerationsRise
    /\ CommandIsFollowed
    /\ IndexIsOfTheFolder
    /\ PicturesNameTheirFolder
    /\ ReadingsAreFresh
    /\ InFlightIsCommitted
    /\ RebuildIsUnderWay

-----------------------------------------------------------------------------
LEMMA NothingIsNoImage == Nothing \notin Images /\ NoRoot \notin Roots
BY GraphicsAssumption

LEMMA TargetsHaveFields ==
    ASSUME NEW t \in Targets
    PROVE  t # NoTarget /\ t.generation \in Generations /\ t.root \in Folders
BY GraphicsAssumption DEF Targets

(* The process has just started.                                            *)
Starting ==
    /\ db \in Folders
    /\ disk \in [Roots -> [Uids -> Images \cup {Nothing}]]
    /\ \A r \in Roots, u \in Uids : disk[r][u] \in PicturesOf(r)
    /\ changes \in 0..MaxChanges /\ restarts \in 0..MaxRestarts
    /\ Booted(db)

LEMMA BootedHolds == Starting => IInv
<1> SUFFICES ASSUME Starting PROVE IInv
  OBVIOUS
<1> USE DEF Starting
<1>1. 0 \in Generations /\ [generation |-> 0, root |-> db] \in Targets
  BY GraphicsAssumption DEF Generations, Targets
<1>2. TargetOf(0, db) \in Targets \cup {NoTarget}
  BY <1>1 DEF TargetOf
<1>3. Kept(cache) /\ \A u : ~Cached(cache, u)
  BY EmptyIsKept DEF Booted
<1>4. CacheOK(cache)
  BY <1>3 DEF Kept
<1>5. TypeOK
  <2>1. lookup \in [Lookups -> [pc : {"idle", "read", "answer", "done"},
                               generation : Generations,
                               uid : Uids \cup {Nothing}, dir : Folders,
                               value : Images \cup {Nothing}]]
    BY <1>1 DEF Booted, NoLookup, Folders
  <2>2. \A l \in Lookups : lookup[l].pc = "idle"
    BY DEF Booted, NoLookup
  <2> QED
    BY <1>1, <1>2, <1>4, <2>1, <2>2 DEF TypeOK, Booted, NoCommand, NoWork
<1>6. GateHasItsOwner /\ CommandIsFollowed
  BY DEF Booted, GateHasItsOwner, CommandIsFollowed, NoCommand, NoWork
<1>7. GenerationsRise
  BY <1>1, GraphicsAssumption DEF Booted, GenerationsRise, NoCommand, NoWork, NoLookup, Working, TargetOf
<1>8. IndexIsOfTheFolder
  BY DEF Booted, IndexIsOfTheFolder, NoWork
<1>9. PicturesNameTheirFolder
  BY <1>1, <1>3 DEF Booted, PicturesNameTheirFolder, NoLookup
<1>10. ReadingsAreFresh
  BY <1>3 DEF Booted, ReadingsAreFresh, NoWork, NoLookup
<1>11. InFlightIsCommitted /\ RebuildIsUnderWay
  BY DEF Booted, InFlightIsCommitted, RebuildIsUnderWay, TargetOf
<1> QED
  BY <1>3, <1>5, <1>6, <1>7, <1>8, <1>9, <1>10, <1>11 DEF IInv

LEMMA InitHolds == Init => IInv
BY BootedHolds, GraphicsAssumption DEF Init, Starting

LEMMA RestartKeeps == IInv /\ Restart => IInv'
<1>1. IInv /\ Restart => Starting'
  BY GraphicsAssumption DEF IInv, TypeOK, Restart, PicturesNameTheirFolder, Starting, Booted,
     PicturesOf
<1> QED
  BY <1>1, BootedHolds, PTL

-----------------------------------------------------------------------------
(* The commands: what the worker and the requests have read stays as it is. *)

LEMMA ReserveKeeps ==
    ASSUME NEW op \in {"choose", "clear", "rescan"}, NEW root \in Folders,
           op = "clear" => root = NoRoot, IInv, Reserve(op, root)
    PROVE  IInv'
<1>1. reserved + 1 \in Generations /\ command'.target \in Targets
  BY GraphicsAssumption DEF IInv, TypeOK, Reserve, Generations, Targets
<1>2. TypeOK'
  BY <1>1 DEF IInv, TypeOK, Reserve, ghosts
<1>3. Kept(cache)' /\ GateHasItsOwner' /\ CommandIsFollowed'
  BY DEF IInv, Reserve, GateHasItsOwner, CommandIsFollowed
<1>4. GenerationsRise'
  BY <1>1, GraphicsAssumption
  DEF IInv, TypeOK, Reserve, GenerationsRise, Working, Generations, Targets
<1>5. IndexIsOfTheFolder' /\ PicturesNameTheirFolder'
  BY DEF IInv, Reserve, IndexIsOfTheFolder, PicturesNameTheirFolder, ghosts
<1>6. ReadingsAreFresh'
  BY DEF IInv, Reserve, ReadingsAreFresh, Held, Scanned, ghosts
<1>7. InFlightIsCommitted' /\ RebuildIsUnderWay'
  BY DEF IInv, Reserve, InFlightIsCommitted, RebuildIsUnderWay
<1> QED
  BY <1>2, <1>3, <1>4, <1>5, <1>6, <1>7 DEF IInv

LEMMA PersistKeeps == IInv /\ Persist => IInv'
<1> SUFFICES ASSUME IInv, Persist PROVE IInv'
  OBVIOUS
<1> USE DEF Persist, state
<1>1. TypeOK'
  BY TargetsHaveFields DEF IInv, TypeOK, ghosts
<1>2. command'.target = command.target /\ command'.op = command.op /\ command'.pc = "commit"
  BY DEF IInv, TypeOK
<1>3. Kept(cache)' /\ GateHasItsOwner' /\ CommandIsFollowed' /\ GenerationsRise'
  BY <1>2 DEF IInv, GateHasItsOwner, CommandIsFollowed, GenerationsRise, Working
<1>4. IndexIsOfTheFolder' /\ PicturesNameTheirFolder'
  BY DEF IInv, IndexIsOfTheFolder, PicturesNameTheirFolder, ghosts
<1>5. ReadingsAreFresh'
  BY DEF IInv, ReadingsAreFresh, Held, Scanned, ghosts
<1>6. InFlightIsCommitted' /\ RebuildIsUnderWay'
  BY DEF IInv, InFlightIsCommitted, RebuildIsUnderWay
<1> QED
  BY <1>1, <1>3, <1>4, <1>5, <1>6 DEF IInv

LEMMA PersistFailsKeeps == IInv /\ PersistFails => IInv'
<1> SUFFICES ASSUME IInv, PersistFails PROVE IInv'
  OBVIOUS
<1> USE DEF PersistFails, state
<1>1. TypeOK'
  BY DEF IInv, TypeOK, ghosts, NoCommand
<1>2. Kept(cache)' /\ GateHasItsOwner' /\ CommandIsFollowed' /\ GenerationsRise'
  BY DEF IInv, GateHasItsOwner, CommandIsFollowed, GenerationsRise, Working, NoCommand
<1>3. IndexIsOfTheFolder' /\ PicturesNameTheirFolder'
  BY DEF IInv, IndexIsOfTheFolder, PicturesNameTheirFolder, ghosts
<1>4. ReadingsAreFresh'
  BY DEF IInv, ReadingsAreFresh, Held, Scanned, ghosts
<1>5. InFlightIsCommitted' /\ RebuildIsUnderWay'
  BY DEF IInv, InFlightIsCommitted, RebuildIsUnderWay
<1> QED
  BY <1>1, <1>2, <1>3, <1>4, <1>5 DEF IInv

(* The new folder comes under a generation nobody has read for.             *)
LEMMA CommitKeeps == IInv /\ Commit => IInv'
<1> SUFFICES ASSUME IInv, Commit PROVE IInv'
  OBVIOUS
<1> USE DEF Commit, CommitLocked
<1>1. /\ command.target \in Targets /\ committed' = command.target
      /\ command.target.generation \in Generations /\ command.target.root \in Folders
      /\ command.target.generation = reserved /\ committed.generation < reserved
  BY TargetsHaveFields DEF IInv, TypeOK, GenerationsRise
<1>2. /\ Kept(cache') /\ \A u : ~Cached(cache', u)
      /\ CacheOK(cache')
  BY EmptyIsKept DEF Kept
<1>3. /\ command'.target = command.target /\ command'.op = command.op
      /\ command'.pc = "hand" /\ command'.target \in Targets
  BY <1>1 DEF IInv, TypeOK
<1>4. inFlight' \in Targets \cup {NoTarget} /\ chosen' \in [Generations -> Folders]
  BY <1>1 DEF IInv, TypeOK, Rebuilt
<1>5. TypeOK'
  BY <1>1, <1>2, <1>3, <1>4 DEF IInv, TypeOK
<1>6. GateHasItsOwner' /\ CommandIsFollowed'
  BY <1>1, <1>3 DEF IInv, GateHasItsOwner, CommandIsFollowed, Rebuilt
<1>7. \A g \in Generations : g <= committed.generation => g < committed'.generation
  BY <1>1, GraphicsAssumption DEF IInv, TypeOK, Targets, Generations
<1>8. /\ pending # NoTarget => pending.generation < committed'.generation
      /\ Working => worker.target.generation < committed'.generation
      /\ \A l \in Lookups : lookup[l].generation < committed'.generation
  BY <1>7, TargetsHaveFields DEF IInv, TypeOK, GenerationsRise, Working
<1>9. GenerationsRise'
  BY <1>1, <1>3, <1>8, GraphicsAssumption
  DEF IInv, TypeOK, GenerationsRise, Working, Targets, Generations
<1>10. IndexIsOfTheFolder'
  BY DEF IInv, IndexIsOfTheFolder
<1>11. PicturesNameTheirFolder'
  <2>1. chosen'[committed'.generation] = committed'.root
    BY <1>1 DEF IInv, TypeOK
  <2>2. \A l \in Lookups : chosen'[lookup[l].generation] = chosen[lookup[l].generation]
    BY <1>1, <1>8, GraphicsAssumption DEF IInv, TypeOK, Generations
  <2> QED
    BY <1>2, <2>1, <2>2 DEF IInv, PicturesNameTheirFolder
<1>12. ReadingsAreFresh'
  <2>1. \A l \in Lookups : lookup[l].generation # committed'.generation
    BY <1>8, GraphicsAssumption DEF IInv, TypeOK, Generations
  <2>2. worker.pc \in {"enter", "install"} => worker.target # committed'
    BY <1>1, <1>8, GraphicsAssumption DEF Working, Generations
  <2> QED
    BY <1>2, <2>1, <2>2 DEF IInv, ReadingsAreFresh
<1>13. InFlightIsCommitted' /\ RebuildIsUnderWay'
  BY <1>1, <1>3 DEF IInv, TypeOK, CommandIsFollowed, InFlightIsCommitted, RebuildIsUnderWay, Rebuilt
<1> QED
  BY <1>2, <1>5, <1>6, <1>9, <1>10, <1>11, <1>12, <1>13 DEF IInv

(* What is handed over is what the status has announced.                    *)
LEMMA HandOverKeeps == IInv /\ HandOver => IInv'
<1> SUFFICES ASSUME IInv, HandOver PROVE IInv'
  OBVIOUS
<1> USE DEF HandOver, state
<1>1. TypeOK'
  BY DEF IInv, TypeOK, ghosts, NoCommand
<1>2. Kept(cache)' /\ GateHasItsOwner' /\ CommandIsFollowed'
  BY DEF IInv, GateHasItsOwner, CommandIsFollowed, NoCommand
<1>3. GenerationsRise'
  <2>1. pending' # NoTarget => pending'.generation <= committed.generation
    BY TargetsHaveFields, GraphicsAssumption
    DEF IInv, TypeOK, CommandIsFollowed, Generations
  <2> QED
    BY <2>1 DEF IInv, GenerationsRise, Working, NoCommand
<1>4. IndexIsOfTheFolder' /\ PicturesNameTheirFolder'
  BY DEF IInv, IndexIsOfTheFolder, PicturesNameTheirFolder, ghosts
<1>5. ReadingsAreFresh'
  BY DEF IInv, ReadingsAreFresh, Held, Scanned, ghosts
<1>6. InFlightIsCommitted' /\ RebuildIsUnderWay'
  BY DEF IInv, InFlightIsCommitted, RebuildIsUnderWay, CommandIsFollowed
<1> QED
  BY <1>1, <1>2, <1>3, <1>4, <1>5, <1>6 DEF IInv

-----------------------------------------------------------------------------
(* The worker.                                                              *)

LEMMA TakeTargetKeeps == IInv /\ TakeTarget => IInv'
<1> SUFFICES ASSUME IInv, TakeTarget PROVE IInv'
  OBVIOUS
<1> USE DEF TakeTarget, state
<1>1. /\ worker'.pc = "scan" /\ worker'.target = pending /\ pending \in Targets
      /\ worker'.index = worker.index
      /\ worker' \in [pc : {"wait", "scan", "enter", "install", "gone"},
                      target : Targets \cup {NoTarget},
                      index : Indexes \cup {NoTarget}]
  BY DEF IInv, TypeOK
<1>2. TypeOK'
  <2>1. pending' \in Targets \cup {NoTarget}
    OBVIOUS
  <2> QED
    BY <1>1, <2>1 DEF IInv, TypeOK, ghosts
<1>3. Kept(cache)' /\ GateHasItsOwner' /\ CommandIsFollowed'
  BY <1>1 DEF IInv, GateHasItsOwner, CommandIsFollowed
<1>4. GenerationsRise'
  BY <1>1 DEF IInv, GenerationsRise, Working
<1>5. IndexIsOfTheFolder' /\ PicturesNameTheirFolder'
  BY <1>1 DEF IInv, IndexIsOfTheFolder, PicturesNameTheirFolder, ghosts
<1>6. ReadingsAreFresh'
  BY <1>1 DEF IInv, ReadingsAreFresh, Held, Scanned, ghosts
<1>7. InFlightIsCommitted' /\ RebuildIsUnderWay'
  BY <1>1 DEF IInv, InFlightIsCommitted, RebuildIsUnderWay
<1> QED
  BY <1>2, <1>3, <1>4, <1>5, <1>6, <1>7 DEF IInv

LEMMA ScanKeeps == IInv /\ Scan => IInv'
<1> SUFFICES ASSUME IInv, Scan PROVE IInv'
  OBVIOUS
<1> USE DEF Scan, state
<1>1. /\ worker'.pc = "enter" /\ worker'.target = worker.target /\ worker.target \in Targets
      /\ worker'.index = Scanned(worker.target.root)
  BY DEF IInv, TypeOK
<1>2. Scanned(worker.target.root) \in Indexes
  BY <1>1, TargetsHaveFields DEF Scanned, Indexes
<1> DEFINE scan == Scanned(worker.target.root)
<1> HIDE DEF scan
<1>3. TypeOK'
  <2>1. worker' = [worker EXCEPT !.pc = "enter", !.index = scan] /\ scan \in Indexes
    BY <1>2 DEF scan
  <2>2. worker' \in [pc : {"wait", "scan", "enter", "install", "gone"},
                     target : Targets \cup {NoTarget}, index : Indexes \cup {NoTarget}]
    BY <2>1 DEF IInv, TypeOK
  <2>3. worker'.index = scan
    BY <1>1 DEF scan
  <2> QED
    BY <1>1, <2>1, <2>2, <2>3 DEF IInv, TypeOK, ghosts
<1>4. Kept(cache)' /\ GateHasItsOwner' /\ CommandIsFollowed' /\ GenerationsRise'
  BY <1>1 DEF IInv, GateHasItsOwner, CommandIsFollowed, GenerationsRise, Working
<1>5. IndexIsOfTheFolder' /\ PicturesNameTheirFolder'
  BY <1>1 DEF IInv, IndexIsOfTheFolder, PicturesNameTheirFolder, ghosts, Scanned
<1>6. Scanned(committed.root)' = Scanned(committed.root)
  BY DEF Scanned
<1>7. ReadingsAreFresh'
  BY <1>1, <1>6 DEF IInv, ReadingsAreFresh, Held, ghosts
<1>8. InFlightIsCommitted' /\ RebuildIsUnderWay'
  BY <1>1 DEF IInv, InFlightIsCommitted, RebuildIsUnderWay
<1> QED
  BY <1>3, <1>4, <1>5, <1>7, <1>8 DEF IInv

LEMMA EnterGateKeeps == IInv /\ EnterGate => IInv'
<1> SUFFICES ASSUME IInv, EnterGate PROVE IInv'
  OBVIOUS
<1> USE DEF EnterGate, state
<1>1. /\ worker'.pc = "install" /\ worker'.target = worker.target
      /\ worker'.index = worker.index
  BY DEF IInv, TypeOK
<1>2. TypeOK'
  BY <1>1 DEF IInv, TypeOK, ghosts
<1>3. Kept(cache)' /\ GateHasItsOwner' /\ CommandIsFollowed' /\ GenerationsRise'
  BY <1>1 DEF IInv, GateHasItsOwner, CommandIsFollowed, GenerationsRise, Working
<1>4. IndexIsOfTheFolder' /\ PicturesNameTheirFolder'
  BY <1>1 DEF IInv, IndexIsOfTheFolder, PicturesNameTheirFolder, ghosts
<1>5. ReadingsAreFresh'
  BY <1>1 DEF IInv, ReadingsAreFresh, Held, Scanned, ghosts
<1>6. InFlightIsCommitted' /\ RebuildIsUnderWay'
  BY <1>1 DEF IInv, InFlightIsCommitted, RebuildIsUnderWay
<1> QED
  BY <1>2, <1>3, <1>4, <1>5, <1>6 DEF IInv

(* A scan is installed only while its target is the one in use.             *)
LEMMA InstallKeeps == IInv /\ Install => IInv'
<1> SUFFICES ASSUME IInv, Install PROVE IInv'
  OBVIOUS
<1>1. /\ worker.pc = "install" /\ worker.target \in Targets /\ worker.index \in Indexes
      /\ worker.index # NoTarget /\ worker.target.generation \in Generations
      /\ worker.index.root = worker.target.root
  BY TargetsHaveFields, GraphicsAssumption
  DEF IInv, TypeOK, Install, IndexIsOfTheFolder, Indexes
<1>2. /\ gate = "worker" /\ gate' = "free" /\ worker' = NoWork
      /\ command.pc \notin {"persist", "commit"} /\ reserved' = reserved
      /\ committed' = committed
      /\ UNCHANGED <<db, disk, command, pending, stopping, lookup, ghosts>>
  BY DEF IInv, Install, GateHasItsOwner, CommitLocked, state
<1>3. GateHasItsOwner' /\ CommandIsFollowed'
  BY <1>1, <1>2 DEF IInv, Install, GateHasItsOwner, CommandIsFollowed, NoWork, state
<1>4. GenerationsRise'
  BY <1>2 DEF IInv, GenerationsRise, NoWork, Working
<1>5. CASE committed = worker.target
  <2> USE <1>5
  <2>1. /\ index' = worker.index /\ installed' = committed.generation
        /\ cache' = EmptyCache /\ inFlight' = NoTarget
    BY <1>1 DEF Install, CommitLocked
  <2>2. Kept(cache') /\ CacheOK(cache') /\ \A u : ~Cached(cache', u)
    BY <2>1, EmptyIsKept DEF Kept
  <2>3. TypeOK'
    BY <1>1, <1>2, <2>1, <2>2 DEF IInv, TypeOK, NoWork, ghosts
  <2>4. IndexIsOfTheFolder'
    BY <1>1, <1>2, <2>1, GraphicsAssumption DEF IndexIsOfTheFolder, NoWork, Generations
  <2>5. PicturesNameTheirFolder'
    BY <1>2, <2>2 DEF IInv, PicturesNameTheirFolder, ghosts
  <2>6. ReadingsAreFresh'
    BY <1>1, <1>2, <2>1, <2>2 DEF IInv, ReadingsAreFresh, NoWork, Scanned, Held, ghosts
  <2>7. InFlightIsCommitted' /\ RebuildIsUnderWay'
    BY <2>1 DEF InFlightIsCommitted, RebuildIsUnderWay
  <2> QED
    BY <1>3, <1>4, <2>2, <2>3, <2>4, <2>5, <2>6, <2>7 DEF IInv
<1>6. CASE committed # worker.target
  <2>1. UNCHANGED state
    BY <1>6 DEF Install
  <2> USE DEF state
  <2>2. TypeOK' /\ Kept(cache)'
    BY <1>2, <2>1 DEF IInv, TypeOK, NoWork, ghosts
  <2>3. IndexIsOfTheFolder' /\ PicturesNameTheirFolder'
    BY <1>2, <2>1 DEF IInv, IndexIsOfTheFolder, PicturesNameTheirFolder, NoWork, ghosts
  <2>4. ReadingsAreFresh'
    BY <1>2, <2>1 DEF IInv, ReadingsAreFresh, Held, Scanned, NoWork, ghosts
  <2>5. InFlightIsCommitted' /\ RebuildIsUnderWay'
    BY <1>2, <1>6, <2>1 DEF IInv, InFlightIsCommitted, RebuildIsUnderWay
  <2> QED
    BY <1>3, <1>4, <2>2, <2>3, <2>4, <2>5 DEF IInv
<1> QED
  BY <1>5, <1>6

LEMMA StopWorkerKeeps == IInv /\ StopWorker => IInv'
<1> SUFFICES ASSUME IInv, StopWorker PROVE IInv'
  OBVIOUS
<1> USE DEF StopWorker, state, NoWork
<1>1. TypeOK'
  BY DEF IInv, TypeOK, ghosts
<1>2. Kept(cache)' /\ GateHasItsOwner' /\ CommandIsFollowed' /\ GenerationsRise'
  BY DEF IInv, GateHasItsOwner, CommandIsFollowed, GenerationsRise, Working
<1>3. IndexIsOfTheFolder' /\ PicturesNameTheirFolder'
  BY DEF IInv, IndexIsOfTheFolder, PicturesNameTheirFolder, ghosts
<1>4. ReadingsAreFresh'
  BY DEF IInv, ReadingsAreFresh, Held, Scanned, ghosts
<1>5. InFlightIsCommitted' /\ RebuildIsUnderWay'
  BY DEF IInv, InFlightIsCommitted, RebuildIsUnderWay
<1> QED
  BY <1>1, <1>2, <1>3, <1>4, <1>5 DEF IInv

-----------------------------------------------------------------------------
(* The requests.                                                            *)

Lookup == [pc : {"idle", "read", "answer", "done"}, generation : Generations,
           uid : Uids \cup {Nothing}, dir : Folders, value : Images \cup {Nothing}]

(* What a request may hold.                                                 *)
RightLookup(l) ==
    /\ lookup[l].generation <= committed.generation
    /\ lookup[l].pc # "idle" => lookup[l].uid \in Uids
    /\ lookup[l].pc = "read" =>
           lookup[l].dir \in {NoRoot, chosen[lookup[l].generation]}
    /\ lookup[l].pc \in {"answer", "done"} /\ lookup[l].value # Nothing =>
           lookup[l].value.dir = chosen[lookup[l].generation]
    /\ unchanged /\ lookup[l].generation = committed.generation =>
           /\ lookup[l].pc = "read" =>
                  lookup[l].dir = IF Held(lookup[l].uid) = Nothing THEN NoRoot
                                  ELSE committed.root
           /\ lookup[l].pc = "answer" => lookup[l].value = Held(lookup[l].uid)

RightCache ==
    \A u \in Uids : Cached(cache, u) =>
        /\ CachedValue(cache, u) # Nothing => CachedValue(cache, u).dir = committed.root
        /\ unchanged => CachedValue(cache, u) = Held(u)

(* A step of one request that changes at most the cache besides.            *)
LEMMA LookupKeeps ==
    ASSUME NEW l \in Lookups, NEW r \in Lookup, IInv,
           lookup' = [lookup EXCEPT ![l] = r],
           RightLookup(l)', Kept(cache'), RightCache',
           UNCHANGED <<db, disk, reserved, committed, index, installed, inFlight,
                       gate, command, pending, stopping, worker, ghosts>>
    PROVE  IInv'
<1> USE DEF ghosts
<1>1. \A m \in Lookups : m # l => lookup'[m] = lookup[m]
  BY DEF IInv, TypeOK
<1>2. \A u : Held(u)' = Held(u)
  BY DEF Held
<1>3. TypeOK'
  <2>1. lookup' \in [Lookups -> Lookup]
    BY DEF IInv, TypeOK, Lookup
  <2>2. \A m \in Lookups : lookup'[m].pc # "idle" => lookup'[m].uid \in Uids
    BY <1>1 DEF IInv, TypeOK, RightLookup
  <2>3. CacheOK(cache')
    BY DEF Kept
  <2> QED
    BY <2>1, <2>2, <2>3 DEF IInv, TypeOK, Lookup
<1>4. GateHasItsOwner' /\ CommandIsFollowed' /\ IndexIsOfTheFolder'
  BY DEF IInv, GateHasItsOwner, CommandIsFollowed, IndexIsOfTheFolder
<1>5. GenerationsRise'
  BY <1>1 DEF IInv, GenerationsRise, Working, RightLookup
<1>6. PicturesNameTheirFolder'
  BY <1>1 DEF IInv, PicturesNameTheirFolder, RightLookup, RightCache
<1>7. ReadingsAreFresh'
  BY <1>1, <1>2 DEF IInv, ReadingsAreFresh, RightLookup, RightCache, Scanned
<1>8. InFlightIsCommitted' /\ RebuildIsUnderWay'
  BY DEF IInv, InFlightIsCommitted, RebuildIsUnderWay
<1> QED
  BY <1>3, <1>4, <1>5, <1>6, <1>7, <1>8 DEF IInv

LEMMA BeginKeeps ==
    ASSUME NEW l \in Lookups, NEW u \in Uids, NEW g \in 0..committed.generation,
           IInv, Begin(l, u, g)
    PROVE  IInv'
<1>1. g \in Generations /\ g <= committed.generation
  BY GraphicsAssumption, TargetsHaveFields DEF IInv, TypeOK, Generations
<1>2. PICK pc \in {"read", "done"}, dir \in Folders, value \in Images \cup {Nothing} :
        /\ lookup' = [lookup EXCEPT ![l] = [pc |-> pc, generation |-> g, uid |-> u,
                                            dir |-> dir, value |-> value]]
        /\ \/ pc = "done" /\ value = Nothing /\ cache' = cache
           \/ pc = "done" /\ Current(g) /\ Cached(cache, u)
                /\ value = CachedValue(cache, u) /\ cache' = Touch(cache, u)
           \/ pc = "read" /\ Current(g) /\ cache' = cache
                /\ dir = IF u \in index.known THEN index.root ELSE NoRoot
  <2>1. CASE ~Current(g)
    <3>1. NoRoot \in Folders
      BY DEF Folders
    <3> QED
      BY <2>1, <3>1 DEF Begin
  <2>2. CASE Current(g) /\ Cached(cache, u)
    <3>1. NoRoot \in Folders /\ CachedValue(cache, u) \in Images \cup {Nothing}
      BY DEF Folders, IInv, TypeOK, CacheOK, CachedValue
    <3> QED
      BY <2>2, <3>1 DEF Begin
  <2>3. CASE Current(g) /\ ~Cached(cache, u)
    <3>1. index.root \in Folders /\ NoRoot \in Folders
      BY <2>3, GraphicsAssumption, TargetsHaveFields
      DEF Folders, IInv, TypeOK, Current, IndexIsOfTheFolder, Generations
    <3> QED
      BY <2>3, <3>1 DEF Begin
  <2> QED
    BY <2>1, <2>2, <2>3
<1> DEFINE r == [pc |-> pc, generation |-> g, uid |-> u, dir |-> dir, value |-> value]
<1>3. r \in Lookup
  BY <1>1 DEF Lookup
<1>4. /\ lookup' = [lookup EXCEPT ![l] = r]
      /\ lookup'[l] = r
      /\ UNCHANGED <<db, disk, reserved, committed, index, installed, inFlight,
                     gate, command, pending, stopping, worker, ghosts>>
  BY <1>2 DEF IInv, TypeOK, Begin
<1>5. /\ Kept(cache') /\ \A v : /\ Cached(cache', v) <=> Cached(cache, v)
                               /\ CachedValue(cache', v) = CachedValue(cache, v)
  BY <1>2, TouchKeeps DEF IInv
<1>6. \A v : Held(v)' = Held(v)
  BY <1>4 DEF Held
<1>7. RightCache'
  BY <1>4, <1>5, <1>6 DEF RightCache, IInv, PicturesNameTheirFolder, ReadingsAreFresh, ghosts
<1>8. Current(g) =>
         /\ g = committed.generation /\ index # NoTarget /\ index.root = committed.root
         /\ unchanged => index = Scanned(committed.root)
  BY GraphicsAssumption, TargetsHaveFields
  DEF Current, IInv, TypeOK, IndexIsOfTheFolder, ReadingsAreFresh, Generations
<1>9. RightLookup(l)'
  <2>1. CASE pc = "done"
    <3>1. value # Nothing => value.dir = chosen[g]
      BY <1>2, <1>8, <2>1 DEF IInv, PicturesNameTheirFolder
    <3> QED
      BY <1>1, <1>4, <2>1, <3>1 DEF RightLookup, ghosts
  <2>2. CASE pc = "read"
    <3>1. dir = IF u \in index.known THEN committed.root ELSE NoRoot
      BY <1>2, <1>8, <2>2
    <3>2. unchanged => (u \in index.known <=> Held(u) # Nothing)
      BY <1>2, <1>8, <2>2 DEF Scanned, Held
    <3>3. dir \in {NoRoot, chosen[g]}
      BY <1>2, <1>8, <2>2, <3>1 DEF IInv, PicturesNameTheirFolder
    <3> QED
      BY <1>1, <1>4, <1>6, <2>2, <3>1, <3>2, <3>3 DEF RightLookup, ghosts
  <2> QED
    BY <1>2, <2>1, <2>2
<1> HIDE DEF r
<1> QED
  BY <1>3, <1>4, <1>5, <1>7, <1>9, LookupKeeps

LEMMA ReadImageKeeps == ASSUME NEW l \in Lookups, IInv, ReadImage(l) PROVE IInv'
<1> DEFINE value == IF lookup[l].dir = NoRoot THEN Nothing
                    ELSE disk[lookup[l].dir][lookup[l].uid]
           r == [lookup[l] EXCEPT !.pc = "answer", !.value = value]
<1>1. /\ lookup[l] \in Lookup /\ lookup[l].pc = "read" /\ lookup[l].uid \in Uids
      /\ lookup[l].dir \in Folders /\ lookup[l].generation \in Generations
      /\ UNCHANGED <<db, disk, state, gate, command, pending, stopping, worker, ghosts>>
  BY DEF IInv, TypeOK, ReadImage, Lookup
<1>2. value \in Images \cup {Nothing}
  BY <1>1 DEF IInv, TypeOK, Folders
<1>3. value # Nothing => value.dir = lookup[l].dir /\ lookup[l].dir # NoRoot
  BY <1>1 DEF IInv, PicturesNameTheirFolder, PicturesOf, Folders
<1>4. unchanged /\ lookup[l].generation = committed.generation =>
         value = Held(lookup[l].uid)
  BY <1>1 DEF IInv, ReadingsAreFresh, Held
<1>5. value # Nothing => value.dir = chosen[lookup[l].generation]
  BY <1>1, <1>3 DEF IInv, PicturesNameTheirFolder
<1> HIDE DEF value
<1>6. /\ r \in Lookup /\ r.pc = "answer" /\ r.value = value
      /\ r.generation = lookup[l].generation /\ r.uid = lookup[l].uid
  BY <1>1, <1>2 DEF Lookup
<1>7. lookup' = [lookup EXCEPT ![l] = r] /\ lookup'[l] = r
  BY DEF ReadImage, value, IInv, TypeOK
<1>8. \A v : Held(v)' = Held(v)
  BY <1>1 DEF Held, state
<1>9. RightLookup(l)'
  BY <1>1, <1>4, <1>5, <1>6, <1>7, <1>8 DEF RightLookup, IInv, GenerationsRise, state, ghosts
<1>10. Kept(cache') /\ RightCache'
  BY <1>1, <1>8 DEF RightCache, IInv, PicturesNameTheirFolder, ReadingsAreFresh, state, ghosts
<1> HIDE DEF r
<1> QED
  BY <1>1, <1>6, <1>7, <1>9, <1>10, LookupKeeps DEF state

LEMMA AnswerKeeps == ASSUME NEW l \in Lookups, IInv, Answer(l) PROVE IInv'
<1> DEFINE uid == lookup[l].uid
           value == lookup[l].value
<1>1. /\ lookup[l] \in Lookup /\ lookup[l].pc = "answer" /\ uid \in Uids
      /\ value \in Images \cup {Nothing}
      /\ UNCHANGED <<db, disk, reserved, committed, index, installed, inFlight,
                     gate, command, pending, stopping, worker, ghosts>>
  BY DEF IInv, TypeOK, Answer, Lookup
<1>2. \A v : Held(v)' = Held(v)
  BY <1>1 DEF Held
<1>3. PICK answered \in {value, Nothing} :
         LET r == [lookup[l] EXCEPT !.pc = "done", !.value = answered]
         IN  lookup' = [lookup EXCEPT ![l] = r] /\ lookup'[l] = r
  <2>1. CASE ~Current(lookup[l].generation)
    BY <1>1, <2>1 DEF Answer, IInv, TypeOK
  <2>2. CASE Current(lookup[l].generation)
    <3> DEFINE r == [lookup[l] EXCEPT !.pc = "done", !.value = value]
    <3>1. r = [lookup[l] EXCEPT !.pc = "done"]
      BY <1>1 DEF Lookup
    <3>2. lookup' = [lookup EXCEPT ![l] = r] /\ lookup'[l] = r
      BY <2>2, <3>1 DEF Answer, IInv, TypeOK
    <3> QED
      BY <3>2
  <2> QED
    BY <2>1, <2>2
<1> DEFINE r == [lookup[l] EXCEPT !.pc = "done", !.value = answered]
<1>4. /\ r \in Lookup /\ r.pc = "done" /\ r.value = answered
      /\ r.generation = lookup[l].generation /\ r.uid = uid
  BY <1>1, <1>3 DEF Lookup
<1>5. RightLookup(l)'
  BY <1>1, <1>3, <1>4 DEF RightLookup, IInv, GenerationsRise, PicturesNameTheirFolder, ghosts
<1>6. Kept(cache') /\ RightCache'
  <2>1. CASE Current(lookup[l].generation)
    <3>1. cache' = Put(cache, uid, value)
      BY <2>1 DEF Answer
    <3>2. Kept(cache') /\ ComesFrom(cache', cache, uid, value)
      BY <1>1, <3>1, PutKeeps DEF IInv
    <3>3. /\ value # Nothing => value.dir = committed.root
          /\ unchanged => value = Held(uid)
      BY <1>1, <2>1 DEF Current, IInv, PicturesNameTheirFolder, ReadingsAreFresh
    <3> QED
      BY <1>1, <1>2, <3>2, <3>3
      DEF RightCache, ComesFrom, IInv, PicturesNameTheirFolder, ReadingsAreFresh, ghosts
  <2>2. CASE ~Current(lookup[l].generation)
    BY <1>1, <1>2, <2>2
    DEF Answer, RightCache, IInv, PicturesNameTheirFolder, ReadingsAreFresh, ghosts
  <2> QED
    BY <2>1, <2>2
<1> HIDE DEF r
<1> QED
  BY <1>1, <1>3, <1>4, <1>5, <1>6, LookupKeeps DEF r

LEMMA EndLookupKeeps == ASSUME NEW l \in Lookups, IInv, EndLookup(l) PROVE IInv'
<1>1. /\ lookup' = [lookup EXCEPT ![l] = NoLookup] /\ lookup'[l] = NoLookup
      /\ UNCHANGED <<db, disk, state, gate, command, pending, stopping, worker, ghosts>>
  BY DEF EndLookup, IInv, TypeOK
<1>2. NoLookup \in Lookup /\ NoLookup.generation = 0 /\ NoLookup.pc = "idle"
  BY GraphicsAssumption DEF NoLookup, Lookup, Generations, Folders
<1>3. \A v : Held(v)' = Held(v)
  BY <1>1 DEF Held, state
<1>4. RightLookup(l)'
  BY <1>1, <1>2, GraphicsAssumption, TargetsHaveFields
  DEF RightLookup, IInv, TypeOK, Generations, state, ghosts
<1>5. Kept(cache') /\ RightCache'
  BY <1>1, <1>3 DEF RightCache, IInv, PicturesNameTheirFolder, ReadingsAreFresh, state, ghosts
<1> QED
  BY <1>1, <1>2, <1>4, <1>5, LookupKeeps DEF state

-----------------------------------------------------------------------------
(* The world outside.                                                       *)

LEMMA ChangePictureKeeps == IInv /\ ChangePicture => IInv'
<1> SUFFICES ASSUME IInv, ChangePicture PROVE IInv'
  OBVIOUS
<1> USE DEF state, threads
<1>0. PICK r \in Roots : \E u \in Uids : \E i \in PicturesOf(r) :
         /\ disk' = [disk EXCEPT ![r][u] = i]
         /\ unchanged' = (unchanged /\ r # committed.root)
  BY DEF ChangePicture
<1>1. PICK u \in Uids, i \in PicturesOf(r) :
         /\ disk' = [disk EXCEPT ![r][u] = i]
         /\ unchanged' = (unchanged /\ r # committed.root)
  BY <1>0
<1>2. /\ UNCHANGED <<db, state, threads, chosen, restarts>>
      /\ changes' \in 0..MaxChanges
  BY GraphicsAssumption DEF ChangePicture, IInv, TypeOK
<1>3. /\ disk' \in [Roots -> [Uids -> Images \cup {Nothing}]]
      /\ \A q \in Roots, v \in Uids : disk'[q][v] \in PicturesOf(q)
      /\ \A q \in Roots : q # r => disk'[q] = disk[q]
  BY <1>1 DEF IInv, TypeOK, PicturesNameTheirFolder, PicturesOf
<1>4. TypeOK'
  <2>1. unchanged' \in BOOLEAN
    BY <1>1
  <2>2. CacheOK(cache')
    BY <1>2 DEF IInv, TypeOK
  <2> QED
    BY <1>2, <1>3, <2>1, <2>2 DEF IInv, TypeOK
<1>5. Kept(cache)' /\ GateHasItsOwner' /\ CommandIsFollowed' /\ GenerationsRise'
  BY <1>2 DEF IInv, GateHasItsOwner, CommandIsFollowed, GenerationsRise, Working
<1>6. IndexIsOfTheFolder' /\ PicturesNameTheirFolder'
  BY <1>2, <1>3 DEF IInv, IndexIsOfTheFolder, PicturesNameTheirFolder
<1>7. ReadingsAreFresh'
  <2> SUFFICES ASSUME unchanged' PROVE ReadingsAreFresh'
    BY DEF ReadingsAreFresh
  <2>1. unchanged /\ committed.root # r
    BY <1>1
  <2>2. committed.root \in Roots \cup {NoRoot}
    BY DEF IInv, TypeOK, Targets, Folders
  <2>3. Scanned(committed.root)' = Scanned(committed.root)
    BY <1>2, <1>3, <2>1, <2>2 DEF Scanned
  <2>4. \A v : Held(v)' = Held(v)
    BY <1>2, <1>3, <2>1, <2>2 DEF Held
  <2> QED
    BY <1>2, <2>1, <2>3, <2>4 DEF IInv, TypeOK, ReadingsAreFresh
<1>8. InFlightIsCommitted' /\ RebuildIsUnderWay'
  BY <1>2 DEF IInv, InFlightIsCommitted, RebuildIsUnderWay
<1> QED
  BY <1>4, <1>5, <1>6, <1>7, <1>8 DEF IInv

LEMMA DropRuntimeKeeps == IInv /\ DropRuntime => IInv'
<1> SUFFICES ASSUME IInv, DropRuntime PROVE IInv'
  OBVIOUS
<1> USE DEF DropRuntime, state
<1>1. TypeOK'
  BY DEF IInv, TypeOK, ghosts
<1>2. Kept(cache)' /\ GateHasItsOwner' /\ CommandIsFollowed' /\ GenerationsRise'
  BY DEF IInv, GateHasItsOwner, CommandIsFollowed, GenerationsRise, Working
<1>3. IndexIsOfTheFolder' /\ PicturesNameTheirFolder'
  BY DEF IInv, IndexIsOfTheFolder, PicturesNameTheirFolder, ghosts
<1>4. ReadingsAreFresh'
  BY DEF IInv, ReadingsAreFresh, Held, Scanned, ghosts
<1>5. InFlightIsCommitted' /\ RebuildIsUnderWay'
  BY DEF IInv, InFlightIsCommitted, RebuildIsUnderWay
<1> QED
  BY <1>1, <1>2, <1>3, <1>4, <1>5 DEF IInv

LEMMA StutterKeeps == IInv /\ UNCHANGED vars => IInv'
<1> SUFFICES ASSUME IInv, UNCHANGED vars PROVE IInv'
  OBVIOUS
<1> USE DEF vars, state, threads, ghosts
<1>1. TypeOK' /\ Kept(cache)' /\ GateHasItsOwner' /\ CommandIsFollowed'
  BY DEF IInv, TypeOK, GateHasItsOwner, CommandIsFollowed
<1>2. GenerationsRise' /\ IndexIsOfTheFolder' /\ PicturesNameTheirFolder'
  BY DEF IInv, GenerationsRise, Working, IndexIsOfTheFolder, PicturesNameTheirFolder
<1>3. ReadingsAreFresh' /\ InFlightIsCommitted' /\ RebuildIsUnderWay'
  BY DEF IInv, ReadingsAreFresh, Held, Scanned, InFlightIsCommitted, RebuildIsUnderWay
<1> QED
  BY <1>1, <1>2, <1>3 DEF IInv

LEMMA StepKeeps == IInv /\ [Next]_vars => IInv'
<1> SUFFICES ASSUME IInv, [Next]_vars PROVE IInv'
  OBVIOUS
<1>1. CASE ChooseRoot \/ ClearRoot \/ Rescan
  <2>1. committed.root \in Folders /\ NoRoot \in Folders /\ Roots \subseteq Folders
    BY TargetsHaveFields DEF IInv, TypeOK, Folders
  <2> QED
    BY <1>1, <2>1, ReserveKeeps DEF ChooseRoot, ClearRoot, Rescan
<1>2. CASE CommandStep
  BY <1>2, PersistKeeps, PersistFailsKeeps, CommitKeeps, HandOverKeeps DEF CommandStep
<1>3. CASE WorkerStep
  BY <1>3, TakeTargetKeeps, ScanKeeps, EnterGateKeeps, InstallKeeps, StopWorkerKeeps
  DEF WorkerStep
<1>4. CASE BeginLookup \/ LookupStep
  BY <1>4, BeginKeeps, ReadImageKeeps, AnswerKeeps, EndLookupKeeps
  DEF BeginLookup, LookupStep
<1>5. CASE ChangePicture \/ DropRuntime \/ Restart
  BY <1>5, ChangePictureKeeps, DropRuntimeKeeps, RestartKeeps
<1>6. CASE UNCHANGED vars
  BY <1>6, StutterKeeps
<1> QED
  BY <1>1, <1>2, <1>3, <1>4, <1>5, <1>6 DEF Next

-----------------------------------------------------------------------------
(* The theorems.                                                            *)

(* The strengthened invariant, which every step of the commands, of the     *)
(* worker and of the requests preserves.                                    *)
THEOREM GraphicsInvariant == Spec => []IInv
BY InitHolds, StepKeeps, PTL DEF Spec

(* Every variable keeps its type.                                           *)
THEOREM TypeCorrect == Spec => []TypeOK
<1>1. IInv => TypeOK
  BY DEF IInv
<1> QED
  BY <1>1, GraphicsInvariant, PTL

(* A picture is served only under the generation of its folder, and what is *)
(* cached is what the folder in use holds (resolve_with_reader).            *)
THEOREM PicturesAreRight == Spec => []PicturesAreOfTheFolder
<1>1. IInv => ServedFromItsGeneration
  BY DEF IInv, PicturesNameTheirFolder, ServedFromItsGeneration
<1>2. IInv => CacheIsFresh
  BY NothingIsNoImage DEF IInv, ReadingsAreFresh, Held, CacheIsFresh
<1>3. IInv => PicturesAreOfTheFolder
  BY <1>1, <1>2 DEF PicturesAreOfTheFolder
<1> QED
  BY <1>3, GraphicsInvariant, PTL

(* A status that announces a rebuild is right, and the database agrees with *)
(* the process (commit_persisted_transition, finish_target).                *)
THEOREM StatusIsRight == Spec => []StatusIsTrue
<1>1. IInv => StatusIsTrue
  BY DEF IInv, CommandIsFollowed, StatusIsTrue, StoredIsCommitted
<1> QED
  BY <1>1, GraphicsInvariant, PTL

-----------------------------------------------------------------------------
(* The runtime implements the promise of GraphicsChoice.                    *)

LEMMA InitIsReopened == Init => Choice!ChoiceInit
BY GraphicsAssumption DEF Init, Booted, Choice!ChoiceInit

Shown == <<db, committed.root, committed.generation, installed # -1>>

LEMMA StepIsChoice == IInv /\ [Next]_vars => [Choice!ChoiceNext]_Shown
<1> SUFFICES ASSUME IInv, [Next]_vars PROVE Choice!ChoiceNext \/ UNCHANGED Shown
  OBVIOUS
<1> USE DEF Shown, state, threads, ghosts
<1>1. ASSUME Persist PROVE Choice!Store
  <2>1. db' \in Folders
    BY <1>1, TargetsHaveFields DEF Persist, IInv, TypeOK
  <2> QED
    BY <1>1, <2>1 DEF Persist, Choice!Store
<1>2. ASSUME Commit PROVE Choice!Adopt
  <2>1. /\ command.target.generation \in Int /\ committed.generation \in Int
        /\ command.target.generation > committed.generation
    BY <1>2, GraphicsAssumption, TargetsHaveFields
    DEF Commit, IInv, TypeOK, GenerationsRise, Generations
  <2> QED
    BY <1>2, <2>1 DEF Commit, CommitLocked, IInv, CommandIsFollowed, Choice!Adopt
<1>3. ASSUME Install PROVE Choice!BecomeReady \/ UNCHANGED Shown
  <2>1. worker.index # NoTarget
    BY <1>3, GraphicsAssumption DEF Install, IInv, TypeOK
  <2>2. committed = worker.target => worker.target.generation # -1
    BY GraphicsAssumption, TargetsHaveFields DEF IInv, TypeOK, Generations
  <2>3. CASE committed = worker.target
    BY <1>3, <2>1, <2>2, <2>3
    DEF Install, CommitLocked, IInv, GateHasItsOwner, CommandIsFollowed, Choice!BecomeReady
  <2>4. CASE committed # worker.target
    BY <1>3, <2>4 DEF Install
  <2> QED
    BY <2>3, <2>4
<1>4. ASSUME Restart PROVE Choice!Reopen
  BY <1>4, GraphicsAssumption DEF Restart, Choice!Reopen
<1>5. CASE ChooseRoot \/ ClearRoot \/ Rescan
  BY <1>5 DEF ChooseRoot, ClearRoot, Rescan, Reserve
<1>6. CASE PersistFails \/ HandOver
  BY <1>6 DEF PersistFails, HandOver
<1>7. CASE TakeTarget \/ Scan \/ EnterGate \/ StopWorker
  BY <1>7 DEF TakeTarget, Scan, EnterGate, StopWorker
<1>8. CASE BeginLookup \/ LookupStep
  <2>1. UNCHANGED <<db, committed, installed>>
    BY <1>8 DEF BeginLookup, Begin, LookupStep, ReadImage, Answer, EndLookup
  <2> QED
    BY <2>1
<1>9. CASE ChangePicture \/ DropRuntime \/ UNCHANGED vars
  BY <1>9 DEF ChangePicture, DropRuntime, vars
<1> QED
  BY <1>1, <1>2, <1>3, <1>4, <1>5, <1>6, <1>7, <1>8, <1>9
  DEF Next, CommandStep, WorkerStep, Choice!ChoiceNext

(* A folder is stored before it is adopted, each under a generation of its  *)
(* own, and only the folder in use becomes ready.                           *)
THEOREM ChoiceIsImplemented == Spec => ImplementsChoice
BY InitIsReopened, StepIsChoice, GraphicsInvariant, PTL
   DEF Spec, ImplementsChoice, Choice!ChoiceSpec, Choice!choiceVars, Shown

-----------------------------------------------------------------------------
(* The books of the cache.                                                  *)

LEMMA LeastNumber ==
    ASSUME NEW T, T \subseteq Nat, T # {}
    PROVE  \E x \in T : \A y \in T : x <= y
<1> DEFINE Less == OpToRel(<, Nat)
<1>1. PICK x \in T : \A y \in T : ~ (<<y, x>> \in Less)
  BY NatLessThanWellFounded, WFMin
<1>2. \A y \in T : ~(y < x)
  BY <1>1 DEF OpToRel
<1> HIDE DEF Less
<1>3. QED
  BY <1>2

-----------------------------------------------------------------------------
(* What is retained keeps its order: the places of the retained, counted,   *)
(* are 1 and the numbers that follow, each once.                            *)
Retained(order, uid) == {i \in DOMAIN order : order[i] # uid}
PlaceOf(kept, i) == Cardinality({k \in kept : k <= i})
At(kept, n) == CHOOSE i \in kept : PlaceOf(kept, i) = n

LEMMA PlacesRise ==
    ASSUME NEW kept, IsFiniteSet(kept), kept \subseteq Nat, NEW i \in kept, NEW j \in kept
    PROVE  /\ PlaceOf(kept, i) \in 1..Cardinality(kept)
           /\ i < j => PlaceOf(kept, i) < PlaceOf(kept, j)
<1> DEFINE before == {k \in kept : k <= i}
           until == {k \in kept : k <= j}
<1>1. before \subseteq kept /\ until \subseteq kept /\ i \in before /\ j \in until
  OBVIOUS
<1>2. i < j => before \subseteq until /\ j \notin before
  <2>1. i \in Nat /\ j \in Nat
    OBVIOUS
  <2>2. ASSUME i < j, NEW k \in kept, k <= i PROVE k <= j
    <3>1. k \in Nat
      OBVIOUS
    <3>2. QED
      BY <2>1, <2>2, <3>1
  <2>3. i < j => ~(j <= i)
    BY <2>1
  <2>4. QED
    BY <2>2, <2>3
<1>3. PlaceOf(kept, i) = Cardinality(before) /\ PlaceOf(kept, j) = Cardinality(until)
  BY DEF PlaceOf
<1> HIDE DEF before, until
<1>4. /\ IsFiniteSet(before) /\ IsFiniteSet(until)
      /\ Cardinality(before) <= Cardinality(kept)
  BY <1>1, FS_Subset
<1>5. Cardinality(before) \in Nat /\ Cardinality(until) \in Nat /\ Cardinality(kept) \in Nat
  BY <1>4, FS_CardinalityType
<1>6. Cardinality(before) # 0
  BY <1>1, <1>4, FS_EmptySet
<1>7. ASSUME i < j PROVE Cardinality(before) < Cardinality(until)
  <2>1. before \in SUBSET until /\ before # until
    BY <1>1, <1>2, <1>7
  <2>2. Cardinality(before) <= Cardinality(until) /\ Cardinality(before) # Cardinality(until)
    BY <1>4, <2>1, FS_Subset
  <2>3. QED
    BY <1>5, <2>2
<1>8. QED
  BY <1>3, <1>4, <1>5, <1>6, <1>7

LEMMA PlacesAreTaken ==
    ASSUME NEW kept, IsFiniteSet(kept), kept \subseteq Nat
    PROVE  /\ Cardinality(kept) \in Nat
           /\ \A n \in 1..Cardinality(kept) : At(kept, n) \in kept /\ PlaceOf(kept, At(kept, n)) = n
           /\ \A i \in kept : PlaceOf(kept, i) \in 1..Cardinality(kept)
                              /\ At(kept, PlaceOf(kept, i)) = i
           /\ \A n \in 1..Cardinality(kept), m \in 1..Cardinality(kept) :
                  n < m => At(kept, n) < At(kept, m)
<1> DEFINE size == Cardinality(kept)
           place == [i \in kept |-> PlaceOf(kept, i)]
<1>1. size \in Nat
  BY FS_CardinalityType
<1>2. IsFiniteSet(1..size) /\ Cardinality(1..size) = size
  BY <1>1, FS_Interval
<1>3. \A i \in kept, j \in kept : /\ PlaceOf(kept, i) \in 1..size
                                  /\ i < j => PlaceOf(kept, i) < PlaceOf(kept, j)
  BY PlacesRise
<1>4. \A i \in kept, j \in kept : PlaceOf(kept, i) = PlaceOf(kept, j) => i = j
  <2>1. ASSUME NEW i \in kept, NEW j \in kept, PlaceOf(kept, i) = PlaceOf(kept, j) PROVE i = j
    <3>1. ~(i < j) /\ ~(j < i)
      BY <1>3, <2>1
    <3>2. QED
      BY <3>1
  <2>2. QED
    BY <2>1
<1>5. place \in Injection(kept, 1..size)
  BY <1>3, <1>4 DEF Injection, IsInjective
<1>6. \A i \in kept : place[i] = PlaceOf(kept, i)
  OBVIOUS
<1> HIDE DEF place, size
<1>7. place \in Surjection(kept, 1..size)
  BY <1>2, <1>5, FS_Injection DEF size
<1>8. \A n \in 1..size : \E i \in kept : PlaceOf(kept, i) = n
  BY <1>6, <1>7 DEF Surjection
<1>9. \A n \in 1..size : At(kept, n) \in kept /\ PlaceOf(kept, At(kept, n)) = n
  BY <1>8 DEF At
<1>10. \A i \in kept : At(kept, PlaceOf(kept, i)) = i
  BY <1>3, <1>4, <1>9
<1>11. ASSUME NEW n \in 1..size, NEW m \in 1..size, n < m PROVE At(kept, n) < At(kept, m)
  <2> DEFINE a == At(kept, n)
             b == At(kept, m)
  <2>1. /\ a \in kept /\ b \in kept /\ a \in Nat /\ b \in Nat
        /\ PlaceOf(kept, a) = n /\ PlaceOf(kept, b) = m
    BY <1>9
  <2> HIDE DEF a, b
  <2>2. n \in Nat /\ m \in Nat
    BY <1>1
  <2>3. b < a => m < n
    BY <1>3, <2>1
  <2>4. b = a => m = n
    BY <2>1
  <2>5. a < b
    BY <1>11, <2>1, <2>2, <2>3, <2>4
  <2>6. QED
    BY <2>5 DEF a, b
<1>12. QED
  BY <1>1, <1>3, <1>9, <1>10, <1>11 DEF size

LEMMA RetainedAreOfOrder ==
    ASSUME NEW S, NEW order \in Seq(S), NEW uid
    PROVE  LET kept == Retained(order, uid)
               w == WithoutUid(order, uid)
           IN  /\ IsFiniteSet(kept) /\ kept \subseteq 1..Len(order) /\ kept \subseteq Nat
               /\ w = [n \in 1..Cardinality(kept) |-> order[At(kept, n)]]
<1> DEFINE kept == Retained(order, uid)
<1>1. DOMAIN order = 1..Len(order) /\ Len(order) \in Nat
  OBVIOUS
<1>2. kept \in SUBSET (1..Len(order))
  BY <1>1 DEF Retained
<1>3. IsFiniteSet(1..Len(order))
  BY <1>1, FS_Interval
<1>4. IsFiniteSet(kept)
  BY <1>2, <1>3, FS_Subset
<1>5. WithoutUid(order, uid) = [n \in 1..Cardinality(kept) |-> order[At(kept, n)]]
  BY DEF WithoutUid, At, PlaceOf, Retained
<1>6. QED
  BY <1>1, <1>2, <1>4, <1>5

(* An order of a set: each of its members once.                             *)
IsOrderOf(order, S) ==
    /\ order \in Seq(S)
    /\ \A u \in S : \E i \in 1..Len(order) : order[i] = u
    /\ \A i \in 1..Len(order), j \in 1..Len(order) : order[i] = order[j] => i = j

(* What comes first in an order does so in a history of all uses.           *)
OldestFirst(order, history) ==
    \A i \in 1..Len(order), j \in 1..Len(order), a \in 1..Len(history), b \in 1..Len(history) :
        i < j /\ history[a] = order[i] /\ history[b] = order[j] => a < b

LEMMA OrderCounts ==
    ASSUME NEW S, NEW order, IsOrderOf(order, S)
    PROVE  IsFiniteSet(S) /\ Cardinality(S) = Len(order) /\ Elements(order) = S
<1>1. Len(order) \in Nat /\ DOMAIN order = 1..Len(order)
      /\ \A i \in 1..Len(order) : order[i] \in S
  BY DEF IsOrderOf
<1> DEFINE f == [i \in 1..Len(order) |-> order[i]]
<1>2. f \in Bijection(1..Len(order), S)
  BY <1>1 DEF IsOrderOf, Bijection, Injection, Surjection, IsInjective
<1>3. ExistsBijection(1..Len(order), S)
  BY <1>2 DEF ExistsBijection
<1> HIDE DEF f
<1>4. Cardinality(S) = Len(order)
  BY <1>1, <1>3, FS_CountingElements
<1>5. IsFiniteSet(S)
  BY <1>1, <1>3, FS_NatBijection
<1>6. Elements(order) = S
  BY <1>1 DEF Elements, IsOrderOf
<1>7. QED
  BY <1>4, <1>5, <1>6

LEMMA WithoutIsOrder ==
    ASSUME NEW S, NEW order, IsOrderOf(order, S), NEW uid
    PROVE  /\ IsOrderOf(WithoutUid(order, uid), S \ {uid})
           /\ \A n \in 1..Len(WithoutUid(order, uid)) : WithoutUid(order, uid)[n] # uid
<1> DEFINE kept == Retained(order, uid)
           w == WithoutUid(order, uid)
           size == Cardinality(kept)
<1>1. /\ IsFiniteSet(kept) /\ kept \subseteq 1..Len(order) /\ kept \subseteq Nat
      /\ w = [n \in 1..size |-> order[At(kept, n)]]
  BY RetainedAreOfOrder DEF IsOrderOf
<1>2. size \in Nat
      /\ (\A n \in 1..size : At(kept, n) \in kept /\ PlaceOf(kept, At(kept, n)) = n)
      /\ (\A i \in kept : PlaceOf(kept, i) \in 1..size /\ At(kept, PlaceOf(kept, i)) = i)
  BY <1>1, PlacesAreTaken
<1>3. \A i : i \in kept <=> i \in 1..Len(order) /\ order[i] # uid
  <2>1. DOMAIN order = 1..Len(order)
    BY DEF IsOrderOf
  <2>2. QED
    BY <2>1 DEF Retained
<1> HIDE DEF kept, w, size
<1>4. \A n \in 1..size : w[n] = order[At(kept, n)] /\ w[n] \in S \ {uid}
  BY <1>1, <1>2, <1>3 DEF IsOrderOf
<1>5. w \in Seq(S \ {uid}) /\ Len(w) = size
  BY <1>1, <1>2, <1>4
<1>6. ASSUME NEW u \in S \ {uid} PROVE \E n \in 1..size : w[n] = u
  <2>1. PICK i \in 1..Len(order) : order[i] = u
    BY DEF IsOrderOf
  <2>2. i \in kept
    BY <1>3, <2>1
  <2>3. QED
    BY <1>2, <1>4, <2>1, <2>2
<1>7. ASSUME NEW n \in 1..size, NEW m \in 1..size, w[n] = w[m] PROVE n = m
  <2>1. At(kept, n) = At(kept, m)
    BY <1>1, <1>2, <1>4, <1>7 DEF IsOrderOf
  <2>2. QED
    BY <1>2, <2>1
<1>8. QED
  BY <1>4, <1>5, <1>6, <1>7 DEF IsOrderOf, w

(* One that is not in an order becomes its last.                            *)
LEMMA LastIsOrder ==
    ASSUME NEW S, NEW order, IsOrderOf(order, S), NEW uid,
           \A i \in 1..Len(order) : order[i] # uid
    PROVE  IsOrderOf(Append(order, uid), S \cup {uid})
<1> DEFINE a == Append(order, uid)
<1>1. order \in Seq(S) /\ order \in Seq(S \cup {uid}) /\ Len(order) \in Nat
  BY DEF IsOrderOf
<1>2. /\ a \in Seq(S \cup {uid}) /\ Len(a) = Len(order) + 1
      /\ a[Len(order) + 1] = uid
      /\ \A n \in 1..Len(order) : a[n] = order[n]
  BY <1>1
<1> HIDE DEF a
<1>3. ASSUME NEW u \in S \cup {uid} PROVE \E n \in 1..Len(a) : a[n] = u
  <2>1. CASE u = uid
    BY <1>1, <1>2, <2>1
  <2>2. CASE u # uid
    <3>1. PICK n \in 1..Len(order) : order[n] = u
      BY <2>2 DEF IsOrderOf
    <3>2. QED
      BY <1>1, <1>2, <3>1
  <2>3. QED
    BY <2>1, <2>2
<1>4. ASSUME NEW n \in 1..Len(a), NEW m \in 1..Len(a), a[n] = a[m] PROVE n = m
  <2>1. CASE n \in 1..Len(order) /\ m \in 1..Len(order)
    BY <1>2, <1>4, <2>1 DEF IsOrderOf
  <2>2. CASE n = Len(order) + 1 \/ m = Len(order) + 1
    BY <1>1, <1>2, <1>4, <2>2
  <2>3. QED
    BY <1>1, <1>2, <2>1, <2>2
<1>5. QED
  BY <1>2, <1>3, <1>4 DEF IsOrderOf, a

(* A use: the member leaves its place and becomes the last.                 *)
LEMMA UseIsOrder ==
    ASSUME NEW S, NEW order, IsOrderOf(order, S), NEW uid
    PROVE  IsOrderOf(Append(WithoutUid(order, uid), uid), S \cup {uid})
<1> DEFINE w == WithoutUid(order, uid)
<1>1. IsOrderOf(w, S \ {uid}) /\ \A n \in 1..Len(w) : w[n] # uid
  BY WithoutIsOrder
<1> HIDE DEF w
<1>2. IsOrderOf(Append(w, uid), (S \ {uid}) \cup {uid})
  BY <1>1, LastIsOrder
<1>3. (S \ {uid}) \cup {uid} = S \cup {uid}
  OBVIOUS
<1>4. QED
  BY <1>2, <1>3 DEF w

-----------------------------------------------------------------------------
(* What comes first in w comes first in the order it is taken from.         *)
TakenFrom(w, order) ==
    \A n \in 1..Len(w), m \in 1..Len(w) : n < m =>
        \E i \in 1..Len(order), j \in 1..Len(order) :
            i < j /\ w[n] = order[i] /\ w[m] = order[j]

LEMMA WithoutIsTaken ==
    ASSUME NEW S, NEW order \in Seq(S), NEW uid
    PROVE  TakenFrom(WithoutUid(order, uid), order)
<1> DEFINE kept == Retained(order, uid)
           w == WithoutUid(order, uid)
           size == Cardinality(kept)
<1>1. /\ IsFiniteSet(kept) /\ kept \subseteq 1..Len(order) /\ kept \subseteq Nat
      /\ w = [n \in 1..size |-> order[At(kept, n)]]
  BY RetainedAreOfOrder
<1>2. /\ size \in Nat
      /\ \A n \in 1..size : At(kept, n) \in kept
      /\ \A n \in 1..size, m \in 1..size : n < m => At(kept, n) < At(kept, m)
  BY <1>1, PlacesAreTaken
<1> HIDE DEF kept, w, size
<1>3. Len(w) = size
  BY <1>1, <1>2
<1>4. \A n \in 1..size : w[n] = order[At(kept, n)] /\ At(kept, n) \in 1..Len(order)
  BY <1>1, <1>2
<1>5. TakenFrom(w, order)
  BY <1>2, <1>3, <1>4 DEF TakenFrom
<1>6. QED
  BY <1>5 DEF w

LEMMA AgeOfTaken ==
    ASSUME NEW w, NEW order, NEW history, TakenFrom(w, order), OldestFirst(order, history)
    PROVE  OldestFirst(w, history)
BY DEF TakenFrom, OldestFirst

(* Another is used: the ages of these stay in their order.                  *)
LEMMA AgeInHistory ==
    ASSUME NEW H, NEW history \in Seq(H), NEW w, NEW uid,
           \A i \in 1..Len(w) : w[i] # uid /\ \E a \in 1..Len(history) : history[a] = w[i],
           OldestFirst(w, history)
    PROVE  OldestFirst(w, Append(WithoutUid(history, uid), uid))
<1> DEFINE past == WithoutUid(history, uid)
           now == Append(past, uid)
<1>1. TakenFrom(past, history)
  BY WithoutIsTaken
<1>2. /\ past \in Seq(H) /\ Len(past) \in Nat /\ Len(history) \in Nat
  <2> DEFINE kept == Retained(history, uid)
             size == Cardinality(kept)
  <2>1. /\ IsFiniteSet(kept) /\ kept \subseteq 1..Len(history) /\ kept \subseteq Nat
        /\ past = [n \in 1..size |-> history[At(kept, n)]]
    BY RetainedAreOfOrder
  <2>2. size \in Nat /\ \A n \in 1..size : At(kept, n) \in kept
    BY <2>1, PlacesAreTaken
  <2> HIDE DEF kept, size, past
  <2>3. \A n \in 1..size : history[At(kept, n)] \in H
    BY <2>1, <2>2
  <2>4. QED
    BY <2>1, <2>2, <2>3
<1> HIDE DEF past
<1>3. /\ Len(now) = Len(past) + 1 /\ now[Len(past) + 1] = uid
      /\ \A n \in 1..Len(past) : now[n] = past[n]
  BY <1>2
<1> HIDE DEF now
<1>4. ASSUME NEW i \in 1..Len(w), NEW j \in 1..Len(w), i < j,
             NEW a \in 1..Len(now), NEW b \in 1..Len(now), now[a] = w[i], now[b] = w[j]
      PROVE  a < b
  <2>1. a \in 1..Len(past) /\ b \in 1..Len(past)
    <3>1. w[i] # uid /\ w[j] # uid
      OBVIOUS
    <3>2. a # Len(past) + 1 /\ b # Len(past) + 1
      BY <1>3, <1>4, <3>1
    <3>3. \A k \in 1..Len(now) : k # Len(past) + 1 => k \in 1..Len(past)
      BY <1>2, <1>3
    <3>4. QED
      BY <3>2, <3>3
  <2>2. past[a] = w[i] /\ past[b] = w[j]
    BY <1>3, <1>4, <2>1
  <2>3. a # b
    <3>1. SUFFICES ASSUME a = b PROVE FALSE
      OBVIOUS
    <3>2. PICK c \in 1..Len(history) : history[c] = w[i]
      OBVIOUS
    <3>3. c < c
      BY <1>4, <2>2, <3>1, <3>2 DEF OldestFirst
    <3>4. QED
      BY <1>2, <3>3
  <2>4. ~(b < a)
    <3>1. SUFFICES ASSUME b < a PROVE FALSE
      OBVIOUS
    <3>2. PICK p \in 1..Len(history), q \in 1..Len(history) :
              p < q /\ past[b] = history[p] /\ past[a] = history[q]
      BY <1>1, <2>1, <3>1 DEF TakenFrom
    <3>3. q < p
      BY <1>4, <2>2, <3>2 DEF OldestFirst
    <3>4. QED
      BY <1>2, <3>2, <3>3
  <2>5. QED
    BY <1>2, <2>1, <2>3, <2>4
<1>5. QED
  BY <1>4 DEF OldestFirst, now, past

(* The one that is used is the youngest.                                    *)
LEMMA AgeOfUsed ==
    ASSUME NEW S, NEW w \in Seq(S), NEW H, NEW past \in Seq(H), NEW uid,
           \A i \in 1..Len(w) : w[i] # uid, \A i \in 1..Len(past) : past[i] # uid,
           OldestFirst(w, Append(past, uid))
    PROVE  OldestFirst(Append(w, uid), Append(past, uid))
<1> DEFINE now == Append(past, uid)
           order == Append(w, uid)
<1>1. /\ Len(past) \in Nat /\ Len(now) = Len(past) + 1 /\ now[Len(past) + 1] = uid
      /\ \A n \in 1..Len(past) : now[n] # uid
  OBVIOUS
<1>2. /\ Len(w) \in Nat /\ Len(order) = Len(w) + 1 /\ order[Len(w) + 1] = uid
      /\ \A n \in 1..Len(w) : order[n] = w[n]
  OBVIOUS
<1>3. OldestFirst(w, now)
  OBVIOUS
<1> HIDE DEF now, order
<1>4. ASSUME NEW i \in 1..Len(order), NEW j \in 1..Len(order), i < j,
             NEW a \in 1..Len(now), NEW b \in 1..Len(now), now[a] = order[i], now[b] = order[j]
      PROVE  a < b
  <2>1. i \in 1..Len(w)
    BY <1>2, <1>4
  <2>2. a \in 1..Len(past)
    BY <1>1, <1>2, <1>4, <2>1
  <2>3. CASE j \in 1..Len(w)
    BY <1>2, <1>3, <1>4, <2>1, <2>3 DEF OldestFirst
  <2>4. CASE j = Len(w) + 1
    <3>1. b = Len(past) + 1
      BY <1>1, <1>2, <1>4, <2>4
    <3>2. QED
      BY <1>1, <2>2, <3>1
  <2>5. QED
    BY <1>2, <2>3, <2>4
<1>5. QED
  BY <1>4 DEF OldestFirst, now, order

-----------------------------------------------------------------------------
(* The bytes of pictures: as many as there are coins, a coin being a        *)
(* picture with one of its bytes.                                           *)
Sized(pics, S) == \A u \in S : pics[u].bytes \in Nat
CoinsOf(pics, u) == {u} \X (1..pics[u].bytes)
Coins(pics, S) == UNION {CoinsOf(pics, u) : u \in S}

LEMMA ApartTheyAdd ==
    ASSUME NEW A, NEW B, IsFiniteSet(A), IsFiniteSet(B), A \cap B = {}
    PROVE  /\ IsFiniteSet(A \cup B)
           /\ Cardinality(A) \in Nat /\ Cardinality(B) \in Nat
           /\ Cardinality(A \cup B) = Cardinality(A) + Cardinality(B)
<1>1. Cardinality(A) \in Nat /\ Cardinality(B) \in Nat /\ Cardinality(A \cap B) = 0
  <2>1. Cardinality(A \cap B) = Cardinality({})
    BY Zenon
  <2>2. QED
    BY <2>1, FS_CardinalityType, FS_EmptySet
<1>2. Cardinality(A \cup B) = Cardinality(A) + Cardinality(B) - Cardinality(A \cap B)
  BY FS_Union
<1>3. IsFiniteSet(A \cup B)
  BY FS_Union
<1>4. QED
  BY <1>1, <1>2, <1>3

LEMMA CoinsOfOne ==
    ASSUME NEW pics, NEW u, pics[u].bytes \in Nat
    PROVE  IsFiniteSet(CoinsOf(pics, u)) /\ Cardinality(CoinsOf(pics, u)) = pics[u].bytes
<1> DEFINE n == pics[u].bytes
<1>1. n \in Nat
  OBVIOUS
<1> HIDE DEF n
<1>2. IsFiniteSet(1..n) /\ Cardinality(1..n) = n
  BY <1>1, FS_Interval
<1>3. IsFiniteSet({u}) /\ Cardinality({u}) = 1
  BY FS_Singleton
<1>4. IsFiniteSet({u} \X (1..n)) /\ Cardinality({u} \X (1..n)) = 1 * n
  <2> DEFINE one == {u}
             all == 1..n
  <2>1. IsFiniteSet(one) /\ IsFiniteSet(all) /\ Cardinality(one) = 1 /\ Cardinality(all) = n
    BY <1>2, <1>3
  <2> HIDE DEF one, all
  <2>2. IsFiniteSet(one \X all) /\ Cardinality(one \X all) = Cardinality(one) * Cardinality(all)
    BY <2>1, FS_Product, Zenon
  <2>3. QED
    BY <2>1, <2>2 DEF one, all
<1>5. 1 * n = n
  BY <1>1
<1>6. CoinsOf(pics, u) = {u} \X (1..n)
  BY DEF CoinsOf, n
<1>7. QED
  BY <1>4, <1>5, <1>6 DEF n

LEMMA CoinsAreFinite ==
    ASSUME NEW pics, NEW S, IsFiniteSet(S), Sized(pics, S)
    PROVE  IsFiniteSet(Coins(pics, S))
<1> DEFINE f == [u \in S |-> CoinsOf(pics, u)]
           T == {CoinsOf(pics, u) : u \in S}
<1>1. f \in Surjection(S, T)
  BY DEF Surjection
<1>2. \A t \in T : IsFiniteSet(t)
  BY CoinsOfOne DEF Sized
<1> HIDE DEF f, T
<1>3. IsFiniteSet(T)
  BY <1>1, FS_Surjection
<1>4. IsFiniteSet(UNION T)
  BY <1>2, <1>3, FS_UNION
<1>5. QED
  BY <1>4 DEF T, Coins

LEMMA CoinsAdd ==
    ASSUME NEW pics, NEW A, NEW B, IsFiniteSet(A), IsFiniteSet(B), A \cap B = {},
           Sized(pics, A \cup B)
    PROVE  /\ Cardinality(Coins(pics, A)) \in Nat /\ Cardinality(Coins(pics, B)) \in Nat
           /\ Cardinality(Coins(pics, A \cup B)) =
                  Cardinality(Coins(pics, A)) + Cardinality(Coins(pics, B))
<1>1. Coins(pics, A \cup B) = Coins(pics, A) \cup Coins(pics, B)
  BY DEF Coins
<1>2. Coins(pics, A) \cap Coins(pics, B) = {}
  BY DEF Coins, CoinsOf
<1>3. Sized(pics, A) /\ Sized(pics, B)
  BY DEF Sized
<1>4. IsFiniteSet(Coins(pics, A)) /\ IsFiniteSet(Coins(pics, B))
  BY <1>3, CoinsAreFinite
<1>5. QED
  BY <1>1, <1>2, <1>4, ApartTheyAdd

(* MapThenSumSet by its definition: a function of the subsets that takes    *)
(* the element it picks, and adds the sum of the others.  There is one such *)
(* function, since two would differ at a smallest set first.                *)
Picked(s) == CHOOSE x \in s : TRUE
IsSum(g, pics, S) ==
    g = [s \in SUBSET S |-> IF s = {} THEN 0 ELSE pics[Picked(s)].bytes + g[s \ {Picked(s)}]]

LEMMA CoinsAreSum ==
    ASSUME NEW pics, NEW S, IsFiniteSet(S), Sized(pics, S)
    PROVE  IsSum([s \in SUBSET S |-> Cardinality(Coins(pics, s))], pics, S)
<1> DEFINE g == [s \in SUBSET S |-> Cardinality(Coins(pics, s))]
<1>1. ASSUME NEW s \in SUBSET S
      PROVE  g[s] = IF s = {} THEN 0 ELSE pics[Picked(s)].bytes + g[s \ {Picked(s)}]
  <2>1. CASE s = {}
    <3>1. Coins(pics, s) = {}
      BY <2>1 DEF Coins
    <3>2. QED
      BY <2>1, <3>1, FS_EmptySet
  <2>2. CASE s # {}
    <3> DEFINE x == Picked(s)
    <3>1. x \in s
      BY <2>2 DEF Picked
    <3> HIDE DEF x
    <3>2. IsFiniteSet(s \ {x}) /\ IsFiniteSet({x}) /\ s = {x} \cup (s \ {x})
          /\ {x} \cap (s \ {x}) = {} /\ s \ {x} \in SUBSET S
      BY <3>1, FS_Subset, FS_Singleton
    <3>3. Sized(pics, s)
      BY DEF Sized
    <3>4. Cardinality(Coins(pics, s)) =
              Cardinality(Coins(pics, {x})) + Cardinality(Coins(pics, s \ {x}))
      BY <3>2, <3>3, CoinsAdd
    <3>5. Coins(pics, {x}) = CoinsOf(pics, x)
      BY DEF Coins
    <3>6. Cardinality(CoinsOf(pics, x)) = pics[x].bytes
      BY <3>1, <3>3, CoinsOfOne DEF Sized
    <3>7. g[s] = pics[x].bytes + g[s \ {x}]
      BY <3>2, <3>4, <3>5, <3>6
    <3>8. QED
      BY <2>2, <3>7 DEF x
  <2>3. QED
    BY <2>1, <2>2
<1>2. g = [s \in SUBSET S |-> g[s]]
  OBVIOUS
<1> HIDE DEF g
<1>3. IsSum(g, pics, S)
  BY <1>1, <1>2 DEF IsSum
<1>4. QED
  BY <1>3 DEF g

LEMMA SumsAreOne ==
    ASSUME NEW pics, NEW S, IsFiniteSet(S), NEW g, NEW h, IsSum(g, pics, S), IsSum(h, pics, S)
    PROVE  g[S] = h[S]
<1> DEFINE Wrong == {s \in SUBSET S : g[s] # h[s]}
           Counts == {Cardinality(s) : s \in Wrong}
<1>1. SUFFICES ASSUME S \in Wrong PROVE FALSE
  OBVIOUS
<1>2. \A s \in SUBSET S : IsFiniteSet(s) /\ Cardinality(s) \in Nat
  BY FS_Subset, FS_CardinalityType
<1>3. Counts \subseteq Nat /\ Counts # {}
  BY <1>1, <1>2
<1>4. PICK m \in Counts : \A k \in Counts : m <= k
  <2> HIDE DEF Counts
  <2>1. QED
    BY <1>3, LeastNumber
<1>5. PICK s \in Wrong : m = Cardinality(s)
  BY <1>4
<1>6. s \in SUBSET S /\ g[s] # h[s]
  BY <1>5
<1>7. /\ g[s] = IF s = {} THEN 0 ELSE pics[Picked(s)].bytes + g[s \ {Picked(s)}]
      /\ h[s] = IF s = {} THEN 0 ELSE pics[Picked(s)].bytes + h[s \ {Picked(s)}]
  BY <1>6 DEF IsSum
<1>8. s # {} /\ g[s \ {Picked(s)}] # h[s \ {Picked(s)}]
  BY <1>6, <1>7
<1>9. s \ {Picked(s)} \in Wrong
  BY <1>6, <1>8
<1>10. m <= Cardinality(s \ {Picked(s)})
  BY <1>4, <1>9
<1>11. Picked(s) \in s
  BY <1>8 DEF Picked
<1>12. Cardinality(s \ {Picked(s)}) = Cardinality(s) - 1
  BY <1>2, <1>6, <1>11, FS_RemoveElement
<1>13. QED
  BY <1>2, <1>5, <1>6, <1>10, <1>12

LEMMA TotalIsCoins ==
    ASSUME NEW pics, NEW S, IsFiniteSet(S), Sized(pics, S)
    PROVE  TotalBytes(pics, S) = Cardinality(Coins(pics, S))
<1> DEFINE count == [s \in SUBSET S |-> Cardinality(Coins(pics, s))]
<1>1. IsSum(count, pics, S)
  BY CoinsAreSum
<1>2. count[S] = Cardinality(Coins(pics, S))
  OBVIOUS
<1> HIDE DEF count
<1>3. IsSum(CHOOSE g : IsSum(g, pics, S), pics, S)
  BY <1>1
<1>4. (CHOOSE g : IsSum(g, pics, S))[S] = count[S]
  BY <1>1, <1>3, SumsAreOne
<1>5. TotalBytes(pics, S) = (CHOOSE g : IsSum(g, pics, S))[S]
  BY DEF TotalBytes, MapThenSumSet, MapThenFoldSet, IsSum, Picked
<1>6. QED
  BY <1>2, <1>4, <1>5

(* The bytes of two sets of pictures, of one picture, and of none.          *)
LEMMA TotalsAdd ==
    ASSUME NEW pics, NEW A, NEW B, IsFiniteSet(A), IsFiniteSet(B), A \cap B = {},
           Sized(pics, A \cup B)
    PROVE  /\ TotalBytes(pics, A) \in Nat /\ TotalBytes(pics, B) \in Nat
           /\ TotalBytes(pics, A \cup B) = TotalBytes(pics, A) + TotalBytes(pics, B)
<1>1. Sized(pics, A) /\ Sized(pics, B)
  BY DEF Sized
<1>2. IsFiniteSet(A \cup B)
  BY FS_Union
<1>3. /\ TotalBytes(pics, A) = Cardinality(Coins(pics, A))
      /\ TotalBytes(pics, B) = Cardinality(Coins(pics, B))
  BY <1>1, TotalIsCoins
<1>4. TotalBytes(pics, A \cup B) = Cardinality(Coins(pics, A \cup B))
  BY <1>2, TotalIsCoins
<1>5. /\ Cardinality(Coins(pics, A)) \in Nat /\ Cardinality(Coins(pics, B)) \in Nat
      /\ Cardinality(Coins(pics, A \cup B)) =
             Cardinality(Coins(pics, A)) + Cardinality(Coins(pics, B))
  BY CoinsAdd
<1>6. QED
  BY <1>3, <1>4, <1>5

LEMMA TotalOfFew ==
    ASSUME NEW pics
    PROVE  /\ TotalBytes(pics, {}) = 0
           /\ \A u : pics[u].bytes \in Nat => TotalBytes(pics, {u}) = pics[u].bytes
<1>1. TotalBytes(pics, {}) = 0
  <2>1. Sized(pics, {}) /\ Coins(pics, {}) = {}
    BY DEF Sized, Coins
  <2>2. QED
    BY <2>1, TotalIsCoins, FS_EmptySet
<1>2. ASSUME NEW u, pics[u].bytes \in Nat PROVE TotalBytes(pics, {u}) = pics[u].bytes
  <2>1. Sized(pics, {u}) /\ Coins(pics, {u}) = CoinsOf(pics, u) /\ IsFiniteSet({u})
    BY <1>2, FS_Singleton DEF Sized, Coins
  <2>2. QED
    BY <1>2, <2>1, TotalIsCoins, CoinsOfOne
<1>3. QED
  BY <1>1, <1>2

LEMMA TotalsAgree ==
    ASSUME NEW pics, NEW others, NEW S, IsFiniteSet(S), Sized(pics, S),
           \A u \in S : others[u] = pics[u]
    PROVE  TotalBytes(others, S) = TotalBytes(pics, S)
<1>1. Sized(others, S)
  BY DEF Sized
<1>2. Coins(others, S) = Coins(pics, S)
  BY DEF Coins, CoinsOf
<1>3. QED
  BY <1>1, <1>2, TotalIsCoins
-----------------------------------------------------------------------------
(* The books of one cache, but for its limits.                              *)
Booked(c) ==
    /\ HasFields(c)
    /\ Sized(c.available, DOMAIN c.available)
    /\ IsOrderOf(c.orderAvailable, DOMAIN c.available)
    /\ IsOrderOf(c.orderMissing, c.missing)
    /\ DOMAIN c.available \cap c.missing = {}
    /\ c.bytes = TotalBytes(c.available, DOMAIN c.available)

InLimits(c) == WithinLimits(c) /\ Len(c.orderMissing) <= CacheLimit

(* What leaves takes its bytes along.                                       *)
BytesAreSplit(pics, S, gone) ==
    /\ TotalBytes(Restricted(pics, S \ gone), S \ gone) =
           TotalBytes(pics, S) - TotalBytes(pics, gone)
    /\ TotalBytes(pics, S) \in Nat /\ TotalBytes(pics, gone) \in Nat
    /\ TotalBytes(pics, S \ gone) \in Nat
    /\ TotalBytes(pics, S) = TotalBytes(pics, S \ gone) + TotalBytes(pics, gone)

LEMMA BytesLeave ==
    ASSUME NEW pics, NEW S, NEW gone, gone \subseteq S, IsFiniteSet(S), Sized(pics, S)
    PROVE  BytesAreSplit(pics, S, gone)
<1> DEFINE stay == S \ gone
<1>1. stay \in SUBSET S /\ stay \cap gone = {} /\ stay \cup gone = S
  OBVIOUS
<1>2. \A u \in stay : Restricted(pics, stay)[u] = pics[u]
  BY DEF Restricted
<1> HIDE DEF stay
<1>3. IsFiniteSet(stay) /\ IsFiniteSet(gone) /\ Sized(pics, stay)
  BY <1>1, FS_Subset DEF Sized
<1>4. /\ TotalBytes(pics, stay) \in Nat /\ TotalBytes(pics, gone) \in Nat
      /\ TotalBytes(pics, S) = TotalBytes(pics, stay) + TotalBytes(pics, gone)
  BY <1>1, <1>3, TotalsAdd
<1>5. TotalBytes(Restricted(pics, stay), stay) = TotalBytes(pics, stay)
  BY <1>2, <1>3, TotalsAgree
<1>6. QED
  BY <1>4, <1>5 DEF stay, BytesAreSplit

LEMMA WithoutIsShorter ==
    ASSUME NEW S, NEW order, IsOrderOf(order, S), NEW uid
    PROVE  Len(WithoutUid(order, uid)) <= Len(order)
<1>1. IsOrderOf(WithoutUid(order, uid), S \ {uid})
  BY WithoutIsOrder
<1>2. /\ IsFiniteSet(S) /\ Cardinality(S) = Len(order)
      /\ Cardinality(S \ {uid}) = Len(WithoutUid(order, uid))
  BY <1>1, OrderCounts
<1>3. QED
  BY <1>2, FS_Subset

LEMMA ForgetBooks ==
    ASSUME NEW c, Booked(c), NEW uid
    PROVE  /\ Booked(Forget(c, uid))
           /\ InLimits(c) => InLimits(Forget(c, uid))
           /\ DOMAIN Forget(c, uid).available = DOMAIN c.available \ {uid}
           /\ Forget(c, uid).missing = c.missing \ {uid}
           /\ Forget(c, uid).orderAvailable = WithoutUid(c.orderAvailable, uid)
           /\ Forget(c, uid).orderMissing = WithoutUid(c.orderMissing, uid)
<1> DEFINE d == Forget(c, uid)
           S == DOMAIN c.available
           gone == S \cap {uid}
<1>1. /\ d.available = Restricted(c.available, S \ {uid})
      /\ d.missing = c.missing \ {uid}
      /\ d.orderAvailable = WithoutUid(c.orderAvailable, uid)
      /\ d.orderMissing = WithoutUid(c.orderMissing, uid)
      /\ d.bytes = c.bytes - TotalBytes(c.available, gone)
      /\ HasFields(d)
  BY DEF Forget, HasFields
<1>2. DOMAIN d.available = S \ {uid} /\ \A u \in S \ {uid} : d.available[u] = c.available[u]
  BY <1>1 DEF Restricted
<1>3. S \ {uid} = S \ gone /\ gone \in SUBSET S
  OBVIOUS
<1> HIDE DEF d
<1>4. IsOrderOf(d.orderAvailable, DOMAIN d.available) /\ IsOrderOf(d.orderMissing, d.missing)
  BY <1>1, <1>2, WithoutIsOrder DEF Booked
<1>5. Sized(d.available, DOMAIN d.available)
  BY <1>2 DEF Booked, Sized
<1>6. DOMAIN d.available \cap d.missing = {}
  BY <1>1, <1>2 DEF Booked
<1>7. IsFiniteSet(S) /\ Sized(c.available, S) /\ c.bytes = TotalBytes(c.available, S)
  BY OrderCounts DEF Booked
<1> HIDE DEF S, gone
<1>8. /\ d.bytes = TotalBytes(d.available, DOMAIN d.available)
      /\ d.bytes \in Nat /\ c.bytes \in Nat /\ d.bytes <= c.bytes
  <2>1. BytesAreSplit(c.available, S, gone)
    BY <1>3, <1>7, BytesLeave
  <2>2. /\ d.bytes = TotalBytes(c.available, S) - TotalBytes(c.available, gone)
        /\ TotalBytes(d.available, DOMAIN d.available) =
               TotalBytes(Restricted(c.available, S \ gone), S \ gone)
    BY <1>1, <1>2, <1>3, <1>7
  <2>3. QED
    BY <1>7, <2>1, <2>2 DEF BytesAreSplit
<1>9. Booked(d)
  BY <1>1, <1>4, <1>5, <1>6, <1>8 DEF Booked
<1>10. ASSUME InLimits(c) PROVE InLimits(d)
  <2>1. /\ Len(d.orderAvailable) <= Len(c.orderAvailable)
        /\ Len(d.orderMissing) <= Len(c.orderMissing)
    BY <1>1, WithoutIsShorter DEF Booked
  <2>2. /\ Len(d.orderAvailable) \in Nat /\ Len(c.orderAvailable) \in Nat
        /\ Len(d.orderMissing) \in Nat /\ Len(c.orderMissing) \in Nat
    BY <1>4 DEF Booked, IsOrderOf
  <2>3. QED
    BY <1>8, <1>10, <2>1, <2>2, LimitsAssumption DEF InLimits, WithinLimits
<1>11. QED
  BY <1>1, <1>2, <1>9, <1>10 DEF d, S

(* The end of an order is an order of what is not before it.                *)
LEMMA EndIsOrder ==
    ASSUME NEW S, NEW order, IsOrderOf(order, S), NEW n \in 0..Len(order)
    PROVE  LET rest == SubSeq(order, n + 1, Len(order))
               gone == Elements(SubSeq(order, 1, n))
           IN  /\ IsOrderOf(rest, S \ gone)
               /\ Len(rest) = Len(order) - n
               /\ \A i \in 1..Len(rest) : rest[i] = order[n + i]
               /\ gone = {order[i] : i \in 1..n}
               /\ TakenFrom(rest, order)
<1> DEFINE rest == SubSeq(order, n + 1, Len(order))
           begun == SubSeq(order, 1, n)
           gone == {order[i] : i \in 1..n}
<1>1. order \in Seq(S) /\ Len(order) \in Nat /\ n \in Nat
  BY DEF IsOrderOf
<1>2. /\ rest \in Seq(S) /\ Len(rest) = Len(order) - n
      /\ \A i \in 1..Len(rest) : rest[i] = order[n + i]
  BY <1>1
<1>3. /\ begun \in Seq(S) /\ Len(begun) = n
      /\ \A i \in 1..n : begun[i] = order[i]
  BY <1>1
<1>4. Elements(begun) = gone
  <2>1. DOMAIN begun = 1..n
    BY <1>3
  <2> HIDE DEF begun
  <2>2. QED
    BY <1>3, <2>1 DEF Elements
<1>5. gone \subseteq S
  BY <1>1
<1>6. \A i \in 1..Len(order) : order[i] \in gone <=> i <= n
  <2>1. ASSUME NEW i \in 1..Len(order), order[i] \in gone PROVE i <= n
    <3>1. PICK j \in 1..n : order[i] = order[j]
      BY <2>1
    <3>2. j \in 1..Len(order)
      BY <1>1
    <3>3. i = j
      BY <3>1, <3>2 DEF IsOrderOf
    <3>4. QED
      BY <1>1, <3>3
  <2>2. \A i \in 1..Len(order) : i <= n => order[i] \in gone
    BY <1>1
  <2>3. QED
    BY <2>1, <2>2
<1> HIDE DEF rest, begun, gone
<1>7. \A i \in 1..Len(rest) : n + i \in 1..Len(order) /\ n + i > n
  BY <1>1, <1>2
<1>8. \A i \in 1..Len(rest) : rest[i] \in S \ gone
  <2>1. ASSUME NEW i \in 1..Len(rest) PROVE rest[i] \in S \ gone
    <3>1. n + i \in 1..Len(order) /\ ~(n + i <= n) /\ rest[i] = order[n + i]
      BY <1>1, <1>2, <1>7
    <3>2. order[n + i] \notin gone
      BY <1>6, <3>1
    <3>3. order[n + i] \in S
      BY <1>1, <3>1
    <3>4. QED
      BY <3>1, <3>2, <3>3
  <2>2. QED
    BY <2>1
<1>9. rest \in Seq(S \ gone)
  <2>1. Len(rest) \in Nat /\ DOMAIN rest = 1..Len(rest) /\ rest = [i \in 1..Len(rest) |-> rest[i]]
    BY <1>2
  <2>2. QED
    BY <1>8, <2>1
<1>10. ASSUME NEW u \in S \ gone PROVE \E i \in 1..Len(rest) : rest[i] = u
  <2>1. PICK j \in 1..Len(order) : order[j] = u
    BY DEF IsOrderOf
  <2>2. ~(j <= n)
    BY <1>6, <2>1
  <2>3. j - n \in 1..Len(rest) /\ n + (j - n) = j
    BY <1>1, <1>2, <2>2
  <2>4. rest[j - n] = order[j]
    BY <1>2, <2>3
  <2>5. QED
    BY <2>1, <2>3, <2>4
<1>11. ASSUME NEW i \in 1..Len(rest), NEW j \in 1..Len(rest), rest[i] = rest[j] PROVE i = j
  <2>1. n + i \in 1..Len(order) /\ n + j \in 1..Len(order) /\ order[n + i] = order[n + j]
    BY <1>2, <1>7, <1>11
  <2>2. n + i = n + j
    BY <2>1 DEF IsOrderOf
  <2>3. QED
    BY <1>1, <2>2
<1>12. IsOrderOf(rest, S \ gone)
  BY <1>9, <1>10, <1>11 DEF IsOrderOf
<1>13. TakenFrom(rest, order)
  <2>1. ASSUME NEW i \in 1..Len(rest), NEW j \in 1..Len(rest), i < j
        PROVE  \E p \in 1..Len(order), q \in 1..Len(order) :
                   p < q /\ rest[i] = order[p] /\ rest[j] = order[q]
    <3>1. n + i \in 1..Len(order) /\ n + j \in 1..Len(order) /\ n + i < n + j
      BY <1>1, <1>7, <2>1
    <3>2. QED
      BY <1>2, <3>1
  <2>2. QED
    BY <2>1 DEF TakenFrom
<1>14. QED
  BY <1>2, <1>4, <1>12, <1>13 DEF rest, begun, gone
LEMMA EvictBooks ==
    ASSUME NEW c, Booked(c), NEW n \in 0..Len(c.orderAvailable)
    PROVE  /\ Booked(Evict(c, n))
           /\ Evict(c, n).missing = c.missing
           /\ Evict(c, n).orderMissing = c.orderMissing
           /\ Evict(c, n).orderAvailable =
                  SubSeq(c.orderAvailable, n + 1, Len(c.orderAvailable))
           /\ DOMAIN Evict(c, n).available =
                  DOMAIN c.available \ {c.orderAvailable[i] : i \in 1..n}
           /\ n = Len(c.orderAvailable) => WithinLimits(Evict(c, n))
<1> DEFINE d == Evict(c, n)
           order == c.orderAvailable
           S == DOMAIN c.available
           gone == {order[i] : i \in 1..n}
<1>1. IsOrderOf(order, S) /\ Len(order) \in Nat /\ n \in Nat
  <2>1. IsOrderOf(order, S)
    BY DEF Booked
  <2>2. Len(order) \in Nat
    BY <2>1 DEF IsOrderOf
  <2>3. QED
    BY <2>1, <2>2
<1>2. /\ IsOrderOf(SubSeq(order, n + 1, Len(order)), S \ gone)
      /\ Len(SubSeq(order, n + 1, Len(order))) = Len(order) - n
      /\ Elements(SubSeq(order, 1, n)) = gone
  <2>1. n \in 0..Len(order)
    OBVIOUS
  <2> HIDE DEF order, S
  <2>2. /\ IsOrderOf(SubSeq(order, n + 1, Len(order)), S \ Elements(SubSeq(order, 1, n)))
        /\ Len(SubSeq(order, n + 1, Len(order))) = Len(order) - n
        /\ \A i \in 1..Len(SubSeq(order, n + 1, Len(order))) :
               SubSeq(order, n + 1, Len(order))[i] = order[n + i]
        /\ Elements(SubSeq(order, 1, n)) = {order[i] : i \in 1..n}
        /\ TakenFrom(SubSeq(order, n + 1, Len(order)), order)
    BY <1>1, <2>1, EndIsOrder, Zenon
  <2>3. QED
    BY <2>2
<1>3. gone \subseteq S
  BY <1>1 DEF IsOrderOf
<1>4. Elements(SubSeq(order, 1, n)) \cap S = gone
  BY <1>2, <1>3
<1>5. /\ d.available = Restricted(c.available, S \ gone)
      /\ d.missing = c.missing
      /\ d.orderAvailable = SubSeq(order, n + 1, Len(order))
      /\ d.orderMissing = c.orderMissing
      /\ d.bytes = c.bytes - TotalBytes(c.available, gone)
      /\ HasFields(d)
  BY <1>4 DEF Evict, Booked, HasFields
<1>6. DOMAIN d.available = S \ gone /\ \A u \in S \ gone : d.available[u] = c.available[u]
  BY <1>5 DEF Restricted
<1>7. IsFiniteSet(S) /\ Sized(c.available, S) /\ c.bytes = TotalBytes(c.available, S)
  BY OrderCounts DEF Booked
<1>8. n = Len(order) => S \ gone = {}
  BY <1>1 DEF IsOrderOf
<1> HIDE DEF d, order, S, gone
<1>9. /\ TotalBytes(Restricted(c.available, S \ gone), S \ gone) =
             TotalBytes(c.available, S) - TotalBytes(c.available, gone)
      /\ TotalBytes(c.available, S \ gone) \in Nat
  <2>1. BytesAreSplit(c.available, S, gone)
    BY <1>3, <1>7, BytesLeave
  <2>2. QED
    BY <2>1 DEF BytesAreSplit
<1>10. d.bytes = TotalBytes(d.available, DOMAIN d.available)
  BY <1>5, <1>6, <1>7, <1>9
<1>11. IsOrderOf(d.orderAvailable, DOMAIN d.available)
  BY <1>2, <1>5, <1>6
<1>12. Sized(d.available, DOMAIN d.available)
  BY <1>6, <1>7 DEF Sized
<1>13. IsOrderOf(d.orderMissing, d.missing) /\ DOMAIN d.available \cap d.missing = {}
  BY <1>5, <1>6 DEF Booked, S
<1>14. Booked(d)
  BY <1>5, <1>10, <1>11, <1>12, <1>13 DEF Booked
<1>15. ASSUME n = Len(order) PROVE WithinLimits(d)
  <2>1. Len(d.orderAvailable) = 0
    BY <1>1, <1>2, <1>5, <1>15
  <2>2. d.bytes = 0
    BY <1>6, <1>8, <1>10, <1>15, TotalOfFew
  <2>3. QED
    BY <2>1, <2>2, LimitsAssumption DEF WithinLimits
<1>16. QED
  BY <1>5, <1>6, <1>14, <1>15 DEF d, order, S, gone

(* The loop ends within the limits, at the latest when nothing is left.     *)
LEMMA EvictionEnds ==
    ASSUME NEW c, Booked(c)
    PROVE  \E n \in 0..Len(c.orderAvailable) :
               EvictUntilItFits(c) = Evict(c, n) /\ WithinLimits(Evict(c, n))
<1> DEFINE Fits == {n \in 0..Len(c.orderAvailable) : WithinLimits(Evict(c, n))}
           least == CHOOSE n \in 0..Len(c.orderAvailable) :
                        /\ WithinLimits(Evict(c, n))
                        /\ \A m \in 0..(n - 1) : ~WithinLimits(Evict(c, m))
<1>1. Len(c.orderAvailable) \in Nat
  BY DEF Booked, IsOrderOf
<1>2. Len(c.orderAvailable) \in Fits
  BY <1>1, EvictBooks
<1>3. \A n : n \in Fits <=> n \in 0..Len(c.orderAvailable) /\ WithinLimits(Evict(c, n))
  OBVIOUS
<1> HIDE DEF Fits
<1>4. Fits \subseteq Nat /\ Fits # {}
  BY <1>1, <1>2, <1>3
<1>5. PICK n \in Fits : \A m \in Fits : n <= m
  BY <1>4, LeastNumber
<1>6. \A m \in 0..(n - 1) : ~WithinLimits(Evict(c, m))
  <2>1. n \in Nat /\ n <= Len(c.orderAvailable)
    BY <1>1, <1>3, <1>5
  <2>2. ASSUME NEW m \in 0..(n - 1) PROVE m \notin Fits /\ m \in 0..Len(c.orderAvailable)
    BY <1>1, <1>5, <2>1
  <2>3. QED
    BY <1>3, <2>2
<1>7. n \in 0..Len(c.orderAvailable) /\ WithinLimits(Evict(c, n))
  BY <1>3, <1>5
<1>8. least \in 0..Len(c.orderAvailable) /\ WithinLimits(Evict(c, least))
  BY <1>6, <1>7
<1>9. EvictUntilItFits(c) = Evict(c, least)
  BY DEF EvictUntilItFits
<1> HIDE DEF least
<1>10. QED
  BY <1>8, <1>9

(* A picture enters the books of a cache that has nothing of its uid.       *)
LEMMA EnterBooks ==
    ASSUME NEW c, Booked(c), NEW uid, uid \notin DOMAIN c.available, uid \notin c.missing,
           \A i \in 1..Len(c.orderAvailable) : c.orderAvailable[i] # uid,
           NEW image, image.bytes \in Nat, NEW d, HasFields(d),
           d.available = [u \in DOMAIN c.available \cup {uid} |->
                             IF u = uid THEN image ELSE c.available[u]],
           d.missing = c.missing, d.orderMissing = c.orderMissing,
           d.orderAvailable = Append(c.orderAvailable, uid),
           d.bytes = c.bytes + image.bytes
    PROVE  Booked(d)
<1> DEFINE S == DOMAIN c.available
           order == c.orderAvailable
<1>1. /\ DOMAIN d.available = S \cup {uid} /\ d.available[uid] = image
      /\ \A u \in S : d.available[u] = c.available[u]
  OBVIOUS
<1>2. Sized(d.available, S \cup {uid}) /\ Sized(c.available, S)
  BY <1>1 DEF Booked, Sized
<1>3. IsFiniteSet(S) /\ IsFiniteSet({uid}) /\ S \cap {uid} = {}
  BY OrderCounts, FS_Singleton DEF Booked
<1>4. c.bytes = TotalBytes(c.available, S) /\ IsOrderOf(order, S)
  BY DEF Booked
<1> HIDE DEF S
<1>5. /\ TotalBytes(d.available, S \cup {uid}) =
             TotalBytes(d.available, S) + TotalBytes(d.available, {uid})
  BY <1>2, <1>3, TotalsAdd
<1>6. TotalBytes(d.available, {uid}) = image.bytes
  BY <1>1, TotalOfFew
<1>7. TotalBytes(d.available, S) = TotalBytes(c.available, S)
  BY <1>1, <1>2, <1>3, TotalsAgree
<1>8. d.bytes = TotalBytes(d.available, DOMAIN d.available)
  BY <1>1, <1>4, <1>5, <1>6, <1>7
<1>9. IsOrderOf(d.orderAvailable, S \cup {uid})
  BY <1>4, LastIsOrder
<1>10. QED
  BY <1>1, <1>2, <1>8, <1>9 DEF Booked, S
LEMMA OrdersOfOneSet ==
    ASSUME NEW S, NEW one, NEW other, IsOrderOf(one, S), IsOrderOf(other, S)
    PROVE  Len(one) = Len(other)
BY OrderCounts

(* get keeps the books.                                                     *)
LEMMA TouchBooks ==
    ASSUME NEW c, Booked(c), InLimits(c), NEW uid, Cached(c, uid)
    PROVE  /\ Booked(Touch(c, uid)) /\ InLimits(Touch(c, uid))
           /\ Touch(c, uid).available = c.available
           /\ Touch(c, uid).missing = c.missing
           /\ Touch(c, uid).orderAvailable \in
                  {c.orderAvailable, Append(WithoutUid(c.orderAvailable, uid), uid)}
<1> DEFINE d == Touch(c, uid)
<1>1. CASE uid \in DOMAIN c.available
  <2>1. /\ d.available = c.available /\ d.missing = c.missing /\ d.bytes = c.bytes
        /\ d.orderMissing = c.orderMissing /\ HasFields(d)
        /\ d.orderAvailable = Append(WithoutUid(c.orderAvailable, uid), uid)
    BY <1>1 DEF Touch, Booked, HasFields
  <2> HIDE DEF d
  <2>2. IsOrderOf(d.orderAvailable, DOMAIN c.available \cup {uid})
    BY <2>1, UseIsOrder DEF Booked
  <2>3. DOMAIN c.available \cup {uid} = DOMAIN c.available
    BY <1>1
  <2>4. IsOrderOf(d.orderAvailable, DOMAIN c.available)
    BY <2>2, <2>3
  <2>5. Len(d.orderAvailable) = Len(c.orderAvailable)
    BY <2>4, OrdersOfOneSet DEF Booked
  <2>6. Booked(d) /\ InLimits(d)
    BY <2>1, <2>4, <2>5 DEF Booked, InLimits, WithinLimits
  <2>7. QED
    BY <2>1, <2>6 DEF d
<1>2. CASE uid \notin DOMAIN c.available
  <2>1. /\ d.available = c.available /\ d.missing = c.missing /\ d.bytes = c.bytes
        /\ d.orderAvailable = c.orderAvailable /\ HasFields(d)
        /\ d.orderMissing = Append(WithoutUid(c.orderMissing, uid), uid)
    BY <1>2 DEF Touch, Booked, HasFields
  <2> HIDE DEF d
  <2>2. IsOrderOf(d.orderMissing, c.missing \cup {uid})
    BY <2>1, UseIsOrder DEF Booked
  <2>3. c.missing \cup {uid} = c.missing
    BY <1>2 DEF Cached
  <2>4. IsOrderOf(d.orderMissing, c.missing)
    BY <2>2, <2>3
  <2>5. Len(d.orderMissing) = Len(c.orderMissing)
    BY <2>4, OrdersOfOneSet DEF Booked
  <2>6. Booked(d) /\ InLimits(d)
    BY <2>1, <2>4, <2>5 DEF Booked, InLimits, WithinLimits
  <2>7. QED
    BY <2>1, <2>6 DEF d
<1>3. QED
  BY <1>1, <1>2

(* put of an absence keeps the books: the absence that has not been asked   *)
(* for longest leaves if there are too many.                                *)
LEMMA AbsenceBooks ==
    ASSUME NEW c, Booked(c), InLimits(c), NEW uid,
           uid \notin DOMAIN c.available, uid \notin c.missing
    PROVE  /\ Booked(PutAbsence(c, uid)) /\ InLimits(PutAbsence(c, uid))
           /\ PutAbsence(c, uid).available = c.available
           /\ PutAbsence(c, uid).missing \subseteq c.missing \cup {uid}
           /\ PutAbsence(c, uid).orderAvailable = c.orderAvailable
<1> DEFINE d == PutAbsence(c, uid)
           order == Append(c.orderMissing, uid)
           S == c.missing \cup {uid}
           excess == IF Len(order) > CacheLimit THEN Len(order) - CacheLimit ELSE 0
<1>1. IsOrderOf(c.orderMissing, c.missing)
  BY DEF Booked
<1>2. \A i \in 1..Len(c.orderMissing) : c.orderMissing[i] # uid
  BY <1>1 DEF IsOrderOf
<1>3. IsOrderOf(order, S)
  BY <1>1, <1>2, LastIsOrder
<1>4. /\ d.available = c.available /\ d.orderAvailable = c.orderAvailable /\ d.bytes = c.bytes
      /\ d.missing = S \ Elements(SubSeq(order, 1, excess))
      /\ d.orderMissing = SubSeq(order, excess + 1, Len(order))
      /\ HasFields(d)
  BY DEF PutAbsence, Booked, HasFields
<1> HIDE DEF d, order
<1>5. Len(order) \in Nat
  BY <1>3 DEF IsOrderOf
<1>6. excess \in 0..Len(order) /\ Len(order) - excess <= CacheLimit
  BY <1>5, LimitsAssumption
<1> HIDE DEF excess
<1>7. IsOrderOf(d.orderMissing, d.missing) /\ Len(d.orderMissing) = Len(order) - excess
  BY <1>3, <1>4, <1>6, EndIsOrder
<1>8. DOMAIN c.available \cap S = {}
  BY DEF Booked
<1>9. DOMAIN d.available \cap d.missing = {} /\ d.missing \subseteq S
  BY <1>4, <1>8
<1>10. Booked(d)
  BY <1>4, <1>7, <1>9 DEF Booked
<1>11. InLimits(d)
  BY <1>4, <1>6, <1>7 DEF InLimits, WithinLimits
<1>12. QED
  BY <1>4, <1>9, <1>10, <1>11 DEF d

(* What leaves is the beginning of the order.                               *)
BeginningLeaves(d, order, S) ==
    \E n \in 0..Len(order) :
        /\ d.orderAvailable = SubSeq(order, n + 1, Len(order))
        /\ DOMAIN d.available = S \ {order[i] : i \in 1..n}

(* put of a picture that may be kept.                                       *)
LEMMA ImageBooks ==
    ASSUME NEW c, Booked(c), InLimits(c), NEW uid,
           uid \notin DOMAIN c.available, uid \notin c.missing,
           NEW image, image.bytes \in Nat, ~(image.bytes > ByteLimit)
    PROVE  /\ Booked(PutImage(c, uid, image)) /\ InLimits(PutImage(c, uid, image))
           /\ PutImage(c, uid, image).missing = c.missing
           /\ BeginningLeaves(PutImage(c, uid, image), Append(c.orderAvailable, uid),
                              DOMAIN c.available \cup {uid})
<1> DEFINE order == Append(c.orderAvailable, uid)
           e == [c EXCEPT !.available = [u \in DOMAIN @ \cup {uid} |->
                                            IF u = uid THEN image ELSE @[u]],
                          !.orderAvailable = Append(@, uid),
                          !.bytes = @ + image.bytes]
<1>1. /\ e.available = [u \in DOMAIN c.available \cup {uid} |->
                           IF u = uid THEN image ELSE c.available[u]]
      /\ e.missing = c.missing /\ e.orderMissing = c.orderMissing
      /\ e.orderAvailable = order
      /\ e.bytes = c.bytes + image.bytes
      /\ HasFields(e)
  BY DEF Booked, HasFields
<1>2. PutImage(c, uid, image) = EvictUntilItFits(e)
  BY DEF PutImage
<1>3. DOMAIN e.available = DOMAIN c.available \cup {uid}
  BY <1>1
<1>4. \A i \in 1..Len(c.orderAvailable) : c.orderAvailable[i] # uid
  BY DEF Booked, IsOrderOf
<1> HIDE DEF e
<1>5. Booked(e)
  BY <1>1, <1>4, EnterBooks
<1> HIDE DEF order
<1>6. PICK n \in 0..Len(order) :
          EvictUntilItFits(e) = Evict(e, n) /\ WithinLimits(Evict(e, n))
  BY <1>1, <1>5, EvictionEnds
<1> DEFINE d == Evict(e, n)
<1>7. /\ Booked(d) /\ d.missing = c.missing /\ d.orderMissing = c.orderMissing
      /\ d.orderAvailable = SubSeq(order, n + 1, Len(order))
      /\ DOMAIN d.available = (DOMAIN c.available \cup {uid}) \ {order[i] : i \in 1..n}
  <2>1. n \in 0..Len(e.orderAvailable)
    BY <1>1
  <2>2. /\ Booked(Evict(e, n)) /\ Evict(e, n).missing = e.missing
        /\ Evict(e, n).orderMissing = e.orderMissing
    BY <1>5, <2>1, EvictBooks
  <2>3. Evict(e, n).orderAvailable = SubSeq(e.orderAvailable, n + 1, Len(e.orderAvailable))
    BY <1>5, <2>1, EvictBooks
  <2>4. DOMAIN Evict(e, n).available = DOMAIN e.available \ {e.orderAvailable[i] : i \in 1..n}
    BY <1>5, <2>1, EvictBooks
  <2>5. QED
    BY <1>1, <1>3, <2>2, <2>3, <2>4
<1> HIDE DEF d
<1>8. InLimits(d)
  BY <1>6, <1>7 DEF InLimits, d
<1>9. PutImage(c, uid, image) = d
  BY <1>2, <1>6 DEF d
<1>10. BeginningLeaves(d, order, DOMAIN c.available \cup {uid})
  BY <1>7 DEF BeginningLeaves
<1>11. QED
  BY <1>7, <1>8, <1>9, <1>10 DEF order
(* put keeps the books.                                                     *)
LEMMA PutBooks ==
    ASSUME NEW c, Booked(c), InLimits(c), NEW uid,
           NEW value \in [bytes : ImageSizes] \cup {Nothing}
    PROVE  LET d == Put(c, uid, value)
               rest == WithoutUid(c.orderAvailable, uid)
               order == Append(rest, uid)
           IN  /\ Booked(d) /\ InLimits(d)
               /\ d.missing \subseteq c.missing \cup {uid}
               /\ \/ d.orderAvailable = rest /\ DOMAIN d.available = DOMAIN c.available \ {uid}
                  \/ BeginningLeaves(d, order, DOMAIN c.available \cup {uid})
<1> DEFINE d == Put(c, uid, value)
           f == Forget(c, uid)
           rest == WithoutUid(c.orderAvailable, uid)
           order == Append(rest, uid)
<1>1. /\ Booked(f) /\ InLimits(f)
      /\ DOMAIN f.available = DOMAIN c.available \ {uid}
      /\ f.missing = c.missing \ {uid}
      /\ f.orderAvailable = rest
  BY ForgetBooks
<1> HIDE DEF f
<1>2. uid \notin DOMAIN f.available /\ uid \notin f.missing
  BY <1>1
<1> HIDE DEF rest
<1>3. CASE value = Nothing
  <2>1. d = PutAbsence(f, uid)
    BY <1>3 DEF Put, f
  <2> HIDE DEF d
  <2>2. /\ Booked(d) /\ InLimits(d) /\ d.available = f.available
        /\ d.missing \subseteq f.missing \cup {uid} /\ d.orderAvailable = f.orderAvailable
    BY <1>1, <1>2, <2>1, AbsenceBooks
  <2>3. QED
    BY <1>1, <2>2 DEF d, rest
<1>4. CASE value # Nothing
  <2>1. d = PutImage(f, uid, value) /\ value.bytes \in Nat
    BY <1>4, ImageSizesAssumption DEF Put, f
  <2> HIDE DEF d
  <2>2. CASE value.bytes > ByteLimit
    <3>1. d = f
      BY <2>1, <2>2 DEF PutImage
    <3>2. QED
      BY <1>1, <3>1 DEF d, rest
  <2>3. CASE ~(value.bytes > ByteLimit)
    <3>1. /\ Booked(d) /\ InLimits(d) /\ d.missing = f.missing
          /\ BeginningLeaves(d, order, DOMAIN f.available \cup {uid})
      <4>1. order = Append(f.orderAvailable, uid)
        BY <1>1
      <4> HIDE DEF order
      <4>2. QED
        BY <1>1, <1>2, <2>1, <2>3, <4>1, ImageBooks
    <3>2. DOMAIN f.available \cup {uid} = DOMAIN c.available \cup {uid}
      BY <1>1
    <3>3. d.missing \subseteq c.missing \cup {uid}
      BY <1>1, <3>1
    <3> HIDE DEF order
    <3>4. QED
      BY <3>1, <3>2, <3>3 DEF d, order, rest
  <2>4. QED
    BY <2>2, <2>3
<1>5. QED
  BY <1>3, <1>4

-----------------------------------------------------------------------------
(* The inductive invariant: the books, and what is cached was used, in the  *)
(* order in which it would leave.                                           *)
CacheInv ==
    /\ Booked(images)
    /\ InLimits(images)
    /\ IsOrderOf(used, Elements(used))
    /\ DOMAIN images.available \cup images.missing \subseteq Elements(used)
    /\ OldestFirst(images.orderAvailable, used)

LEMMA EmptyIsBooked ==
    /\ Booked(EmptyCache) /\ InLimits(EmptyCache)
    /\ DOMAIN EmptyCache.available = {} /\ EmptyCache.missing = {}
    /\ Len(EmptyCache.orderAvailable) = 0
<1> DEFINE c == EmptyCache
<1>1. /\ DOMAIN c.available = {} /\ c.missing = {} /\ c.bytes = 0 /\ HasFields(c)
      /\ c.orderAvailable = <<>> /\ c.orderMissing = <<>>
  BY DEF EmptyCache, HasFields
<1> HIDE DEF c
<1>2. \A S : S = {} => IsOrderOf(<<>>, S)
  BY DEF IsOrderOf
<1>3. TotalBytes(c.available, DOMAIN c.available) = 0
  BY <1>1, TotalOfFew
<1>4. Booked(c)
  BY <1>1, <1>2, <1>3 DEF Booked, Sized
<1>5. Len(c.orderAvailable) = 0 /\ Len(c.orderMissing) = 0
  BY <1>1
<1>6. InLimits(c)
  BY <1>1, <1>5, LimitsAssumption DEF InLimits, WithinLimits
<1>7. QED
  BY <1>1, <1>4, <1>5, <1>6 DEF c

LEMMA NothingIsOld ==
    ASSUME NEW order, NEW history, Len(order) = 0
    PROVE  OldestFirst(order, history)
BY DEF OldestFirst

LEMMA CacheStarts == ImageInit => CacheInv
<1>1. SUFFICES ASSUME ImageInit PROVE CacheInv
  OBVIOUS
<1>2. images = EmptyCache /\ used = <<>>
  BY <1>1 DEF ImageInit
<1>3. IsOrderOf(used, Elements(used))
  BY <1>2 DEF IsOrderOf, Elements
<1>4. QED
  BY <1>2, <1>3, EmptyIsBooked, NothingIsOld DEF CacheInv

(* The history of all uses after one more.                                  *)
LEMMA UseIsHistory ==
    ASSUME CacheInv, NEW uid, Using(uid)
    PROVE  /\ IsOrderOf(used', Elements(used)')
           /\ Elements(used)' = Elements(used) \cup {uid}
           /\ Len(used)' \in Nat \ {0}
           /\ used'[Len(used')] = uid
<1> DEFINE U == Elements(used)
           past == WithoutUid(used, uid)
<1>1. IsOrderOf(used, U) /\ used' = Append(past, uid)
  BY DEF CacheInv, Using
<1> HIDE DEF U
<1>2. IsOrderOf(used', U \cup {uid})
  BY <1>1, UseIsOrder
<1>3. Elements(used)' = U \cup {uid}
  BY <1>2, OrderCounts DEF Elements
<1>4. past \in Seq(U \ {uid})
  BY <1>1, WithoutIsOrder DEF IsOrderOf
<1> HIDE DEF past
<1>5. Len(past) \in Nat /\ Len(used') = Len(past) + 1 /\ used'[Len(past) + 1] = uid
  BY <1>1, <1>4
<1>6. QED
  BY <1>2, <1>3, <1>5 DEF U

LEMMA AgeAfterUse ==
    ASSUME CacheInv, NEW uid, Using(uid)
    PROVE  LET rest == WithoutUid(images.orderAvailable, uid)
           IN  OldestFirst(rest, used') /\ OldestFirst(Append(rest, uid), used')
<1> DEFINE S == DOMAIN images.available
           U == Elements(used)
           order == images.orderAvailable
           rest == WithoutUid(order, uid)
           past == WithoutUid(used, uid)
<1>1. /\ IsOrderOf(used, U) /\ used' = Append(past, uid)
      /\ IsOrderOf(order, S) /\ S \subseteq U /\ OldestFirst(order, used)
  BY DEF CacheInv, Booked, Using
<1> HIDE DEF S, U, order
<1>2. IsOrderOf(rest, S \ {uid}) /\ \A i \in 1..Len(rest) : rest[i] # uid
  BY <1>1, WithoutIsOrder
<1>3. IsOrderOf(past, U \ {uid}) /\ \A i \in 1..Len(past) : past[i] # uid
  BY <1>1, WithoutIsOrder
<1>4. OldestFirst(rest, used)
  BY <1>1, WithoutIsTaken, AgeOfTaken DEF IsOrderOf
<1> HIDE DEF rest
<1>5. ASSUME NEW i \in 1..Len(rest)
      PROVE  rest[i] # uid /\ \E a \in 1..Len(used) : used[a] = rest[i]
  <2>1. rest \in Seq(S \ {uid})
    BY <1>2 DEF IsOrderOf
  <2>2. rest[i] \in S
    BY <2>1
  <2>3. QED
    BY <1>1, <1>2, <2>2 DEF IsOrderOf
<1>6. used \in Seq(U)
  BY <1>1 DEF IsOrderOf
<1>7. OldestFirst(rest, used')
  BY <1>1, <1>4, <1>5, <1>6, AgeInHistory
<1> HIDE DEF past
<1>8. rest \in Seq(S \ {uid}) /\ past \in Seq(U \ {uid})
  BY <1>2, <1>3 DEF IsOrderOf
<1>9. OldestFirst(rest, Append(past, uid))
  BY <1>1, <1>7
<1>10. OldestFirst(Append(rest, uid), Append(past, uid))
  BY <1>2, <1>3, <1>8, <1>9, AgeOfUsed
<1>11. QED
  BY <1>1, <1>7, <1>10 DEF rest, order

LEMMA GetKeepsBooks ==
    ASSUME CacheInv, NEW uid \in Uids, GetImage(uid)
    PROVE  CacheInv' /\ DOMAIN images'.available = DOMAIN images.available
<1>1. Cached(images, uid) /\ images' = Touch(images, uid) /\ Using(uid)
  BY DEF GetImage
<1>2. /\ Booked(images') /\ InLimits(images')
      /\ images'.available = images.available /\ images'.missing = images.missing
      /\ images'.orderAvailable \in
             {images.orderAvailable, Append(WithoutUid(images.orderAvailable, uid), uid)}
  BY <1>1, TouchBooks DEF CacheInv
<1>3. OldestFirst(Append(WithoutUid(images.orderAvailable, uid), uid), used')
  BY <1>1, AgeAfterUse
<1>4. ASSUME uid \notin DOMAIN images.available
      PROVE  OldestFirst(images.orderAvailable, used')
  <2> DEFINE U == Elements(used)
             order == images.orderAvailable
  <2>1. IsOrderOf(used, U) /\ used' = Append(WithoutUid(used, uid), uid)
        /\ IsOrderOf(order, DOMAIN images.available) /\ DOMAIN images.available \subseteq U
        /\ OldestFirst(order, used)
    BY <1>1 DEF CacheInv, Booked, Using
  <2> HIDE DEF U, order
  <2>2. ASSUME NEW i \in 1..Len(order)
        PROVE  order[i] # uid /\ \E a \in 1..Len(used) : used[a] = order[i]
    <3>1. order \in Seq(DOMAIN images.available)
      BY <2>1 DEF IsOrderOf
    <3>2. order[i] \in DOMAIN images.available
      BY <3>1
    <3>3. QED
      BY <1>4, <2>1, <3>2 DEF IsOrderOf
  <2>3. used \in Seq(U)
    BY <2>1 DEF IsOrderOf
  <2>4. OldestFirst(order, used')
    BY <2>1, <2>2, <2>3, AgeInHistory
  <2>5. QED
    BY <2>4 DEF order
<1>5. OldestFirst(images'.orderAvailable, used')
  <2>1. uid \in DOMAIN images.available =>
            images'.orderAvailable = Append(WithoutUid(images.orderAvailable, uid), uid)
    BY <1>1 DEF Touch, CacheInv, Booked, HasFields
  <2>2. QED
    BY <1>2, <1>3, <1>4, <2>1
<1>6. IsOrderOf(used', Elements(used)') /\ Elements(used)' = Elements(used) \cup {uid}
  BY <1>1, UseIsHistory
<1>7. DOMAIN images'.available \cup images'.missing \subseteq Elements(used)'
  BY <1>2, <1>6 DEF CacheInv
<1>8. QED
  BY <1>2, <1>5, <1>6, <1>7 DEF CacheInv

(* What a put does to the order, in terms of age.                           *)
LEMMA PutKeepsBooks ==
    ASSUME CacheInv, NEW uid \in Uids, PutRead(uid)
    PROVE  /\ CacheInv'
           /\ used'[Len(used')] = uid
           /\ \/ DOMAIN images.available \ DOMAIN images'.available \subseteq {uid}
              \/ \E order :
                    /\ OldestFirst(order, used')
                    /\ \E n \in 0..Len(order) :
                          /\ Len(order) \in Nat
                          /\ DOMAIN images.available \ DOMAIN images'.available
                                 \subseteq {order[i] : i \in 1..n}
                          /\ DOMAIN images'.available \subseteq
                                 {order[i] : i \in (n + 1)..Len(order)}
<1> DEFINE rest == WithoutUid(images.orderAvailable, uid)
           order == Append(rest, uid)
<1>1. PICK value \in [bytes : ImageSizes] \cup {Nothing} : images' = Put(images, uid, value)
  BY DEF PutRead
<1>2. Using(uid)
  BY DEF PutRead
<1>3. /\ Booked(images') /\ InLimits(images')
      /\ images'.missing \subseteq images.missing \cup {uid}
      /\ \/ /\ images'.orderAvailable = rest
            /\ DOMAIN images'.available = DOMAIN images.available \ {uid}
         \/ BeginningLeaves(images', order, DOMAIN images.available \cup {uid})
  <2>1. Booked(images) /\ InLimits(images)
    BY DEF CacheInv
  <2>2. LET d == Put(images, uid, value)
        IN  /\ Booked(d) /\ InLimits(d)
            /\ d.missing \subseteq images.missing \cup {uid}
            /\ \/ d.orderAvailable = rest /\ DOMAIN d.available = DOMAIN images.available \ {uid}
               \/ BeginningLeaves(d, order, DOMAIN images.available \cup {uid})
    BY <2>1, PutBooks
  <2>3. QED
    BY <1>1, <2>2
<1>4. OldestFirst(rest, used') /\ OldestFirst(order, used')
  BY <1>2, AgeAfterUse
<1>5. IsOrderOf(used', Elements(used)') /\ Elements(used)' = Elements(used) \cup {uid}
      /\ used'[Len(used')] = uid
  BY <1>2, UseIsHistory
<1>6. IsOrderOf(order, DOMAIN images.available \cup {uid})
  BY UseIsOrder DEF CacheInv, Booked
<1> HIDE DEF rest, order
<1>7. DOMAIN images'.available \cup images'.missing \subseteq Elements(used)'
  <2>1. DOMAIN images'.available \subseteq DOMAIN images.available \cup {uid}
    <3>1. ASSUME BeginningLeaves(images', order, DOMAIN images.available \cup {uid})
          PROVE  DOMAIN images'.available \subseteq DOMAIN images.available \cup {uid}
      BY <3>1 DEF BeginningLeaves
    <3>2. QED
      BY <1>3, <3>1
  <2>2. DOMAIN images.available \cup images.missing \subseteq Elements(used)
    BY DEF CacheInv
  <2>3. QED
    BY <1>3, <1>5, <2>1, <2>2
<1>8. CASE /\ images'.orderAvailable = rest
           /\ DOMAIN images'.available = DOMAIN images.available \ {uid}
  <2>1. CacheInv'
    BY <1>3, <1>4, <1>5, <1>7, <1>8 DEF CacheInv
  <2>2. QED
    BY <1>5, <1>8, <2>1
<1>9. CASE BeginningLeaves(images', order, DOMAIN images.available \cup {uid})
  <2>1. PICK n \in 0..Len(order) :
               /\ images'.orderAvailable = SubSeq(order, n + 1, Len(order))
               /\ DOMAIN images'.available =
                      (DOMAIN images.available \cup {uid}) \ {order[i] : i \in 1..n}
    BY <1>9 DEF BeginningLeaves
  <2>2. TakenFrom(SubSeq(order, n + 1, Len(order)), order)
    BY <1>6, EndIsOrder
  <2>3. OldestFirst(images'.orderAvailable, used')
    BY <1>4, <2>1, <2>2, AgeOfTaken
  <2>4. CacheInv'
    BY <1>3, <1>5, <1>7, <2>3 DEF CacheInv
  <2>5. Len(order) \in Nat
    BY <1>6 DEF IsOrderOf
  <2>6. DOMAIN images.available \ DOMAIN images'.available \subseteq {order[i] : i \in 1..n}
    BY <2>1
  <2>7. ASSUME NEW u \in DOMAIN images'.available
        PROVE  \E i \in (n + 1)..Len(order) : order[i] = u
    <3>1. PICK i \in 1..Len(order) : order[i] = u
      BY <1>6, <2>1 DEF IsOrderOf
    <3>2. i \notin 1..n
      BY <2>1, <3>1
    <3>3. i \in (n + 1)..Len(order)
      BY <2>5, <3>2
    <3>4. QED
      BY <3>1, <3>3
  <2>8. DOMAIN images'.available \subseteq {order[i] : i \in (n + 1)..Len(order)}
    BY <2>7
  <2>9. QED
    BY <1>4, <1>5, <2>4, <2>5, <2>6, <2>8
<1>10. QED
  BY <1>3, <1>8, <1>9

LEMMA ClearKeepsBooks ==
    ASSUME CacheInv, ClearImages
    PROVE  CacheInv' /\ DOMAIN images'.available = {}
<1>1. images' = EmptyCache /\ used' = used
  BY DEF ClearImages
<1>2. Booked(images') /\ InLimits(images') /\ DOMAIN images'.available = {}
      /\ images'.missing = {} /\ Len(images'.orderAvailable) = 0
  BY <1>1, EmptyIsBooked
<1>3. Elements(used)' = Elements(used)
  BY <1>1 DEF Elements
<1>4. QED
  BY <1>1, <1>2, <1>3, NothingIsOld DEF CacheInv

LEMMA BooksAreAccounted == CacheInv => Accounted
<1>1. SUFFICES ASSUME CacheInv PROVE Accounted
  OBVIOUS
<1>2. IsOrderOf(images.orderAvailable, DOMAIN images.available)
      /\ IsOrderOf(images.orderMissing, images.missing)
  BY <1>1 DEF CacheInv, Booked
<1>3. /\ Cardinality(DOMAIN images.available) = Len(images.orderAvailable)
      /\ Elements(images.orderAvailable) = DOMAIN images.available
      /\ Cardinality(images.missing) = Len(images.orderMissing)
      /\ Elements(images.orderMissing) = images.missing
  BY <1>2, OrderCounts
<1>4. QED
  BY <1>1, <1>3 DEF CacheInv, Booked, InLimits, Accounted

LEMMA FewLeave ==
    ASSUME DOMAIN images.available \ DOMAIN images'.available \subseteq {used'[Len(used')]}
    PROVE  OldestLeave
BY DEF OldestLeave

LEMMA PutLeavesOldest ==
    ASSUME CacheInv, NEW uid \in Uids, PutRead(uid)
    PROVE  OldestLeave
<1>1. CacheInv' /\ used'[Len(used')] = uid
  BY PutKeepsBooks
<1>2. CASE DOMAIN images.available \ DOMAIN images'.available \subseteq {uid}
  BY <1>1, <1>2, FewLeave
<1>3. ASSUME NEW order, OldestFirst(order, used'), Len(order) \in Nat, NEW n \in 0..Len(order),
             DOMAIN images.available \ DOMAIN images'.available \subseteq {order[i] : i \in 1..n},
             DOMAIN images'.available \subseteq {order[i] : i \in (n + 1)..Len(order)}
      PROVE  OldestLeave
  <2>1. ASSUME NEW u \in DOMAIN images.available \ DOMAIN images'.available,
               NEW v \in DOMAIN images'.available \cap DOMAIN images.available
        PROVE  LastUse(u)' < LastUse(v)'
    <3>1. PICK i \in 1..n : order[i] = u
      BY <1>3, <2>1
    <3>2. PICK j \in (n + 1)..Len(order) : order[j] = v
      BY <1>3, <2>1
    <3>3. i \in 1..Len(order) /\ j \in 1..Len(order) /\ i < j
      BY <1>3
    <3>4. u \in Elements(used)' /\ v \in Elements(used)' /\ IsOrderOf(used', Elements(used)')
      <4>1. Elements(used) \subseteq Elements(used)' /\ IsOrderOf(used', Elements(used)')
        BY UseIsHistory DEF PutRead
      <4>2. QED
        BY <2>1, <4>1 DEF CacheInv
    <3>5. /\ LastUse(u)' \in 1..Len(used') /\ used'[LastUse(u)'] = u
          /\ LastUse(v)' \in 1..Len(used') /\ used'[LastUse(v)'] = v
      <4>1. /\ \E k \in DOMAIN used' : used'[k] = u
            /\ \E k \in DOMAIN used' : used'[k] = v
            /\ DOMAIN used' = 1..Len(used')
        BY <3>4 DEF Elements, IsOrderOf
      <4>2. QED
        BY <4>1 DEF LastUse
    <3>6. QED
      BY <1>3, <3>1, <3>2, <3>3, <3>5 DEF OldestFirst
  <2>2. QED
    BY <2>1 DEF OldestLeave
<1>4. QED
  BY <1>2, <1>3, PutKeepsBooks

LEMMA CacheSteps == CacheInv /\ [ImageNext]_imageVars => CacheInv' /\ [OldestLeave]_imageVars
<1>1. SUFFICES ASSUME CacheInv, [ImageNext]_imageVars PROVE CacheInv' /\ [OldestLeave]_imageVars
  OBVIOUS
<1>2. CASE ClearImages
  <2>1. CacheInv' /\ DOMAIN images'.available = {}
    BY <1>1, <1>2, ClearKeepsBooks
  <2>2. OldestLeave
    BY <2>1 DEF OldestLeave
  <2>3. QED
    BY <2>1, <2>2
<1>3. ASSUME NEW uid \in Uids, GetImage(uid) PROVE CacheInv' /\ OldestLeave
  <2>1. CacheInv' /\ DOMAIN images'.available = DOMAIN images.available
    BY <1>1, <1>3, GetKeepsBooks
  <2>2. QED
    BY <2>1, FewLeave
<1>4. ASSUME NEW uid \in Uids, PutRead(uid) PROVE CacheInv' /\ OldestLeave
  BY <1>1, <1>4, PutKeepsBooks, PutLeavesOldest
<1>5. CASE UNCHANGED imageVars
  <2>1. images' = images /\ used' = used
    BY <1>5 DEF imageVars
  <2>2. CacheInv'
    BY <1>1, <2>1 DEF CacheInv, Elements
  <2>3. QED
    BY <1>5, <2>2
<1>6. QED
  BY <1>1, <1>2, <1>3, <1>4, <1>5 DEF ImageNext

LEMMA CacheInvariant == ImageSpec => []CacheInv
<1>1. CacheInv /\ [ImageNext]_imageVars => CacheInv'
  BY CacheSteps
<1>2. QED
  BY <1>1, CacheStarts, PTL DEF ImageSpec

(* For any uids, sizes and limits, after any lookups, reads and clearings:  *)
(* each class lists its members once, the bytes counted are those held,     *)
(* both limits hold, and what left was used before what stayed.             *)
THEOREM CacheBooksAreKept == ImageSpec => CacheKeepsItsBooks
<1>1. CacheInv /\ CacheInv' /\ [ImageNext]_imageVars => [Accounted' /\ OldestLeave]_imageVars
  <2>1. CacheInv' => Accounted'
    BY BooksAreAccounted, PTL
  <2>2. QED
    BY <2>1, CacheSteps
<1>2. QED
  BY <1>1, CacheInvariant, PTL DEF ImageSpec, CacheKeepsItsBooks
=============================================================================
