--------------------------- MODULE GraphicsRuntime --------------------------
(***************************************************************************)
(* The pictures of players and clubs (graphics/runtime.rs and commands.rs).*)
(* The user chooses a folder, clears it or has it scanned again; a worker  *)
(* thread scans it; and every picture the window shows is a request of its *)
(* own thread that names the generation it was made for.  The commands are *)
(* not async, so Tauri runs them on the main thread, one after the other.  *)
(* One of the three kinds of picture: the others have caches of their own. *)
(***************************************************************************)
EXTENDS GraphicsCache

CONSTANTS Roots,         \* folders with pictures
          Sizes,         \* sizes of pictures, in bytes
          Lookups,       \* threads that serve requests
          NoRoot,        \* no folder is chosen
          NoTarget,      \* no work
          MaxGeneration, \* bound: commands that reserve a generation
          MaxChanges,    \* bound: changes of the folders by the user
          MaxRestarts    \* bound: restarts of the app

Folders == Roots \cup {NoRoot}
Generations == 0..MaxGeneration
Targets == [generation : Generations, root : Folders]
Images == [dir : Roots, bytes : Sizes]
Indexes == [root : Folders, known : SUBSET Uids]

ASSUME GraphicsAssumption ==
    /\ NoRoot \notin Roots
    /\ NoTarget \notin Targets \cup Indexes
    /\ Nothing \notin Images
    /\ Sizes \subseteq Nat
    /\ MaxGeneration \in Nat /\ MaxChanges \in Nat /\ MaxRestarts \in Nat

VARIABLES
    db,         \* graphics_settings.root
    disk,       \* the picture of each person in each folder
    reserved,   \* next_reservation
    committed,  \* the folder in use and its generation
    index,      \* the scanned mappings, or NoTarget
    installed,  \* installed_generation, or -1
    inFlight,   \* the target being rebuilt, or NoTarget
    cache,
    gate,       \* who holds transition_gate
    command,    \* the main thread: location, operation, target
    pending,    \* the worker's next target, or NoTarget
    stopping,
    worker,     \* the worker thread: location, target, what it scanned
    lookup,     \* the threads that serve requests
    chosen,     \* history: the folder of each generation of this process
    unchanged,  \* history: the folder in use is as it was when adopted
    changes,    \* counts the user's changes of the folders
    restarts    \* counts the restarts

state == <<reserved, committed, index, installed, inFlight, cache>>
threads == <<gate, command, pending, stopping, worker, lookup>>
ghosts == <<chosen, unchanged, changes, restarts>>
vars == <<db, disk, state, threads, ghosts>>

NoCommand == [pc |-> "idle", op |-> "none", target |-> NoTarget]
NoWork == [pc |-> "wait", target |-> NoTarget, index |-> NoTarget]
NoLookup == [pc |-> "idle", generation |-> 0, uid |-> Nothing,
             dir |-> NoRoot, value |-> Nothing]

CacheOK(c) ==
    /\ c.available \in [DOMAIN c.available -> Images]
    /\ DOMAIN c.available \subseteq Uids
    /\ c.missing \subseteq Uids

TypeOK ==
    /\ db \in Folders
    /\ disk \in [Roots -> [Uids -> Images \cup {Nothing}]]
    /\ reserved \in Generations
    /\ committed \in Targets
    /\ index \in Indexes \cup {NoTarget}
    /\ installed \in Generations \cup {-1}
    /\ inFlight \in Targets \cup {NoTarget}
    /\ CacheOK(cache)
    /\ gate \in {"free", "command", "worker"}
    /\ command \in [pc : {"idle", "persist", "commit", "hand"},
                    op : {"none", "choose", "clear", "rescan"},
                    target : Targets \cup {NoTarget}]
    /\ command.pc # "idle" => command.target \in Targets
    /\ pending \in Targets \cup {NoTarget}
    /\ stopping \in BOOLEAN
    /\ worker \in [pc : {"wait", "scan", "enter", "install", "gone"},
                   target : Targets \cup {NoTarget},
                   index : Indexes \cup {NoTarget}]
    /\ worker.pc \in {"scan", "enter", "install"} => worker.target \in Targets
    /\ worker.pc \in {"enter", "install"} => worker.index \in Indexes
    /\ lookup \in [Lookups -> [pc : {"idle", "read", "answer", "done"},
                               generation : Generations,
                               uid : Uids \cup {Nothing}, dir : Folders,
                               value : Images \cup {Nothing}]]
    /\ \A l \in Lookups : lookup[l].pc # "idle" => lookup[l].uid \in Uids
    /\ chosen \in [Generations -> Folders]
    /\ unchanged \in BOOLEAN
    /\ changes \in 0..MaxChanges
    /\ restarts \in 0..MaxRestarts

(* The target of a folder that is there, from_root and start_worker.        *)
TargetOf(g, root) ==
    IF root = NoRoot THEN NoTarget ELSE [generation |-> g, root |-> root]

(* A process that has just started, with the folder the database holds.     *)
Booted(root) ==
    /\ reserved = 0
    /\ committed = [generation |-> 0, root |-> root]
    /\ index = NoTarget
    /\ installed = -1
    /\ inFlight = TargetOf(0, root)
    /\ cache = EmptyCache
    /\ gate = "free"
    /\ command = NoCommand
    /\ pending = TargetOf(0, root)
    /\ stopping = FALSE
    /\ worker = NoWork
    /\ lookup = [l \in Lookups |-> NoLookup]
    /\ chosen = [g \in Generations |-> root]
    /\ unchanged = TRUE

(* A picture names the folder it lies in.                                   *)
PicturesOf(r) == {i \in Images : i.dir = r} \cup {Nothing}

Init ==
    /\ db \in Folders
    /\ disk \in [Roots -> [Uids -> Images \cup {Nothing}]]
    /\ \A r \in Roots, u \in Uids : disk[r][u] \in PicturesOf(r)
    /\ changes = 0
    /\ restarts = 0
    /\ Booted(db)

-----------------------------------------------------------------------------
(* The commands.                                                            *)

(* persist_transition_with and begin_rescan_with up to the reservation.     *)
Reserve(op, root) ==
    /\ command.pc = "idle"
    /\ ~stopping
    /\ gate = "free"
    /\ reserved < MaxGeneration
    /\ gate' = "command"
    /\ reserved' = reserved + 1
    /\ command' = [pc |-> "persist", op |-> op,
                   target |-> [generation |-> reserved + 1, root |-> root]]
    /\ UNCHANGED <<db, disk, committed, index, installed, inFlight, cache,
                   pending, stopping, worker, lookup, ghosts>>

ChooseRoot == \E r \in Roots : Reserve("choose", r)
ClearRoot == Reserve("clear", NoRoot)
Rescan == Reserve("rescan", committed.root)

Persist ==
    /\ command.pc = "persist"
    /\ db' = command.target.root
    /\ command' = [command EXCEPT !.pc = "commit"]
    /\ UNCHANGED <<disk, state, gate, pending, stopping, worker, lookup, ghosts>>

(* Mutant: an update that failed has changed the row all the same.         *)
PersistFailsWritten ==
    /\ command.pc = "persist"
    /\ db' = command.target.root
    /\ gate' = "free"
    /\ command' = NoCommand
    /\ UNCHANGED <<disk, state, pending, stopping, worker, lookup, ghosts>>

(* SQLite fails, or the row is not there: the reservation is lost.          *)
PersistFails ==
    /\ command.pc = "persist"
    /\ gate' = "free"
    /\ command' = NoCommand
    /\ UNCHANGED <<db, disk, state, pending, stopping, worker, lookup, ghosts>>

(* Mutant: the caches are not cleared.                                      *)
CommitKeepingCache(target, scanned) ==
    /\ committed' = target
    /\ index' = scanned
    /\ installed' = IF scanned = NoTarget THEN -1 ELSE target.generation
    /\ UNCHANGED cache

(* commit_locked.                                                           *)
CommitLocked(target, scanned) ==
    /\ committed' = target
    /\ index' = scanned
    /\ installed' = IF scanned = NoTarget THEN -1 ELSE target.generation
    /\ cache' = EmptyCache

(* An empty folder is not rebuilt after a clear, but it is after a rescan.  *)
Rebuilt(op, target) ==
    IF op = "rescan" \/ target.root # NoRoot THEN target ELSE NoTarget

Commit ==
    /\ command.pc = "commit"
    /\ CommitLocked(command.target, NoTarget)
    /\ inFlight' = Rebuilt(command.op, command.target)
    /\ chosen' = [chosen EXCEPT ![command.target.generation] = command.target.root]
    /\ unchanged' = TRUE
    /\ gate' = "free"
    /\ command' = [command EXCEPT !.pc = "hand"]
    /\ UNCHANGED <<db, disk, reserved, pending, stopping, worker, lookup,
                   changes, restarts>>

(* Mutant: a target that is waiting is not replaced.                        *)
HandOverOnlyWhenFree ==
    /\ command.pc = "hand"
    /\ pending' = IF command.op = "clear" THEN NoTarget
                  ELSE IF pending = NoTarget THEN command.target ELSE pending
    /\ command' = NoCommand
    /\ UNCHANGED <<db, disk, state, gate, stopping, worker, lookup, ghosts>>

(* enqueue, or cancel_pending: after the gate has been given back.          *)
HandOver ==
    /\ command.pc = "hand"
    /\ pending' = IF command.op = "clear" THEN NoTarget ELSE command.target
    /\ command' = NoCommand
    /\ UNCHANGED <<db, disk, state, gate, stopping, worker, lookup, ghosts>>

-----------------------------------------------------------------------------
(* The worker thread.                                                       *)

TakeTarget ==
    /\ worker.pc = "wait"
    /\ ~stopping
    /\ pending # NoTarget
    /\ worker' = [worker EXCEPT !.pc = "scan", !.target = pending]
    /\ pending' = NoTarget
    /\ UNCHANGED <<db, disk, state, gate, command, stopping, lookup, ghosts>>

(* GraphicsScan has what a scan makes of a folder.                          *)
Scanned(root) ==
    [root |-> root, known |-> IF root = NoRoot THEN {}
                              ELSE {u \in Uids : disk[root][u] # Nothing}]

Scan ==
    /\ worker.pc = "scan"
    /\ worker' = [worker EXCEPT !.pc = "enter",
                                !.index = Scanned(worker.target.root)]
    /\ UNCHANGED <<db, disk, state, gate, command, pending, stopping, lookup,
                   ghosts>>

EnterGate ==
    /\ worker.pc = "enter"
    /\ ~stopping
    /\ gate = "free"
    /\ gate' = "worker"
    /\ worker' = [worker EXCEPT !.pc = "install"]
    /\ UNCHANGED <<db, disk, state, command, pending, stopping, lookup, ghosts>>

(* Mutant: the scan is compared by its folder and not by its generation.    *)
InstallSameRoot ==
    /\ worker.pc = "install"
    /\ gate' = "free"
    /\ worker' = NoWork
    /\ IF committed.root = worker.target.root
       THEN /\ CommitLocked(worker.target, worker.index)
            /\ inFlight' = NoTarget
            /\ UNCHANGED reserved
       ELSE UNCHANGED state
    /\ UNCHANGED <<db, disk, command, pending, stopping, lookup, ghosts>>

(* Mutant: a scan that is dropped does not give the gate back.              *)
InstallKeepingGate ==
    /\ worker.pc = "install"
    /\ worker' = NoWork
    /\ IF committed = worker.target
       THEN /\ CommitLocked(worker.target, worker.index)
            /\ inFlight' = NoTarget
            /\ gate' = "free"
            /\ UNCHANGED reserved
       ELSE UNCHANGED <<state, gate>>
    /\ UNCHANGED <<db, disk, command, pending, stopping, lookup, ghosts>>

(* The scan of a folder that is no longer the one in use is dropped.        *)
Install ==
    /\ worker.pc = "install"
    /\ gate' = "free"
    /\ worker' = NoWork
    /\ IF committed = worker.target
       THEN /\ CommitLocked(worker.target, worker.index)
            /\ inFlight' = NoTarget
            /\ UNCHANGED reserved
       ELSE UNCHANGED state
    /\ UNCHANGED <<db, disk, command, pending, stopping, lookup, ghosts>>

StopWorker ==
    /\ worker.pc \in {"wait", "enter"}
    /\ stopping
    /\ worker' = [NoWork EXCEPT !.pc = "gone"]
    /\ UNCHANGED <<db, disk, state, gate, command, pending, stopping, lookup,
                   ghosts>>

-----------------------------------------------------------------------------
(* resolve_with_reader: the state is locked, unlocked for the read of the   *)
(* file, and locked again.                                                  *)

(* Mutant: the generation the request names is not looked at.               *)
InstalledFor(g) == installed = committed.generation /\ g <= committed.generation

Current(g) == installed = committed.generation /\ g = committed.generation

Begin(l, uid, g) ==
    /\ lookup[l].pc = "idle"
    /\ ~stopping
    /\ LET asked(pc, dir, value) ==
               lookup' = [lookup EXCEPT ![l] = [pc |-> pc, generation |-> g,
                            uid |-> uid, dir |-> dir, value |-> value]]
       IN  \/ /\ ~Current(g)
              /\ asked("done", NoRoot, Nothing)
              /\ UNCHANGED cache
           \/ /\ Current(g) /\ Cached(cache, uid)
              /\ asked("done", NoRoot, CachedValue(cache, uid))
              /\ cache' = Touch(cache, uid)
           \/ /\ Current(g) /\ ~Cached(cache, uid)
              /\ asked("read", IF uid \in index.known THEN index.root
                               ELSE NoRoot, Nothing)
              /\ UNCHANGED cache
    /\ UNCHANGED <<db, disk, reserved, committed, index, installed, inFlight,
                   gate, command, pending, stopping, worker, ghosts>>

(* The window asks under a generation that a status has told it.            *)
BeginLookup == \E l \in Lookups, u \in Uids, g \in 0..committed.generation :
                   Begin(l, u, g)

(* The locator holds the folder open: it reads there whatever is chosen.    *)
ReadImage(l) ==
    /\ lookup[l].pc = "read"
    /\ lookup' = [lookup EXCEPT ![l].pc = "answer",
                     ![l].value = IF lookup[l].dir = NoRoot THEN Nothing
                                  ELSE disk[lookup[l].dir][lookup[l].uid]]
    /\ UNCHANGED <<db, disk, state, gate, command, pending, stopping, worker,
                   ghosts>>

Answer(l) ==
    /\ lookup[l].pc = "answer"
    /\ \/ /\ Current(lookup[l].generation)
          /\ cache' = Put(cache, lookup[l].uid, lookup[l].value)
          /\ lookup' = [lookup EXCEPT ![l].pc = "done"]
       \/ /\ ~Current(lookup[l].generation)
          /\ lookup' = [lookup EXCEPT ![l].pc = "done", ![l].value = Nothing]
          /\ UNCHANGED cache
    /\ UNCHANGED <<db, disk, reserved, committed, index, installed, inFlight,
                   gate, command, pending, stopping, worker, ghosts>>

EndLookup(l) ==
    /\ lookup[l].pc = "done"
    /\ lookup' = [lookup EXCEPT ![l] = NoLookup]
    /\ UNCHANGED <<db, disk, state, gate, command, pending, stopping, worker,
                   ghosts>>

LookupStep == \E l \in Lookups : ReadImage(l) \/ Answer(l) \/ EndLookup(l)

-----------------------------------------------------------------------------
(* The world outside.                                                       *)

(* The user adds, replaces or deletes a picture in a folder.                *)
ChangePicture ==
    /\ changes < MaxChanges
    /\ changes' = changes + 1
    /\ \E r \in Roots, u \in Uids : \E i \in PicturesOf(r) \ {disk[r][u]} :
           /\ disk' = [disk EXCEPT ![r][u] = i]
           /\ unchanged' = (unchanged /\ r # committed.root)
    /\ UNCHANGED <<db, state, threads, chosen, restarts>>

(* Drop, when the app exits and nothing borrows the runtime any more.       *)
DropRuntime ==
    /\ ~stopping
    /\ command.pc = "idle"
    /\ \A l \in Lookups : lookup[l].pc = "idle"
    /\ stopping' = TRUE
    /\ pending' = NoTarget
    /\ UNCHANGED <<db, disk, state, gate, command, worker, lookup, ghosts>>

(* The process ends, at any point, and the app is started again.            *)
Restart ==
    /\ restarts < MaxRestarts
    /\ restarts' = restarts + 1
    /\ UNCHANGED <<db, disk, changes>>
    /\ reserved' = 0
    /\ committed' = [generation |-> 0, root |-> db]
    /\ index' = NoTarget
    /\ installed' = -1
    /\ inFlight' = TargetOf(0, db)
    /\ cache' = EmptyCache
    /\ gate' = "free"
    /\ command' = NoCommand
    /\ pending' = TargetOf(0, db)
    /\ stopping' = FALSE
    /\ worker' = NoWork
    /\ lookup' = [l \in Lookups |-> NoLookup]
    /\ chosen' = [g \in Generations |-> db]
    /\ unchanged' = TRUE

CommandStep == Persist \/ PersistFails \/ Commit \/ HandOver
WorkerStep == TakeTarget \/ Scan \/ EnterGate \/ Install \/ StopWorker

Next ==
    \/ ChooseRoot \/ ClearRoot \/ Rescan
    \/ CommandStep
    \/ WorkerStep
    \/ BeginLookup \/ LookupStep
    \/ ChangePicture \/ DropRuntime \/ Restart

Spec == Init /\ [][Next]_vars

(* The main thread goes on with a command it has begun, and the worker is   *)
(* a thread of its own; whether the user does anything is up to the user.   *)
Fairness ==
    /\ WF_vars(CommandStep)
    /\ WF_vars(WorkerStep)

FairSpec == Spec /\ Fairness

-----------------------------------------------------------------------------
(* Properties.                                                              *)

(* A request that is answered with a picture gets one of the folder that    *)
(* was in use under the generation the request names, whatever was chosen   *)
(* while the file was being read (resolve_with_reader).                     *)
ServedFromItsGeneration ==
    \A l \in Lookups :
        lookup[l].pc = "done" /\ lookup[l].value # Nothing
            => lookup[l].value.dir = chosen[lookup[l].generation]

(* Nothing that was read before the last choice, clear or rescan survives   *)
(* it: as long as the folder has not changed since, the cache says what is  *)
(* in it, of the pictures it has and of those it knows to be missing.       *)
CacheIsFresh ==
    unchanged =>
        \A u \in Uids :
            Cached(cache, u) =>
                /\ committed.root \in Roots => CachedValue(cache, u) = disk[committed.root][u]
                /\ committed.root = NoRoot => CachedValue(cache, u) = Nothing

(* Every picture the window gets or will get is one of the folder it asked  *)
(* for.                                                                     *)
PicturesAreOfTheFolder == ServedFromItsGeneration /\ CacheIsFresh

(* The rebuild that a status announces is under way: its target waits to be *)
(* handed over, waits for the worker, or is being scanned.  A stale or      *)
(* cancelled hand-over would leave the window polling for ever.             *)
RebuildIsUnderWay ==
    inFlight # NoTarget /\ ~stopping =>
        /\ inFlight = committed
        /\ \/ command.pc = "hand" /\ command.op # "clear" /\ command.target = inFlight
           \/ pending = inFlight
           \/ worker.pc \in {"scan", "enter", "install"} /\ worker.target = inFlight

(* The database and the process agree on the folder except while a command  *)
(* holds the gate between its write and its commit.                         *)
StoredIsCommitted == command.pc # "commit" => db = committed.root

(* The status the window polls tells what there is.                         *)
StatusIsTrue == RebuildIsUnderWay /\ StoredIsCommitted

Choice == INSTANCE GraphicsChoice WITH
              stored <- db, chosen <- committed.root,
              generation <- committed.generation, ready <- installed # -1

(* The runtime keeps the promise of GraphicsChoice.                         *)
ImplementsChoice == Choice!ChoiceSpec

(* A rebuild ends: the window stops polling the status.                     *)
EveryRebuildEnds ==
    (inFlight # NoTarget /\ ~stopping) ~> (inFlight = NoTarget \/ stopping)
=============================================================================
