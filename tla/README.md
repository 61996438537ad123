# FM ValueScout in TLA+

FM ValueScout is a desktop app (Tauri: Rust backend, React front end) and a
plugin that runs inside Football Manager 26. The app asks the plugin, through
files in a shared directory, for a scan of the game's memory or for a small
change to it (a *boost*), and keeps what it learned in SQLite. What is hard
about it is that two programs, several threads in each, and a game that goes on
being played have to agree on one thing: what the game holds, what the
plugin's index says it holds, what the app's snapshot says, and what the window
shows of it.

## Inventory

| Component | State | Operations | Hard parts |
| --- | --- | --- | --- |
| Exclusion gates (`player/boost_gate.rs`) | three process-wide mutexes | `acquire_boost_gate`, `acquire_load_gate`, `acquire_context_gate`, guard drops | partial acquisition, drop order, the probe that picks a message |
| Bridge protocol (`bridge/Protocol`, `bridge/Output`) | `request.json`, `request.json.tmp`, `status.json`, `dump.json`, the force-scan flag | accept, refresh, write status, replace dump | two writers of one temp file, read-then-delete, best-effort deletes, TTL |
| Bridge plugin (`bridge/Plugin.cs`) | work gate, poll thread, work thread | poll, `RunDumpScan`, `RunPlayerBoost`, `RunStaffBoost`, `Load`, `Unload` | thread hand-off, catch and finally paths, FM stopping |
| Bridge mutations (`bridge/Mutations`) | live index, FM memory | look up, check, write, read back, recover, advance index | the game changes between read and write; partial rollback |
| Bridge scanning and extraction (`bridge/Scanning`, `bridge/Extraction`) | workers, scan result, document, live addresses | scan, retry on a clone, walk squads, extract, write | objects at the edges of blocks, memory that moves, one worker that stops all |
| App bridge client (`memory_read/service.rs`) | request in flight | write request, poll status, time out, classify failures | late answers, unknown outcomes |
| Load Data (`snapshot/load_data.rs`, `commands.rs`) | private dump copy, prepared snapshot | scan, capture, score, publish | a later scan replaces the dump; the save is switched meanwhile |
| Player boosts (`player/`) | prepared boost, batch context | single boost, squad batch, reconcile, mark for recovery | FM changed but SQLite not |
| Staff boosts (`staff/`) and managed club boost | as above | staff batch, club-wide run | marks differ between the two batches |
| Save and snapshot store (`snapshot/service.rs`, `ingest.rs`) | saves, snapshots, metric rows | create, rename, delete, re-date, select, publish | one active save, one current snapshot, ids that are given again |
| Graphics runtime (`graphics/runtime.rs`) | folder, generations, worker target, caches | choose, clear, rebuild, look up | the worker and the lookups race a change of folder |
| Load Data hook and search page (`use-load-data.ts`, `search.tsx`) | cached queries and pages | switch, delete, settle | answers of an earlier context arrive later |
| CSV import (`csv_import/`) | youth, Moneyball and shortlist tables | read, import | the file is read without the lock; ranks of a whole table |
| Club DNA (`club_dna/`, `player_metrics/club_dna.rs`) | definition, scores by version | set, remove, score | versions start again at 1 |
| Academy (`academy/`) and managed club | classes, members, outcomes | create, delete, add, automatic classes | who made a class, and what follows the current snapshot |
| Planner (`planner/`) | teams, strings, assignments, tactic | assign, move, clear, save teams, optimize | cascades; greedy strings and a matching |
| Staff assignment (`staff/assignment_*`) | targets; a pure allocation | save targets, allocate | nine passes over one set of people |
| Search and Moneyball (`search/`, `moneyball/`) | read-only | search, rank, page | rules split between SQL and Rust; a score computed twice |
| Dump validation and reading (`memory_read/dump_validation.rs`, `snapshot/ingest.rs`) | none | validate, read, score, store | four lists of the same fields, in C#, twice in Rust and in SQL |
| Filter rules (`search/filter.rs`, `staff/filter.rs`, the filter editors and `search-url-search.ts`) | the address of a page, the rules in an editor | open, add, change, remove, apply, clear, change the view | two lists of fields, kinds and operators; types that the address drops; numbered parameters |
| Database (`db/migrations.rs`, `db/mod.rs`) | tables, `user_version` | open, migrate | a populated file of any earlier release; an end between two statements |
| Scoring, installation, shell, UI, release scripts | | | mostly tables, I/O and presentation |

The app's commands run on the threads of Tauri. `load_data` is async and may
be invoked twice; boosts, deletions and save switches exclude each other and a
load with the gates. A command that talks to the bridge writes `request.json`
(temp file, then rename) and polls `status.json`; the plugin's poll thread
judges the request, deletes it and starts a work thread behind `BridgeWorkGate`;
the work thread writes `status.json` when it begins and when it ends. All tables are
behind one lock on one SQLite connection. The window asks through TanStack
Query, which keeps answers under keys that name what the window believes to be current.

What makes each part correct:

- gates: nothing leaks, a boost runs alone, nobody waits for ever;
- protocol and plugin: a request is judged once, the gate is always left,
  a ready status speaks of the dump that is there;
- boosts: what FM may have been made to hold is in the snapshot, or the
  snapshot is marked; what is reported as refused was not written; a boost
  of an old snapshot never reaches FM;
- index and snapshot advance together;
- scan: what is there is found once, wherever the blocks end; what is written is a dump that
  the app accepts, and boosts get no addresses of a clone;
- squads: whose player someone is does not depend on the order of addresses;
- load: the snapshot is the dump of its own request;
- batches: a run stops before another request when FM and SQLite may differ, and
  leaves the snapshot marked;
- store: one save is active, the current snapshot of a save is the first of its
  list, metric rows are those of current snapshots, and an old name of a row
  whose id was given again changes nothing;
- what is kept beside a save (imports, Club DNA, academy) is of the rows it was
  made for, whole, and gone when they are;
- database: a file of any earlier release opens, and what was stored in it is there;
- graphics: no picture of another folder is served or kept, and what is announced is done;
- planner and staff: a person has one place, nobody better is left out, nothing
  the user has placed is lost unasked;
- filters: a rule that is applied is the rule that is shown, sent and compiled, and it finds whom its label says;
- search: pages do not depend on how the rules are split, and are never of another save or snapshot.

## Modules

| Module | Models |
| --- | --- |
| `GatePolicy` | what the gates promise: who may run beside whom |
| `BoostGate` | `boost_gate.rs`, one step per `try_lock`, probe and drop; implements `GatePolicy` |
| `BridgeFiles` | the bridge directory, its records, expiry and the force-scan flag |
| `BridgePlugin` | the poll thread, the work thread, the live index, FM's memory as one ability |
| `BridgeClient` | one command of the app at a time, its snapshots and recovery marks |
| `BoostContract` | what a boost promises the user, without files, threads or waits |
| `BridgeSession` | the two composed, their properties; implements `BoostContract` |
| `PersonScan` | the workers of a scan, block by block, over memory that changes, and the merge of what they found |
| `ScanPipeline` | a request for a dump from the scan to the file: the retry on a clone, the manager, the write |
| `SquadIndex` | the walk of clubs, teams and squads: club, loan, manager, date |
| `DumpFields` | what each field of a dump may hold, as the plugin writes it and as validation, reading, scoring and tables take it |
| `BridgeHandOff` | the inductive invariant of the session |
| `MemoryBoost` | one boost in FM's memory, field by field, with failing reads and writes and a game that writes too |
| `BoostBatch` | the squad, staff and managed-club runs: the loop over persons and the chain of loops |
| `SnapshotStore` | saves, snapshots, context tokens, the current flag, metric rows |
| `CsvImport`, `ClubDna`, `Academy` | the tables beside the store, each an extension of `SnapshotStore` whose transactions it takes part in |
| `GraphicsChoice` | what the graphics runtime promises of the folder in use |
| `GraphicsCache` | the cache of one kind of picture, as operators |
| `GraphicsRuntime` | commands, worker, transition gate and lookups; implements `GraphicsChoice` |
| `ImageCache` | the cache under any sequence of lookups |
| `ResultContext` | what the window shows of which snapshot, between the commands and the database |
| `DepthChart` | what the planner promises of its chart |
| `Planner` | teams, strings, assignments, the optimizer's transaction; implements `DepthChart` |
| `Matching`, `MatchGraph` | the question both optimizers ask, and the graph that answers it |
| `StaffAllocation` | the passes of the staff assignment over one set of people |
| `Search` | a search, its split of the rules, its pools, order and pages |
| `FilterRules` | a filter rule from the editor through the address to the rows it lets through |
| `TacticFit` | the tactic score in Rust and in SQL |
| `Migrations` | the chain of migrations, statement by statement, over the rows of any release |
| `*Proofs` | the theorems about the module they extend |
| `MC*` | instances for TLC |

The modules stand at different distances from the same code. `BridgeSession`
has every file operation and one player, who stands for the squad. `MemoryBoost`
opens its single step `WriteBoost` into the reads, writes and restores of one to three
fields. `BoostBatch` closes the whole exchange with the plugin into `Ask` and an
answer, and has many persons instead. `SnapshotStore` opens what the session calls
`Publish` and `SelectSnapshot`. `BoostGate` justifies that the session and the
batch have one boost at a time and that no deletion or switch comes between.
`BridgePlugin` takes a scan as one step from `BeginDump` to a dump; `ScanPipeline` opens it,
`SquadIndex` opens its choice of clubs and of the manager, and what `DumpIsAccepted` says of the lists it
writes is what `DumpFields` assumes of them (`WrittenShape`).
`ResultContext` stands on the other side of the store: it reduces it to the current snapshot of
each save and opens what the window does before and after a command. `Planner` chooses
any best matching in one step; `MatchGraph` finds one, path by path, and
`AnswerIsBest` says that what it finds is what `Planner` chose from.

### How state and actions correspond to the code

*BoostGate.* A location per thread says which of the guards of a function it has
bound; `TryBoost`, `TryBoostLoad` and `TryBoostContext` are the three `try_lock` calls of
`acquire_boost_gate`; `ProbeLoad` and `ProbeContext` are the short acquisitions with
which the other two functions look at `BOOST_GATE`. `ImplementsPolicy` maps the
locations to a set of running commands. The words of the refusals are left out.

*BridgeFiles, BridgePlugin, BridgeClient.* A file is a record, or the record that stands
for a missing one. Ids are drawn from one counter instead of UUIDs; a snapshot is
named by the request id that produced it, which the code stores as
`bridge_source_request_id`. A thread's location is the next statement that
touches shared state. `PollRead`, `PollDelete`, `PollReject`, `PollEnter` are the accept
path of the poll thread, `RefreshRead`, `RefreshWrite`, `RefreshMove` its refresh of a request
that waits while the gate is busy; `BeginDump` to `ReportDump` and `BeginBoost` to
`ReportBoost` are the two jobs of the work thread with their catch and finally paths.
On the app's side `WriteTemp`, `RenameTemp`, the polls `See...`, `GiveUp`, `CopyDump`, `Recheck`,
`Publish`, `Reconcile` and `LatchRecovery` follow a command from its request to
SQLite. A failed status carries a verdict in place of its message: `liveValue` and
`rejected` for the messages that the app knows to precede every write, `uncertain`
for all others.

*PersonScan, ScanPipeline.* The memory is a function from the words at which objects begin to what the
checks of the code take them for, with holes that cannot be read. `StartWorkers` is the worker policy and the shares,
`EnterRegion` and `ReadBlock` the loops over regions and blocks, with the overlap of two blocks and the
count of requested and unread words; `FailWorker` and `StopWorker` are the workers'
token, which `StartWorkers` links to the plugin's: a retry that begins after the unload stops at once. `MergeWorkers` keeps
the lowest address of each UID and leaves out the staff that are players, as `BuildResult` does. `Begin`,
`EndScan`, `Judge`, `Extract` and `Write` are the stages of `CapADumpPipeline.Run`; `Judge` has the
one retry on a clone, and every stage looks at the token that `Unload` sets.

*SquadIndex.* A step walks one team (`WalkTeam`), the first of those that are left (`NextPlace`): clubs come in the
order of their addresses, those of the scan before those of contracts only, and the teams of a club by number. `Choose`, `Outranks` and `NextMatch` are the rules
for a second squad, a second manager and a date. `GameDate` is the vote.

*DumpFields.* A document is plain but for one field with one kind of value (absent, null, zero,
negative, fractional, too large, ...), or but for the shape of its lists. `Validate`, `Prepare`, `Score`
and `Store` are the four readers in their order; `Written` is what the plugin can write.

*MemoryBoost.* A field is a number; `by` remembers whose value it holds. `Put` knows the
field, the value it had and the value it gets. `Write`, `ReadBack`, `Look`, `PutBack`,
`LookAgain` are `WriteAndVerify` and `Recover`; `UndoField` and `AllUndone` are
`RollbackAppliedMentality` and `CombineRollback`. Whatever a write reports, it may have stored
nothing, all, or one of the two bytes of an ability; any read may fail. `kind` chooses
between a mentality, a player's ability and a staff ability.

*BoostBatch.* `task` is the person in hand, `tally` the three counters as the sets they
count, `open` the request in the plugin's file, which the plugin may still answer
when the app has given up. `fm` and `db` are levels, raised by one boost by one.

*SnapshotStore.* The two tables are functions from row ids; `IsNextId` is SQLite's rule
for ids, which are given again after a deletion, tokens never are. A transaction is
one step under the lock on the connection; a failed one rolls back and is `EndLoad` or
nothing. A command of the user interface names a row `seenSave` or `seenSnap`, as it was
some time ago. `Reselect` is `reconcile_current_selection`; `Publish` has the
publication's own, different rule for metric rows.

*CsvImport, ClubDna, Academy.* Each adds its tables and says, for every transaction of the
store, what becomes of them: rows go with the save or snapshot they belong to (the
schema's cascades), a publication or a reselection adds to them. An import is three steps,
as in the code: what is current is captured under the lock, the file is read without
it, and the transaction compares again before it writes. `Percentiles` ranks the
table as it then is. Values, formats and names are left out.

*GraphicsRuntime.* One location for the main thread, one for the worker, one per lookup. A
command reserves a generation and takes the transition gate (`ChooseRoot`, `ClearRoot`, `Rescan`),
writes the database (`Persist`, or it fails), adopts the folder and gives the gate back
(`Commit`), and only then hands its target to the worker (`HandOver`). The worker takes the target,
scans it without a lock, waits for the gate and installs what it found if the folder and
generation are still those in use (`TakeTarget`, `Scan`, `EnterGate`, `Install`). A lookup asks the cache under
the lock, reads the file without it, and locks again to put the bytes in the cache if its generation
is still current (`BeginLookup`, `ReadImage`, `Answer`). The disk is a variable the user changes; `DropRuntime` and
`Restart`, which reads the folder from the database, are actions too. That no two commands run
at once is an assumption: they are not async, and Tauri runs those on the main thread.

*ResultContext.* A query has data and possibly a command under way, which reads the database at one
time and is delivered at a later one. A switch or deletion cancels the pages, removes
them, sends the command, and invalidates the two context queries when it is answered; a Load
Data does the same after it has published, and looks before each step whether the
window is still of its save. Pages are kept under save and row id, as `search-keys.ts` has it;
their rows are the snapshots they were read from.

*Planner.* `strings` lists each team's row ids in order; `Ensured` is `ensure_depth`, with which most
commands begin. `SaveTeams` has the confirmation, the cascade and the new strings in one
transaction. The optimizer's transaction is `BeginOptimize`, then `FillRanked` and `FillRest` string by
string, then `CommitPlan` or `RollBack`: nobody sees between them, but they are the algorithm.

*Matching, MatchGraph, StaffAllocation.* `Matching` says which answers are best: the
objective of each optimizer as a sequence, compared like words. `MatchGraph` has the residual graph as
capacities on edges; labels are corrected in any order, where the code's queue
has one, and `Search` sends a unit along the best path. `StaffAllocation` fills a slot a step
(`FillSlot`), pass after pass (`NextPass`), and asks the matching for the general coaches of a scope at once
(`FillGeneral`); what is checked of the result are statements about it, not a second allocation.

*Search, TacticFit.* A world is a small database, a request a filter, order, pool and
limit; `SearchPlayers` answers as the code does, with rules split between SQL and Rust, and `AskNextPage` goes
through the pages. The reference (`LetThrough`, `Cohort`) does not split.
`TacticFit` computes a player's score in both ways (`LaneFit`, `TacticExpression`) from integer role
scores; saturation and rounding are those of the code. `OneYearOlder` walks through the ages.

*FilterRules.* `viewed`, `address` and `joinedBy` are the search page's parameters, `editor` the draft in the dialog;
the actions are the buttons and fields of the dialog and of the strip of chips. From there the module
is functions, one after the other: `ForAddress` and `ReadFrom` are the way through the address, `CompleteRules` what is sent,
`FromJson`, `CompileRule` and `Compile` the program's own reading, `FirstBinds` and `StartOf` the
parameters before those of the rules, `ClauseHolds` what SQLite makes of a clause, `NULL` included. A kind of
field has one or two fields to stand for it, by the names of the code. Two kinds of rule pass the window
and not the program, which then refuses the whole search: a whole-number field with
a number outside of `i64` (the dialog reads any run of digits; the address any number), and in Moneyball a position that is none (the
window takes any text). `IsBeyondTheProgram` names them, and the property asks for the refusal.

*Migrations.* The database is its tables: columns, unique keys, cascading references and rows. `Chain` lists
the migrations, each under its name in the code with the statements that change what is kept; `Executed` and
`Refused` say what SQLite makes of a statement. `Begin`, `Statement` and `Commit` are one turn of the loop in `apply`, `End`
is the process ending anywhere in it. A release opens its file, the user stores rows (`Use`), and the last release opens it.
`RowsAreKept` and `RowsAreFilledIn` say what must be there then, and `SaveIsDeletedWhole` deletes a save through the
references that all the migrations left.

## Runs

| Run | Question | Bounds, and why they are enough |
| --- | --- | --- |
| `gates` | No gate leaks; the gates implement their policy (a boost runs alone); nobody stays inside an acquisition | three threads: one for each of the three functions, or three of one; there are three gates and no counters |
| `session` | Own dump, accounted boosts, index and snapshot in step, no boost of an old snapshot, `HandOff`, the invariant of the proofs (final refusals are part of it), and `BoostContract`; with FM stopping anywhere | three requests (a load, a boost of it, and another of either), three abilities: a boost can be followed by another of the same snapshot |
| `session_live` | Every command returns; the plugin takes every request and leaves the work gate (`ThePluginServes`); with the app stopping and marks that fail | two requests: one held while the other is served |
| `session_delete` | Finding, see below | two requests |
| `memory` | What a boost leaves in FM, what its answer means, when the index may be kept, that it ends | three fields, three values (one below the threshold, two targets), one torn value; all three kinds |
| `batch` | A run stops in doubt and marks it, counts what it stores, and goes on only while it is served | two players and one staff member, one level: persons before and after the one in hand, a staff run after the squad's |
| `data` | The store and what is kept beside it: one active save, current is first, metric rows, no orphans; deletions and publications act on what was asked; imports are whole; percentiles are of the whole table; scores are of the definition; the academy's rules | alone: three ids, five tokens, two dates and none, two clock readings: ties in each of the three sort keys, and an id given again. With a component beside it: two ids, three tokens, one clock reading, and two players. An id can still be given again while the other component holds its old name |
| `store_switch` | Finding, see below | two ids, three tokens |
| `graphics` | No picture of another folder; status and database tell the truth; `GraphicsChoice`; an announced rebuild ends | two folders, one person with two sizes of picture, two lookups, two commands that reserve a generation, one change on disk, one restart: each lookup may be overtaken by a change of folder, and a target by another |
| `planner` | The chart is consistent, a plan is the best, nothing is lost, `DepthChart` | two teams, two lanes, two players, three strings, four commands: a team and a string can go while the other is kept; tables with a tie, a crossed matching and a lane nobody plays |
| `rules` | The graphs find the best matching; staff are well placed; pages are the search; a filter rule finds whom its label says; the two tactic scores agree; the cache's books; the squad, manager and date of the plugin are settled; the four lists of fields agree; the window never mixes saves or snapshots; every database opens | three lanes for two players and up to four places for three coaches; three persons in every scope with a head and his department; three players, two rules, pages of one; every familiarity, foot and score at a limit; three uids over a cache of two; three clubs, one by contract only, with two teams and a player who is listed twice; every kind of value in every field, lists of up to two; two saves, four snapshots, three switches or deletions: a deletion whose id a Load Data gives again, and a switch there and back; two rules of any field, five clicks or keys, in an address that is new, old or wrong, and four persons who have or lack what each kind of field asks for, with wildcards, case and parts of words; databases of thirteen releases, one for each table or column that a later migration rewrites, with two saves, dates before, at and after the first season, set-piece targets in every set of scopes, and strings up to the 111th |
| `scan` | What is there is found once, what is written is accepted, every scan ends | regions of a block and a part, of less than a header and of less than a block; a header of two words, blocks of four: an object at each edge of a block, of the overlap and of a region; one to three workers, one move of the memory and one lost block in each of the two scans |

`MaxId` in the session bounds requests, `MaxId` and `MaxToken` in the store bound row ids and
draws, `MaxMoves` and `MaxLost` what happens to the memory during one scan, `MaxVersion`, `MaxClass`, `MaxString`, `MaxPerTeam`, `MaxEdits`, `MaxGeneration`, `MaxRestarts` and `MaxChanges` what their
names say; they sit in guards (in `MCStoreData` also in `Small` and `OneDate`) and stop a behaviour
when used up, which is why `data`, `graphics`, `planner` and `rules` do not check deadlock. `Cap`,
`MaxLevel`, `CacheLimit`, `ByteLimit`, `MaxPage`, `MaxRules` (32 in the program), `Header`, `Block`, `MaxTeams` and `MaxSquad` are limits of the
program, small here. Where a property has several parts (`AnswersAreTrue`, `ImportsAreWhole`,
`AcademyFollowsSnapshots`, `ThePluginServes`), they are definitions of their own in the module. `Faults`
names the failures an instance allows: `fmStops`, `appExits`, `latchFails`,
`deleteFails`, `sharedTemp`. No run uses symmetry. Types are not among the properties of the runs:
they are theorems (`TypeCorrect`) of the modules that have a proof.

### Fairness

- *Plugin.* `PollRequests` is a loop with a delay on a thread of its own, and an accepted
  request gets a thread of its own: weak fairness of `PollStep` and of `WorkStep`.
- *App.* Each wait of a command has a deadline after which it gives up, and nothing
  else blocks it: weak fairness of `CommandStep`.
- *Gates.* `try_lock` returns at once; weak fairness of every thread's steps inside an
  acquisition or a command.
- *Boost in memory.* The work thread runs: weak fairness of `BoostStep`.
- *Scan.* The thread of the scan and its workers run, and no failure is promised: weak fairness of
  the stages and of `WorkerGoesOn`, which has no failing step.
- *Graphics.* A command on the main thread waits for nothing but short locks, and
  the worker is a thread of its own that waits on a condition variable: weak fairness of `CommandStep`
  and of `WorkerStep`. A lookup need not go on.
- No fairness is assumed of the user, the game, expiry, a lost request, or any fault.

Liveness is stated of threads that are not killed: the live run does not stop FM.

## Proofs

`tlapm` checks the following for every value of the constants.

| Module | Theorems | Assumptions beyond the ASSUMEs of the modules |
| --- | --- | --- |
| `GatesStaffSearchProofs` | types, `GatesFollowLocations`, `BoostRunsAlone`, the refinement of `GatePolicy` | none |
| | `StaffAreWellPlaced` (`StaffSpec`); `PagesAreTheSearch` (`SearchSpec`) and `SearchShowsThePlannersScore` (`FitSpec`), together `SearchIsTrue` | none |
| `BridgeHandOffProofs` | types | none |
| | `HandOff`, `TakenIsGone`, `CaptureOwnDump`, `RefusedNotApplied`, `IndexMatchesSnapshot`, `BoostsAreNotStale`, the refinement of `BoostContract` | `FilesAreReliable`: neither `deleteFails` nor `sharedTemp` in `Faults` |
| | `AppliedIsAccounted` | also neither `appExits` nor `latchFails` |
| `MemoryBoostProofs` | types, `FailureLeavesNothing`, `KeptIndexIsTrue`, `VerifiedIsWritten`, together `AnswersAreTrue` | none |
| `BoostBatchProofs` | types, `DoubtIsMarked`, `CountsAreTrue`, together `AccountsAreTrue`; `GoesOnServed` | none |
| `SnapshotStoreProofs` | types, `StoreIsConsistent`, `ActsOnWhatWasAsked`, and their parts one by one | none |
| | and of what lies beside the store: `ScoresAreOfTheDefinition` (`DnaSpec`), `ImportsAreWhole` (`CsvSpec`), `AcademyFollowsSnapshots` (`AcademySpec`) | none |
| `GraphicsRuntimeProofs` | types, `PicturesAreOfTheFolder`, `StatusIsTrue`, the refinement of `GraphicsChoice`; `CacheKeepsItsBooks` (`ImageSpec`) | none |
| `PlannerProofs` | types, `ChartIsConsistent`, `PlanIsBest`, `NothingIsLost`, the refinement of `DepthChart` | none |
| `ScanAndSearchProofs` | `ScanIsComplete`, `DumpIsAccepted`, `SquadsAreSettled` (`SquadSpec`), `FieldsAreAgreed` (`FieldSpec`), `ResultsAreOfTheContext` | none |

The arguments:

- *Gates.* A gate is held by exactly the threads whose location says so. That is
  inductive with the types; exclusion follows from it because every location inside
  a boost holds all three.
- *Session.* `RefusedNotApplied` says nothing of a request still on its way, so it is not
  inductive. `HandOff` follows one id in layers: where the request is (unsent,
  waiting, taken, never two of them), what it is for (an id is a boost's from its
  issue or never), who may act on it (`Finished`: judged, and in the hands of neither thread),
  and what its answer says (a terminal status is of a finished request; a refusal
  is of one that was not applied). A ready status of a scan then speaks of the dump
  that is there, because only an unfinished request can replace it. The first
  assumption is what the run `session_delete` breaks.
- *Memory.* What the boost has left in FM is in the fields it has verified and will
  undo, or in the field in hand (`LeftIsKnown`); a field leaves that set only after a
  read that found its old value. Job, target and expectation belong to one field
  (`JobAgrees`), in both directions.
- *Batch.* FM and the snapshot differ about nobody but the person in hand, and about
  that one as the reply says (`DoubtIsInHand`). A request that outlives its wait keeps
  the doubt, and the mark keeps the next command away. The persons of the runs so far
  are counted, in hand or to do, each once.
- *Store.* Every transaction leaves the flags right (`FlagsAreRight`), because each that
  changes a date or a row ends by selecting again; metric rows follow the
  flags. A row's token is below the counter and survives reselection, which gives the
  two action properties.
- *Graphics.* A generation belongs to one folder for the life of the process, since it is reserved
  before it is adopted and reserved numbers grow; an index is installed only as that of the
  generation in use; so whatever a lookup was told, the folder it reads from is that of its generation.
  The cache is a function of the folder because each change of folder empties it and
  each lookup compares generations again before it puts anything there. The
  target of a rebuild is in exactly the place the location of command and worker says.
- *Planner.* The rows a plan has placed in strings it has not finished are in the string whose turn
  it is, in ranked lanes it has filled, so the cell it fills next is empty; the user's rows in the
  transaction are the stored ones; and a new string is given an id above every one that is
  kept, so no row of a string that goes can come back as a row of a new one. Nobody better is left out
  (`BestSoFar`): a cell is settled when its lane or its string is done, and as fewer and fewer are free it stays so. For
  a lane that was matched, put whoever is free into it: that is a matching too, and its total would be higher, or the same with
  a lane more. A total counts the scores piled on their lanes (`TotalIsCount`), so a higher pile is a larger set.
- *Index and snapshots.* One scan and one boost are followed on top of `HandOff`. A scan is made once, under
  the id it was asked for, so a snapshot and an index of one source began with one ability. A boost moves FM
  and then the index, in one thread, and the snapshot only when the app reads the answer; in between the
  request is the app's own (`OpenIsMine`) or disowned, which the property excepts. Ids are not served in
  order, but whatever scan can still be made is younger than every published snapshot
  (`ScansComeInOrder`), so a boost that finds its own source in the index finds the newest.
- *Contract of a boost.* The mapping reads what the user is told off `outcome`, what FM may hold off `applied`, and takes
  the boost in hand for the open one. The write of the plugin is a step of the contract because a request that is written is unfinished,
  so its boost is still open and, by `ScansComeInOrder`, for the newest snapshot, or was given up in doubt; an answer
  is one because what a status says of a request is what was done to it (`HandOff`), and a reconciled
  boost was verified. Everything else, a refresh or a restart, is a stutter (`PluginIsSilent`, `GoingOnIsSilent`).
- *Beside the store.* Scores: a row that stays keeps both its snapshot and its save over a step of the store, and a row
  that is new is scored or cleared in the transaction that makes it. Imports: a captured token, if still given,
  is still of the save and snapshot it was captured of, because tokens only grow; so ids given
  again do not mislead a write. Academy: there is one current snapshot
  to follow, the automatic classes only grow while the save lives, and a class goes with the save it is of.
- *Search.* Each of the two context queries shows the database as it is, or has read it as it is, or
  has still to be told of what changed it (by a command that has yet to answer, a load that has yet to invalidate,
  or a refetch that is on its way). The pages are removed before the command that makes another save active is
  sent, and none is asked for until both queries have settled.
- *Scan.* The shares of the workers cover the regions, for any number of them (`SharesCover`: integer division
  leaves no region between two shares and none behind the last). A worker at address `at` of its k-th region has found every object of
  the regions before and every object below `at` (`IsAtRegion`): two blocks share a
  whole header, so an object that begins behind the last slot of one block lies within the next. What
  was found of a UID is only replaced by a lower address. So the merge of finished workers has the lowest of every UID,
  and as `BuildResult` leaves out the staff that are players, a dump lists no UID twice
  (`DumpIsAccepted`, which holds whatever the memory does meanwhile).
- *Words.* The words counted at any moment are a set (`CountedWords`): those of the regions each worker has done,
  and of the region it is at those below the next block's own words. A block counts from where the last one ended,
  its shares of the regions are disjoint and the regions lie apart (`RegionsAssumption`: `WindowsMemoryReader`
  goes on from the end of each region), so no word is in two blocks' counts, and cardinalities add. At the end the set is that of all the words.
  The sum of sizes it is compared with is `MapThenSumSet` by its definition, which picks one region after another:
  two functions that do so would differ first at a smallest set, so there is one, and the count is one (`SizesAreSummed`).

- *Squads.* What is known of a player follows the teams walked so far, whatever their order: he is shown at one of those
  that list him; away from his own club as soon as one of them is another club's; and no team of the club shown has a
  lower type. So it is for managers, with the type alone. The votes for a date are the number of teams walked whose
  next match it is. The choices (next place, manager, date) exist because each is the first of finitely
  many words of numbers that differ (`FirstWord`).
- *Fields.* The four readers are compared field by field: what the plugin writes is accepted by each later one;
  what validation lets through is read and scored, unless it is a number beyond the column; what was
  read and scored fits its column. A field's values in each reader are settled in one case per group of fields.

- *Staff.* A best way of filling the general places exists, since there are finitely many ways
  and objectives are compared like words (`BestWayIsBest`). Its objective counts first the places filled and then the scores
  piled on them (`ObjectiveIsSum`), so nobody better is left over (`NobodyBetterIsLeft`) and no way of placing the same or fewer
  coaches fills more (`WaysOfFewer`, `BestIsMost`). Slots and places are counted off together (`CountedOff`).
  The invariant `StaffInv` speaks of the slots filled so far: each by somebody free and suited, with nobody better free;
  the general slots of a scope all at once or none; heads before their departments. Every fill keeps that order
  (`FillsKeepOrder`), and at the end every slot is of some pass (`AllIsPassed`).
- *Search and tactic score.* With Moneyball roles, who is compared is in the documented cohort, whatever the combination and
  the pool (`ComparedIsCohort`), so the score a row is sorted and filtered by is the one the reader sees; what SQL and Rust
  keep between them is what one condition lets through (`KeptIsLetThrough`). As the uid decides between equal keys, the
  rows have one order only (`OrderIsOne`), so every page is cut from the same sequence: where two sorted sequences differ
  first, each would have to come before the other. The tactic score is settled by cases, with the penalties of SQL counted.
- *Image cache.* `Accounted` is inductive once each order names the members of its class once (`IsOrderOf`), so that its
  length is their number. Whoever is retained keeps his order, since the places of the retained, counted, rise by one
  (`PlacesAreTaken`). The bytes held are a sum over a set, which is the number of coins, a coin being a picture with one of its
  bytes (`TotalIsCoins`); so the bytes of what leaves are those that are subtracted, and the eviction loop ends at the
  latest with an empty order (`EvictionEnds`). For `OldestLeave` the invariant adds the order of the last uses:
  what comes first in the queue was used first (`OldestFirst`), and what is evicted is its beginning.

What stays with TLC: liveness under fairness and everything that needs `ENABLED`
(`EveryCommandReturns`, `ThePluginServes`, `EveryCommandEnds`, `EveryBoostEnds`,
`EveryRebuildEnds`, `EveryScanEnds`), and three properties of algorithms:

- `RulesAreTrue` (`FilterRules`: SQL's `LIKE` is a `RECURSIVE` operator) and `EveryDatabaseOpens` (`Migrations`: so is the
  cascade of a deletion, and the chain is 46 different statements deep). The prover reaches no module with one.
- `AnswerIsBest`: that a flow without a better path is a best one needs flows split into paths and cycles, an
  induction over data, which is beyond the prover. `MatchGraph` is compared with `Matching` on the bounded questions of `MCRules`.

## Findings

- `session_delete`: `TryAccept` accepts a request it could not delete, so the next poll accepts it
  again: a boost reported as refused can run later. It takes a failed deletion.
- `store_switch`: a switch names a save by its id alone; after a deletion it can activate
  another save that was given the id. Every other command carries the token.

Observations of the same kind have no run of their own; those about the
session are what the theorems' assumptions exclude:

- only the process that sent a boost writes the recovery mark: if the app is closed while the plugin
  writes, FM is changed and the snapshot stays in use (`appExits` in `Faults`, excluded by the
  assumption of `AppliedIsAccounted`);
- the plugin's refresh and the app write the same `request.json.tmp` (`sharedTemp`; without it `TempIsNotShared`
  keeps the two apart). The plugin can rename the app's boost into place, the app's rename then fails, and it
  reports a boost that was never sent, which the plugin runs;
- in the window, a Load Data that is answered while the user has switched to another save and is coming back
  counts as history, and the head of the saved pages is refreshed only by the next refetch:
  `HeadIsCurrent` and `RowsAreCurrent` except that case (`unseen`);
- `validate_dump_json` says that it validates that the content can be ingested; it lets fractions and numbers
  through that are too large for their column, on which reading fails before anything is stored. The plugin writes neither
  (`FieldsAreAgreed`).

## What the models leave out

- Malformed JSON and shape validation: an unreadable request is `LoseRequest`.
- The raw `request_player_dump` command, which takes no gate, behaves as the force-scan flag.
- Expiry is judged of `request.json` only, when the poll thread reads it.
- `TryEnter`'s refused branch: only the poll thread enters. The refresh of module flags keeps
  what a status says and runs when the plugin is idle.
- A single staff boost: the protocol of a player's, over a second index. Its bytes are in
  `MemoryBoost`, its batch in `BoostBatch`.
- Clearing the indexes when `Unload` has waited for the work thread; a mutex of
  `boost_gate.rs` that a panic has poisoned (no command of the source panics under a guard
  on purpose).
- In the batch, the game itself: a live value that changed is a choice of the plugin.
  A boost by one level leaves out how much is raised and that mentality is drawn.
- In the store: renames; players and staff are one kind of metric row; SQLite's own
  recovery after a crash is taken for granted, and so is the foreign-key cascade.
- `TargetExceedsPotential` in `MemoryBoost`, which the preceding checks make unreachable.
- Graphics: two of the three kinds of picture, which have caches of their own; how
  `graphics/index.rs` parses the mapping files of a folder.
- CSV: parsing, headers and formats. Nothing in the model makes other commands wait for an import,
  and nothing in the code does.
- The window: TanStack Query is modelled by how the hooks use it. A read of the context queries does
  not fail; a failure would leave the context as it was, with nothing mounted.
- Progress events; generations of the Load Data hook, which cannot differ because the button is
  disabled while a Load Data is pending.
- Planner: the squad page and the candidate list of a slot, which only read; names, and other saves' rows.
- Scores as real numbers: the catalogues of weights (`scoring/catalog.rs`, `projection_profiles.rs`) are data, and
  projections are floating-point arithmetic. Where a property needs a score it is an integer.
- Search: suggestions, Club DNA columns, Moneyball detail queries, the staff list's query beside its filters.
- Filters: the fields of one kind are alike, so a few stand for them; texts are of a few letters; numbers are
  counted in halves, and `Beyond` is the first outside of `i64`. The program's own tests feed rules no window makes; they are left out.
- The scan: how objects are laid out in memory, the checks behind a header, how regions are enumerated
  and clones are made. What a check refuses is no object of the model. `MaxMoves` changes one heap of a
  given set into another. The fallback of the game's date to the birth of the players.
- Dump validation: the JSON parser, versions and messages.
- Migrations: columns that no key, reference or later statement names, CHECK constraints, plain indexes; a second
  process on the same file. `db/mod.rs` gives the file a new name since version 38, so a user's file is never
  older; the chain from the first version is what the tests of `migrations.rs` run.
- Plugin installation (file copies), the shell, rendering,
  release scripts: pure I/O, tables or presentation, without state that two actors share.

## Plan

Done, in this order: gates and their policy; bridge files, plugin, client and
session; its hand-off invariant and proofs; a boost in memory; the store; the batches; the graphics
runtime, its abstract specification and proofs; imports, Club DNA and academy beside the store; the
planner with its optimizer; the matching graphs, the staff allocation, search, tactic score and
image cache as algorithms against references; the window's context; the scan and its pipeline, the
squads, the fields of a dump; the chain of migrations; the filter rules; the contract of a boost over the session.

Left, the most important first:

1. The second index of the plugin and a single staff boost in `BridgePlugin`.
