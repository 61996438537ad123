-------------------------- MODULE BoostBatchProofs --------------------------
(***************************************************************************)
(* What a run of boosts leaves between FM and the snapshot, for any        *)
(* cohorts, any levels and a plugin that answers when and how it may.      *)
(***************************************************************************)
EXTENDS BoostBatch, TLAPS

(* Only persons with room for a boost are asked for.                        *)
RoomIsLeft == pc \in {"ask", "wait", "reconcile"} => db[task] < MaxLevel

(* The plugin answers a request once, and keeps the indexes with a live     *)
(* value.                                                                   *)
RepliesAreOnce == reply # "none" => open = Nobody
ServedIsIndexed == reply = "liveValue" => indexed

(* FM and the snapshot differ about nobody but the person in hand.          *)
DoubtIsInHand ==
    ~lost /\ pc \in {"wait", "reconcile"} =>
        /\ \A t \in Tasks \ {task} : fm[t] = db[t] /\ open # t
        /\ reply \in {"none", "liveValue", "rejected"} => fm[task] = db[task]
        /\ reply = "verified" => fm[task] = db[task] + 1
        /\ pc = "reconcile" => reply = "verified"

Seen == tally.updated \cup tally.skipped \cup tally.failed
InHand == {task} \ {Nobody}
Passed(n) == {t \in Tasks : \E i \in 1..n : t.run = command[i]}

(* The persons of the runs so far are counted, in hand or to do, once.      *)
CountsAreComplete ==
    /\ pc = "capture" => Seen = Passed(run - 1)
    /\ pc \in {"next", "prepare", "ask", "wait", "reconcile"} =>
          /\ Seen \cup todo \cup InHand = Passed(run)
          /\ Seen \cap (todo \cup InHand) = {}
          /\ todo \cap InHand = {}
    /\ pc \in {"capture", "next", "done"} => task = Nobody
    /\ ending = "complete" => pc = "done" /\ Seen = Passed(Len(command))
    /\ pc # "done" => ending = "none"

Talk == RoomIsLeft /\ RepliesAreOnce /\ ServedIsIndexed
Safe == DoubtIsMarked /\ DoubtIsInHand
Counted == CountsAreComplete /\ UpdatedIsStored
IInv == TypeOK /\ Talk /\ Safe /\ Counted

(* A command is one run or three different ones.                            *)
LEMMA CommandsAreRuns ==
    ASSUME NEW c \in Commands
    PROVE  /\ Len(c) \in Nat \ {0}
           /\ DOMAIN c = 1..Len(c)
           /\ \A i \in 1..Len(c) : c[i] \in Runs
           /\ \A i, j \in 1..Len(c) : c[i] = c[j] => i = j
<1>1. CASE c = <<"wonderkids", "players", "staff">>
  BY <1>1 DEF Runs
<1>2. CASE \E r \in Runs : c = <<r>>
  BY <1>2
<1>3. QED
  BY <1>1, <1>2 DEF Commands

(* The next run has nobody of the runs before.                              *)
LEMMA RunsAreApart ==
    ASSUME TypeOK
    PROVE  /\ Passed(0) = {}
           /\ run - 1 \in Nat
           /\ Passed(run) = Passed(run - 1) \cup Cohort(command[run])
           /\ Passed(run - 1) \cap Cohort(command[run]) = {}
<1>1. command \in Commands /\ run \in 1..Len(command) /\ Len(command) \in Nat
  BY CommandsAreRuns DEF TypeOK
<1>2. Passed(run) = Passed(run - 1) \cup Cohort(command[run])
  BY <1>1 DEF Passed, Cohort
<1>3. \A i \in 1..(run - 1) : command[i] # command[run]
  BY <1>1, CommandsAreRuns
<1>4. Passed(run - 1) \cap Cohort(command[run]) = {}
  BY <1>3 DEF Passed, Cohort
<1>5. QED
  BY <1>1, <1>2, <1>4 DEF Passed

(* Initially no command has run and FM and the snapshot agree.              *)
LEMMA InitHolds == Init => IInv
<1> SUFFICES ASSUME Init PROVE IInv
  OBVIOUS
<1>1. TypeOK
  <2>1. run \in DOMAIN command
    BY CommandsAreRuns DEF Init
  <2>2. QED
    BY <2>1 DEF Init, TypeOK, NoTally
<1>2. Talk /\ Safe
  BY NobodyAssumption DEF Init, Talk, RoomIsLeft, RepliesAreOnce, ServedIsIndexed, Safe,
     DoubtIsMarked, DoubtIsInHand, InDoubt
<1>3. Counted
  BY DEF Init, Counted, CountsAreComplete, UpdatedIsStored
<1>4. QED
  BY <1>1, <1>2, <1>3 DEF IInv

(* Starting a command and loading data.                                     *)
LEMMA BetweenCommandsKeep == IInv /\ (Start \/ LoadData) => IInv'
<1> SUFFICES ASSUME IInv, Start \/ LoadData PROVE IInv'
  OBVIOUS
<1> USE DEF Start, LoadData, app, store, plugin
<1>1. TypeOK'
  <2>1. (run \in DOMAIN command)'
    BY CommandsAreRuns DEF IInv, TypeOK
  <2>2. CASE Start
    BY <2>1, <2>2 DEF IInv, TypeOK, NoTally
  <2>3. CASE LoadData
    BY <2>1, <2>3 DEF IInv, TypeOK
  <2>4. QED
    BY <2>2, <2>3
<1>2. Talk' /\ Safe'
  BY NobodyAssumption DEF IInv, TypeOK, Talk, RoomIsLeft, RepliesAreOnce, ServedIsIndexed,
     Safe, DoubtIsMarked, DoubtIsInHand, InDoubt
<1>3. CountsAreComplete'
  BY DEF IInv, Counted, CountsAreComplete, Seen, InHand, Passed, NoTally
<1>4. UpdatedIsStored'
  BY DEF IInv, Counted, CountsAreComplete, UpdatedIsStored, NoTally
<1>5. QED
  BY <1>1, <1>2, <1>3, <1>4 DEF IInv, Counted

(* The plugin's answers: only the person of the open request changes.       *)
LEMMA PluginKeeps == IInv /\ PluginStep => IInv'
<1> SUFFICES ASSUME IInv, PluginStep PROVE IInv'
  OBVIOUS
<1> USE DEF PluginStep, Boosts, Keeps, Rejects, FailsInDoubt, Answer, app, store
<1>1. TypeOK'
  <2>1. \/ fm' = fm
        \/ open \in Tasks /\ fm[open] < MaxLevel /\ fm' = [fm EXCEPT ![open] = @ + 1]
    BY DEF IInv, TypeOK
  <2>2. fm' \in [Tasks -> Levels]
    <3>1. fm \in [Tasks -> Levels]
      BY DEF IInv, TypeOK
    <3>2. CASE fm' = fm
      BY <3>1, <3>2
    <3>3. CASE open \in Tasks /\ fm[open] < MaxLevel /\ fm' = [fm EXCEPT ![open] = @ + 1]
      <4>1. fm[open] + 1 \in Levels
        BY <3>1, <3>3, LevelsAssumption DEF Levels
      <4>2. QED
        BY <3>1, <3>3, <4>1
    <3>4. QED
      BY <2>1, <3>2, <3>3
  <2>3. /\ open' = Nobody /\ indexed' \in BOOLEAN
        /\ reply' \in {"verified", "liveValue", "rejected", "unconfirmed"}
    BY DEF IInv, TypeOK
  <2>4. QED
    BY <2>2, <2>3 DEF IInv, TypeOK
<1>2. Talk'
  BY DEF IInv, Talk, RoomIsLeft, RepliesAreOnce, ServedIsIndexed
<1>3. open \in Tasks /\ \A t \in Tasks \ {open} : fm'[t] = fm[t]
  BY DEF IInv, TypeOK
<1>4. DoubtIsMarked'
  BY <1>3 DEF IInv, Safe, DoubtIsMarked, InDoubt
<1>5. DoubtIsInHand'
  <2> SUFFICES ASSUME ~lost, pc \in {"wait", "reconcile"} PROVE DoubtIsInHand'
    BY DEF DoubtIsInHand
  <2>1. reply = "none" /\ open = task /\ fm[task] = db[task] /\ pc = "wait"
    BY <1>3 DEF IInv, Talk, RepliesAreOnce, Safe, DoubtIsInHand
  <2>2. reply' = "verified" => fm'[task] = db[task] + 1
    BY <2>1, <1>3 DEF IInv, TypeOK
  <2>3. reply' \in {"liveValue", "rejected"} => fm'[task] = db[task]
    BY <2>1
  <2>4. \A t \in Tasks \ {task} : fm'[t] = db'[t] /\ open' # t
    BY <2>1, <1>3, NobodyAssumption DEF IInv, Safe, DoubtIsInHand
  <2>5. UNCHANGED <<pc, db, task, lost>> /\ reply' # "none"
    OBVIOUS
  <2>6. QED
    BY <2>1, <2>2, <2>3, <2>4, <2>5 DEF DoubtIsInHand
<1>6. Counted'
  BY DEF IInv, Counted, CountsAreComplete, UpdatedIsStored, Seen, InHand, Passed
<1>7. QED
  BY <1>1, <1>2, <1>4, <1>5, <1>6 DEF IInv, Safe

(* The steps that take up a run or a person.                                *)
LEMMA TakingKeeps == IInv /\ (Capture \/ TakeNext \/ RunOver) => IInv'
<1> SUFFICES ASSUME IInv, Capture \/ TakeNext \/ RunOver PROVE IInv'
  OBVIOUS
<1> USE DEF Capture, TakeNext, RunOver, End, store, plugin
<1>1. TypeOK'
  BY CommandsAreRuns DEF IInv, TypeOK, Cohort
<1>2. Talk' /\ Safe'
  BY NobodyAssumption DEF IInv, TypeOK, Talk, RoomIsLeft, RepliesAreOnce, ServedIsIndexed,
     Safe, DoubtIsMarked, DoubtIsInHand, InDoubt
<1>3. CountsAreComplete'
  <2>1. CASE Capture
    <3>1. Passed(run)' = Passed(run) /\ Seen' = Seen /\ InHand' = InHand
      BY <2>1 DEF Passed, Seen, InHand
    <3>2. Seen = Passed(run - 1) /\ ending = "none" /\ InHand = {}
      BY <2>1 DEF IInv, Counted, CountsAreComplete, InHand
    <3>3. todo' = Cohort(command[run])
      BY <2>1
    <3>4. Passed(run) = Seen \cup todo' /\ Seen \cap todo' = {}
      BY <3>2, <3>3, RunsAreApart DEF IInv
    <3>5. QED
      BY <2>1, <3>1, <3>2, <3>4 DEF IInv, Counted, CountsAreComplete, InHand
  <2>2. CASE TakeNext
    BY <2>2, NobodyAssumption
       DEF IInv, TypeOK, Counted, CountsAreComplete, Seen, InHand, Passed
  <2>3. CASE RunOver
    <3>1. /\ Seen' = Seen /\ Seen = Passed(run) /\ ending = "none" /\ task = Nobody
          /\ command' = command
      BY <2>3 DEF IInv, Counted, CountsAreComplete, Seen, InHand
    <3>2. CASE run = Len(command)
      <4>1. Passed(Len(command))' = Passed(run)
        BY <3>1, <3>2 DEF Passed
      <4>2. pc' = "done"
        BY <2>3, <3>2
      <4>3. QED
        BY <3>1, <4>1, <4>2 DEF CountsAreComplete
    <3>3. CASE run < Len(command)
      <4>1. run' = run + 1 /\ pc' = "capture" /\ ending' = ending /\ run \in Nat
        BY <2>3, <3>3, CommandsAreRuns DEF IInv, TypeOK
      <4>2. Passed(run - 1)' = Passed(run)
        BY <3>1, <4>1 DEF Passed
      <4>3. QED
        BY <3>1, <4>1, <4>2 DEF CountsAreComplete
    <3>4. QED
      BY <2>3, <3>2, <3>3
  <2>4. QED
    BY <2>1, <2>2, <2>3
<1>4. UpdatedIsStored'
  BY DEF IInv, Counted, CountsAreComplete, UpdatedIsStored
<1>5. QED
  BY <1>1, <1>2, <1>3, <1>4 DEF IInv, Counted

(* The steps with the person in hand that neither count nor end.            *)
LEMMA HandlingKeeps ==
    IInv /\ (Prepare \/ PrepareFails \/ Ask \/ AskFails \/ SeeVerified
             \/ SeeRejected \/ SeeUnconfirmed \/ ReconcileFails) => IInv'
<1> SUFFICES ASSUME IInv,
                    Prepare \/ PrepareFails \/ Ask \/ AskFails \/ SeeVerified
                        \/ SeeRejected \/ SeeUnconfirmed \/ ReconcileFails
             PROVE  IInv'
  OBVIOUS
<1> USE DEF Prepare, AtLimit, PrepareFails, Ask, AskFails, SeeVerified, SeeRejected,
            SeeUnconfirmed, ReconcileFails, BridgeFails, Goto, End, store, plugin
<1>1. TypeOK'
  BY DEF IInv, TypeOK
<1>2. Talk'
  BY LevelsAssumption DEF IInv, TypeOK, Talk, RoomIsLeft, RepliesAreOnce, ServedIsIndexed, Levels
<1>3. Safe'
  BY NobodyAssumption DEF IInv, TypeOK, Talk, RepliesAreOnce, Safe, DoubtIsMarked,
     DoubtIsInHand, InDoubt
<1>4. Counted'
  BY DEF IInv, Counted, CountsAreComplete, UpdatedIsStored, Seen, InHand, Passed
<1>5. QED
  BY <1>1, <1>2, <1>3, <1>4 DEF IInv

(* The steps that count a person or end the command.                        *)
LEMMA EndingKeeps ==
    IInv /\ (Skip \/ SeeLiveValue \/ Reconcile \/ CaptureFails \/ Mark \/ MarkFails)
        => IInv'
<1> SUFFICES ASSUME IInv,
                    Skip \/ SeeLiveValue \/ Reconcile \/ CaptureFails \/ Mark \/ MarkFails
             PROVE  IInv'
  OBVIOUS
<1> USE DEF Skip, SeeLiveValue, Reconcile, CaptureFails, Mark, MarkFails, Count, End,
            store, plugin
<1>1. TypeOK'
  <2>1. db' \in [Tasks -> Levels]
    BY LevelsAssumption DEF IInv, TypeOK, Talk, RoomIsLeft, Levels
  <2>2. tally' \in [updated : SUBSET Tasks, skipped : SUBSET Tasks, failed : SUBSET Tasks]
    BY DEF IInv, TypeOK
  <2>3. QED
    BY <2>1, <2>2 DEF IInv, TypeOK
<1>2. Talk'
  BY DEF IInv, TypeOK, Talk, RoomIsLeft, RepliesAreOnce, ServedIsIndexed
<1>3. Safe'
  BY NobodyAssumption, LevelsAssumption DEF IInv, TypeOK, Talk, RepliesAreOnce, Safe,
     DoubtIsMarked, DoubtIsInHand, InDoubt, Levels
<1>4. CountsAreComplete'
  BY NobodyAssumption DEF IInv, TypeOK, Counted, CountsAreComplete, Seen, InHand, Passed
<1>5. UpdatedIsStored'
  BY NobodyAssumption DEF IInv, TypeOK, Counted, CountsAreComplete, UpdatedIsStored,
     Seen, InHand
<1>6. QED
  BY <1>1, <1>2, <1>3, <1>4, <1>5 DEF IInv, Counted

(* The inductive invariant.                                                 *)
THEOREM BatchInvariant == Spec => []IInv
<1>1. Init => IInv
  BY InitHolds
<1>2. IInv /\ [Next]_vars => IInv'
  <2>1. IInv /\ UNCHANGED vars => IInv'
    BY DEF vars, app, store, plugin, IInv, TypeOK, Talk, RoomIsLeft, RepliesAreOnce,
           ServedIsIndexed, Safe, DoubtIsMarked, DoubtIsInHand, InDoubt, Counted,
           CountsAreComplete, UpdatedIsStored, Seen, InHand, Passed
  <2>2. QED
    BY <2>1, BetweenCommandsKeep, PluginKeeps, TakingKeeps, HandlingKeeps, EndingKeeps
       DEF Next, CommandStep
<1>3. QED
  BY <1>1, <1>2, PTL DEF Spec

(* The types of a run, whatever its cohorts and levels.                     *)
THEOREM TypeCorrect == Spec => []TypeOK
BY BatchInvariant, PTL DEF IInv

(* A run stops in doubt, and its doubt is marked.                           *)
THEOREM DoubtsAreMarked == Spec => []DoubtIsMarked
BY BatchInvariant, PTL DEF IInv, Safe

(* What a run says it has updated is what it has stored.                    *)
THEOREM UpdatesAreStored == Spec => []UpdatedIsStored
BY BatchInvariant, PTL DEF IInv, Counted

(* A complete command has counted all its cohorts.                          *)
THEOREM CompleteIsEverybody == Spec => []CompleteIsAll
<1>1. IInv => CompleteIsAll
  <2> SUFFICES ASSUME IInv, ending = "complete"
               PROVE  Seen = UNION {Cohort(command[i]) : i \in DOMAIN command}
    BY DEF CompleteIsAll, Seen
  <2>1. Seen = Passed(Len(command))
    BY DEF IInv, Counted, CountsAreComplete
  <2>2. DOMAIN command = 1..Len(command)
    BY CommandsAreRuns DEF IInv, TypeOK
  <2>3. QED
    BY <2>1, <2>2 DEF Passed, Cohort
<1>2. QED
  BY <1>1, BatchInvariant, PTL

(* The counts of an answer stand for what is stored and for everybody.      *)
THEOREM CountsAreRight == Spec => []CountsAreTrue
BY UpdatesAreStored, CompleteIsEverybody, PTL DEF CountsAreTrue

(* What a command leaves behind it is counted or marked.                    *)
THEOREM AccountsAreRight == Spec => []AccountsAreTrue
BY DoubtsAreMarked, CountsAreRight, PTL DEF AccountsAreTrue

(* A run goes on after a refusal only while the plugin serves it.           *)
THEOREM RunsGoOnServed == Spec => GoesOnServed
<1>1. IInv /\ [Next]_vars => [pc = "wait" /\ pc' = "next" => indexed]_vars
  <2> SUFFICES ASSUME IInv, Next, pc = "wait", pc' = "next"
               PROVE  indexed
    OBVIOUS
  <2>1. SeeLiveValue
    BY DEF Next, Start, CommandStep, Capture, CaptureFails, TakeNext, RunOver, Skip,
       Prepare, PrepareFails, Ask, AskFails, SeeVerified, SeeRejected, SeeUnconfirmed,
       BridgeFails, Goto, End, Reconcile, ReconcileFails, Mark, MarkFails, PluginStep,
       Boosts, Keeps, Rejects, FailsInDoubt, Answer, app, LoadData
  <2>2. QED
    BY <2>1 DEF SeeLiveValue, IInv, Talk, ServedIsIndexed
<1>2. QED
  BY <1>1, BatchInvariant, PTL DEF Spec, GoesOnServed
=============================================================================
