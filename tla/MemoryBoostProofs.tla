------------------------- MODULE MemoryBoostProofs -------------------------
(***************************************************************************)
(* What a boost may leave in FM's memory, for any number of fields, any    *)
(* values, any torn write and a game that writes at any moment.            *)
(***************************************************************************)
EXTENDS MemoryBoost, TLAPS

(* The mutation in hand, from its second read to its last look.             *)
InHand == pc \in {"reread", "write", "readback", "look", "putBack", "lookAgain"}

(* The field that the mutation in hand may have written.                    *)
Touched == IF pc \in {"readback", "look", "putBack", "lookAgain"}
              THEN {job.field} ELSE {}

(* Targets are drawn for the fields the request names, and only those.      *)
TargetsAreDrawn ==
    /\ \A f \in Fields :
          /\ expected[f] = NoValue => target[f] = NoValue
          /\ target[f] # NoValue => target[f] \in Draw(f)
          /\ target[f] = NoValue /\ pc \notin {"check", "choose", "done"}
                => expected[f] = NoValue
    /\ \A f \in applied : target[f] \notin {NoValue, expected[f]}
    /\ pc \in {"check", "choose"} => applied = {} /\ \A f \in Fields : target[f] = NoValue

(* A mutation goes from what the request found to the target, or back.      *)
JobAgrees ==
    InHand =>
        /\ job.field \in Fields
        /\ target[job.field] \notin {NoValue, expected[job.field]}
        /\ \/ /\ mode = "apply"
              /\ job = [field |-> at, from |-> expected[at], to |-> target[at]]
           \/ /\ mode = "undo"
              /\ job.field \in applied
              /\ job = [field |-> job.field, from |-> target[job.field],
                        to |-> expected[job.field]]

(* On the way out every field passed is written or needed no change.        *)
WayOut ==
    /\ pc \in {"check", "choose", "next"} => mode = "apply"
    /\ pc = "undo" => mode = "undo"
    /\ mode = "apply" =>
          /\ pc # "done" => rollback = "not-needed"
          /\ pc # "done" => failure = "none"
          /\ \A f \in applied : f < at
          /\ pc \notin {"check", "choose", "done"} =>
                \A f \in Fields : f < at /\ f \notin applied
                    => target[f] \in {expected[f], NoValue}

(* The marks say what they mean.                                            *)
MarksAreTrue ==
    \A f \in Fields : /\ by[f] = "found" => mem[f] = expected[f]
                      /\ by[f] = "boost" => mem[f] # expected[f]

(* What the boost left is in the fields it knows it has written.            *)
LeftIsKnown ==
    pc # "done" /\ rollback # "unverified" => Left \subseteq applied \cup Touched

(* A field written and verified holds its target until the game changes it. *)
AppliedHold ==
    mode = "apply" => \A f \in applied : /\ by[f] # "found"
                                         /\ by[f] = "boost" => mem[f] = target[f]

(* The answer is given at the end, and an unproved undoing is part of it.   *)
AnswerIsHonest ==
    /\ pc = "done" <=> outcome # "none"
    /\ pc = "done" /\ failure \in {"valuesChanged", "atLimit"}
          => outcome \in {"failed", "refused"}
    /\ FailureLeavesNothing
    /\ VerifiedIsWritten

Known == TargetsAreDrawn /\ JobAgrees /\ WayOut
Mine == MarksAreTrue /\ LeftIsKnown /\ AppliedHold /\ AnswerIsHonest
IInv == TypeOK /\ Known /\ Mine

(* Initially nothing is written and nothing is answered.                    *)
LEMMA InitHolds == Init => IInv
<1> SUFFICES ASSUME Init PROVE IInv
  OBVIOUS
<1> USE FieldsAssumption, ValuesAssumption DEF Init, Fields, Cells
<1>1. TypeOK
  BY DEF TypeOK, Jobs, Locations, NoJob
<1>2. Known
  BY DEF Known, TargetsAreDrawn, JobAgrees, WayOut, InHand
<1>3. Mine
  BY DEF Mine, MarksAreTrue, LeftIsKnown, AppliedHold, AnswerIsHonest, Touched,
         FailureLeavesNothing, VerifiedIsWritten, Left
<1>4. QED
  BY <1>1, <1>2, <1>3 DEF IInv

(* A put changes one field, and its mark says whether the boost did.        *)
LEMMA PutSomeLeaves ==
    ASSUME TypeOK, MarksAreTrue,
           NEW f \in Fields, NEW v \in Values, PutSome(f, v), UNCHANGED expected
    PROVE  /\ mem' \in [Fields -> Cells]
           /\ by' \in [Fields -> {"found", "boost", "game"}]
           /\ MarksAreTrue'
           /\ Left' \subseteq Left \cup {f}
           /\ \A g \in Fields \ {f} : mem'[g] = mem[g] /\ by'[g] = by[g]
BY DEF TypeOK, MarksAreTrue, PutSome, Put, Left, Cells

(* The game's write unmarks the field.                                      *)
LEMMA GameWritesKeep == IInv /\ GameWrites => IInv'
<1> SUFFICES ASSUME IInv, GameWrites PROVE IInv'
  OBVIOUS
<1> PICK f \in Fields, v \in Values :
           /\ mem' = [mem EXCEPT ![f] = v]
           /\ by' = [by EXCEPT ![f] = "game"]
  BY DEF GameWrites
<1>0. UNCHANGED <<request, pc, at, job, mode, applied, answer>>
  BY DEF GameWrites
<1>1. TypeOK'
  BY <1>0 DEF IInv, TypeOK, request, answer, Cells
<1>2. Known'
  BY <1>0 DEF Draw, IInv, Known, TargetsAreDrawn, JobAgrees, WayOut, InHand, request, answer
<1>3. Left' \subseteq Left
  BY DEF IInv, TypeOK, Left
<1>4. Mine'
  BY <1>0, <1>3 DEF Draw, IInv, TypeOK, Mine, MarksAreTrue, LeftIsKnown, AppliedHold,
         AnswerIsHonest, Touched, FailureLeavesNothing, VerifiedIsWritten, Left,
         Raised, request, answer
<1>5. QED
  BY <1>1, <1>2, <1>4 DEF IInv

(* The steps that leave FM alone and have no mutation in hand.              *)
LEMMA PlanningKeeps ==
    IInv /\ (CheckField \/ ChecksPass \/ ChooseTargets \/ AbilityAtLimit
             \/ SkipField \/ StartField \/ UndoField) => IInv'
<1> SUFFICES ASSUME IInv, CheckField \/ ChecksPass \/ ChooseTargets
                          \/ AbilityAtLimit \/ SkipField \/ StartField \/ UndoField
             PROVE  IInv'
  OBVIOUS
<1> USE FieldsAssumption, ValuesAssumption, TargetsAssumption
    DEF CheckField, ChecksPass, ChooseTargets, AbilityAtLimit, SkipField,
        StartField, UndoField, Refuse, Unchosen, Goto, request, answer
<1>1. TypeOK'
  <2>1. CASE CheckField
    <3>1. at' \in 1..(N + 1)
      BY <2>1 DEF IInv, TypeOK, Fields
    <3>2. QED
      BY <2>1, <3>1 DEF IInv, TypeOK, Locations
  <2>2. CASE ChecksPass
    BY <2>2 DEF IInv, Known, TypeOK, TargetsAreDrawn, Jobs, Locations, Fields, Cells
  <2>3. CASE ChooseTargets
    BY <2>3 DEF IInv, Known, TypeOK, TargetsAreDrawn, Jobs, Locations, Fields, Cells
  <2>4. CASE AbilityAtLimit
    BY <2>4 DEF IInv, Known, TypeOK, TargetsAreDrawn, Jobs, Locations, Fields, Cells
  <2>5. CASE SkipField
    BY <2>5 DEF IInv, Known, TypeOK, TargetsAreDrawn, Jobs, Locations, Fields, Cells
  <2>6. CASE StartField
    BY <2>6 DEF IInv, Known, TypeOK, TargetsAreDrawn, Jobs, Locations, Fields, Cells
  <2>7. CASE UndoField
    BY <2>7 DEF IInv, Known, TypeOK, TargetsAreDrawn, Jobs, Locations, Fields, Cells
  <2>8. QED
    BY <2>1, <2>2, <2>3, <2>4, <2>5, <2>6, <2>7
<1>2. Known'
  <2>1. CASE CheckField
    BY <2>1 DEF IInv, TypeOK, Known, TargetsAreDrawn, JobAgrees, WayOut, InHand, Fields, Cells
  <2>2. CASE ChecksPass
    BY <2>2 DEF IInv, TypeOK, Known, TargetsAreDrawn, JobAgrees, WayOut, InHand, Fields, Cells
  <2>3. CASE ChooseTargets
    BY <2>3 DEF Draw, IInv, TypeOK, Known, TargetsAreDrawn, JobAgrees, WayOut, InHand, Fields, Cells
  <2>4. CASE AbilityAtLimit
    BY <2>4 DEF IInv, TypeOK, Known, TargetsAreDrawn, JobAgrees, WayOut, InHand, Fields, Cells
  <2>5. CASE SkipField
    BY <2>5 DEF Draw, IInv, TypeOK, Known, TargetsAreDrawn, JobAgrees, WayOut, InHand, Fields, Cells
  <2>6. CASE StartField
    BY <2>6 DEF Draw, IInv, TypeOK, Known, TargetsAreDrawn, JobAgrees, WayOut, InHand, Fields, Cells
  <2>7. CASE UndoField
    BY <2>7 DEF Draw, IInv, TypeOK, Known, TargetsAreDrawn, JobAgrees, WayOut, InHand, Fields, Cells
  <2>8. QED
    BY <2>1, <2>2, <2>3, <2>4, <2>5, <2>6, <2>7
<1>3. MarksAreTrue' /\ Left' = Left
  BY DEF IInv, Mine, MarksAreTrue, Left
<1>4. LeftIsKnown'
  BY <1>3 DEF IInv, Known, Mine, WayOut, LeftIsKnown, Touched
<1>5. AppliedHold'
  BY DEF IInv, TypeOK, Known, Mine, TargetsAreDrawn, WayOut, AppliedHold
<1>6. AnswerIsHonest'
  <2>1. pc # "done" /\ outcome = "none"
    BY DEF IInv, Mine, AnswerIsHonest
  <2>2. \/ pc' # "done" /\ outcome' = "none"
        \/ pc' = "done" /\ outcome' = "refused" /\ pc \in {"check", "choose"}
    BY <2>1
  <2>3. pc \in {"check", "choose"} => Left' = {}
    BY <1>3 DEF IInv, Known, Mine, WayOut, TargetsAreDrawn, LeftIsKnown, Touched
  <2> QED
    BY <2>2, <2>3 DEF AnswerIsHonest, FailureLeavesNothing, VerifiedIsWritten
<1>7. QED
  BY <1>1, <1>2, <1>3, <1>4, <1>5, <1>6 DEF IInv, Mine

(* The steps that write FM write the field in hand.                         *)
LEMMA WritingKeeps == IInv /\ (Write \/ PutBack) => IInv'
<1> SUFFICES ASSUME IInv, Write \/ PutBack PROVE IInv'
  OBVIOUS
<1> DEFINE f == job.field
<1>0. UNCHANGED <<request, at, job, mode, applied, answer>>
  BY DEF Write, PutBack
<1>1. /\ InHand
      /\ f \in Fields
      /\ job.from \in Values
      /\ job.to \in Values
      /\ f \notin applied \/ mode = "undo"
      /\ pc' \in {"readback", "look", "lookAgain"}
  BY FieldsAssumption, ValuesAssumption
  DEF IInv, Known, TypeOK, Mine, JobAgrees, TargetsAreDrawn, WayOut, InHand, Write, PutBack, Goto, Fields
<1>2. \E v \in Values : PutSome(f, v)
  BY <1>1 DEF Write, PutBack
<1>3. /\ mem' \in [Fields -> Cells]
      /\ by' \in [Fields -> {"found", "boost", "game"}]
      /\ MarksAreTrue'
      /\ Left' \subseteq Left \cup {f}
      /\ \A g \in Fields \ {f} : mem'[g] = mem[g] /\ by'[g] = by[g]
  <2> HIDE DEF f
  <2>1. QED
    BY <1>0, <1>1, <1>2, PutSomeLeaves DEF IInv, Mine, request
<1>4. TypeOK'
  BY <1>0, <1>1, <1>3 DEF IInv, TypeOK, Locations, request, answer
<1>5. Known'
  BY <1>0, <1>1 DEF Draw, IInv, Known, TargetsAreDrawn, JobAgrees, WayOut, InHand,
                    request, answer
<1>6. LeftIsKnown'
  BY <1>0, <1>1, <1>3 DEF IInv, Mine, LeftIsKnown, Touched, InHand, answer
<1>7. AppliedHold'
  BY <1>0, <1>1, <1>3 DEF IInv, TypeOK, Mine, AppliedHold, request
<1>8. AnswerIsHonest'
  BY <1>0, <1>1 DEF IInv, Mine, AnswerIsHonest, InHand, FailureLeavesNothing,
                    VerifiedIsWritten, answer
<1>9. QED
  BY <1>3, <1>4, <1>5, <1>6, <1>7, <1>8 DEF IInv, Mine

(* The steps that judge the mutation in hand: on, round, or to the end.     *)
LEMMA JudgingKeeps == IInv /\ (Reread \/ ReadBack \/ Look \/ LookAgain) => IInv'
<1> SUFFICES ASSUME IInv, Reread \/ ReadBack \/ Look \/ LookAgain PROVE IInv'
  OBVIOUS
<1> USE FieldsAssumption
    DEF Reread, ReadBack, Look, LookAgain, FieldFails, FieldDone, EndsWith,
        Goto, request, answer
<1>1. TypeOK'
  BY DEF IInv, Known, TypeOK, JobAgrees, WayOut, InHand, Locations, Fields
<1>2. Known'
  <2>1. TargetsAreDrawn'
    BY DEF Draw, IInv, TypeOK, Known, TargetsAreDrawn, JobAgrees, WayOut, InHand, Fields
  <2>2. JobAgrees'
    BY DEF IInv, TypeOK, Known, JobAgrees, WayOut, InHand, Fields
  <2>3. WayOut'
    BY DEF IInv, TypeOK, Known, JobAgrees, WayOut, InHand, Fields
  <2>4. QED
    BY <2>1, <2>2, <2>3 DEF Known
<1>3. LeftIsKnown'
  BY DEF IInv, TypeOK, Known, Mine, JobAgrees, WayOut, MarksAreTrue, LeftIsKnown,
         InHand, Touched, Left, Fields
<1>4. AppliedHold' /\ MarksAreTrue'
  BY DEF IInv, TypeOK, Known, Mine, JobAgrees, WayOut, MarksAreTrue, AppliedHold,
         InHand, Fields
<1>5. AnswerIsHonest'
  BY DEF IInv, TypeOK, Known, Mine, WayOut, AnswerIsHonest,
         FailureLeavesNothing, VerifiedIsWritten
<1>6. QED
  BY <1>1, <1>2, <1>3, <1>4, <1>5 DEF IInv, Mine

(* The steps that give the answer.                                          *)
LEMMA AnsweringKeeps == IInv /\ (AllWritten \/ AllUndone) => IInv'
<1> SUFFICES ASSUME IInv, AllWritten \/ AllUndone PROVE IInv'
  OBVIOUS
<1> USE FieldsAssumption, TargetsAssumption
    DEF AllWritten, AllUndone, EndsWith, Goto, request, answer
<1>1. TypeOK'
  BY DEF IInv, TypeOK, Locations
<1>2. Known'
  <2>1. JobAgrees' /\ WayOut'
    BY DEF IInv, TypeOK, Known, JobAgrees, WayOut, InHand, Fields
  <2>2. TargetsAreDrawn'
    BY DEF Draw, IInv, TypeOK, Known, TargetsAreDrawn, Fields
  <2>3. QED
    BY <2>1, <2>2 DEF Known
<1>3. LeftIsKnown' /\ AppliedHold' /\ MarksAreTrue'
  BY DEF IInv, Mine, Known, WayOut, LeftIsKnown, AppliedHold, MarksAreTrue
<1>4. AnswerIsHonest'
  <2>1. CASE AllWritten
    <3>1. \A f \in Fields : f < at
      BY <2>1 DEF Fields
    <3>2. \A f \in Left : f \in applied
      BY <2>1 DEF IInv, Known, Mine, WayOut, LeftIsKnown, Touched
    <3>3. \A f \in Fields : Raised(f) => f \in applied
      BY <2>1, <3>1, ValuesAssumption
      DEF IInv, TypeOK, Known, WayOut, TargetsAreDrawn, Raised, Draw, Cells
    <3>4. \A f \in applied : Raised(f)
      BY <2>1 DEF IInv, TypeOK, Known, TargetsAreDrawn, Raised, Draw
    <3>5. QED
      BY <2>1, <3>2, <3>3, <3>4
      DEF IInv, TypeOK, Known, Mine, WayOut, AppliedHold, AnswerIsHonest,
          FailureLeavesNothing, VerifiedIsWritten, Left, Raised, Draw
  <2>2. CASE AllUndone
    BY <2>2 DEF IInv, TypeOK, Mine, LeftIsKnown, AnswerIsHonest, Touched,
                FailureLeavesNothing, VerifiedIsWritten, Left
  <2>3. QED
    BY <2>1, <2>2
<1>5. QED
  BY <1>1, <1>2, <1>3, <1>4 DEF IInv, Mine

(* The inductive invariant.                                                 *)
THEOREM BoostInvariant == Spec => []IInv
<1>1. Init => IInv
  BY InitHolds
<1>2. IInv /\ [Next]_vars => IInv'
  <2>1. IInv /\ UNCHANGED vars => IInv'
    BY DEF vars, request, answer, IInv, TypeOK, Known, Mine, TargetsAreDrawn,
           JobAgrees, WayOut, InHand, MarksAreTrue, LeftIsKnown, AppliedHold,
           AnswerIsHonest, Touched, FailureLeavesNothing, VerifiedIsWritten,
           Left, Raised, Draw
  <2>2. QED
    BY <2>1, GameWritesKeep, PlanningKeeps, WritingKeeps, JudgingKeeps,
       AnsweringKeeps DEF Next, BoostStep
<1>3. QED
  BY <1>1, <1>2, PTL DEF Spec

(* The types of the boost, whatever its fields and values.                  *)
THEOREM TypeCorrect == Spec => []TypeOK
BY BoostInvariant, PTL DEF IInv

(* A boost that is reported as failed has left nothing of its own in FM,    *)
(* however its writes, reads and restores went and whatever the game did:   *)
(* what it may have left is in the fields it undoes or in the one in hand,  *)
(* and only a field seen to hold its old value is taken off.                *)
THEOREM FailuresLeaveNothing == Spec => []FailureLeavesNothing
BY BoostInvariant, PTL DEF IInv, Mine, AnswerIsHonest

(* The failures that keep the live index left nothing in FM.                *)
THEOREM KeptIndexesAreTrue == Spec => []KeptIndexIsTrue
<1>1. IInv => KeptIndexIsTrue
  BY DEF IInv, Mine, AnswerIsHonest, FailureLeavesNothing, KeptIndexIsTrue
<1>2. QED
  BY <1>1, BoostInvariant, PTL

(* A boost reported as verified has written each field it was to raise.     *)
THEOREM VerifiedBoostsAreWritten == Spec => []VerifiedIsWritten
BY BoostInvariant, PTL DEF IInv, Mine, AnswerIsHonest

(* Failed, refused, at its limit or verified: the answer is true of FM.     *)
THEOREM AnswersAreHonest == Spec => []AnswersAreTrue
BY FailuresLeaveNothing, KeptIndexesAreTrue, VerifiedBoostsAreWritten, PTL DEF AnswersAreTrue
=============================================================================
