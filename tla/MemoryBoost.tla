---------------------------- MODULE MemoryBoost ----------------------------
(***************************************************************************)
(* One boost inside the plugin, byte by byte: what                         *)
(* PlayerBoostOperationService, StaffBoostOperationService and the two     *)
(* value mutation services do to FM's memory while the game goes on        *)
(* writing it.  A boost has one field (an ability) or three (ambition,     *)
(* professionalism, determination), each written, read back and, when that *)
(* goes wrong, put back; a field that fails undoes the ones before it.     *)
(***************************************************************************)
EXTENDS Integers

CONSTANTS N,         \* the fields of a mentality, 1..N in the order of the code
          Values,    \* the values a field may hold and the checks accept
          Torn,      \* what else an incomplete write of two bytes can leave
          NoValue,   \* a field the request says nothing of
          Targets    \* per kind, the values a field that holds v may be raised to

Kinds == {"ability", "mentality", "staff"}
Fields == 1..N
Cells == Values \cup Torn

ASSUME FieldsAssumption == N \in Nat \ {0}
ASSUME ValuesAssumption == NoValue \notin Cells /\ Values # {}
ASSUME TargetsAssumption ==
    /\ Targets \in [Kinds -> [Values -> SUBSET Values]]
    /\ \A k \in Kinds, v \in Values :
          Targets[k][v] # {} /\ (v \in Targets[k][v] => Targets[k][v] = {v})

VARIABLES
    mem,       \* FM's memory, by field
    by,        \* whose value each field holds: the one the request found
               \* there, the boost's, or a later one of the game
    kind,      \* what the request asks for
    expected,  \* what the request says each field holds
    target,    \* what the boost wants each field to hold
    pc,        \* where the boost is
    at,        \* the field it is at
    job,       \* the mutation in hand: a field, from what, to what
    mode,      \* "apply", or "undo" once a field has failed
    applied,   \* the fields written and verified
    failure,   \* PlayerBoostFailure
    rollback,  \* PlayerValueRollback
    outcome    \* the outcome of the PlayerBoostResult; "refused" is none

request == <<kind, expected, target>>
answer == <<failure, rollback, outcome>>
vars == <<mem, by, request, pc, at, job, mode, applied, answer>>

NoJob == [field |-> 0, from |-> NoValue, to |-> NoValue]
Jobs == [field : Fields, from : Values, to : Values] \cup {NoJob}

Locations == {"check", "choose", "next", "reread", "write", "readback",
              "look", "putBack", "lookAgain", "undo", "done"}

TypeOK ==
    /\ mem \in [Fields -> Cells]
    /\ by \in [Fields -> {"found", "boost", "game"}]
    /\ kind \in Kinds
    /\ expected \in [Fields -> Values \cup {NoValue}]
    /\ target \in [Fields -> Values \cup {NoValue}]
    /\ pc \in Locations
    /\ at \in 1..(N + 1)
    /\ job \in Jobs
    /\ mode \in {"apply", "undo"}
    /\ applied \in SUBSET Fields
    /\ failure \in {"none", "liveRead", "valuesChanged", "atLimit",
                    "mutationFailed", "partial"}
    /\ rollback \in {"not-needed", "restored", "unverified"}
    /\ outcome \in {"none", "verified", "failed", "refused",
                    "partial-unverified"}

Draw(f) == Targets[kind][expected[f]]

(* A field with room for a raise: an eligible mentality, or an ability that *)
(* is not at its limit.                                                     *)
Raised(f) == expected[f] \in Values /\ Draw(f) # {expected[f]}

(* A mentality request names a field worth raising                          *)
(* (TryGetMentalityExpectations); an ability request names the first only.  *)
Init ==
    /\ mem \in [Fields -> Values]
    /\ kind \in Kinds
    /\ expected \in [Fields -> Values \cup {NoValue}]
    /\ by = [f \in Fields |-> IF mem[f] = expected[f] THEN "found" ELSE "game"]
    /\ IF kind = "mentality" THEN \E f \in Fields : Raised(f)
                             ELSE \A f \in Fields : expected[f] \in Values <=> f = 1
    /\ target = [f \in Fields |-> NoValue]
    /\ pc = "check"
    /\ at = 1
    /\ job = NoJob
    /\ mode = "apply"
    /\ applied = {}
    /\ failure = "none"
    /\ rollback = "not-needed"
    /\ outcome = "none"

-----------------------------------------------------------------------------
(* The memory.                                                              *)

Goto(l) == pc' = l

(* The bytes of field f become v: the boost's doing, unless v is what the   *)
(* request found there.                                                     *)
Put(f, v) ==
    /\ mem' = [mem EXCEPT ![f] = v]
    /\ by' = [by EXCEPT ![f] = IF v = expected[f] THEN "found" ELSE "boost"]

(* TryWriteScalar: nothing, all or, of the two bytes of an ability, a part  *)
(* is written, whatever it reports.                                         *)
PutSome(f, v) ==
    \/ UNCHANGED <<mem, by>>
    \/ Put(f, v)
    \/ kind # "mentality" /\ \E c \in Torn : Put(f, c)

(* The game, or the user, changes a field at any time.                      *)
GameWrites ==
    /\ \E f \in Fields, v \in Values :
          /\ mem' = [mem EXCEPT ![f] = v]
          /\ by' = [by EXCEPT ![f] = "game"]
    /\ UNCHANGED <<request, pc, at, job, mode, applied, answer>>

-----------------------------------------------------------------------------
(* Before the first write.                                                  *)

(* The boost ends with no result record: nothing was attempted.             *)
Refuse(why) ==
    /\ failure' = why
    /\ outcome' = "refused"
    /\ Goto("done")
    /\ UNCHANGED <<mem, by, request, at, job, mode, applied, rollback>>

(* TryReadLiveAbilityState and TryReadMentality: any read may fail, and the *)
(* ability, which every boost checks first, may be the one that changed.    *)
CheckField ==
    /\ pc = "check"
    /\ at \in Fields
    /\ \/ Refuse("liveRead")
       \/ Refuse("valuesChanged")
       \/ /\ expected[at] \in {mem[at], NoValue}
          /\ at' = at + 1
          /\ UNCHANGED <<mem, by, request, pc, job, mode, applied, answer>>

ChecksPass ==
    /\ pc = "check"
    /\ at = N + 1
    /\ Goto("choose")
    /\ UNCHANGED <<mem, by, request, at, job, mode, applied, answer>>

(* ChooseMentalityTarget, or Min(current + increment, potential, 200).      *)
ChooseTargets ==
    /\ pc = "choose"
    /\ target' \in [Fields -> Values \cup {NoValue}]
    /\ \A f \in Fields : IF expected[f] = NoValue
                            THEN target'[f] = NoValue
                            ELSE target'[f] \in Draw(f)
    /\ kind # "mentality" => target'[1] # expected[1]
    /\ at' = 1
    /\ Goto("next")
    /\ UNCHANGED <<mem, by, kind, expected, job, mode, applied, answer>>

AbilityAtLimit ==
    /\ pc = "choose"
    /\ kind # "mentality"
    /\ ~Raised(1)
    /\ Refuse("atLimit")

-----------------------------------------------------------------------------
(* One mutation: reread, WriteAndVerify, Recover.                           *)

Unchosen == at \in Fields /\ target[at] \in {expected[at], NoValue}

(* ApplyMentalityChange without a change to make.                           *)
SkipField ==
    /\ pc = "next"
    /\ Unchosen
    /\ at' = at + 1
    /\ UNCHANGED <<mem, by, request, pc, job, mode, applied, answer>>

(* Mutant: every field is given the value drawn for the first.              *)
StartFieldMixed ==
    /\ pc = "next"
    /\ at \in Fields
    /\ ~Unchosen
    /\ job' = [field |-> at, from |-> expected[at],
               to |-> IF target[1] = NoValue THEN target[at] ELSE target[1]]
    /\ Goto("reread")
    /\ UNCHANGED <<mem, by, request, at, mode, applied, answer>>

StartField ==
    /\ pc = "next"
    /\ at \in Fields
    /\ ~Unchosen
    /\ job' = [field |-> at, from |-> expected[at], to |-> target[at]]
    /\ Goto("reread")
    /\ UNCHANGED <<mem, by, request, at, mode, applied, answer>>

(* Mutant: the failure of the first field is reported, undone or not.       *)
EndsWithFirst(why, how) ==
    /\ failure' = why
    /\ rollback' = how
    /\ outcome' = IF how = "unverified" THEN "partial-unverified" ELSE "failed"
    /\ Goto("done")

EndsWith(why, how) ==
    /\ failure' = IF how = "unverified" THEN "partial" ELSE why
    /\ rollback' = how
    /\ outcome' = IF how = "unverified" THEN "partial-unverified" ELSE "failed"
    /\ Goto("done")

(* A field that fails turns the boost round; one that cannot be undone ends *)
(* the undoing, whatever fields are left.                                   *)
FieldFails(why, how) ==
    /\ \/ /\ mode = "apply"
          /\ mode' = "undo"
          /\ failure' = why
          /\ rollback' = how
          /\ Goto("undo")
          /\ UNCHANGED outcome
       \/ /\ mode = "undo"
          /\ EndsWith(failure, "unverified")
          /\ UNCHANGED mode
    /\ UNCHANGED <<mem, by, request, at, job, applied>>

(* Mutant: an undone field stays in the list of those to undo.              *)
FieldDoneForgets ==
    /\ IF mode = "apply"
          THEN /\ applied' = applied \cup {job.field}
               /\ at' = at + 1
               /\ Goto("next")
               /\ UNCHANGED rollback
          ELSE /\ rollback' = "restored"
               /\ Goto("undo")
               /\ UNCHANGED <<applied, at>>
    /\ UNCHANGED <<mem, by, request, job, mode, failure, outcome>>

FieldDone ==
    /\ \/ /\ mode = "apply"
          /\ applied' = applied \cup {job.field}
          /\ at' = at + 1
          /\ Goto("next")
          /\ UNCHANGED rollback
       \/ /\ mode = "undo"
          /\ applied' = applied \ {job.field}
          /\ rollback' = IF rollback = "not-needed" THEN "restored" ELSE rollback
          /\ Goto("undo")
          /\ UNCHANGED at
    /\ UNCHANGED <<mem, by, request, job, mode, failure, outcome>>

(* SetCurrentAbility, SetPersonality, SetDetermination: a second read.      *)
Reread ==
    /\ pc = "reread"
    /\ \/ FieldFails("mutationFailed", "not-needed")
       \/ FieldFails("valuesChanged", "not-needed")
       \/ /\ mem[job.field] = job.from
          /\ Goto("write")
          /\ UNCHANGED <<mem, by, request, at, job, mode, applied, answer>>

Write ==
    /\ pc = "write"
    /\ PutSome(job.field, job.to)
    /\ Goto("readback") \/ Goto("look")
    /\ UNCHANGED <<request, at, job, mode, applied, answer>>

ReadBack ==
    /\ pc = "readback"
    /\ \/ mem[job.field] = job.to /\ FieldDone
       \/ /\ Goto("look")
          /\ UNCHANGED <<mem, by, request, at, job, mode, applied, answer>>

(* Mutant: a write that reports failure is taken to have written nothing.   *)
LookTrusts ==
    /\ pc = "look"
    /\ FieldFails("mutationFailed", "not-needed")

(* Recover: if the field is as it was there is nothing to put back.         *)
Look ==
    /\ pc = "look"
    /\ \/ mem[job.field] = job.from /\ FieldFails("mutationFailed", "not-needed")
       \/ /\ Goto("putBack")
          /\ UNCHANGED <<mem, by, request, at, job, mode, applied, answer>>

PutBack ==
    /\ pc = "putBack"
    /\ PutSome(job.field, job.from)
    /\ Goto("lookAgain")
    /\ UNCHANGED <<request, at, job, mode, applied, answer>>

LookAgain ==
    /\ pc = "lookAgain"
    /\ \/ mem[job.field] = job.from /\ FieldFails("mutationFailed", "restored")
       \/ FieldFails("mutationFailed", "unverified")

-----------------------------------------------------------------------------
(* The end of a boost.                                                      *)

(* A staff boost whose index refuses the new value reports it unverified.   *)
AllWritten ==
    /\ pc = "next"
    /\ at = N + 1
    /\ \/ outcome' = "verified" /\ UNCHANGED <<failure, rollback>>
       \/ /\ kind = "staff"
          /\ outcome' = "partial-unverified"
          /\ failure' = "partial"
          /\ rollback' = "unverified"
    /\ Goto("done")
    /\ UNCHANGED <<mem, by, request, at, job, mode, applied>>

(* RollbackAppliedMentality takes the applied fields from the last one.     *)
UndoField ==
    /\ pc = "undo"
    /\ \E f \in applied :
          /\ \A g \in applied : g <= f
          /\ job' = [field |-> f, from |-> target[f], to |-> expected[f]]
    /\ Goto("reread")
    /\ UNCHANGED <<mem, by, request, at, mode, applied, answer>>

AllUndone ==
    /\ pc = "undo"
    /\ applied = {}
    /\ EndsWith(failure, rollback)
    /\ UNCHANGED <<mem, by, request, at, job, mode, applied>>

BoostStep ==
    \/ CheckField \/ ChecksPass \/ ChooseTargets \/ AbilityAtLimit
    \/ SkipField \/ StartField
    \/ Reread \/ Write \/ ReadBack \/ Look \/ PutBack \/ LookAgain
    \/ AllWritten \/ UndoField \/ AllUndone

Next == BoostStep \/ GameWrites

Spec == Init /\ [][Next]_vars

(* The work thread runs; the game need not write anything.                  *)
FairSpec == Spec /\ WF_vars(BoostStep)

-----------------------------------------------------------------------------
Left == {f \in Fields : by[f] = "boost"}

(* A boost that reports failure, or no attempt, has left nothing of its own *)
(* in FM: each field holds what the request found there or what the game    *)
(* put there since, however many writes, reads and restores went wrong      *)
(* (PlayerBoostResult.Outcome "failed", which the app takes for no change). *)
FailureLeavesNothing == outcome \in {"failed", "refused"} => Left = {}

(* The live index is kept only after failures that left nothing in FM that  *)
(* it does not know of (PreservesLiveIndexOnFailure): a batch may go on.    *)
KeptIndexIsTrue ==
    pc = "done" /\ failure \in {"valuesChanged", "atLimit"} => Left = {}

(* A verified boost is there: each field it was to raise holds its target   *)
(* or what the game wrote over it, and no other field was touched.          *)
VerifiedIsWritten ==
    outcome = "verified" =>
        /\ \A f \in Left : mem[f] = target[f] /\ Raised(f)
        /\ \A f \in Fields : Raised(f) => by[f] # "found"

(* What the plugin answers of a boost is true of FM, whichever answer it is. *)
AnswersAreTrue == FailureLeavesNothing /\ KeptIndexIsTrue /\ VerifiedIsWritten

(* Every boost gets an answer while the game plays on.                      *)
EveryBoostEnds == <>(pc = "done")
=============================================================================
