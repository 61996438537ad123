--------------------------- MODULE StaffAllocation ---------------------------
(***************************************************************************)
(* Who should work where (allocate_staff_assignments): the staff of the    *)
(* shortlist, each with one preferred job, and the slots the user wants in *)
(* each scope.  The heads of four departments are found first, then their  *)
(* departments, then the other jobs, and then the coaches scope by scope;  *)
(* whoever has a slot is not looked at again.                              *)
(***************************************************************************)
EXTENDS Matching

CONSTANTS Staffs,  \* what the shortlist and the snapshot may hold
          Wanteds, \* how many slots may be wanted of each job in each scope
          GeneralRequirements \* GENERAL_REQUIREMENTS, or fewer

Scopes == <<"senior", "reserves", "youth", "club">>

(* CANONICAL_JOB_IDS.                                                       *)
Jobs == <<"manager", "assistant_manager", "coaches", "set_piece_coach",
          "performance_analyst", "physio", "sports_scientist",
          "head_of_youth_development", "head_performance_analyst",
          "director_of_football", "chief_scout", "technical_director", "scout",
          "recruitment_analyst", "loan_manager", "head_physio",
          "head_sports_science">>

Heads == <<"head_performance_analyst", "chief_scout", "head_physio",
           "head_sports_science">>
Departments == {"performance_analyst", "scout", "physio", "sports_scientist"}

(* The department a head comes from.                                        *)
DepartmentOf(job) ==
    CASE job = "head_performance_analyst" -> "performance_analyst"
      [] job = "chief_scout" -> "scout"
      [] job = "head_physio" -> "physio"
      [] job = "head_sports_science" -> "sports_scientist"
      [] OTHER -> job

(* The positions a target may name: TEAM_JOBS and CLUB_JOBS.                *)
TeamJobs == {"manager", "assistant_manager", "coaches", "performance_analyst",
             "physio", "sports_scientist"}
Positions ==
    ({Scopes[i] : i \in 1..3} \X TeamJobs)
    \cup ({"club"} \X ({Jobs[i] : i \in DOMAIN Jobs} \ TeamJobs))

(* Heads of scouts, physios and sports scientists are scored as members of  *)
(* their department.                                                        *)
Role(job) == IF job = "head_performance_analyst" THEN job ELSE DepartmentOf(job)

(* What staff are scored for, besides the general requirements.             *)
Roles == {Role(Jobs[i]) : i \in DOMAIN Jobs} \cup {"fitness", "goalkeeping"}

ASSUME RequirementsAssumption ==
    /\ Len(GeneralRequirements) \in Nat \ {0}
    /\ DOMAIN GeneralRequirements = 1..Len(GeneralRequirements)
    /\ \A i \in DOMAIN GeneralRequirements : GeneralRequirements[i] \notin Roles
ASSUME StaffsAssumption ==
    \A s \in Staffs :
        /\ IsFiniteSet(DOMAIN s) /\ DOMAIN s \subseteq Nat
        /\ \A p \in DOMAIN s :
              /\ s[p].youngsters \in Nat \cup {NoScore}
              /\ \A role \in Roles \cup {GeneralRequirements[i] : i \in DOMAIN GeneralRequirements} :
                    s[p].scores[role] \in Nat \cup {NoScore}
ASSUME WantedsAssumption ==
    \A t \in Wanteds : DOMAIN t \subseteq Positions /\ \A u \in DOMAIN t : t[u] \in Nat

VARIABLES
    staff,   \* uid -> preferred job, working with youngsters, scores by role
    targets, \* scope and job -> slots
    stage,   \* the next pass
    filled   \* slot -> who has it and the score, or that it is vacant

staffVars == <<staff, targets, stage, filled>>

(* ConfiguredSlot: the scope, the job and the number; the manager of the    *)
(* club and of the senior team is the user.                                 *)
Slots ==
    UNION {{[scope |-> t[1], job |-> t[2], number |-> n] : n \in 1..targets[t]} :
               t \in {u \in DOMAIN targets :
                         u[2] = "manager" => u[1] \in {"reserves", "youth"}}}

Position(order, x) == CHOOSE i \in DOMAIN order : order[i] = x

(* The canonical order of the slots.                                        *)
Precedes(a, b) ==
    LET key(s) == <<Position(Scopes, s.scope), Position(Jobs, s.job), s.number>> IN
    Better(key(b), key(a))

Pending(slots) == slots \ DOMAIN filled
Assigned == {filled[s].uid : s \in DOMAIN filled} \ {Vacant}

(* preferred_job_classification: a member of a department may become its    *)
(* head, but the head of another club's analysts is no ordinary analyst.    *)
Group(job) == {p \in DOMAIN staff : staff[p].job \in {job, DepartmentOf(job)}}

(* assignment_score: in the youth scope half of it is how the person works  *)
(* with youngsters, on the scale of the scores and rounded up.              *)
AssignmentScore(p, score, scope) ==
    IF score = NoScore THEN NoScore
    ELSE IF scope # "youth" THEN score
    ELSE IF staff[p].youngsters = NoScore THEN NoScore
    ELSE (score + 5 * staff[p].youngsters + 1) \div 2

ScoreIn(p, role, scope) == AssignmentScore(p, staff[p].scores[role], scope)

-----------------------------------------------------------------------------
(* The types of a scope's coach slots, coach_slot_types.                    *)

CoachTypeAt(i) ==
    IF i <= 8
    THEN IF i = 2 THEN "goalkeeping" ELSE IF i = 3 THEN "fitness" ELSE "general"
    ELSE IF (i - 9) % 8 = 0 THEN "goalkeeping"
    ELSE IF (i - 9) % 8 = 1 THEN "fitness" ELSE "general"

CoachSlots(scope) == {s \in Slots : s.scope = scope /\ s.job = "coaches"}

(* coach_composition.                                                       *)
GeneralSlots(scope) == {s \in CoachSlots(scope) : CoachTypeAt(s.number) = "general"}

(* Who may have a slot and what for: the coaches of a type, or a group.     *)
Eligible(s) ==
    CASE s.job # "coaches" -> {p \in Group(s.job) : ScoreIn(p, Role(s.job), s.scope) # NoScore}
      [] s.job = "coaches" /\ CoachTypeAt(s.number) = "fitness" ->
            {p \in DOMAIN staff : staff[p].job = "fitness_coach"
                                  /\ ScoreIn(p, "fitness", s.scope) # NoScore}
      [] s.job = "coaches" /\ CoachTypeAt(s.number) = "goalkeeping" ->
            {p \in DOMAIN staff : staff[p].job = "goalkeeping_coach"
                                  /\ ScoreIn(p, "goalkeeping", s.scope) # NoScore}
      [] OTHER -> {}

RoleOf(s) == IF s.job # "coaches" THEN Role(s.job) ELSE CoachTypeAt(s.number)

Filled(uid, score, requirement) ==
    [uid |-> uid, score |-> score, requirement |-> requirement]

(* Mutant: who is already assigned is not skipped.                          *)
AllocateAnyone(s) ==
    LET free == Eligible(s)
        score(p) == ScoreIn(p, RoleOf(s), s.scope)
        best == CHOOSE p \in free : \A q \in free \ {p} :
                    score(p) > score(q) \/ (score(p) = score(q) /\ p < q)
    IN  IF free = {} THEN Filled(Vacant, NoScore, RoleOf(s))
        ELSE Filled(best, score(best), RoleOf(s))

(* Mutant: when the best is taken the slot stays vacant.                    *)
AllocateBestOnly(s) ==
    LET all == Eligible(s)
        score(p) == ScoreIn(p, RoleOf(s), s.scope)
        best == CHOOSE p \in all : \A q \in all \ {p} :
                    score(p) > score(q) \/ (score(p) = score(q) /\ p < q)
    IN  IF all \ Assigned = {} \/ best \in Assigned
        THEN Filled(Vacant, NoScore, RoleOf(s))
        ELSE Filled(best, score(best), RoleOf(s))

(* allocate_slot, allocate_coach_requirement_slot and best_youth_candidate: *)
(* the best who is left, the lower uid in a tie.                            *)
Allocate(s) ==
    LET free == Eligible(s) \ Assigned
        score(p) == ScoreIn(p, RoleOf(s), s.scope)
        best == CHOOSE p \in free : \A q \in free \ {p} :
                    score(p) > score(q) \/ (score(p) = score(q) /\ p < q)
    IN  IF free = {} THEN Filled(Vacant, NoScore, RoleOf(s))
        ELSE Filled(best, score(best), RoleOf(s))

(* The slots of one pass, the canonical first.                              *)
First(slots) == CHOOSE s \in slots : \A z \in slots \ {s} : Precedes(s, z)

FillOne(slots) ==
    LET s == First(Pending(slots)) IN
    filled' = [z \in DOMAIN filled \cup {s} |-> IF z = s THEN Allocate(s) ELSE filled[z]]

-----------------------------------------------------------------------------
(* The passes: four of heads, one each of departments, of others, and of    *)
(* the coaches of three scopes.                                             *)

(* Mutant: the departments choose before their heads are found.             *)
DepartmentsFirst(k) ==
    CASE k = 1 -> {s \in Slots : s.job \in Departments}
      [] k \in 2..5 -> {s \in Slots : s.job = Heads[k - 1]}
      [] k = 6 -> {s \in Slots : s.job \notin Departments \cup {Heads[i] : i \in DOMAIN Heads} \cup {"coaches"}}
      [] OTHER -> CoachSlots(Scopes[k - 6])

SlotsOfPass(k) ==
    CASE k \in 1..4 -> {s \in Slots : s.job = Heads[k]}
      [] k = 5 -> {s \in Slots : s.job \in Departments}
      [] k = 6 -> {s \in Slots : s.job \notin Departments \cup {Heads[i] : i \in DOMAIN Heads} \cup {"coaches"}}
      [] OTHER -> CoachSlots(Scopes[k - 6])

Passes == 9

(* allocate_general_requirements: the general coaches of a scope are matched*)
(* before its other coach slots are gone through.                           *)
GeneralScores(scope) ==
    LET coaches == {p \in DOMAIN staff : staff[p].job = "coach"} \ Assigned IN
    [i \in 1..Len(GeneralRequirements) |->
        [p \in coaches |-> ScoreIn(p, GeneralRequirements[i], scope)]]

RequirementAt(place) ==
    GeneralRequirements[((place - 1) % Len(GeneralRequirements)) + 1]

(* Mutant: the first requirements are filled, whoever there is for others.  *)
MatchFirstRequirements(scope) ==
    LET slots == GeneralSlots(scope)
        score == GeneralScores(scope)
        at(s) == Cardinality({z \in slots : z.number <= s.number})
        q == [CoachQuestion(Cardinality(slots), score)
                 EXCEPT !.optional = 0, !.full = Cardinality(slots), !.quota = 0]
        way == BestWay(q)
    IN  [s \in slots |->
            Filled(way[at(s)],
                   IF way[at(s)] = Vacant THEN NoScore ELSE q.score[at(s)][way[at(s)]],
                   RequirementAt(at(s)))]

MatchGeneral(scope) ==
    LET slots == GeneralSlots(scope)
        q == CoachQuestion(Cardinality(slots), GeneralScores(scope))
        way == BestWay(q)
        at(s) == CHOOSE i \in DOMAIN way :
                     Cardinality({j \in DOMAIN way : j <= i})
                         = Cardinality({z \in slots : z.number <= s.number})
    IN  [s \in slots |->
            Filled(way[at(s)],
                   IF way[at(s)] = Vacant THEN NoScore ELSE q.score[at(s)][way[at(s)]],
                   RequirementAt(at(s)))]

StaffInit ==
    /\ staff \in Staffs
    /\ targets \in Wanteds
    /\ stage = 1
    /\ filled = [s \in {} |-> Vacant]

FillGeneral ==
    /\ stage \in 7..Passes
    /\ GeneralSlots(Scopes[stage - 6]) # {}
    /\ Pending(GeneralSlots(Scopes[stage - 6])) # {}
    /\ LET matched == MatchGeneral(Scopes[stage - 6]) IN
       filled' = [z \in DOMAIN filled \cup DOMAIN matched |->
                     IF z \in DOMAIN matched THEN matched[z] ELSE filled[z]]
    /\ UNCHANGED <<staff, targets, stage>>

FillSlot ==
    /\ stage <= Passes
    /\ stage \in 7..Passes => Pending(GeneralSlots(Scopes[stage - 6])) = {}
    /\ Pending(SlotsOfPass(stage)) # {}
    /\ FillOne(SlotsOfPass(stage))
    /\ UNCHANGED <<staff, targets, stage>>

NextPass ==
    /\ stage <= Passes
    /\ Pending(SlotsOfPass(stage)) = {}
    /\ stage' = stage + 1
    /\ UNCHANGED <<staff, targets, filled>>

StaffNext == FillGeneral \/ FillSlot \/ NextPass

StaffSpec == StaffInit /\ [][StaffNext]_staffVars

-----------------------------------------------------------------------------
Done == stage > Passes

(* Nobody is recommended for two slots, though a person may be in two groups*)
(* and every pass has an order of its own (assigned_uids).                  *)
NobodyTwice ==
    \A s, z \in DOMAIN filled :
        filled[s].uid = filled[z].uid /\ filled[s].uid # Vacant => s = z

(* What a person without a slot would score in one: in a coach slot for the *)
(* requirement that was chosen for it.                                      *)
Candidates(s) ==
    IF filled[s].requirement \in {GeneralRequirements[i] : i \in DOMAIN GeneralRequirements}
    THEN {p \in DOMAIN staff : staff[p].job = "coach"}
    ELSE Eligible(s)

(* Nobody without a slot is better than whoever has one, and no slot is     *)
(* vacant that somebody without a slot could have, although slots are filled*)
(* one after the other, by passes, and coaches together.                    *)
NobodyBetterIsUnused ==
    Done => \A s \in Slots : \A p \in Candidates(s) \ Assigned :
        LET score == ScoreIn(p, filled[s].requirement, s.scope) IN
        score # NoScore =>
            filled[s].uid # Vacant /\ filled[s].score >= score

(* The head of a department is chosen before its members: nobody who was    *)
(* given an ordinary slot, or none, would be a better head.                 *)
HeadsAreChosenFirst ==
    Done => \A h, s \in Slots :
        (/\ h.job \in {Heads[i] : i \in DOMAIN Heads}
         /\ s.job = DepartmentOf(h.job)
         /\ filled[s].uid # Vacant) =>
            LET score == ScoreIn(filled[s].uid, Role(h.job), h.scope) IN
            score # NoScore => filled[h].uid # Vacant /\ filled[h].score >= score

(* The general coaches of a scope are spread: as many are found as any      *)
(* choice of requirements could use (filled_nodes counts before scores).    *)
MostCoachesAreUsed ==
    Done => \A i \in 1..3 :
        LET scope == Scopes[i]
            slots == GeneralSlots(scope)
            mine == {filled[s].uid : s \in slots} \ {Vacant}
            unused == {p \in DOMAIN staff : staff[p].job = "coach"} \ Assigned
            q == CoachQuestion(Cardinality(slots),
                     [k \in 1..Len(GeneralRequirements) |->
                         [p \in mine \cup unused |-> ScoreIn(p, GeneralRequirements[k], scope)]])
        IN  \A w \in Ways(q, Target(q)) :
                Cardinality({k \in DOMAIN w : w[k] # Vacant}) <= Cardinality(mine)

(* The recommendation as a whole (allocate_staff_assignments).              *)
StaffAreWellPlaced ==
    NobodyTwice /\ NobodyBetterIsUnused /\ HeadsAreChosenFirst /\ MostCoachesAreUsed
=============================================================================
