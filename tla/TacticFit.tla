------------------------------ MODULE TacticFit ------------------------------
(***************************************************************************)
(* How well a player fits a lane of the tactic, which is computed twice:   *)
(* in Rust for the planner and for Moneyball (planner/fit.rs), and as an   *)
(* SQL expression by which the search shows and sorts (query.rs).          *)
(***************************************************************************)
EXTENDS Search

CONSTANTS Players, \* players as the snapshot may have them
          MaxAge,  \* the age that is looked at last
          NoFit    \* no score, not familiar: None, NULL

VARIABLES player, lane

fitVars == <<player, lane>>

Feet == {"left", "right", "either"}
Phases == {"ip", "oop"}

(* A player has an age, a foot, a familiarity with the position of each     *)
(* phase, and the current and potential scores of the roles of each phase.  *)
OfPhases == [Phases -> Nat \cup {NoFit}]
PlayerRecords == [age : Int, foot : Feet, familiarity : OfPhases,
                  current : OfPhases, potential : OfPhases]
ASSUME PlayersAssumption == NoFit \notin Int /\ Players \subseteq PlayerRecords

(* A lane: the foot it wants and how much, and the weight of the phase in   *)
(* possession in percent.                                                   *)
Lanes == [foot : {"any", "left", "right", "both"},
          preference : {"strict", "preferred"}, weight : {0, 25, 50}]

(* combine_role_scores: the mean by weight, a half rounded up.              *)
Blend(ip, oop, weight) == (ip * weight + oop * (100 - weight) + 50) \div 100

Groups == {"current", "potential"}

(* The scores: those of the potential up to the age of 28.                  *)
BasisScore(phase, group) ==
    IF group = "current" \/ player.age >= 29 THEN player.current[phase]
    ELSE player.potential[phase]

-----------------------------------------------------------------------------
(* planner/fit.rs.                                                          *)

FootMatches ==
    CASE lane.foot = "any" -> TRUE
      [] lane.foot = "both" -> player.foot = "either"
      [] OTHER -> player.foot \in {lane.foot, "either"}

Suitable(phase) ==
    player.familiarity[phase] # NoFit /\ player.familiarity[phase] >= 12

Penalty(phase) == IF player.familiarity[phase] < 16 THEN 5 ELSE 0

(* saturating_sub of u8.                                                    *)
Adjusted(score, penalty) == IF score < penalty THEN 0 ELSE score - penalty

(* lane_fit_score of the blended score (tactic_adjusted_score).             *)
LaneFit(group) ==
    LET ip == BasisScore("ip", group)
        oop == BasisScore("oop", group)
    IN  IF \/ ip = NoFit \/ oop = NoFit
           \/ ~Suitable("ip") \/ ~Suitable("oop")
           \/ ~FootMatches /\ lane.preference = "strict"
        THEN NoFit
        ELSE Adjusted(Blend(ip, oop, lane.weight),
                      (IF FootMatches THEN 0 ELSE 5) + Penalty("ip") + Penalty("oop"))

-----------------------------------------------------------------------------
(* query.rs: the expression, whose cases are tried in order.                *)

FootMismatch ==
    CASE lane.foot = "left" -> player.foot \notin {"left", "either"}
      [] lane.foot = "right" -> player.foot \notin {"right", "either"}
      [] lane.foot = "both" -> player.foot # "either"
      [] OTHER -> FALSE

(* Mutant: a foot that need not match costs nothing.                        *)
SqlPenaltyWithoutFoot ==
    5 * Cardinality({p \in Phases : player.familiarity[p] < 16})

SqlPenalty == 5 * Cardinality({p \in Phases : player.familiarity[p] < 16})
              + (IF FootMismatch THEN 5 ELSE 0)

TacticExpression(group) ==
    CASE \E p \in Phases : player.familiarity[p] = NoFit -> NoFit
      [] \E p \in Phases : player.familiarity[p] # NoFit /\ player.familiarity[p] < 12 -> NoFit
      [] lane.foot # "any" /\ FootMismatch /\ lane.preference = "strict" -> NoFit
      [] \E p \in Phases : BasisScore(p, group) = NoFit -> NoFit
      [] OTHER ->
            LET left == Blend(BasisScore("ip", group), BasisScore("oop", group), lane.weight)
                        - SqlPenalty
            IN  IF left < 0 THEN 0 ELSE left

FitInit == player \in Players /\ lane \in Lanes

(* The next snapshot has him a year older.                                  *)
OneYearOlder ==
    /\ player.age < MaxAge
    /\ player' = [player EXCEPT !.age = @ + 1]
    /\ UNCHANGED lane

FitNext == OneYearOlder

FitSpec == FitInit /\ [][FitNext]_fitVars

(* The search shows and sorts by the score that the planner computes: for   *)
(* any player and any lane, missing values, strict feet and penalties down  *)
(* to nothing included (query.rs's tests compare a few of each).            *)
SearchShowsThePlannersScore ==
    \A group \in Groups : TacticExpression(group) = LaneFit(group)

(* A page is the page of one search, whatever the split between SQL and Rust*)
(* (search/query.rs), and both of them compute the tactic score alike.      *)
SearchIsTrue == PagesAreTheSearch /\ SearchShowsThePlannersScore
=============================================================================
