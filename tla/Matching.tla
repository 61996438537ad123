------------------------------ MODULE Matching ------------------------------
(***************************************************************************)
(* The question match_lanes (planner/optimizer.rs) and                     *)
(* match_general_requirements (staff/assignment_optimizer.rs) put to their *)
(* graphs: which candidate for which place?  The first places must all be  *)
(* decided, each with a candidate or vacant; of the optional ones behind   *)
(* them exactly `quota`.  A way of filling is valued by its objective, and *)
(* objectives are compared like words.                                     *)
(***************************************************************************)
EXTENDS Integers, Sequences, FiniteSetsExt

CONSTANTS NoScore, \* this candidate cannot have that place
          Vacant   \* nobody has the place

ASSUME MatchingAssumption == NoScore \notin Nat /\ Vacant \notin Nat

(* A question: how many places must be decided, how many optional ones      *)
(* there are and how many of them are wanted, the score of each candidate,  *)
(* a uid, in each place, and whether filling a place counts before scores.  *)
Places(q) == 1..(q.full + q.optional)
Optional(q) == (q.full + 1)..(q.full + q.optional)
Target(q) == q.full + q.quota
Fits(q, place, p) == q.score[place][p] # NoScore

(* The open lanes of a string, all of which are to be decided.              *)
LaneQuestion(score) ==
    [full |-> Len(score), optional |-> 0, quota |-> 0, score |-> score,
     uids |-> DOMAIN score[1], filledFirst |-> FALSE]

(* `count` general coaches: whole rounds of all requirements, and the rest  *)
(* of a round, whose requirements are open.                                 *)
CoachQuestion(count, score) ==
    LET round == Len(score) IN
    [full |-> count - (count % round), optional |-> round, quota |-> count % round,
     score |-> [i \in 1..(count - (count % round) + round) |->
                    score[((i - 1) % round) + 1]],
     uids |-> DOMAIN score[1], filledFirst |-> TRUE]

(* The place of a uid among the candidates' uids; a vacancy comes last.     *)
Rank(q, p) == IF p = Vacant THEN Cardinality(q.uids) + 1
              ELSE Cardinality({u \in q.uids : u <= p})

Zero(q) == [i \in 1..(2 + q.full + q.optional) |-> 0]

(* Being one of the optional places that are wanted weighs more than uids.  *)
Wanted(q, place) == IF place > q.full THEN 2 * (Cardinality(q.uids) + 2) ELSE 0

(* Mutant: the lower uid does not count.                                    *)
ContributionWithoutUid(q, place, p) ==
    LET filled == IF p = Vacant THEN 0 ELSE 1
        score == IF p = Vacant THEN 0 ELSE q.score[place][p]
    IN  [Zero(q) EXCEPT ![1] = IF q.filledFirst THEN filled ELSE score,
                        ![2] = IF q.filledFirst THEN score ELSE filled]

(* What deciding a place for p adds to the objective: the score and that it *)
(* is filled, and then the lower uid, the first places first.               *)
Contribution(q, place, p) ==
    LET filled == IF p = Vacant THEN 0 ELSE 1
        score == IF p = Vacant THEN 0 ELSE q.score[place][p]
    IN  [Zero(q) EXCEPT ![1] = IF q.filledFirst THEN filled ELSE score,
                        ![2] = IF q.filledFirst THEN score ELSE filled,
                        ![place + 2] = Wanted(q, place) - Rank(q, p)]

Plus(a, b) == [i \in DOMAIN a |-> a[i] + b[i]]
Negated(a) == [i \in DOMAIN a |-> -a[i]]

(* The comparison of two objectives.                                        *)
Better(a, b) ==
    \E i \in DOMAIN a : a[i] > b[i] /\ \A j \in 1..(i - 1) : a[j] = b[j]

-----------------------------------------------------------------------------
(* The answers: a way decides k places.                                     *)

Decided(q, k) == {s \in SUBSET Places(q) : /\ Cardinality(s) = k
                                           /\ Cardinality(s \cap Optional(q)) <= q.quota}

Ways(q, k) ==
    {w \in UNION {[s -> q.uids \cup {Vacant}] : s \in Decided(q, k)} :
         /\ \A i \in DOMAIN w : w[i] # Vacant => Fits(q, i, w[i])
         /\ \A i, j \in DOMAIN w : w[i] = w[j] /\ w[i] # Vacant => i = j}

Objective(q, w) ==
    FoldSet(LAMBDA i, a : Plus(Contribution(q, i, w[i]), a), Zero(q), DOMAIN w)

IsBest(q, k, w) ==
    LET best == Objective(q, w) IN
    w \in Ways(q, k) /\ \A v \in Ways(q, k) : ~Better(Objective(q, v), best)
BestWay(q) == CHOOSE w \in Ways(q, Target(q)) : IsBest(q, Target(q), w)
=============================================================================
