------------------------------ MODULE MCPlanner ------------------------------
EXTENDS Planner, TLC

CONSTANTS senior, reserves, wing, centre

MCOrder == (senior :> 0) @@ (reserves :> 1)
MCOldestIn == (senior :> NoLimit) @@ (reserves :> 23)

Table(a, b, c, d) ==
    (1 :> (wing :> a @@ centre :> b)) @@ (2 :> (wing :> c @@ centre :> d))

(* A tie, a crossed best matching, a lane nobody plays, and a player who is *)
(* best in both lanes.                                                      *)
MCTables == {Table(5, 5, 5, 5), Table(7, 6, 6, 2),
             Table(NoScore, 3, NoScore, 4), Table(0, NoScore, NoScore, NoScore)}

(* One is in the age of both teams, the other in that of the senior team,   *)
(* of an age that is not known, or away.                                    *)
MCSquads == {1 :> 23 @@ 2 :> a : a \in {24, NoAge, Away}}
=============================================================================
