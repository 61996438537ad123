----------------------------- MODULE DepthChart -----------------------------
(***************************************************************************)
(* What the squad planner promises about its depth chart, seen from outside*)
(* a command: a cell holds one player, a player one cell; the user puts a  *)
(* player in a free cell or takes players out, and a new plan moves only   *)
(* those the user has not put where they are.                              *)
(***************************************************************************)
EXTENDS Naturals

CONSTANTS People, Cells, Nowhere

VARIABLES chart,  \* the cell of each player
          fixed   \* the players the user has put where they are

ChartInit ==
    /\ chart = [p \in People |-> Nowhere]
    /\ fixed = {}

Apart(c) == \A p, q \in People : p # q /\ c[p] # Nowhere => c[p] # c[q]

Put(p, cell) ==
    /\ \A q \in People : chart[q] # cell
    /\ chart' = [chart EXCEPT ![p] = cell]
    /\ fixed' = fixed \cup {p}

TakeOut(gone) ==
    /\ chart' = [p \in People |-> IF p \in gone THEN Nowhere ELSE chart[p]]
    /\ fixed' = fixed \ gone

Replan ==
    /\ chart' \in [People -> Cells \cup {Nowhere}]
    /\ Apart(chart')
    /\ \A p \in fixed : chart'[p] = chart[p]
    /\ fixed' = fixed

ChartNext ==
    \/ \E p \in People, cell \in Cells : Put(p, cell)
    \/ \E gone \in SUBSET People : TakeOut(gone)
    \/ Replan

ChartSpec == ChartInit /\ [][ChartNext]_<<chart, fixed>>
=============================================================================
