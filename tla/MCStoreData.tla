----------------------------- MODULE MCStoreData -----------------------------
(***************************************************************************)
(* The store, alone or with one of the components that keep data beside it,*)
(* for TLC: CSV imports, Club DNA or the academy.  Which is chosen at the  *)
(* start; the tables of the others stay empty.                             *)
(***************************************************************************)
EXTENDS CsvImport, ClubDna, Academy, TLC

VARIABLE which

dataVars == <<csvVars, dnaTables, academyTables, which>>

MCPopulations ==
    {[players |-> {1, 2}, staff |-> {4}], [players |-> {2}, staff |-> {}]}

(* Two files of the same players with a tie and with a missing value; every *)
(* file names somebody nobody knows or whom one of the populations lacks.   *)
MCFiles ==
    {[format |-> "youth", rows |-> (1 :> 7 @@ 9 :> 8)],
     [format |-> "players", rows |-> (1 :> 1 @@ 9 :> 1)],
     [format |-> "staff", rows |-> (4 :> 1)],
     [format |-> "moneyball",
      rows |-> (1 :> [goals |-> 1, errors |-> 1] @@ 2 :> [goals |-> 2, errors |-> 5])],
     [format |-> "moneyball", rows |-> (1 :> [goals |-> 3, errors |-> NoValue])]}

MCSquads ==
    {(1 :> [pace |-> 4, vision |-> 11] @@ 2 :> [pace |-> 3, vision |-> v]) :
        v \in {NoScore, 8}}

(* Bounds: with a component beside it the store is smaller, and the dates   *)
(* matter to the academy only.                                              *)
Small == /\ DOMAIN saves' \cup DOMAIN snaps' \subseteq 1..2
         /\ nextToken' <= 3
         /\ \A i \in DOMAIN snaps' : snaps'[i].loaded = 1
OneDate == \A i \in DOMAIN snaps' : snaps'[i].date \in {NoDate, BaselineYear}

DataInit ==
    /\ ImportInit /\ DnaInit /\ AcademyInit
    /\ which \in {"store", "imports", "dna", "academy"}

DataNext ==
    /\ UNCHANGED which
    /\ \/ /\ which = "store" /\ Next
          /\ UNCHANGED <<importVars, dnaTables, academyTables>>
       \/ /\ which = "imports" /\ CsvNext /\ Small /\ OneDate
          /\ UNCHANGED <<dnaTables, academyTables>>
       \/ /\ which = "dna" /\ DnaNext /\ Small /\ OneDate
          /\ UNCHANGED <<importVars, academyTables>>
       \/ /\ which = "academy" /\ AcademyNext /\ Small
          /\ UNCHANGED <<importVars, dnaTables>>

DataSpec == DataInit /\ [][DataNext]_dataVars
=============================================================================
