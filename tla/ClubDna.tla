------------------------------- MODULE ClubDna -------------------------------
(***************************************************************************)
(* Club DNA: the attributes a save's user looks for, and the score of      *)
(* every player of every snapshot of the save under them (club_dna,        *)
(* player_metrics/club_dna.rs).  Scores are stored and read by the version *)
(* of the definition, which starts again at 1 once a definition has been   *)
(* removed; a Load Data, a change of the definition and a boost each write *)
(* their part of them.                                                     *)
(***************************************************************************)
EXTENDS SnapshotStore, FiniteSetsExt

CONSTANTS Players,
          Squads,      \* the attributes of each player a Load Data may find
          Definitions, \* sets of attributes
          NoScore,     \* an attribute is not known
          NoDefinition,
          MaxVersion   \* bound: changes of a definition

ASSUME SquadsAssumption == \A squad \in Squads : DOMAIN squad = Players

ScoreModelVersion == 1

VARIABLES
    squads,      \* snapshot -> player -> attribute -> value
    definitions, \* save -> version and attributes, or NoDefinition
    scores       \* snapshot -> rows of club_dna_scores

dnaTables == <<squads, definitions, scores>>
dnaVars == <<vars, dnaTables>>

DnaInit ==
    /\ Init
    /\ squads = Empty
    /\ definitions = Empty
    /\ scores = Empty

(* score_validated_club_dna: the mean on a scale of 100, rounded, if every  *)
(* attribute is known and in range.                                         *)
Score(attributes, player) ==
    LET n == Cardinality(attributes)
        total == MapThenSumSet(LAMBDA a : player[a], attributes)
    IN  IF \E a \in attributes : player[a] \notin 1..20 THEN NoScore
        ELSE (10 * total + n) \div (2 * n)

Row(definition, squad, p) ==
    [uid |-> p, version |-> definition.version, model |-> ScoreModelVersion,
     score |-> Score(definition.attributes, squad[p])]

(* persist_snapshot_scores: a row for every player, in the place of one of  *)
(* the same version.                                                        *)
WithRows(rows, definition, squad, players) ==
    {r \in rows : ~(r.uid \in players /\ r.version = definition.version)}
    \cup {Row(definition, squad, p) : p \in players}

ScoresOf(definition, squad) ==
    IF definition = NoDefinition THEN {} ELSE WithRows({}, definition, squad, Players)

(* Mutant: only the current snapshot is scored anew.                        *)
SetClubDnaOfCurrent ==
    /\ IsAskedFor(seenSave)
    /\ \E attributes \in Definitions :
          LET save == seenSave.id
              old == definitions[save]
              new == [version |-> IF old = NoDefinition THEN 1 ELSE old.version + 1,
                      attributes |-> attributes]
          IN  /\ new.version <= MaxVersion
              /\ definitions' = [definitions EXCEPT ![save] = new]
              /\ scores' = [i \in DOMAIN snaps |->
                               IF i \in CurrentOf(snaps, save)
                               THEN ScoresOf(new, squads[i]) ELSE scores[i]]
    /\ UNCHANGED <<vars, squads>>

(* set_club_dna: what was stored under the old definition goes, and every   *)
(* snapshot of the save is scored (persist_save_scores).                    *)
SetClubDna ==
    /\ IsAskedFor(seenSave)
    /\ \E attributes \in Definitions :
          LET save == seenSave.id
              old == definitions[save]
              new == [version |-> IF old = NoDefinition THEN 1 ELSE old.version + 1,
                      attributes |-> attributes]
          IN  /\ new.version <= MaxVersion
              /\ definitions' = [definitions EXCEPT ![save] = new]
              /\ scores' = [i \in DOMAIN snaps |->
                               IF snaps[i].save = save
                               THEN ScoresOf(new, squads[i]) ELSE scores[i]]
    /\ UNCHANGED <<vars, squads>>

RemoveClubDna ==
    /\ IsAskedFor(seenSave)
    /\ definitions' = [definitions EXCEPT ![seenSave.id] = NoDefinition]
    /\ scores' = [i \in DOMAIN snaps |->
                     IF snaps[i].save = seenSave.id THEN {} ELSE scores[i]]
    /\ UNCHANGED <<vars, squads>>

(* reconcile_verified_boost: a boost of a player of the current snapshot,   *)
(* which keeps loads and deletions away.                                    *)
BoostPlayer ==
    /\ GatesAreFree
    /\ \E save \in DOMAIN saves, p \in Players, squad \in Squads :
          /\ saves[save].active
          /\ \E i \in CurrentOf(snaps, save) :
                LET after == [squads[i] EXCEPT ![p] = squad[p]] IN
                /\ squads' = [squads EXCEPT ![i] = after]
                /\ scores' = IF definitions[save] = NoDefinition THEN scores
                             ELSE [scores EXCEPT ![i] =
                                      WithRows(@, definitions[save], after, {p})]
    /\ UNCHANGED <<vars, definitions>>

(* Rows go with their snapshot and definitions with their save; a snapshot  *)
(* that is published is scored under the definition of its save, whether it *)
(* becomes the current one or not.                                          *)
StoreChangesDna ==
    /\ Next
    /\ definitions' =
          [s \in DOMAIN saves' |->
              IF s \in DOMAIN saves /\ saves[s].token = saves'[s].token
              THEN definitions[s] ELSE NoDefinition]
    /\ \E squad \in Squads :
          LET old == {i \in DOMAIN snaps \cap DOMAIN snaps' :
                         snaps[i].token = snaps'[i].token}
          IN  /\ squads' = [i \in DOMAIN snaps' |-> IF i \in old THEN squads[i] ELSE squad]
              /\ scores' = [i \in DOMAIN snaps' |->
                               IF i \in old THEN scores[i]
                               ELSE ScoresOf(definitions[snaps'[i].save], squad)]

DnaNext == StoreChangesDna \/ SetClubDna \/ RemoveClubDna \/ BoostPlayer

DnaSpec == DnaInit /\ [][DnaNext]_dnaVars

(* Every snapshot of a save with a definition has exactly the scores that   *)
(* this definition gives the attributes it has now, and those of a save     *)
(* without one has none: a row that was left behind would be read as soon   *)
(* as its version is given again, and a snapshot that was not scored as     *)
(* soon as it is promoted.                                                  *)
ScoresAreOfTheDefinition ==
    \A i \in DOMAIN scores : scores[i] = ScoresOf(definitions[snaps[i].save], squads[i])
=============================================================================
