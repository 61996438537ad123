------------------------------- MODULE Planner -------------------------------
(***************************************************************************)
(* The squad planner of the active save (planner/depth.rs, teams.rs,       *)
(* optimizer.rs, tactic.rs): teams, their strings in order, and players in *)
(* the cells of a string, one cell for each lane of the tactic.  Every     *)
(* command holds the database lock to its end and makes its changes in     *)
(* transactions; only that of the optimizer is long enough to be told in   *)
(* steps.  Names and the rows of other saves are left out; the rows of a   *)
(* save all carry its id.  A string's order is its place in its team.      *)
(***************************************************************************)
EXTENDS Integers, Sequences, FiniteSets, FiniteSetsExt

CONSTANTS Teams, Order,  \* the teams, senior first
          OldestIn,      \* age limit of a team, or NoLimit
          Lanes,         \* the lanes of every tactic
          People,        \* uids
          Squads,        \* the age of everybody of the managed club, as
                         \* the current snapshot may have it
          NoAge, Away,   \* no age is known; at another club, or not there
          Tables,        \* what tactic, basis, feet and positions make of
                         \* everybody's scores: a score for each lane
          NoScore,       \* no score, position or foot for a lane
          NoLimit, NoSnapshot, NoTactic, NoTx, Nowhere,
          MaxString,     \* bound: row ids of strings
          MaxPerTeam,    \* bound: strings of a team
          MaxChanges     \* bound: commands

Ids == 1..MaxString
Cells == Ids \X Lanes
Scores == Nat \cup {NoScore}
Placements == [string : Ids, lane : Lanes, player : People,
               by : {"manual", "optimizer"}]

ASSUME PlannerAssumption ==
    /\ IsFiniteSet(Teams) /\ IsFiniteSet(Lanes) /\ IsFiniteSet(People)
    /\ Order \in [Teams -> Nat]
    /\ \A t, u \in Teams : Order[t] = Order[u] => t = u
    /\ People \subseteq Nat
    /\ NoAge \notin Nat /\ Away \notin Nat
    /\ Squads \subseteq [People -> Nat \cup {NoAge, Away}]
    /\ OldestIn \in [Teams -> Nat \cup {NoLimit}] /\ NoLimit \notin Nat
    /\ NoScore \notin Nat /\ NoTactic \notin [Lanes -> Nat]
    /\ Tables \subseteq [People -> [Lanes -> Scores]]
    /\ Nowhere \notin Cells
    /\ MaxString \in Nat /\ MaxPerTeam \in Nat /\ MaxChanges \in Nat

VARIABLES
    teams,    \* planner_teams
    strings,  \* planner_strings: the row ids of each team's, in order
    placed,   \* planner_assignments
    ranks,    \* the importance of each lane, 0 for none, or NoTactic
    squad,    \* the age of each player of the managed club, or NoSnapshot
    targets,  \* the teams with staff assignment targets
    tx,       \* the optimizer's transaction, or NoTx
    asked,    \* history: what the last command was told to take out
    changes   \* counts the commands

vars == <<teams, strings, placed, ranks, squad, targets, tx, asked, changes>>

Ranks == {r \in [Lanes -> 0..Cardinality(Lanes)] :
              \A l, k \in Lanes : l # k /\ r[l] # 0 => r[l] # r[k]}
Nobody == [players |-> {}, confirmed |-> FALSE]
Unranked == [l \in Lanes |-> 0]

TypeOK ==
    /\ teams \subseteq Teams
    /\ strings \in [Teams -> Seq(Ids)]
    /\ placed \subseteq Placements
    /\ ranks \in Ranks \cup {NoTactic}
    /\ squad \in Squads \cup {NoSnapshot}
    /\ targets \subseteq Teams
    /\ tx \in [left : SUBSET Ids, done : SUBSET Lanes,
               placed : SUBSET Placements, scores : Tables] \cup {NoTx}
    /\ tx # NoTx => ranks # NoTactic /\ squad # NoSnapshot
    /\ asked \in [players : SUBSET People, confirmed : BOOLEAN]
    /\ changes \in 0..MaxChanges

Init ==
    /\ teams = {}
    /\ strings = [t \in Teams |-> <<>>]
    /\ placed = {}
    /\ ranks = NoTactic
    /\ squad = NoSnapshot
    /\ targets = {}
    /\ tx = NoTx
    /\ asked = Nobody
    /\ changes = 0

-----------------------------------------------------------------------------
(* The tables.                                                              *)

StringsOf(t) == {strings[t][k] : k \in DOMAIN strings[t]}
AllStrings == UNION {StringsOf(t) : t \in Teams}
TeamOf(s) == CHOOSE t \in Teams : s \in StringsOf(t)
PlaceOf(s) == CHOOSE k \in DOMAIN strings[TeamOf(s)] : strings[TeamOf(s)][k] = s
Manual(rows) == {a \in rows : a.by = "manual"}
Players(rows) == {a.player : a \in rows}
Taken(rows, s, l) == \E a \in rows : a.string = s /\ a.lane = l

(* The ids SQLite gives to new rows: above those that are kept.  The ids of *)
(* rows that were deleted are given again, and other saves have rows in the *)
(* table too.                                                               *)
FreshFor(slots, kept) ==
    {f \in [slots -> Ids] :
         /\ \A x \in slots : \A s \in kept : s < f[x]
         /\ \A x, y \in slots : f[x] = f[y] => x = y}

Enabled == IF teams = {} THEN Teams ELSE teams
Bare == {t \in Enabled : strings[t] = <<>>}

Command(players, confirmed) ==
    /\ tx = NoTx
    /\ changes < MaxChanges
    /\ changes' = changes + 1
    /\ asked' = [players |-> players, confirmed |-> confirmed]

(* ensure_depth: a tactic, the teams, and a first string for each of them.  *)
Ensured ==
    /\ ranks' = IF ranks = NoTactic THEN Unranked ELSE ranks
    /\ teams' = Enabled
    /\ \E f \in FreshFor(Bare, AllStrings) :
           strings' = [t \in Teams |-> IF t \in Bare THEN <<f[t]>> ELSE strings[t]]

-----------------------------------------------------------------------------
(* The commands.                                                            *)

(* get_planner_depth, get_planner_slot_candidates, and any command that is  *)
(* refused after ensure_depth.                                              *)
GetDepth ==
    /\ Command({}, FALSE)
    /\ Ensured
    /\ UNCHANGED <<placed, squad, targets, tx>>

(* get_planner_team_removal_impacts, and the targets of the staff.          *)
EnsureTeams ==
    /\ Command({}, FALSE)
    /\ teams' = Enabled
    /\ UNCHANGED <<strings, placed, ranks, squad, targets, tx>>

Available(p) == squad # NoSnapshot /\ squad[p] # Away

Row(s, l, p, by) == [string |-> s, lane |-> l, player |-> p, by |-> by]

(* Mutant: a cell that is taken gets a second player.                       *)
AssignPlayerAnywhere(s, l, p) ==
    /\ Command({}, FALSE)
    /\ Ensured
    /\ s \in UNION {{strings'[t][k] : k \in DOMAIN strings'[t]} : t \in Teams}
    /\ Available(p)
    /\ p \notin Players(placed)
    /\ placed' = placed \cup {Row(s, l, p, "manual")}
    /\ UNCHANGED <<squad, targets, tx>>

AssignPlayer(s, l, p) ==
    /\ Command({}, FALSE)
    /\ Ensured
    /\ s \in UNION {{strings'[t][k] : k \in DOMAIN strings'[t]} : t \in Teams}
    /\ ~Taken(placed, s, l)
    /\ Available(p)
    /\ p \notin Players(placed)
    /\ placed' = placed \cup {Row(s, l, p, "manual")}
    /\ UNCHANGED <<squad, targets, tx>>

(* Mutant: whom the user moves is taken for one the optimizer has placed.   *)
MovePlayerAsPlanned(s, l, p) ==
    /\ Command({p}, FALSE)
    /\ Ensured
    /\ s \in UNION {{strings'[t][k] : k \in DOMAIN strings'[t]} : t \in Teams}
    /\ ~Taken(placed, s, l)
    /\ p \in Players(placed)
    /\ Available(p)
    /\ placed' = {a \in placed : a.player # p} \cup {Row(s, l, p, "optimizer")}
    /\ UNCHANGED <<squad, targets, tx>>

MovePlayer(s, l, p) ==
    /\ Command({p}, FALSE)
    /\ Ensured
    /\ s \in UNION {{strings'[t][k] : k \in DOMAIN strings'[t]} : t \in Teams}
    /\ ~Taken(placed, s, l)
    /\ p \in Players(placed)
    /\ Available(p)
    /\ placed' = {a \in placed : a.player # p} \cup {Row(s, l, p, "manual")}
    /\ UNCHANGED <<squad, targets, tx>>

ClearAssignment(s, l) ==
    LET there == {a \in placed : a.string = s /\ a.lane = l} IN
    /\ Command(Players(there), FALSE)
    /\ s \in AllStrings
    /\ Ensured
    /\ placed' = placed \ there
    /\ UNCHANGED <<squad, targets, tx>>

(* Without a confirmation it is refused before anything is looked at.       *)
ClearAll ==
    /\ Command(Players(placed), TRUE)
    /\ Ensured
    /\ placed' = {}
    /\ UNCHANGED <<squad, targets, tx>>

(* save_planner_tactic.                                                     *)
SaveTactic ==
    /\ Command({}, FALSE)
    /\ ranks' \in Ranks
    /\ UNCHANGED <<teams, strings, placed, squad, targets, tx>>

(* save_targets of the staff: any of the enabled teams.                     *)
SaveTargets ==
    /\ Command({}, FALSE)
    /\ teams' = Enabled
    /\ targets' \in SUBSET Enabled
    /\ UNCHANGED <<strings, placed, ranks, squad, tx>>

-----------------------------------------------------------------------------
(* save_team_settings.  An input names the teams to keep and for each its   *)
(* strings in order: the id of one the team has, or 0 for a new one.        *)

Lists(t) ==
    {q \in UNION {[1..n -> StringsOf(t) \cup {0}] : n \in 1..MaxPerTeam} :
         \A i, j \in DOMAIN q : q[i] = q[j] /\ q[i] # 0 => i = j}

Inputs == UNION {{d \in [kept -> UNION {Lists(t) : t \in Teams}] :
                      \A t \in kept : d[t] \in Lists(t)} :
                     kept \in (SUBSET Teams) \ {{}}}

(* The strings an input does away with, of kept teams and of others.        *)
Dropped(d) ==
    (UNION {StringsOf(t) : t \in Teams \ DOMAIN d})
    \cup (UNION {StringsOf(t) \ {d[t][k] : k \in DOMAIN d[t]} : t \in DOMAIN d})

Slots(d) == UNION {{<<t, k>> : k \in {j \in DOMAIN d[t] : d[t][j] = 0}} : t \in DOMAIN d}

(* Mutant: the strings a kept team loses are not looked at.                 *)
PopulatedTeamsOnly(d) ==
    \/ \E a \in placed : a.string \in UNION {StringsOf(t) : t \in Teams \ DOMAIN d}
    \/ \E t \in Enabled \ DOMAIN d : t \in targets

Populated(d) ==
    \/ \E a \in placed : a.string \in Dropped(d)
    \/ \E t \in Enabled \ DOMAIN d : t \in targets

(* Mutant: the targets of a team that goes are left behind.                 *)
SaveTeamsKeepingTargets(d, confirmed) ==
    LET lost == {a \in placed : a.string \in Dropped(d)} IN
    /\ Command(IF confirmed THEN Players(lost) ELSE {}, confirmed)
    /\ Populated(d) => confirmed
    /\ placed' = placed \ lost
    /\ \E f \in FreshFor(Slots(d), AllStrings \ Dropped(d)) :
           strings' = [t \in Teams |-> IF t \notin DOMAIN d THEN <<>>
                           ELSE [k \in DOMAIN d[t] |->
                               IF d[t][k] = 0 THEN f[<<t, k>>] ELSE d[t][k]]]
    /\ teams' = DOMAIN d
    /\ ranks' = IF ranks = NoTactic THEN Unranked ELSE ranks
    /\ UNCHANGED <<squad, targets, tx>>

(* load_depth follows and finds the teams and strings it needs; the tactic  *)
(* is made there.                                                           *)
SaveTeams(d, confirmed) ==
    LET lost == {a \in placed : a.string \in Dropped(d)} IN
    /\ Command(IF confirmed THEN Players(lost) ELSE {}, confirmed)
    /\ Populated(d) => confirmed
    /\ targets' = targets \ (Enabled \ DOMAIN d)
    /\ placed' = placed \ lost
    /\ \E f \in FreshFor(Slots(d), AllStrings \ Dropped(d)) :
           strings' = [t \in Teams |-> IF t \notin DOMAIN d THEN <<>>
                           ELSE [k \in DOMAIN d[t] |->
                               IF d[t][k] = 0 THEN f[<<t, k>>] ELSE d[t][k]]]
    /\ teams' = DOMAIN d
    /\ ranks' = IF ranks = NoTactic THEN Unranked ELSE ranks
    /\ UNCHANGED <<squad, tx>>

-----------------------------------------------------------------------------
(* optimize_depth_with_basis.                                               *)

AgeEligible(t, p) ==
    OldestIn[t] # NoLimit => squad[p] # NoAge /\ squad[p] <= OldestIn[t]

(* load_current_optimizer_candidates, or those of the potential basis.      *)
Candidates(t, scores) ==
    {p \in People : /\ squad[p] # Away
                    /\ AgeEligible(t, p)
                    /\ \E l \in Lanes : scores[p][l] # NoScore}

BeginOptimize ==
    /\ Command({}, FALSE)
    /\ squad # NoSnapshot
    /\ Ensured
    /\ \E scores \in Tables :
           tx' = [left |-> UNION {{strings'[t][k] : k \in DOMAIN strings'[t]} : t \in Teams},
                  done |-> {}, placed |-> Manual(placed), scores |-> scores]
    /\ UNCHANGED <<placed, squad, targets>>

Before(s, z) ==
    \/ Order[TeamOf(s)] < Order[TeamOf(z)]
    \/ TeamOf(s) = TeamOf(z) /\ PlaceOf(s) < PlaceOf(z)

(* The string in turn, senior first and then by order.                      *)
InTurn(s) == s \in tx.left /\ \A z \in tx.left \ {s} : Before(s, z)

OpenLanes(s) == {l \in Lanes : ~Taken(Manual(placed), s, l)}
RankedLeft(s) == {l \in OpenLanes(s) \ tx.done : ranks[l] # 0}

(* Mutant: the age does not count.                                          *)
FreeOfAnyAge(s, l) ==
    {p \in People : /\ squad[p] # Away
                    /\ p \notin Players(tx.placed)
                    /\ tx.scores[p][l] # NoScore}

(* Those who may still be placed in a lane of a string.                     *)
Free(s, l) ==
    {p \in Candidates(TeamOf(s), tx.scores) \ Players(tx.placed) :
         tx.scores[p][l] # NoScore}

(* The ranked lanes, the most important first, each get the best who is     *)
(* left; the lower uid decides a tie.                                       *)
FillRanked ==
    /\ tx # NoTx
    /\ \E s \in tx.left :
           /\ InTurn(s)
           /\ \E l \in RankedLeft(s) :
                 /\ \A k \in RankedLeft(s) : ranks[l] <= ranks[k]
                 /\ \/ /\ Free(s, l) = {}
                       /\ tx' = [tx EXCEPT !.done = @ \cup {l}]
                    \/ \E p \in Free(s, l) :
                          /\ \A q \in Free(s, l) :
                                 \/ tx.scores[q][l] < tx.scores[p][l]
                                 \/ tx.scores[q][l] = tx.scores[p][l] /\ p <= q
                          /\ tx' = [tx EXCEPT !.done = @ \cup {l},
                                    !.placed = @ \cup {Row(s, l, p, "optimizer")}]
    /\ UNCHANGED <<teams, strings, placed, ranks, squad, targets, asked, changes>>

RestLanes(s) == {l \in OpenLanes(s) : ranks[l] = 0}

Matchings(s) ==
    {m \in UNION {[some -> People] : some \in SUBSET RestLanes(s)} :
         /\ \A l \in DOMAIN m : m[l] \in Free(s, l)
         /\ \A l, k \in DOMAIN m : m[l] = m[k] => l = k}

Total(m) == MapThenSumSet(LAMBDA l : tx.scores[m[l]][l], DOMAIN m)

(* MatchObjective without the uids, which PlannerMatching has.              *)
AtLeast(m, n) ==
    \/ Total(m) > Total(n)
    \/ Total(m) = Total(n) /\ Cardinality(DOMAIN m) >= Cardinality(DOMAIN n)

(* Mutant: some matching is taken and not the best.                         *)
AnyMatching(s, m) == m \in Matchings(s)

BestMatching(s, m) == m \in Matchings(s) /\ \A n \in Matchings(s) : AtLeast(m, n)

(* The other lanes of the string are filled together, match_lanes.          *)
FillRest ==
    /\ tx # NoTx
    /\ \E s \in tx.left :
           /\ InTurn(s)
           /\ RankedLeft(s) = {}
           /\ \E m \in Matchings(s) :
                 /\ BestMatching(s, m)
                 /\ tx' = [tx EXCEPT !.left = @ \ {s}, !.done = {},
                           !.placed = @ \cup {Row(s, l, m[l], "optimizer") : l \in DOMAIN m}]
    /\ UNCHANGED <<teams, strings, placed, ranks, squad, targets, asked, changes>>

CommitPlan ==
    /\ tx # NoTx
    /\ tx.left = {}
    /\ placed' = tx.placed
    /\ tx' = NoTx
    /\ UNCHANGED <<teams, strings, ranks, squad, targets, asked, changes>>

(* SQLite fails or the app ends before the commit: the transaction is rolled*)
(* back.                                                                    *)
RollBack ==
    /\ tx # NoTx
    /\ tx' = NoTx
    /\ UNCHANGED <<teams, strings, placed, ranks, squad, targets, asked, changes>>

-----------------------------------------------------------------------------
(* A Load Data, a deletion, or another managed club.                        *)
NewSnapshot ==
    /\ Command({}, FALSE)
    /\ squad' \in (Squads \cup {NoSnapshot}) \ {squad}
    /\ UNCHANGED <<teams, strings, placed, ranks, targets, tx>>

Next ==
    \/ GetDepth \/ EnsureTeams \/ ClearAll \/ SaveTactic \/ SaveTargets
    \/ \E s \in Ids, l \in Lanes, p \in People : AssignPlayer(s, l, p)
    \/ \E s \in Ids, l \in Lanes, p \in People : MovePlayer(s, l, p)
    \/ \E s \in Ids, l \in Lanes : ClearAssignment(s, l)
    \/ \E d \in Inputs, c \in BOOLEAN : SaveTeams(d, c)
    \/ BeginOptimize \/ FillRanked \/ FillRest \/ CommitPlan \/ RollBack
    \/ NewSnapshot

Spec == Init /\ [][Next]_vars

-----------------------------------------------------------------------------
(* Properties.                                                              *)

Distinct(rows) ==
    \A a, b \in rows :
        a.player = b.player \/ (a.string = b.string /\ a.lane = b.lane) => a = b

(* A player is in one cell and a cell holds one player, in what is stored   *)
(* and at every step of a plan: no command runs into the UNIQUE constraints *)
(* of planner_assignments and fails half way.                               *)
PlacesAreUnique == Distinct(placed) /\ (tx # NoTx => Distinct(tx.placed))

(* Nothing is left of a string or a team that is gone: every assignment is  *)
(* in a string of a team, and no target names a team there is not, which    *)
(* would make every later reading of the targets fail (expand_targets).     *)
NothingIsOrphaned ==
    /\ \A a \in placed : a.string \in AllStrings
    /\ \A t \in Teams \ teams : strings[t] = <<>>
    /\ targets \subseteq teams
    /\ \A t, u \in Teams : t # u => StringsOf(t) \cap StringsOf(u) = {}
    /\ tx # NoTx => \A a \in tx.placed : a.string \in AllStrings

(* The depth chart holds together, in what is stored and inside a plan.     *)
ChartIsConsistent == PlacesAreUnique /\ NothingIsOrphaned

(* A plan places only players of the managed club, within the age limit of  *)
(* the team whose string it is, in lanes they have a score for.             *)
PlannedAreEligible ==
    tx # NoTx =>
        \A a \in tx.placed \ Manual(tx.placed) :
            /\ squad[a.player] # Away
            /\ AgeEligible(TeamOf(a.string), a.player)
            /\ tx.scores[a.player][a.lane] # NoScore

(* A finished plan leaves nobody out who would have been better: for every  *)
(* cell that is empty or was filled by the plan, nobody without a place is  *)
(* eligible and scores higher there, though the plan fills strings and lanes*)
(* one after the other and ranked lanes before it matches the rest.         *)
NobodyBetterIsLeft ==
    tx # NoTx /\ tx.left = {} =>
        \A s \in AllStrings, l \in Lanes : \A p \in Free(s, l) :
            \E a \in tx.placed :
                /\ a.string = s /\ a.lane = l
                /\ a.by = "optimizer" => tx.scores[a.player][l] >= tx.scores[p][l]

(* A plan is made of those who may play, and of the best of them.           *)
PlanIsBest == PlannedAreEligible /\ NobodyBetterIsLeft

(* What the user has placed is lost only by a command that names it, or that*)
(* was confirmed to remove it: never by a plan, and never by a change of the*)
(* teams that was not confirmed.                                            *)
NothingIsLost ==
    [][\A a \in Manual(placed) : a \notin placed' => a.player \in asked'.players]_vars

CellIn(rows, p) ==
    IF p \in Players(rows)
    THEN LET a == CHOOSE b \in rows : b.player = p IN <<a.string, a.lane>>
    ELSE Nowhere

Chart == INSTANCE DepthChart WITH
             chart <- [p \in People |-> CellIn(placed, p)],
             fixed <- Players(Manual(placed))

(* The planner keeps the promise of DepthChart.                             *)
ImplementsChart == Chart!ChartSpec
=============================================================================
