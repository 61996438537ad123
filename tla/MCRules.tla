------------------------------- MODULE MCRules -------------------------------
(***************************************************************************)
(* The pure algorithms, one after the other: what differs between the runs *)
(* is which of them is looked at; the variables of the others stay put.    *)
(***************************************************************************)
EXTENDS StaffAllocation, MatchGraph, ImageCache, TacticFit, SquadIndex,
        ResultContext, DumpFields, Migrations, FilterRules

VARIABLE which

vars == <<which, staffVars, graphVars, imageVars, searchVars, fitVars, squadVars,
          resultVars, fieldVars, migrationVars, filterVars>>

(* A game without a club.                                                   *)
NoGame ==
    [clubs |-> <<>>, found |-> {}, contracts |-> {}, parents |-> <<>>,
     managers |-> {}, named |-> {}, contractOf |-> <<>>]

(* A component that is not looked at stays in one of its initial states.    *)
IdleStaff == CHOOSE x \in Staffs : TRUE
IdleTargets == CHOOSE x \in Wanteds : TRUE
IdleQuestion == CHOOSE x \in Questions : TRUE
IdleWorld == CHOOSE x \in Worlds : TRUE
IdleRequest == CHOOSE x \in Requests : TRUE
IdlePlayer == CHOOSE x \in Players : TRUE
IdleLane == CHOOSE x \in Lanes : TRUE
IdleDocument == CHOOSE x \in Documents : TRUE

StaffIdle == staff = IdleStaff /\ targets = IdleTargets /\ StaffInit
GraphIdle == asked = IdleQuestion /\ GraphInit
SearchIdle == world = IdleWorld /\ request = IdleRequest /\ SearchInit
FitIdle == player = IdlePlayer /\ lane = IdleLane
SquadIdle == seen = NoGame /\ SquadStart
ResultIdle == active = (CHOOSE x \in Saves : TRUE) /\ ResultInit
MigrationIdle == release = Latest /\ MigrationStart
FilterIdle ==
    /\ viewed = "general" /\ joinedBy = "and"
    /\ address = <<>> /\ FilterInit
FieldIdle == dumped = IdleDocument /\ progress = "read"

(* The others first: TLC then evaluates them once.                          *)
RulesInit ==
    /\ which \in {"graph", "staff", "images", "search", "fit", "squads", "results", "fields", "database", "rules"}
    /\ ImageInit
    /\ IF which = "staff" THEN TRUE ELSE StaffIdle
    /\ IF which = "graph" THEN TRUE ELSE GraphIdle
    /\ IF which = "search" THEN TRUE ELSE SearchIdle
    /\ IF which = "fit" THEN TRUE ELSE FitIdle
    /\ IF which = "squads" THEN TRUE ELSE SquadIdle
    /\ IF which = "results" THEN TRUE ELSE ResultIdle
    /\ IF which = "fields" THEN TRUE ELSE FieldIdle
    /\ IF which = "database" THEN TRUE ELSE MigrationIdle
    /\ IF which = "rules" THEN TRUE ELSE FilterIdle
    /\ IF which = "staff" THEN StaffInit ELSE TRUE
    /\ IF which = "graph" THEN GraphInit ELSE TRUE
    /\ IF which = "search" THEN SearchInit ELSE TRUE
    /\ IF which = "fit" THEN FitInit ELSE TRUE
    /\ IF which = "squads" THEN SquadInit ELSE TRUE
    /\ IF which = "results" THEN ResultInit ELSE TRUE
    /\ IF which = "fields" THEN FieldInit ELSE TRUE
    /\ IF which = "database" THEN MigrationInit ELSE TRUE
    /\ IF which = "rules" THEN FilterInit ELSE TRUE

(* What is looked at; the others stay as they are.                          *)
RulesNext ==
    /\ UNCHANGED which
    /\ IF which = "graph" THEN GraphNext ELSE UNCHANGED graphVars
    /\ IF which = "staff" THEN StaffNext ELSE UNCHANGED staffVars
    /\ IF which = "images" THEN ImageNext ELSE UNCHANGED imageVars
    /\ IF which = "search" THEN SearchNext ELSE UNCHANGED searchVars
    /\ IF which = "fit" THEN FitNext ELSE UNCHANGED fitVars
    /\ IF which = "squads" THEN SquadNext ELSE UNCHANGED squadVars
    /\ IF which = "results" THEN ResultNext ELSE UNCHANGED resultVars
    /\ IF which = "fields" THEN FieldNext ELSE UNCHANGED fieldVars
    /\ IF which = "database" THEN MigrationNext ELSE UNCHANGED migrationVars
    /\ IF which = "rules" THEN FilterNext ELSE UNCHANGED filterVars

RulesSpec == RulesInit /\ [][RulesNext]_vars

-----------------------------------------------------------------------------
(* Questions: three lanes for two players, and two requirements for up to   *)
(* four coaches' places, whoever of two or three coaches there is.          *)
MCScores == {NoScore, 1, 2}
Tables(n, uids) == [1..n -> [uids -> MCScores]]

MCQuestions ==
    {LaneQuestion(t) : t \in Tables(3, {4, 7})}
    \cup {CoachQuestion(c, t) : c \in 1..4, t \in Tables(2, {4, 7})}
    \cup {CoachQuestion(3, <<[u \in {4, 7, 9} |-> IF u = 9 THEN 2 ELSE 1]>> \o t) :
              t \in Tables(1, {4, 7, 9})}

(* Staff: two analysts or heads of analysts and a manager, and two coaches  *)
(* of any kind and a third.                                                 *)
MCRequirements == <<"att", "def">>
ScoresOf(f) == [r \in Roles \cup {"att", "def"} |-> IF r \in DOMAIN f THEN f[r] ELSE NoScore]
PersonWith(job, y, f) == [job |-> job, youngsters |-> y, scores |-> ScoresOf(f)]

Analysts ==
    {PersonWith("performance_analyst", y, "head_performance_analyst" :> a @@ "performance_analyst" :> b) :
        y \in {NoScore, 3}, a \in {20, 31}, b \in {20, 31}}
    \cup {PersonWith("head_performance_analyst", 3, "head_performance_analyst" :> a) :
             a \in {NoScore, 20, 31}}
Coaches ==
    {PersonWith("coach", y, "att" :> a @@ "def" :> b) :
        y \in {NoScore, 6}, a \in {NoScore, 20, 31}, b \in {NoScore, 20}}
    \cup {PersonWith("fitness_coach", y, "fitness" :> 20) : y \in {NoScore, 7}}

MCStaffs ==
    {1 :> a @@ 2 :> b @@ 3 :> PersonWith("manager", 4, "manager" :> 31) : a, b \in Analysts}
    \cup {1 :> a @@ 2 :> b @@ 3 :> c : a, b \in Coaches,
              c \in {PersonWith("fitness_coach", 7, "fitness" :> 20),
                     PersonWith("coach", 7, "att" :> 20 @@ "def" :> 31)}}

MCWanteds ==
    {<<"senior", "performance_analyst">> :> 1 @@ <<"youth", "performance_analyst">> :> 1
        @@ <<"club", "head_performance_analyst">> :> 1
        @@ <<"senior", "manager">> :> 1 @@ <<"youth", "manager">> :> 1,
     <<"senior", "coaches">> :> 1 @@ <<"youth", "coaches">> :> 3,
     <<"reserves", "coaches">> :> 4 @@ <<"senior", "performance_analyst">> :> 2
        @@ <<"club", "head_performance_analyst">> :> 1}

(* Searches: three players, two or three of them imported; up to two rules. *)
StatsOf(a, b) == [tackles |-> a, errors |-> b]
MCWorlds ==
    {[current |-> TRUE, plain |-> 1 :> p @@ 2 :> 2 @@ 3 :> NoValue,
      stats |-> 1 :> StatsOf(a, 5) @@ 2 :> StatsOf(2, b) @@ 3 :> StatsOf(c, 4),
      shortlist |-> {2, 9}] :
        p \in {1, 2, NoValue}, a, c \in {2, 3, NoValue}, b \in {4, 5, NoValue}}
    \cup {[current |-> x, plain |-> 1 :> 2 @@ 2 :> 2 @@ 3 :> 1,
           stats |-> 3 :> StatsOf(2, 5) @@ 1 :> StatsOf(2, 6), shortlist |-> l] :
             x \in BOOLEAN, l \in {{}, {1, 2, 3}, {9}}}

MCRules1 == {[field |-> "role", op |-> "gt", target |-> 40], [field |-> "role", op |-> "neq", target |-> 50],
             [field |-> "plain", op |-> "lt", target |-> 2], [field |-> "plain", op |-> "neq", target |-> 2],
             [field |-> "tackles", op |-> "eq", target |-> 2]}
MCFilters == {[combine |-> "and", rules |-> <<>>]}
             \cup {[combine |-> c, rules |-> <<r, s>>] : c \in {"and", "or"}, r, s \in MCRules1}

MCRequests ==
    {[view |-> "moneyball", shortlistOnly |-> FALSE, columns |-> {}, limit |-> 1, pool |-> p,
      filter |-> f, sort |-> s, dir |-> d] :
        p \in {"file", "filtered"}, f \in MCFilters, s \in {"role", "plain"}, d \in {"asc", "desc"}}
    \cup {[view |-> "general", shortlistOnly |-> l, columns |-> c, limit |-> n, pool |-> "file",
           filter |-> [combine |-> "and", rules |-> <<>>], sort |-> "plain", dir |-> "asc"] :
             l \in BOOLEAN, c \in {{}, {"role"}}, n \in {0, 5}}

(* Players with every familiarity and score at a limit.                     *)
MCPlayers ==
    [age : {28, 29}, foot : Feet,
     familiarity : [ip : {11, 12, 15, 16, NoFit}, oop : {12, 16, NoFit}],
     current : {[ip |-> 57, oop |-> 58], [ip |-> 4, oop |-> 15], [ip |-> NoFit, oop |-> 60]},
     potential : {[ip |-> 60, oop |-> 61], [ip |-> 61, oop |-> NoFit], [ip |-> 3, oop |-> 0]}]

(* The game: three clubs, the third known by a contract only.  First the    *)
(* squads a player is in, then the managers, then the dates.                *)
Team(at, type, manager, squad, dates) ==
    [at |-> at, type |-> type, manager |-> manager, squad |-> squad, dates |-> dates]
Squad(at, type, squad) == Team(at, type, Unknown, squad, <<>>)
Managed(at, type, manager) == Team(at, type, manager, <<>>, <<>>)
Playing(at, dates) == Team(at, 0, Unknown, <<7>>, dates)

Game(clubs, parent, named, contractOf) ==
    [clubs |-> clubs, found |-> {1, 2}, contracts |-> {1, 3},
     parents |-> 7 :> parent @@ 8 :> Unknown,
     managers |-> {70, 71}, named |-> named, contractOf |-> contractOf]
Club(name, teams) == [name |-> name, teams |-> teams]

Squads == {<<>>, <<7, 8>>, <<7, 8, 7>>}
Types == {0, 1, Unknown}
TeamDates == {<<>>, <<5>>, <<Unknown, 6>>, <<6, 5>>}
NoContracts == 70 :> Unknown @@ 71 :> Unknown

MCGames ==
    {Game(1 :> Club(20, <<Squad(101, s, a), Squad(102, t, <<7>>)>>)
          @@ 2 :> Club(10, <<Squad(103, t, b)>>) @@ 3 :> Club(30, <<Squad(104, u, c)>>),
          parent, {}, NoContracts) :
        a, b, c \in Squads, s, t, u \in {0, 1}, parent \in {10, 20, 30, Unknown}}
    \cup {Game(1 :> Club(20, <<Managed(102, s, m), Managed(101, t, n)>>)
               @@ 2 :> Club(10, <<Managed(103, t, n)>>) @@ 3 :> Club(x, <<Managed(104, 0, 70)>>),
               Unknown, named, contracts) :
             s, t \in Types, m, n \in {70, 71, Unknown}, x \in {30, Unknown},
             named \in {{}, {71}, {70, 71}}, contracts \in {NoContracts, 70 :> Unknown @@ 71 :> 40}}
    \cup {Game(1 :> Club(10, <<Playing(101, d), Playing(102, e)>>)
               @@ 2 :> Club(20, <<Playing(103, f)>>) @@ 3 :> Club(30, <<>>),
               Unknown, {}, NoContracts) : d, e, f \in TeamDates}

(* Dumps: lists of up to two, counted truly or not, cut or not.             *)
Shape(p, s) == [PlainShape EXCEPT !.players = p, !.staff = s,
                              !.playerCount = Len(p), !.staffCount = Len(s)]
Lists == {<<>>, <<1>>, <<2>>, <<1, 2>>, <<1, 1>>}
MCShapes ==
    {[Shape(p, s) EXCEPT !.manager = m, !.emptySave = e] :
        p, s \in Lists, m \in 0..3, e \in BOOLEAN}
    \cup {[PlainShape EXCEPT !.playerCount = n, !.staffCount = m, !.truncated = t,
                             !.maxAccepted = a, !.ours = o] :
              n, m \in 0..2, t, a, o \in BOOLEAN}

(* Databases: two saves, the first with something in every table.           *)
Row(save, f) == "save_id" :> save @@ f
UsageOf(date, source, years, scopes, orders) ==
    LET token(i) == "context_token" :> <<"token", i>>
        saved(i, isActive) ==
            "id" :> i @@ "is_active" :> isActive @@ token(i)
            @@ "reveal_hidden_player_information" :> FALSE @@ "reveal_hidden_information" :> FALSE
        snapshot(i, save, current, season, from) ==
            Row(save, "id" :> i @@ "is_current" :> current @@ "game_date" :> season
                @@ "game_date_source" :> from @@ token(i) @@ "manager_uid" :> 9
                @@ "bridge_source_request_id" :> Null @@ "manager_club_uid" :> Null
                @@ "player_boost_recovery_required" :> TRUE @@ "boost_recovery_required" :> TRUE)
        person(f) == "snapshot_id" :> 11 @@ "uid" :> 7 @@ "gender" :> "male" @@ f
        score == person("role_id" :> "dm" @@ "definition_version" :> 2
                        @@ "score_model_version" :> 1 @@ "goalkeeper_oop" :> 50)
        entry(f) == Row(1, "player_uid" :> 7 @@ f)
        class(y) == Row(1, "id" :> <<1, y>> @@ "class_year" :> y @@ "is_automatic" :> (y = 2025))
        target(scope, job) == Row(1, "scope" :> scope @@ "job_id" :> job @@ "slot_count" :> IF scope = "senior" THEN 4 ELSE 2)
    IN  "saves" :> {saved(1, TRUE), saved(2, FALSE)}
        @@ "snapshots" :> {snapshot(11, 1, TRUE, date, source), snapshot(12, 1, FALSE, 2030, "memory"),
                           snapshot(13, 2, FALSE, 2029, "memory")}
        @@ "players" :> {person("potential_attributes_json" :> Null @@ "current_club_uid" :> 3)}
        @@ "staff" :> {person("club_uid" :> 3)}
        @@ "player_role_scores" :> {score} @@ "player_potential_role_scores" :> {score}
        @@ "staff_role_scores" :> {score} @@ "club_dna_scores" :> {score}
        @@ "player_role_metrics" :> {score} @@ "staff_role_metrics" :> {score}
        @@ "planner_club_settings" :> {Row(1, "primary_club" :> "FC")}
        @@ "managed_club_settings" :> {Row(1, "club_name" :> "FC" @@ "club_uid" :> 3)}
        @@ "planner_club_sources" :>
               {Row(1, "team" :> "senior" @@ "club_name" :> "FC" @@ "team_level" :> level)
                   : level \in {Null, "senior"}}
        @@ "planner_tactics" :> {Row(1, <<>>)}
        @@ "planner_tactic_lanes" :>
               {Row(1, "lane_order" :> i @@ "lane_id" :> i @@ "preferred_foot" :> "left"
                       @@ "importance_rank" :> IF i = 1 THEN 1 ELSE Null) : i \in 0..2}
        @@ "planner_strings" :>
               {Row(1, "id" :> <<1, i>> @@ "team" :> "senior" @@ "string_order" :> i
                       @@ "display_name" :> <<"ours">>) : i \in orders}
        @@ "planner_assignments" :>
               {entry("string_id" :> <<1, i>> @@ "lane_id" :> 0 @@ "provenance" :> "optimizer")
                   : i \in {CHOOSE i \in orders : TRUE}}
        @@ "academy_classes" :> {class(y) : y \in years}
        @@ "academy_memberships" :> {entry("class_id" :> <<1, y>>) : y \in {CHOOSE y \in years : TRUE}}
        @@ "academy_member_outcomes" :> {entry(<<>>)}
        @@ "player_youth_career_stats" :> {entry(<<>>)} @@ "player_shortlist_entries" :> {entry(<<>>)}
        @@ "player_moneyball_stats" :> {entry("snapshot_id" :> 11 @@ "percentiles_json" :> Null)}
        @@ "staff_shortlist_entries" :> {Row(1, "staff_uid" :> 9)}
        @@ "club_dna_definitions" :> {Row(1, "attribute_ids_json" :> <<1>> @@ "definition_version" :> 2)}
        @@ Targets :> {target(s, "set_piece_coach") : s \in scopes} \cup {target("senior", "coaches")}

MCUsages ==
    {UsageOf(d, f, y, {"senior"}, {0, 1}) :
        d \in {2024, 2025, 2027, Null}, f \in {"memory", "manual"}, y \in {{2025}, {2027}}}
    \cup {UsageOf(2027, "derived", {2025}, s, {0, 1}) : s \in SUBSET {"senior", "youth", "club"}}
    \cup {UsageOf(2027, "derived", {2026}, {}, o) : o \in {{0, 1, 2, 3}, {10, 11, 12, 20, 110}}}

(* Filter rules: every rule there is alone, and after one of five others.   *)
MCTypedIn ==
    [string |-> {<<"A">>, <<"%">>, <<"_", "b">>, <<"\\">>, <<" ">>, <<"M", "c">>},
     integer |-> {2, 4, Beyond}, number |-> {3, 4}, boolean |-> BOOLEAN]
MCPeople ==
    LET person(club, nations, n, yes, side, position, dna, few) ==
            [club |-> club, nationality |-> nations, age |-> n, ca |-> few, transfer_listed |-> yes,
             preferred_foot |-> side, position |-> position, club_dna |-> dna, role |-> n,
             starts |-> few, shots |-> n, rating |-> n, moneyball_role |-> n]
        dna(version, score) == [of |-> <<version, 1>>, score |-> score]
    IN  1 :> person(<<"x", "a">>, {<<"A">>, <<"x">>}, 4, TRUE, <<"l">>,
                    <<"m", "c">> :> 5 @@ <<"a", "m", "c">> :> 0, dna(7, 4), 2)
        @@ 2 :> person(Missing, {}, Missing, Missing, Missing, Missing, Missing, 4)
        @@ 3 :> person(<<"%">>, {<<"x">>}, 2, FALSE, <<"r">>, <<"a", "m", "c">> :> 9, dna(6, 4), 6)
        @@ 4 :> person(<<"\\", "b">>, {<<"_", "B">>, <<"b">>}, 6, FALSE, <<"e">>, <<>>, dna(7, 2), 4)

Entry(field, op, js, v) == [field |-> field, op |-> op, value |-> [js |-> js, type |-> "none", value |-> v]]
EntriesOf(fields, ops, js, values) ==
    {Entry(f, op, js, v) : f \in fields, op \in ToSet(ops), v \in values}
MCEntries ==
    EntriesOf({"club", "nationality"}, TextOps, "string", MCTypedIn.string)
    \cup EntriesOf({"age", "ca", "club_dna", "role", "starts", "shots", "moneyball_role"},
                   NumberOps, "number", {2, 4})
    \cup EntriesOf({"rating"}, NumberOps, "number", {3, 4})
    \cup EntriesOf({"position"}, TextOps, "string", {<<"m", "c">>, <<"A", "m", "c">>})
    \cup EntriesOf({"preferred_foot"}, ChoiceOps, "string", {<<"l">>, <<"x">>})
    \cup EntriesOf({"transfer_listed"}, ChoiceOps, "boolean", BOOLEAN)
MCFirst ==
    {Entry("position", "is_not", "string", <<"m", "c">>), Entry("club", "contains", "string", <<"b">>),
     Entry("club_dna", "gt", "number", 2), Entry("shots", "lt", "number", Beyond),
     Entry("moneyball_role", "gt", "number", 2)}
MCEdited ==
    {<<>>, <<Entry("age", "is", "number", 2),
             [Entry("club", "is", "typed", <<"a">>) EXCEPT !.value.type = "text"],
             [Entry("age", "gt", "typed", <<"2">>) EXCEPT !.value.type = "text"],
             Entry("ca", "eq", "number", 4), Entry("age", "lt", "number", 4)>>}
MCAddresses == MCEdited \cup {<<e>> : e \in MCEntries} \cup {<<f, e>> : f \in MCFirst, e \in MCEntries}
=============================================================================
