----------------------------- MODULE Migrations -----------------------------
(***************************************************************************)
(* The database file and the chain of migrations that opens it            *)
(* (db/migrations.rs).  The app of some release opened the file, the user *)
(* stored things in it, and an app of a later release opens it; at any    *)
(* moment the process may end.  Each migration runs in a transaction with *)
(* its version number, statement by statement.                            *)
(*                                                                        *)
(* A table is its columns, its unique keys, its foreign keys (all of them *)
(* cascade) and its rows.  Of the columns those are kept that name a row  *)
(* or another one, or that a later statement reads or writes; an id is    *)
(* what it identifies.                                                    *)
(***************************************************************************)
EXTENDS Integers, Sequences, FiniteSets, TLC

CONSTANTS Null,     \* SQL's NULL
          Releases, \* the versions at which an app was installed; the chain's last is one
          Usages    \* what the user stored

VARIABLES
    release, \* the version the installed app's chain ends with
    app,     \* closed, opening, ready, or failed
    file,    \* the file: its user_version and its tables
    tx,      \* the transaction of a migration, or none
    remembered   \* history: the rows the user stored, and at which version

migrationVars == <<release, app, file, tx, remembered>>

-----------------------------------------------------------------------------
(* Statements.                                                            *)
Ref(own, to, on) == [own |-> own, to |-> to, on |-> on]
OfSave == Ref(<<"save_id">>, "saves", <<"id">>)
OfSnapshot == Ref(<<"snapshot_id">>, "snapshots", <<"id">>)
OfPlayer == Ref(<<"snapshot_id", "uid">>, "players", <<"snapshot_id", "uid">>)
OfStaff == [OfPlayer EXCEPT !.to = "staff"]

Create(t, cols, keys, refs) ==
    [do |-> "create", table |-> t, made |-> [cols |-> cols, keys |-> keys, refs |-> refs, rows |-> {}]]
CreateIfMissing(t, cols, keys) ==
    [Create(t, cols, keys, {}) EXCEPT !.do = "create if missing"]
Drop(t) == [do |-> "drop", table |-> t]
DropIfExists(t) == [do |-> "drop if exists", table |-> t]
AddColumn(t, c, default) == [do |-> "add", table |-> t, column |-> c, default |-> default]
RenameColumn(t, c, new) == [do |-> "rename", table |-> t, column |-> c, new |-> new]
RenameTable(t, new) == [do |-> "rename table", table |-> t, new |-> new]
UniqueIndex(t, cols) == [do |-> "index", table |-> t, cols |-> cols]
Delete(t) == [do |-> "delete", table |-> t]
Data(what) == [do |-> what, table |-> "saves"]

(* A table that belongs to a save, a snapshot, or a player of one.        *)
Owned(t, cols, refs) == Create(t, cols, {cols}, refs)

-----------------------------------------------------------------------------
(* The migrations, each of them named as in the code.                     *)
INITIAL_DEMO_VALUE == <<CreateIfMissing("demo_value", {"id"}, {{"id"}})>>
DROP_DEMO_VALUE == <<Drop("demo_value")>>

SNAPSHOT_SCHEMA ==
    <<Create("saves", {"id", "is_active"}, {{"id"}, {"is_active"}}, {}),
      Create("snapshots", {"id", "save_id", "is_current", "game_date", "game_date_source"},
             {{"id"}, {"save_id", "is_current"}}, {OfSave}),
      Owned("players", {"snapshot_id", "uid"}, {OfSnapshot})>>

PLAYER_ROLE_SCORES == <<Owned("player_role_scores", {"snapshot_id", "uid", "role_id"}, {OfPlayer})>>

PLANNER_CLUB_FAMILY ==
    <<Create("planner_club_settings", {"save_id", "primary_club"}, {{"save_id"}}, {OfSave}),
      Owned("planner_club_sources", {"save_id", "team", "club_name", "team_level"},
            {Ref(<<"save_id">>, "planner_club_settings", <<"save_id">>)})>>

LaneKeys == {{"save_id", "lane_order"}, {"save_id", "lane_id"}}
PLANNER_TACTIC ==
    <<Owned("planner_tactics", {"save_id"}, {OfSave}),
      Create("planner_tactic_lanes", {"save_id", "lane_order", "lane_id"}, LaneKeys,
             {Ref(<<"save_id">>, "planner_tactics", <<"save_id">>)})>>

PLANNER_DEPTH ==
    <<Create("planner_strings", {"id", "save_id", "team", "string_order"},
             {{"id"}, {"save_id", "team", "string_order"}}, {OfSave}),
      Create("planner_assignments", {"save_id", "string_id", "lane_id", "player_uid"},
             {{"save_id", "player_uid"}, {"string_id", "lane_id"}},
             {OfSave, Ref(<<"string_id">>, "planner_strings", <<"id">>)})>>

PLANNER_ASSIGNMENT_PROVENANCE == <<AddColumn("planner_assignments", "provenance", "manual")>>

PLANNER_LANE_WEIGHTS ==
    <<Drop("planner_tactic_lanes"), Drop("planner_tactics"),
      Create("planner_tactic_lanes", {"save_id", "lane_order", "lane_id"}, LaneKeys, {OfSave})>>

PLANNER_LANE_IMPORTANCE_RANKS ==
    <<AddColumn("planner_tactic_lanes", "importance_rank", Null),
      UniqueIndex("planner_tactic_lanes", {"save_id", "importance_rank"})>>

PLANNER_LANE_FOOT_PREFERENCES == <<AddColumn("planner_tactic_lanes", "preferred_foot", "any")>>

ACADEMY_SCHEMA ==
    <<Create("academy_classes", {"id", "save_id", "class_year"},
             {{"id"}, {"save_id", "id"}, {"save_id", "class_year"}}, {OfSave}),
      Create("academy_memberships", {"save_id", "class_id", "player_uid"}, {{"save_id", "player_uid"}},
             {OfSave, Ref(<<"save_id", "class_id">>, "academy_classes", <<"save_id", "id">>)})>>

ACADEMY_AUTOMATIC_CLASSES ==
    <<AddColumn("academy_classes", "is_automatic", FALSE), Data("mark 2025"), Data("insert 2025")>>

ACADEMY_MEMBER_OUTCOMES ==
    <<Owned("academy_member_outcomes", {"save_id", "player_uid"},
            {OfSave, Ref(<<"save_id", "player_uid">>, "academy_memberships", <<"save_id", "player_uid">>)})>>

ACADEMY_CURRENT_SNAPSHOT_CLASSES == <<Data("insert 2025"), Data("insert seasons")>>

SUPERSCOUT_PARITY_SCHEMA ==
    <<AddColumn("snapshots", "manager_uid", Null), AddColumn("players", "gender", "unknown"),
      Owned("staff", {"snapshot_id", "uid"}, {OfSnapshot})>>

SNAPSHOT_BRIDGE_SOURCE_REQUEST == <<AddColumn("snapshots", "bridge_source_request_id", Null)>>

CSV_ENRICHMENT_SCHEMA ==
    <<Owned("player_youth_career_stats", {"save_id", "player_uid"}, {OfSave}),
      Owned("player_moneyball_stats", {"save_id", "player_uid"}, {OfSave})>>

SNAPSHOT_MONEYBALL_ENRICHMENT_SCHEMA ==
    <<Owned("player_moneyball_stats_legacy", {"save_id", "player_uid"}, {OfSave}),
      Data("copy moneyball"), Drop("player_moneyball_stats"),
      Owned("player_moneyball_stats", {"snapshot_id", "player_uid"},
            {OfSnapshot, Ref(<<"snapshot_id", "player_uid">>, "players", <<"snapshot_id", "uid">>)})>>

SNAPSHOT_MANAGEMENT_CONTEXT ==
    <<AddColumn("saves", "context_token", Null), AddColumn("snapshots", "context_token", Null),
      Data("draw save tokens"), Data("draw snapshot tokens"),
      UniqueIndex("saves", {"context_token"}), UniqueIndex("snapshots", {"context_token"})>>

PLAYER_BOOST_RECOVERY == <<AddColumn("snapshots", "player_boost_recovery_required", FALSE)>>
PLAYER_POTENTIAL_ROLE_SCORES ==
    <<Owned("player_potential_role_scores", {"snapshot_id", "uid", "role_id"}, {OfPlayer})>>
PLAYER_INFORMATION_VISIBILITY == <<AddColumn("saves", "reveal_hidden_player_information", TRUE)>>
STAFF_ROLE_SCORES == <<Owned("staff_role_scores", {"snapshot_id", "uid", "role_id"}, {OfStaff})>>
SHARED_BOOST_RECOVERY ==
    <<RenameColumn("snapshots", "player_boost_recovery_required", "boost_recovery_required")>>
SHARED_INFORMATION_VISIBILITY ==
    <<RenameColumn("saves", "reveal_hidden_player_information", "reveal_hidden_information")>>
STAFF_SHORTLIST_SCHEMA == <<Owned("staff_shortlist_entries", {"save_id", "staff_uid"}, {OfSave})>>

Teams == {"senior", "reserves", "youth"}
PLANNER_TEAM_SETTINGS ==
    <<Create("planner_teams", {"save_id", "team", "display_name"},
             {{"save_id", "team"}, {"save_id", "display_name"}}, {OfSave}), Data("insert teams")>>

MANAGED_CLUB_SETTINGS ==
    <<Drop("planner_club_sources"), RenameTable("planner_club_settings", "managed_club_settings"),
      RenameColumn("managed_club_settings", "primary_club", "club_name")>>

MONEYBALL_PERCENTILE_COHORT == <<AddColumn("player_moneyball_stats", "percentiles_json", Null)>>
CLUB_DNA_DEFINITIONS ==
    <<Create("club_dna_definitions", {"save_id", "attribute_ids_json"}, {{"save_id"}}, {OfSave})>>
CLUB_DNA_SCORE_CACHE ==
    <<AddColumn("club_dna_definitions", "definition_version", 1),
      Owned("club_dna_scores", {"snapshot_id", "uid", "definition_version", "score_model_version"},
            {OfPlayer})>>
PLAYER_TARGETED_SORT_INDEXES == <<>>
POTENTIAL_SCORES_V34 == <<AddColumn("players", "potential_attributes_json", Null)>>

STAFF_ASSIGNMENT_TARGETS ==
    <<Create("staff_assignment_targets", {"save_id", "scope", "job_id", "slot_count"},
             {{"save_id", "scope", "job_id"}}, {OfSave})>>
STAFF_ASSIGNMENT_TARGETS_RESET == <<Delete("staff_assignment_targets")>>

(* Mutant: every target for one becomes the club's.                       *)
SetPiecesMovedAlone == <<Data("move set pieces"), Data("one set-piece slot")>>

CLUB_SET_PIECE_COACH_TARGET ==
    <<Data("insert set pieces"), Data("one set-piece slot"), Data("delete set pieces")>>

COMPACT_ROLE_METRICS_V38 ==
    <<Owned("player_role_metrics", {"snapshot_id", "uid"}, {OfPlayer}),
      Owned("staff_role_metrics", {"snapshot_id", "uid"}, {OfStaff})>>
DROP_NORMALIZED_SCORE_TABLES_V39 ==
    <<DropIfExists("player_role_scores"), DropIfExists("player_potential_role_scores"),
      DropIfExists("staff_role_scores")>>
MIGRATION_V40 == <<AddColumn("player_role_metrics", "goalkeeper_oop", Null)>>
PLAYER_SHORTLIST_SCHEMA == <<Owned("player_shortlist_entries", {"save_id", "player_uid"}, {OfSave})>>
TACTIC_RESET == <<Delete("planner_tactic_lanes")>>
PLANNER_STRING_NAMES == <<AddColumn("planner_strings", "display_name", <<>>), Data("name strings")>>
CLUB_UIDS_V44 ==
    <<AddColumn("players", "current_club_uid", Null), AddColumn("staff", "club_uid", Null),
      AddColumn("snapshots", "manager_club_uid", Null)>>
MANAGED_CLUB_UID == <<AddColumn("managed_club_settings", "club_uid", Null)>>
GRAPHICS_ROOT_V46 ==
    <<CreateIfMissing("graphics_settings", {"id", "root"}, {{"id"}}), Data("insert root")>>

(* all(): what version i runs is Chain[i].                                *)
Chain ==
    <<INITIAL_DEMO_VALUE, SNAPSHOT_SCHEMA, PLAYER_ROLE_SCORES, PLANNER_CLUB_FAMILY, PLANNER_TACTIC,
      PLANNER_DEPTH, PLANNER_ASSIGNMENT_PROVENANCE, PLANNER_LANE_WEIGHTS,
      PLANNER_LANE_IMPORTANCE_RANKS, PLANNER_LANE_FOOT_PREFERENCES, ACADEMY_SCHEMA,
      ACADEMY_AUTOMATIC_CLASSES, ACADEMY_MEMBER_OUTCOMES, ACADEMY_CURRENT_SNAPSHOT_CLASSES,
      SUPERSCOUT_PARITY_SCHEMA, SNAPSHOT_BRIDGE_SOURCE_REQUEST, CSV_ENRICHMENT_SCHEMA,
      SNAPSHOT_MONEYBALL_ENRICHMENT_SCHEMA, SNAPSHOT_MANAGEMENT_CONTEXT, PLAYER_BOOST_RECOVERY,
      PLAYER_POTENTIAL_ROLE_SCORES, DROP_DEMO_VALUE, PLAYER_INFORMATION_VISIBILITY,
      STAFF_ROLE_SCORES, SHARED_BOOST_RECOVERY, SHARED_INFORMATION_VISIBILITY,
      STAFF_SHORTLIST_SCHEMA, PLANNER_TEAM_SETTINGS, MANAGED_CLUB_SETTINGS,
      MONEYBALL_PERCENTILE_COHORT, CLUB_DNA_DEFINITIONS, CLUB_DNA_SCORE_CACHE,
      PLAYER_TARGETED_SORT_INDEXES, POTENTIAL_SCORES_V34, STAFF_ASSIGNMENT_TARGETS,
      STAFF_ASSIGNMENT_TARGETS_RESET, CLUB_SET_PIECE_COACH_TARGET, COMPACT_ROLE_METRICS_V38,
      DROP_NORMALIZED_SCORE_TABLES_V39, MIGRATION_V40, PLAYER_SHORTLIST_SCHEMA, TACTIC_RESET,
      PLANNER_STRING_NAMES, CLUB_UIDS_V44, MANAGED_CLUB_UID, GRAPHICS_ROOT_V46>>
Latest == Len(Chain)

-----------------------------------------------------------------------------
(* What a statement does to the tables T.                                 *)
Refers(ref, row, parent) == \A i \in DOMAIN ref.own : row[ref.own[i]] = parent[ref.on[i]]
Values(row, cols) == [c \in cols |-> row[c]]

(* A partial unique index leaves out the rows that are not active, not    *)
(* current or not ranked, and UNIQUE takes no NULL for another.           *)
Clash(t, row, other) ==
    \E key \in t.keys :
        /\ \A c \in key : row[c] # Null /\ (c \in {"is_active", "is_current"} => row[c])
        /\ Values(row, key) = Values(other, key)

KeysHold(T) ==
    \A t \in DOMAIN T : \A row, other \in T[t].rows : row # other => ~Clash(T[t], row, other)
RefsHold(T) ==
    \A t \in DOMAIN T : \A ref \in T[t].refs : \A row \in T[t].rows :
        ref.to \in DOMAIN T /\ \E parent \in T[ref.to].rows : Refers(ref, row, parent)

(* Deleting rows deletes those that refer to them, and so on.             *)
RECURSIVE Cascade(_, _)
Cascade(T, gone) ==
    LET more == {<<t, row>> \in UNION {{t} \X T[t].rows : t \in DOMAIN T} :
                    \E ref \in T[t].refs : \E g \in gone :
                        g[1] = ref.to /\ Refers(ref, row, g[2])}
    IN  IF more \subseteq gone THEN gone ELSE Cascade(T, gone \cup more)
Deleted(T, t, rows) ==
    LET gone == Cascade(T, {t} \X rows)
    IN  [u \in DOMAIN T |-> [T[u] EXCEPT !.rows = {row \in @ : <<u, row>> \notin gone}]]

WithRows(T, t, rows) == [T EXCEPT ![t].rows = rows]
Inserted(T, t, rows) == [T EXCEPT ![t].rows = @ \cup rows]
OrIgnore(T, t, rows) ==
    Inserted(T, t, {row \in rows : \A other \in T[t].rows : ~Clash(T[t], row, other)})
Updated(T, t, Changed(_)) == [T EXCEPT ![t].rows = {Changed(row) : row \in @}]
WithColumn(row, c, value) == [d \in DOMAIN row \cup {c} |-> IF d = c THEN value ELSE row[d]]

Class(save, year) ==
    [id |-> <<save, year>>, save_id |-> save, class_year |-> year, is_automatic |-> TRUE]
SaveIds(T) == {row.id : row \in T["saves"].rows}
IsAutomatic(row, years) == [row EXCEPT !.is_automatic = @ \/ <<row.save_id, row.class_year>> \in years]

(* The season of a current snapshot that says its date itself: CAST(substr)*)
(* of a date that is one.                                                 *)
Seasons(T) ==
    {<<s.save_id, s.game_date>> : s \in
        {s \in T["snapshots"].rows :
            /\ s.is_current
            /\ s.game_date_source \in {"memory", "derived"}
            /\ s.game_date # Null /\ s.game_date >= 2025}}

(* Mutant: the eleventh string is the 11st.                               *)
SuffixByLastDigit(n) ==
    CASE n % 10 = 1 -> "st" [] n % 10 = 2 -> "nd" [] n % 10 = 3 -> "rd" [] OTHER -> "th"

(* The CASE of migration 43.                                              *)
SqlSuffix(n) ==
    CASE n % 100 \in {11, 12, 13} -> "th"
      [] n % 10 = 1 -> "st"
      [] n % 10 = 2 -> "nd"
      [] n % 10 = 3 -> "rd"
      [] OTHER -> "th"

IsSetPiece(row) == row.job_id = "set_piece_coach"
ClubTarget(save) == [save_id |-> save, scope |-> "club", job_id |-> "set_piece_coach", slot_count |-> 1]
Targets == "staff_assignment_targets"
TargetRows(T) == T[Targets].rows

DataDone(what, T) ==
    CASE what = "mark 2025" ->
           Updated(T, "academy_classes", LAMBDA r : IsAutomatic(r, SaveIds(T) \X {2025}))
      [] what = "insert 2025" ->
           OrIgnore(T, "academy_classes", {Class(s, 2025) : s \in SaveIds(T)})
      [] what = "insert seasons" ->
           LET upserted == OrIgnore(T, "academy_classes", {Class(y[1], y[2]) : y \in Seasons(T)})
           IN  Updated(upserted, "academy_classes", LAMBDA r : IsAutomatic(r, Seasons(T)))
      [] what = "copy moneyball" ->
           Inserted(T, "player_moneyball_stats_legacy", T["player_moneyball_stats"].rows)
      [] what = "draw save tokens" ->
           Updated(T, "saves", LAMBDA r : [r EXCEPT !.context_token = <<"token", r.id>>])
      [] what = "draw snapshot tokens" ->
           Updated(T, "snapshots", LAMBDA r : [r EXCEPT !.context_token = <<"token", r.id>>])
      [] what = "insert teams" ->
           Inserted(T, "planner_teams",
               {[save_id |-> s, team |-> t, display_name |-> t] : s \in SaveIds(T), t \in Teams})
      [] what = "insert set pieces" ->
           OrIgnore(T, Targets, {ClubTarget(r.save_id) : r \in {r \in TargetRows(T) : IsSetPiece(r)}})
      [] what = "move set pieces" ->
           Updated(T, Targets, LAMBDA r : IF IsSetPiece(r) THEN [r EXCEPT !.scope = "club"] ELSE r)
      [] what = "one set-piece slot" ->
           Updated(T, Targets, LAMBDA r : IF IsSetPiece(r) /\ r.scope = "club"
                                          THEN [r EXCEPT !.slot_count = 1] ELSE r)
      [] what = "delete set pieces" ->
           WithRows(T, Targets, {r \in TargetRows(T) : ~IsSetPiece(r) \/ r.scope = "club"})
      [] what = "name strings" ->
           Updated(T, "planner_strings",
                   LAMBDA r : [r EXCEPT !.display_name = <<r.string_order + 1, SqlSuffix(r.string_order + 1)>>])
      [] what = "insert root" -> OrIgnore(T, "graphics_settings", {[id |-> 1, root |-> Null]})

(* DROP TABLE deletes the rows first, with foreign keys on.               *)
Dropped(T, t) ==
    LET rest == Deleted(T, t, T[t].rows) IN [u \in DOMAIN T \ {t} |-> rest[u]]

Renamed(t, c, new) ==
    LET Now(d) == IF d = c THEN new ELSE d
        Row(r) == [d \in {Now(e) : e \in DOMAIN r} |-> IF d = new THEN r[c] ELSE r[d]]
    IN  [t EXCEPT !.cols = {Now(d) : d \in @}, !.keys = {{Now(d) : d \in k} : k \in @},
                  !.rows = {Row(r) : r \in @}]

Executed(s, T) ==
    CASE s.do = "create" \/ (s.do = "create if missing" /\ s.table \notin DOMAIN T) ->
           s.table :> s.made @@ T
      [] s.do = "create if missing" /\ s.table \in DOMAIN T -> T
      [] s.do = "drop" \/ (s.do = "drop if exists" /\ s.table \in DOMAIN T) -> Dropped(T, s.table)
      [] s.do = "drop if exists" /\ s.table \notin DOMAIN T -> T
      [] s.do = "add" ->
           [T EXCEPT ![s.table] = [@ EXCEPT !.cols = @ \cup {s.column},
                                   !.rows = {WithColumn(r, s.column, s.default) : r \in @}]]
      [] s.do = "rename" -> [T EXCEPT ![s.table] = Renamed(@, s.column, s.new)]
      [] s.do = "rename table" ->
           [t \in (DOMAIN T \ {s.table}) \cup {s.new} |-> IF t = s.new THEN T[s.table] ELSE T[t]]
      [] s.do = "index" -> [T EXCEPT ![s.table].keys = @ \cup {s.cols}]
      [] s.do = "delete" -> Deleted(T, s.table, T[s.table].rows)
      [] OTHER -> DataDone(s.do, T)

(* SQLite refuses a statement about a table that is not there, a table or a*)
(* column that is there already, and rows that break a key or a reference.*)
Refused(s, T) ==
    \/ IF s.do = "create" THEN s.table \in DOMAIN T
       ELSE s.do \notin {"create if missing", "drop if exists"} /\ s.table \notin DOMAIN T
    \/ s.do = "add" /\ s.column \in T[s.table].cols
Holds(T) == KeysHold(T) /\ RefsHold(T)

-----------------------------------------------------------------------------
(* The app.                                                               *)
NoTx == [version |-> 0, next |-> 0, tables |-> [t \in {} |-> {}]]
NoneStored == [at |-> 0, rows |-> [t \in {} |-> {}]]

MigrationStart ==
    /\ app = "closed"
    /\ file = [version |-> 0, tables |-> [t \in {} |-> {}]]
    /\ tx = NoTx
    /\ remembered = NoneStored

MigrationInit == release \in Releases /\ MigrationStart

Open ==
    /\ app = "closed"
    /\ app' = "opening"
    /\ UNCHANGED <<release, file, tx, remembered>>

Begin ==
    /\ app = "opening" /\ tx = NoTx
    /\ file.version < release
    /\ tx' = [version |-> file.version + 1, next |-> 1, tables |-> file.tables]
    /\ UNCHANGED <<release, app, file, remembered>>

(* Mutant: execute_batch without a transaction.                           *)
StatementAtOnce ==
    /\ tx # NoTx /\ tx.next <= Len(Chain[tx.version])
    /\ LET s == Chain[tx.version][tx.next] IN
       IF ~Refused(s, tx.tables) /\ Holds(Executed(s, tx.tables))
       THEN /\ tx' = [tx EXCEPT !.next = @ + 1, !.tables = Executed(s, @)]
            /\ file' = [file EXCEPT !.tables = Executed(s, @)]
            /\ UNCHANGED app
       ELSE /\ tx' = NoTx
            /\ app' = "failed"
            /\ UNCHANGED file
    /\ UNCHANGED <<release, remembered>>

(* The next statement, or the rollback that an error is.                  *)
Statement ==
    /\ tx # NoTx /\ tx.next <= Len(Chain[tx.version])
    /\ LET s == Chain[tx.version][tx.next] IN
       IF ~Refused(s, tx.tables) /\ Holds(Executed(s, tx.tables))
       THEN /\ tx' = [tx EXCEPT !.next = @ + 1, !.tables = Executed(s, @)]
            /\ UNCHANGED app
       ELSE /\ tx' = NoTx
            /\ app' = "failed"
    /\ UNCHANGED <<release, file, remembered>>

Commit ==
    /\ tx # NoTx /\ tx.next > Len(Chain[tx.version])
    /\ file' = [version |-> tx.version, tables |-> tx.tables]
    /\ tx' = NoTx
    /\ UNCHANGED <<release, app, remembered>>

Opened ==
    /\ app = "opening" /\ tx = NoTx
    /\ file.version >= release
    /\ app' = "ready"
    /\ UNCHANGED <<release, file, tx, remembered>>

(* The process ends, in the middle of a transaction perhaps.              *)
End ==
    /\ app \in {"opening", "ready"}
    /\ app' = "closed"
    /\ tx' = NoTx
    /\ UNCHANGED <<release, file, remembered>>

Install ==
    /\ app = "closed"
    /\ release < Latest
    /\ release' = Latest
    /\ UNCHANGED <<app, file, tx, remembered>>

(* The user of the release stores what its tables have columns for; the app*)
(* makes a class of 2025 for every save since 12, and its teams since 28. *)
Shaped(t, row) == [c \in t.cols |-> row[c]]
MadeFor(usage, t) ==
    CASE t = "academy_classes" /\ file.version >= 12 -> {Class(s.id, 2025) : s \in usage["saves"]}
      [] t = "planner_teams" ->
           {[save_id |-> s.id, team |-> n, display_name |-> n] : s \in usage["saves"], n \in Teams}
      [] OTHER -> {}
StoredIn(usage, t) ==
    {Shaped(file.tables[t], r) : r \in MadeFor(usage, t) \cup (IF t \in DOMAIN usage THEN usage[t] ELSE {})}
Use ==
    /\ app = "ready" /\ remembered = NoneStored
    /\ \E usage \in Usages :
         LET rows == [t \in DOMAIN file.tables |-> StoredIn(usage, t)]
         IN  /\ remembered' = [at |-> file.version, rows |-> rows]
             /\ file' = [file EXCEPT !.tables =
                            [t \in DOMAIN @ |-> [@[t] EXCEPT !.rows = @ \cup rows[t]]]]
    /\ UNCHANGED <<release, app, tx>>

MigrationNext ==
    Open \/ Begin \/ Statement \/ Commit \/ Opened \/ End \/ Install \/ Use

-----------------------------------------------------------------------------
(* What the chain is meant to do with what was stored at a version.       *)

(* Dropped with their tables or emptied on purpose.                       *)
GivenUp(t) ==
    \/ t \in {"demo_value", "planner_club_sources", "planner_tactics", "player_role_scores",
              "player_potential_role_scores", "staff_role_scores"}
    \/ t = "planner_tactic_lanes" /\ remembered.at < 42
    \/ t = Targets /\ remembered.at < 36

(* Where the rows of a table are at the end, and under which names.       *)
TableNow(t) ==
    CASE t = "planner_club_settings" -> "managed_club_settings"
      [] t = "player_moneyball_stats" /\ remembered.at < 18 -> "player_moneyball_stats_legacy"
      [] OTHER -> t
ColumnNow(c) ==
    CASE c = "primary_club" -> "club_name"
      [] c = "player_boost_recovery_required" -> "boost_recovery_required"
      [] c = "reveal_hidden_player_information" -> "reveal_hidden_information"
      [] OTHER -> c
IsKept(row, rows) ==
    \E kept \in rows : \A c \in DOMAIN row \ {"is_automatic"} : kept[ColumnNow(c)] = row[c]
SetPiecesOf(save, rows) == {r \in rows : IsSetPiece(r) /\ r.save_id = save}

IsAutomaticIn(T, save, year) ==
    \E r \in T["academy_classes"].rows :
        r.save_id = save /\ r.class_year = year /\ r.is_automatic

(* ordinal_label: how the planner names a string.                         *)
OrdinalSuffix(n) ==
    IF n % 100 \in 11..13 THEN "th"
    ELSE IF n % 10 = 1 THEN "st" ELSE IF n % 10 = 2 THEN "nd" ELSE IF n % 10 = 3 THEN "rd" ELSE "th"

(* Nothing else that was stored is lost or changed.                       *)
RowsAreKept(T) ==
    \A t \in DOMAIN remembered.rows : ~GivenUp(t) =>
        \A row \in remembered.rows[t] :
            (t = Targets /\ remembered.at < 37 /\ IsSetPiece(row)) \/ IsKept(row, T[TableNow(t)].rows)

(* What later releases rely upon is there for every save: its teams, its  *)
(* automatic classes, a token, the names of its strings; and a set-piece  *)
(* coach who was wanted anywhere is wanted once, by the club.             *)
RowsAreFilledIn(T) ==
    /\ \A s \in SaveIds(T) :
         /\ {r.team : r \in {r \in T["planner_teams"].rows : r.save_id = s}} = Teams
         /\ IsAutomaticIn(T, s, 2025)
         /\ remembered.at < 14 => \A y \in Seasons(T) : IsAutomaticIn(T, y[1], y[2])
         /\ remembered.at = 36 =>
              SetPiecesOf(s, TargetRows(T)) =
                  (IF SetPiecesOf(s, remembered.rows[Targets]) = {} THEN {} ELSE {ClubTarget(s)})
    /\ \A r \in T["saves"].rows \cup T["snapshots"].rows : r.context_token # Null
    /\ remembered.at < 43 => \A r \in T["planner_strings"].rows :
         r.display_name = <<r.string_order + 1, OrdinalSuffix(r.string_order + 1)>>
    /\ Cardinality(T["graphics_settings"].rows) = 1

(* A save that is deleted afterwards leaves nothing of it, and takes      *)
(* nothing of another.                                                    *)
SaveOf(T, row) ==
    IF "save_id" \in DOMAIN row THEN row.save_id
    ELSE IF "snapshot_id" \in DOMAIN row
    THEN (CHOOSE s \in T["snapshots"].rows : s.id = row.snapshot_id).save_id
    ELSE row.id
SaveIsDeletedWhole(T) ==
    \A save \in T["saves"].rows :
        LET rest == Deleted(T, "saves", {save})
        IN  \A t \in DOMAIN T \ {"graphics_settings"} :
                rest[t].rows = {row \in T[t].rows : SaveOf(T, row) # save.id}

(* Whatever release a database was used with, and wherever an earlier     *)
(* attempt to open it was cut off: no migration fails, keys and references*)
(* hold after each, and at the end of the chain what was stored is there, *)
(* with what the later releases expect.                                   *)
EveryDatabaseOpens ==
    /\ app # "failed"
    /\ tx = NoTx => Holds(file.tables)
    /\ app = "ready" /\ file.version = Latest =>
         /\ RowsAreKept(file.tables)
         /\ RowsAreFilledIn(file.tables)
         /\ SaveIsDeletedWhole(file.tables)
=============================================================================
