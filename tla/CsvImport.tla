------------------------------ MODULE CsvImport ------------------------------
(***************************************************************************)
(* Imports of CSV files (csv_import): career statistics of young players,  *)
(* Moneyball statistics, and the shortlists of players and of staff.  Each *)
(* captures the active save and its current snapshot under the database's  *)
(* lock, reads the file without it, and writes in one transaction that     *)
(* looks at the same rows again; meanwhile a Load Data may publish, and    *)
(* nothing here relies on the other commands to wait.                      *)
(***************************************************************************)
EXTENDS SnapshotStore, Sequences, FiniteSetsExt

CONSTANTS Populations,   \* what a Load Data may find: uids of players, of staff
          Files,         \* format of a file, and rows by uid
          Keys,          \* Moneyball statistics
          LowerIsBetter, \* the ones in which less is better
          NoValue        \* the file has none

VARIABLES
    known,     \* snapshot -> its players and its staff
    importing, \* the import that runs
    youth,     \* player_youth_career_stats: save -> uid -> what the file says
    moneyball, \* player_moneyball_stats: snapshot -> uid -> stats, percentiles
    lists      \* shortlist entries: save -> those of players, those of staff

importVars == <<known, importing, youth, moneyball, lists>>
csvVars == <<vars, importVars>>

NoImport == [pc |-> "idle"]
NoLists == [players |-> {}, staff |-> {}]

ImportInit ==
    /\ Init
    /\ known = Empty
    /\ importing = NoImport
    /\ youth = Empty
    /\ moneyball = Empty
    /\ lists = Empty

-----------------------------------------------------------------------------
(* percentile.rs.                                                           *)

(* A statistic's values, of the rows that have one.                         *)
Having(rows, key) == {u \in DOMAIN rows : rows[u].stats[key] # NoValue}

(* percentile_score: the share of the others that are below, rounded.       *)
PercentileScore(rows, key, uid) ==
    LET value(u) == rows[u].stats[key]
        others == Cardinality(Having(rows, key)) - 1
        below == Cardinality({u \in Having(rows, key) : value(u) < value(uid)})
        score == (200 * below + others) \div (2 * others)
    IN  IF \A u \in Having(rows, key) : value(u) = value(uid) THEN 50
        ELSE IF key \in LowerIsBetter THEN 100 - score ELSE score

(* Mutant: only the rows of the file are ranked.                            *)
PercentilesOfFile(rows, file) ==
    [u \in DOMAIN rows |->
        IF u \notin DOMAIN file THEN rows[u]
        ELSE LET mine == [v \in DOMAIN rows \cap DOMAIN file |-> rows[v]] IN
             [rows[u] EXCEPT !.percentiles =
                 [k \in Keys |-> IF rows[u].stats[k] = NoValue THEN NoValue
                                 ELSE PercentileScore(mine, k, u)]]]

(* calculate_percentiles and update_moneyball_percentiles: every row of the *)
(* snapshot is ranked anew, those the file did not mention as well.         *)
Ranked(rows, file) ==
    [u \in DOMAIN rows |->
        [rows[u] EXCEPT !.percentiles =
            [k \in Keys |-> IF rows[u].stats[k] = NoValue THEN NoValue
                            ELSE PercentileScore(rows, k, u)]]]

-----------------------------------------------------------------------------
(* The import.                                                              *)

(* What each command may be asked for: import_csv may expect a format.      *)
Commands == {[list |-> "players", format |-> "players"],
             [list |-> "staff", format |-> "staff"],
             [list |-> "none", format |-> "any"],
             [list |-> "none", format |-> "youth"],
             [list |-> "none", format |-> "moneyball"]}

(* capture_import_context and its two variants.                             *)
Capture ==
    /\ importing = NoImport
    /\ \E command \in Commands, save \in DOMAIN saves, snap \in DOMAIN snaps :
          /\ saves[save].active
          /\ snaps[snap].save = save /\ snaps[snap].current
          /\ importing' = [pc |-> "reading", command |-> command,
                           save |-> [id |-> save, token |-> saves[save].token],
                           snap |-> [id |-> snap, token |-> snaps[snap].token],
                           uids |-> IF command.list = "staff" THEN known[snap].staff
                                    ELSE known[snap].players]
    /\ UNCHANGED <<vars, known, youth, moneyball, lists>>

(* The rows of a file that name somebody of the captured snapshot.          *)
Matching(file) ==
    [u \in DOMAIN file.rows \cap importing.uids |-> file.rows[u]]

(* prepare_csv_import_for_expected_format: a shortlist is parsed as such,   *)
(* other files by the headers they have.                                    *)
Read ==
    /\ importing.pc = "reading"
    /\ \E file \in Files :
          /\ IF importing.command.list = "none"
             THEN /\ file.format \in {"youth", "moneyball"}
                  /\ importing.command.format \in {"any", file.format}
             ELSE file.format = importing.command.format
          /\ importing' = [pc |-> "writing", save |-> importing.save,
                           snap |-> importing.snap, format |-> file.format,
                           rows |-> Matching(file)]
    /\ UNCHANGED <<vars, known, youth, moneyball, lists>>

(* Mutant: the snapshot is not looked at again.                             *)
StillActive ==
    /\ Matches(saves, importing.save) /\ saves[importing.save.id].active

(* revalidate_active_import_context.                                        *)
Revalidated ==
    /\ Matches(saves, importing.save) /\ saves[importing.save.id].active
    /\ Matches(snaps, importing.snap) /\ snaps[importing.snap.id].current
    /\ snaps[importing.snap.id].save = importing.save.id

(* The rows of a table with those of the file in the place of the old ones. *)
Upserted(table, row, rows) ==
    [table EXCEPT ![row] = [u \in DOMAIN @ \cup DOMAIN rows |->
                               IF u \in DOMAIN rows THEN rows[u] ELSE @[u]]]

WriteYouth ==
    /\ youth' = Upserted(youth, importing.save.id, importing.rows)
    /\ UNCHANGED <<moneyball, lists>>

(* upsert_moneyball_stats replaces the statistics and leaves percentiles to *)
(* the ranking of the same transaction.                                     *)
WriteMoneyball ==
    LET fresh == [u \in DOMAIN importing.rows |->
                     [stats |-> importing.rows[u],
                      percentiles |-> [k \in Keys |-> NoValue]]]
        id == importing.snap.id
    IN  /\ moneyball' = IF importing.rows = Empty THEN moneyball
                        ELSE [moneyball EXCEPT ![id] =
                                 Ranked(Upserted(moneyball, id, fresh)[id], fresh)]
        /\ UNCHANGED <<youth, lists>>

(* persist_player_shortlist_import, persist_staff_shortlist_import: a list  *)
(* is replaced by what was found of the file, if anything was.              *)
WriteList ==
    /\ importing.rows # Empty
    /\ lists' = IF importing.format = "players"
                THEN [lists EXCEPT ![importing.save.id].players = DOMAIN importing.rows]
                ELSE [lists EXCEPT ![importing.save.id].staff = DOMAIN importing.rows]
    /\ UNCHANGED <<youth, moneyball>>

(* persist_csv_import.                                                      *)
Write ==
    /\ importing.pc = "writing"
    /\ Revalidated
    /\ CASE importing.format = "youth" -> WriteYouth
         [] importing.format = "moneyball" -> WriteMoneyball
         [] OTHER -> WriteList
    /\ importing' = NoImport
    /\ UNCHANGED <<vars, known>>

(* The file is refused, matches nobody, or what was captured is gone; or    *)
(* SQLite fails, and the transaction is rolled back.                        *)
GiveUpImport ==
    /\ importing.pc # "idle"
    /\ importing' = NoImport
    /\ UNCHANGED <<vars, known, youth, moneyball, lists>>

-----------------------------------------------------------------------------
(* What the saves and snapshots do to these tables: ON DELETE CASCADE, and  *)
(* a new row has nothing yet.                                               *)

StillThere(t, table, new) ==
    [i \in DOMAIN t |-> IF i \in DOMAIN table THEN table[i] ELSE new]

(* A row whose token changed is another row in the place of a deleted one.  *)
Kept(old, new, table) ==
    [i \in {j \in DOMAIN table \cap DOMAIN new : old[j].token = new[j].token} |->
        table[i]]

StoreChanges ==
    /\ Next
    /\ \E p \in Populations :
          known' = StillThere(snaps', Kept(snaps, snaps', known), p)
    /\ youth' = StillThere(saves', Kept(saves, saves', youth), Empty)
    /\ moneyball' = StillThere(snaps', Kept(snaps, snaps', moneyball), Empty)
    /\ lists' = StillThere(saves', Kept(saves, saves', lists), NoLists)
    /\ UNCHANGED importing

CsvNext == StoreChanges \/ Capture \/ Read \/ Write \/ GiveUpImport

CsvSpec == ImportInit /\ [][CsvNext]_csvVars

-----------------------------------------------------------------------------
(* The percentiles of a snapshot are those of all its rows, also when they  *)
(* came from several files and the last one mentioned only some of them.    *)
PercentilesAreOfTheWholeTable ==
    \A s \in DOMAIN moneyball : moneyball[s] = Ranked(moneyball[s], moneyball[s])

(* An import writes into the save and the snapshot it captured, and into no *)
(* other, while they are the active and the current ones, however ids were  *)
(* given again meanwhile; what it writes is about people of that snapshot.  *)
(* A shortlist never becomes empty but with its save.                       *)
ImportsStayInTheirSave ==
    [][/\ \A s \in DOMAIN lists \cap DOMAIN lists' :
             /\ saves'[s].token = saves[s].token
             /\ <<youth'[s], lists'[s]>> # <<youth[s], lists[s]>>
             => /\ importing.save = [id |-> s, token |-> saves[s].token]
                /\ saves[s].active
                /\ \E i \in CurrentOf(snaps, s) :
                      /\ importing.snap.token = snaps[i].token
                      /\ DOMAIN youth'[s] \ DOMAIN youth[s] \subseteq known[i].players
                      /\ lists'[s].players # lists[s].players =>
                            lists'[s].players # {} /\ lists'[s].players \subseteq known[i].players
                      /\ lists'[s].staff # lists[s].staff =>
                            lists'[s].staff # {} /\ lists'[s].staff \subseteq known[i].staff
       /\ \A i \in DOMAIN moneyball \cap DOMAIN moneyball' :
             /\ snaps'[i].token = snaps[i].token
             /\ moneyball'[i] # moneyball[i]
             => /\ importing.snap = [id |-> i, token |-> snaps[i].token]
                /\ snaps[i].current /\ saves[snaps[i].save].active
                /\ DOMAIN moneyball'[i] \subseteq known[i].players]_csvVars

(* An import is whole: what it writes is where it belongs, and what depends *)
(* on all the rows of the table is computed from all of them.               *)
ImportsAreWhole == []PercentilesAreOfTheWholeTable /\ ImportsStayInTheirSave
=============================================================================
