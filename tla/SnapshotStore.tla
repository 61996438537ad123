--------------------------- MODULE SnapshotStore ---------------------------
(***************************************************************************)
(* Saves and snapshots in SQLite (snapshot/service.rs, ingest.rs) and the  *)
(* commands that change them (snapshot/commands.rs).  A row has an id that *)
(* SQLite gives again after a deletion and a context token that it never   *)
(* gives again; the user interface names rows as it saw them some time     *)
(* ago.  Each transaction is one step; a Load Data takes several, between  *)
(* which the user may switch saves but, for the gates, not delete or       *)
(* re-date anything.                                                       *)
(***************************************************************************)
EXTENDS Naturals

CONSTANTS MaxId,     \* bound: the largest row id of a table
          MaxToken,  \* bound: the tokens ever drawn
          Dates,     \* in-game dates, in calendar order
          Times      \* values of loaded_at_utc; the clock may repeat one

NoDate == 0
NoRow == [id |-> 0, token |-> 0]

ASSUME BoundsAssumption == MaxId \in Nat /\ MaxToken \in Nat
ASSUME DatesAssumption == Dates \subseteq Nat \ {NoDate}
ASSUME TimesAssumption == Times \subseteq Nat /\ Times # {}

VARIABLES
    saves,      \* the saves table, by id
    snaps,      \* the snapshots table, by id
    metrics,    \* the snapshots with stored metric rows
    nextToken,  \* the context tokens drawn so far
    loadPc,     \* the Load Data that holds LOAD_GATE
    asked,      \* the save it was asked for
    seenSave,   \* a save as the user interface last saw it
    seenSnap    \* a snapshot as the user interface last saw it

loadVars == <<loadPc, asked>>
seenVars == <<seenSave, seenSnap>>
vars == <<saves, snaps, metrics, nextToken, loadVars, seenVars>>

Ids == 1..MaxId
Tokens == 1..MaxToken
Saves == [token : Tokens, active : BOOLEAN]
Snapshots == [save : Ids, token : Tokens, date : Dates \cup {NoDate},
              loaded : Times, current : BOOLEAN]
Names == [id : Ids, token : Tokens] \cup {NoRow}

TypeOK ==
    /\ DOMAIN saves \subseteq Ids /\ saves \in [DOMAIN saves -> Saves]
    /\ DOMAIN snaps \subseteq Ids /\ snaps \in [DOMAIN snaps -> Snapshots]
    /\ metrics \in SUBSET Ids
    /\ nextToken \in 0..MaxToken
    /\ loadPc \in {"idle", "scanning", "scored"}
    /\ asked \in Names
    /\ seenSave \in Names
    /\ seenSnap \in Names

-----------------------------------------------------------------------------
(* Tables.                                                                  *)

With(t, i, r) == [j \in DOMAIN t \cup {i} |-> IF j = i THEN r ELSE t[j]]
Without(t, S) == [j \in DOMAIN t \ S |-> t[j]]
Empty == [i \in {} |-> NoRow]

(* The id SQLite gives the next row: one more than the largest.             *)
IsNextId(t, n) ==
    /\ n \in Ids
    /\ \A k \in DOMAIN t : k < n
    /\ n # 1 => n - 1 \in DOMAIN t

(* WHERE id = ?1 AND context_token = ?2                                     *)
Matches(t, row) == row.id \in DOMAIN t /\ t[row.id].token = row.token

Of(t, save) == {i \in DOMAIN t : t[i].save = save}
CurrentOf(t, save) == {i \in Of(t, save) : t[i].current}

(* SNAPSHOT_ORDER_BY: dated before undated, later dates first, then later   *)
(* loads, then larger ids.                                                  *)
Precedes(t, i, j) ==
    \/ t[i].date > t[j].date
    \/ t[i].date = t[j].date /\ t[i].loaded > t[j].loaded
    \/ t[i].date = t[j].date /\ t[i].loaded = t[j].loaded /\ i > j

(* ORDER BY ... LIMIT 1                                                     *)
IsFirst(t, i) == \A j \in Of(t, t[i].save) \ {i} : Precedes(t, i, j)

(* The flags of a save's snapshots set anew.                                *)
Selected(t, save) ==
    [i \in DOMAIN t |-> IF t[i].save = save
                           THEN [t[i] EXCEPT !.current = IsFirst(t, i)]
                           ELSE t[i]]

(* Mutant: the rows of a newly selected snapshot are not rebuilt.           *)
ReselectNothingNew(t, save) ==
    LET now == CurrentOf(Selected(t, save), save) IN
    /\ snaps' = Selected(t, save)
    /\ metrics' = (metrics \cap DOMAIN t) \ (Of(t, save) \ now)

(* reconcile_current_selection: rows of every other snapshot of the save    *)
(* are cleared, those of a newly selected one are rebuilt.                  *)
Reselect(t, save) ==
    LET now == CurrentOf(Selected(t, save), save)
        kept == (metrics \cap DOMAIN t) \ (Of(t, save) \ now)
    IN  /\ snaps' = Selected(t, save)
        /\ metrics' = IF now = CurrentOf(t, save) THEN kept ELSE kept \cup now

Activated(t, save) == [i \in DOMAIN t |-> [t[i] EXCEPT !.active = (i = save)]]

-----------------------------------------------------------------------------
Init ==
    /\ saves = Empty
    /\ snaps = Empty
    /\ metrics = {}
    /\ nextToken = 0
    /\ loadPc = "idle"
    /\ asked = NoRow
    /\ seenSave = NoRow
    /\ seenSnap = NoRow

(* A listing reaches the user interface.                                    *)
List ==
    /\ \/ /\ \E i \in DOMAIN saves : seenSave' = [id |-> i, token |-> saves[i].token]
          /\ UNCHANGED seenSnap
       \/ /\ \E i \in DOMAIN snaps : seenSnap' = [id |-> i, token |-> snaps[i].token]
          /\ UNCHANGED seenSave
    /\ UNCHANGED <<saves, snaps, metrics, nextToken, loadVars>>

(* ensure_default_save, which every listing and every creation begins with. *)
EnsureDefault ==
    /\ DOMAIN saves = {}
    /\ nextToken < MaxToken
    /\ nextToken' = nextToken + 1
    /\ \E n \in Ids : /\ IsNextId(saves, n)
                      /\ saves' = With(saves, n, [token |-> nextToken', active |-> TRUE])
    /\ UNCHANGED <<snaps, metrics, loadVars, seenVars>>

CreateSave ==
    /\ DOMAIN saves # {}
    /\ nextToken < MaxToken
    /\ nextToken' = nextToken + 1
    /\ \E n \in Ids : /\ IsNextId(saves, n)
                      /\ saves' = With(saves, n, [token |-> nextToken', active |-> FALSE])
    /\ UNCHANGED <<snaps, metrics, loadVars, seenVars>>

(* set_active_save holds CONTEXT_GATE and names the save by its id alone.   *)
SetActiveSave ==
    /\ seenSave.id \in DOMAIN saves
    /\ saves' = Activated(saves, seenSave.id)
    /\ UNCHANGED <<snaps, metrics, nextToken, loadVars, seenVars>>

-----------------------------------------------------------------------------
(* What acquire_boost_gate keeps apart from a Load Data.                    *)

GatesAreFree == loadPc = "idle"

(* Mutant: the active save goes and no other is made active.                *)
DeleteSaveLeavesNone ==
    /\ GatesAreFree
    /\ Matches(saves, seenSave)
    /\ saves' = Without(saves, {seenSave.id})
    /\ snaps' = Without(snaps, Of(snaps, seenSave.id))
    /\ metrics' = metrics \ Of(snaps, seenSave.id)
    /\ UNCHANGED <<nextToken, loadVars, seenVars>>

(* Mutant: the snapshots of a deleted save stay behind.                     *)
DeleteSaveAlone ==
    /\ GatesAreFree
    /\ Matches(saves, seenSave)
    /\ ~saves[seenSave.id].active
    /\ saves' = Without(saves, {seenSave.id})
    /\ UNCHANGED <<snaps, metrics, nextToken, loadVars, seenVars>>

(* A save goes with its snapshots and their metric rows; the lowest id that *)
(* is left, or a new default, takes over from an active save.               *)
DeleteSave ==
    /\ GatesAreFree
    /\ Matches(saves, seenSave)
    /\ LET rest == Without(saves, {seenSave.id}) IN
       \/ /\ ~saves[seenSave.id].active
          /\ saves' = rest
          /\ UNCHANGED nextToken
       \/ /\ saves[seenSave.id].active
          /\ \E k \in DOMAIN rest : /\ \A j \in DOMAIN rest : k <= j
                                    /\ saves' = Activated(rest, k)
          /\ UNCHANGED nextToken
       \/ /\ saves[seenSave.id].active
          /\ DOMAIN rest = {}
          /\ nextToken < MaxToken
          /\ nextToken' = nextToken + 1
          /\ \E n \in Ids : /\ IsNextId(rest, n)
                            /\ saves' = With(rest, n, [token |-> nextToken', active |-> TRUE])
    /\ snaps' = Without(snaps, Of(snaps, seenSave.id))
    /\ metrics' = metrics \ Of(snaps, seenSave.id)
    /\ UNCHANGED <<loadVars, seenVars>>

(* Mutant: the snapshot is named by its id alone.                           *)
DeleteSnapshotById ==
    /\ GatesAreFree
    /\ seenSnap.id \in DOMAIN snaps
    /\ Reselect(Without(snaps, {seenSnap.id}), snaps[seenSnap.id].save)
    /\ UNCHANGED <<saves, nextToken, loadVars, seenVars>>

DeleteSnapshot ==
    /\ GatesAreFree
    /\ Matches(snaps, seenSnap)
    /\ LET rest == Without(snaps, {seenSnap.id}) IN
       IF snaps[seenSnap.id].current
          THEN Reselect(rest, snaps[seenSnap.id].save)
          ELSE snaps' = rest /\ metrics' = metrics \ {seenSnap.id}
    /\ UNCHANGED <<saves, nextToken, loadVars, seenVars>>

(* Mutant: the date changes and the selection does not.                     *)
UpdateDateOnly ==
    /\ GatesAreFree
    /\ Matches(snaps, seenSnap)
    /\ \E d \in Dates : snaps' = [snaps EXCEPT ![seenSnap.id].date = d]
    /\ UNCHANGED <<saves, metrics, nextToken, loadVars, seenVars>>

UpdateSnapshotGameDate ==
    /\ GatesAreFree
    /\ Matches(snaps, seenSnap)
    /\ \E d \in Dates : Reselect([snaps EXCEPT ![seenSnap.id].date = d],
                                 snaps[seenSnap.id].save)
    /\ UNCHANGED <<saves, nextToken, loadVars, seenVars>>

-----------------------------------------------------------------------------
(* execute_load_data_with.                                                  *)

IsAskedFor(row) == Matches(saves, row) /\ saves[row.id].active

(* The save is the active one, by id and token, before the scan ...         *)
StartLoad ==
    /\ loadPc = "idle"
    /\ IsAskedFor(seenSave)
    /\ loadPc' = "scanning"
    /\ asked' = seenSave
    /\ UNCHANGED <<saves, snaps, metrics, nextToken, seenVars>>

FinishScan ==
    /\ loadPc = "scanning"
    /\ loadPc' = "scored"
    /\ UNCHANGED <<saves, snaps, metrics, nextToken, asked, seenVars>>

(* Mutant: only the transaction's own check of the token is left.           *)
PublishAnywhere ==
    /\ loadPc = "scored"
    /\ Matches(saves, asked)
    /\ nextToken < MaxToken
    /\ nextToken' = nextToken + 1
    /\ \E n \in Ids, d \in Dates \cup {NoDate}, l \in Times :
          /\ IsNextId(snaps, n)
          /\ Reselect(With(snaps, n, [save |-> asked.id, token |-> nextToken',
                                      date |-> d, loaded |-> l,
                                      current |-> FALSE]), asked.id)
    /\ loadPc' = "idle"
    /\ asked' = NoRow
    /\ UNCHANGED <<saves, seenVars>>

(* ... and again under the lock that publishes.  The dump's date decides    *)
(* whether the new snapshot is the current one: its scores are stored if it *)
(* is, and otherwise the current one keeps its own.                         *)
Publish ==
    /\ loadPc = "scored"
    /\ IsAskedFor(asked)
    /\ nextToken < MaxToken
    /\ nextToken' = nextToken + 1
    /\ \E n \in Ids, d \in Dates \cup {NoDate}, l \in Times :
          LET t == With(snaps, n, [save |-> asked.id, token |-> nextToken',
                                   date |-> d, loaded |-> l, current |-> FALSE])
              now == CurrentOf(Selected(t, asked.id), asked.id)
          IN  /\ IsNextId(snaps, n)
              /\ snaps' = Selected(t, asked.id)
              /\ metrics' = (metrics \ (Of(t, asked.id) \ now)) \cup ({n} \cap now)
    /\ loadPc' = "idle"
    /\ asked' = NoRow
    /\ UNCHANGED <<saves, seenVars>>

(* The scan fails, the save was switched, the transaction is rolled back,   *)
(* or the app is closed: nothing is stored.                                 *)
EndLoad ==
    /\ loadPc # "idle"
    /\ loadPc' = "idle"
    /\ asked' = NoRow
    /\ UNCHANGED <<saves, snaps, metrics, nextToken, seenVars>>

-----------------------------------------------------------------------------
Next ==
    \/ List \/ EnsureDefault \/ CreateSave \/ SetActiveSave
    \/ DeleteSave \/ DeleteSnapshot \/ UpdateSnapshotGameDate
    \/ StartLoad \/ FinishScan \/ Publish \/ EndLoad

Spec == Init /\ [][Next]_vars

-----------------------------------------------------------------------------
(* Once there are saves exactly one is active, through every switch and     *)
(* deletion: ensure_default_save and active_save_id fail for good without   *)
(* one, and the unique index forbids two.                                   *)
OneSaveIsActive ==
    DOMAIN saves # {} =>
        \E i \in DOMAIN saves : \A j \in DOMAIN saves : saves[j].active <=> j = i

(* In each save the current snapshot is the first in the order that every   *)
(* listing uses, whatever was loaded, deleted or re-dated.                  *)
CurrentIsFirst ==
    \A i \in DOMAIN snaps : snaps[i].current <=> IsFirst(snaps, i)

(* The metric rows that queries read are those of the current snapshots and *)
(* of no other: none missing, none kept for a snapshot that was superseded. *)
MetricsAreCurrent == metrics = {i \in DOMAIN snaps : snaps[i].current}

(* No snapshot outlives its save, so a save that is given the same id       *)
(* starts empty.                                                            *)
SnapshotsHaveSaves == \A i \in DOMAIN snaps : snaps[i].save \in DOMAIN saves

TokensOf(t) == {t[i].token : i \in DOMAIN t}

(* A snapshot is published into the save its Load Data was asked for, while *)
(* that save is the active one, whatever was switched during the scan.      *)
PublishedWhereAsked ==
    [][\A i \in DOMAIN snaps' :
          snaps'[i].token \notin TokensOf(snaps) =>
              /\ Matches(saves, asked)
              /\ snaps'[i].save = asked.id
              /\ saves[asked.id].active]_vars

(* What a deletion removes is what the user saw, also when its id was given *)
(* to another row since.                                                    *)
DeletedWasSeen ==
    [][\A i \in DOMAIN snaps :
          snaps[i].token \notin TokensOf(snaps') =>
              \/ snaps[i].token = seenSnap.token
              \/ saves[snaps[i].save].token = seenSave.token]_vars

(* The store holds together after every command.                            *)
StoreIsConsistent ==
    OneSaveIsActive /\ CurrentIsFirst /\ MetricsAreCurrent /\ SnapshotsHaveSaves

(* A command that was asked for a row acts on that row and on no other,     *)
(* whatever has been given its id meanwhile.                                *)
ActsOnWhatWasAsked == PublishedWhereAsked /\ DeletedWasSeen

(* A switch activates the save the user saw: "immutable internal context    *)
(* tokens so deletion cannot make an old asynchronous operation valid again *)
(* through SQLite row-ID reuse" (.wiki/features/completed/                  *)
(* snapshot-history.md:128).                                                *)
SwitchedToTheSaveSeen ==
    [][saves' # saves /\ TokensOf(saves') = TokensOf(saves) =>
          \A i \in DOMAIN saves' : saves'[i].active => saves'[i].token = seenSave.token]_vars
=============================================================================
