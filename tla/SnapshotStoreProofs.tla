------------------------ MODULE SnapshotStoreProofs ------------------------
(***************************************************************************)
(* One active save, one current snapshot per save, and metric rows for     *)
(* exactly those, for any number of rows, dates and clock readings.  Then  *)
(* the tables that are kept beside the store: the scores of Club DNA, the  *)
(* imports of CSV files and the classes of the academy, each with the      *)
(* store's own steps between its steps.                                    *)
(***************************************************************************)
EXTENDS CsvImport, ClubDna, Academy, WellFoundedInduction, TLAPS

Rows(t) == DOMAIN t \subseteq Ids /\ t \in [DOMAIN t -> Snapshots]

Table(t, S) == DOMAIN t \subseteq Ids /\ t \in [DOMAIN t -> S]

FlagsAreRight(t) == \A i \in DOMAIN t : t[i].current <=> IsFirst(t, i)

IInv == TypeOK /\ OneSaveIsActive /\ SnapshotsHaveSaves
               /\ FlagsAreRight(snaps) /\ MetricsAreCurrent

-----------------------------------------------------------------------------
(* Adding, removing and activating rows.                                    *)
LEMMA WithRow ==
    ASSUME NEW t, NEW S, Table(t, S), NEW i \in Ids, NEW r \in S
    PROVE  /\ Table(With(t, i, r), S)
           /\ DOMAIN With(t, i, r) = DOMAIN t \cup {i}
           /\ With(t, i, r)[i] = r
           /\ \A j \in DOMAIN t : j # i => With(t, i, r)[j] = t[j]
<1>1. DOMAIN With(t, i, r) = DOMAIN t \cup {i}
  BY DEF With
<1>2. \A j \in DOMAIN t \cup {i} : With(t, i, r)[j] \in S
  BY DEF With, Table
<1>3. With(t, i, r) \in [DOMAIN t \cup {i} -> S]
  BY <1>2 DEF With
<1>4. QED
  BY <1>1, <1>3 DEF With, Table

LEMMA WithSave ==
    ASSUME NEW t, Table(t, Saves), NEW n \in Ids, NEW r \in Saves
    PROVE  /\ Table(With(t, n, r), Saves)
           /\ DOMAIN With(t, n, r) = DOMAIN t \cup {n}
           /\ With(t, n, r)[n] = r
           /\ \A j \in DOMAIN t : j # n => With(t, n, r)[j] = t[j]
BY WithRow

LEMMA WithoutRows ==
    ASSUME NEW t, NEW S, Table(t, S), NEW T
    PROVE  /\ Table(Without(t, T), S)
           /\ DOMAIN Without(t, T) = DOMAIN t \ T
           /\ \A j \in DOMAIN t \ T : Without(t, T)[j] = t[j]
<1>1. DOMAIN Without(t, T) = DOMAIN t \ T
  BY DEF Without
<1>2. Without(t, T) \in [DOMAIN t \ T -> S]
  BY DEF Without, Table
<1>3. QED
  BY <1>1, <1>2 DEF Without, Table

LEMMA ActivatedRows ==
    ASSUME NEW t, Table(t, Saves), NEW v
    PROVE  /\ Table(Activated(t, v), Saves)
           /\ DOMAIN Activated(t, v) = DOMAIN t
           /\ \A j \in DOMAIN t : Activated(t, v)[j].active <=> j = v
<1>1. DOMAIN Activated(t, v) = DOMAIN t
  BY DEF Activated
<1>2. \A j \in DOMAIN t : /\ Activated(t, v)[j] \in Saves
                          /\ Activated(t, v)[j].active = (j = v)
  BY DEF Activated, Saves, Table
<1>3. Activated(t, v) \in [DOMAIN t -> Saves]
  BY <1>2 DEF Activated
<1>4. QED
  BY <1>1, <1>2, <1>3 DEF Table

(* The first row of an empty table is active, and a later one is not.       *)
OneActive(t) ==
    DOMAIN t # {} => \E i \in DOMAIN t : \A j \in DOMAIN t : t[j].active <=> j = i

LEMMA RowAdded ==
    ASSUME NEW t, Table(t, Saves), OneActive(t), NEW n \in Ids, n \notin DOMAIN t,
           NEW r \in Saves, r.active <=> DOMAIN t = {}
    PROVE  /\ Table(With(t, n, r), Saves)
           /\ OneActive(With(t, n, r))
<1>1. Table(With(t, n, r), Saves)
  BY WithSave
<1>2. /\ DOMAIN With(t, n, r) = DOMAIN t \cup {n}
      /\ With(t, n, r)[n] = r
      /\ \A j \in DOMAIN t : With(t, n, r)[j] = t[j]
  BY DEF With
<1>3. OneActive(With(t, n, r))
  <2>1. CASE DOMAIN t = {}
    BY <1>2, <2>1 DEF OneActive
  <2>2. CASE DOMAIN t # {}
    BY <1>2, <2>2 DEF OneActive
  <2>3. QED
    BY <2>1, <2>2
<1>4. QED
  BY <1>1, <1>3

LEMMA NewRow ==
    ASSUME NEW t, Table(t, Saves), OneActive(t), NEW n \in Ids, IsNextId(t, n),
           NEW k \in Tokens, NEW a \in BOOLEAN, a <=> DOMAIN t = {}
    PROVE  /\ Table(With(t, n, [token |-> k, active |-> a]), Saves)
           /\ OneActive(With(t, n, [token |-> k, active |-> a]))
<1>1. /\ [token |-> k, active |-> a] \in Saves
      /\ [token |-> k, active |-> a].active <=> DOMAIN t = {}
  BY DEF Saves
<1>2. n \notin DOMAIN t
  BY BoundsAssumption DEF IsNextId, Ids
<1>3. QED
  BY <1>1, <1>2, RowAdded

(* Selecting anew changes no row but for its flag, and sets that right for  *)
(* the save; the order does not look at flags.                              *)
LEMMA SelectedRows ==
    ASSUME NEW t, Rows(t), NEW v
    PROVE  /\ Rows(Selected(t, v))
           /\ DOMAIN Selected(t, v) = DOMAIN t
           /\ \A i \in DOMAIN t :
                 /\ Selected(t, v)[i].save = t[i].save
                 /\ Selected(t, v)[i].token = t[i].token
                 /\ Selected(t, v)[i].date = t[i].date
                 /\ Selected(t, v)[i].loaded = t[i].loaded
                 /\ Selected(t, v)[i].current =
                       IF t[i].save = v THEN IsFirst(t, i) ELSE t[i].current
<1>1. DOMAIN Selected(t, v) = DOMAIN t
  BY DEF Selected
<1>2. \A i \in DOMAIN t : IsFirst(t, i) \in BOOLEAN
  BY DEF IsFirst
<1>3. QED
  BY <1>1, <1>2 DEF Rows, Selected, Snapshots

LEMMA SelectedOrder ==
    ASSUME NEW t, Rows(t), NEW v, NEW i \in DOMAIN t
    PROVE  IsFirst(Selected(t, v), i) <=> IsFirst(t, i)
<1> DEFINE s == Selected(t, v)
<1>1. /\ DOMAIN s = DOMAIN t
      /\ \A j \in DOMAIN t : /\ s[j].save = t[j].save
                             /\ s[j].date = t[j].date
                             /\ s[j].loaded = t[j].loaded
  BY SelectedRows
<1> HIDE DEF s
<1>2. Of(s, s[i].save) = Of(t, t[i].save)
  BY <1>1 DEF Of
<1>3. \A j \in Of(t, t[i].save) : Precedes(s, i, j) <=> Precedes(t, i, j)
  BY <1>1 DEF Of, Precedes
<1>4. IsFirst(s, i) <=> IsFirst(t, i)
  BY <1>2, <1>3 DEF IsFirst
<1>5. QED
  BY <1>4 DEF s

(* If the flags of the other saves are right, all are right afterwards.     *)
LEMMA SelectedFlags ==
    ASSUME NEW t, Rows(t), NEW v,
           \A i \in DOMAIN t : t[i].save # v => (t[i].current <=> IsFirst(t, i))
    PROVE  FlagsAreRight(Selected(t, v))
BY SelectedRows, SelectedOrder DEF FlagsAreRight

(* Clearing and rebuilding keeps the metric rows on the current snapshots.  *)
LEMMA ReselectKeeps ==
    ASSUME NEW t, Rows(t), NEW v, Reselect(t, v),
           \A i \in DOMAIN t : t[i].save # v => (t[i].current <=> IsFirst(t, i)),
           \A i \in DOMAIN t : i \in metrics <=> t[i].current
    PROVE  /\ Rows(snaps')
           /\ DOMAIN snaps' = DOMAIN t
           /\ \A i \in DOMAIN t : /\ snaps'[i].save = t[i].save
                                  /\ snaps'[i].token = t[i].token
           /\ FlagsAreRight(snaps')
           /\ metrics' = {i \in DOMAIN snaps' : snaps'[i].current}
<1> DEFINE s == Selected(t, v)
<1>1. /\ Rows(s)
      /\ DOMAIN s = DOMAIN t
      /\ \A i \in DOMAIN t : /\ s[i].save = t[i].save
                             /\ s[i].token = t[i].token
                             /\ t[i].save # v => s[i].current = t[i].current
  BY SelectedRows
<1>2. FlagsAreRight(s)
  BY SelectedFlags
<1> DEFINE now == CurrentOf(s, v)
           kept == (metrics \cap DOMAIN t) \ (Of(t, v) \ now)
<1>3. /\ snaps' = s
      /\ metrics' = IF now = CurrentOf(t, v) THEN kept ELSE kept \cup now
  BY DEF Reselect
<1> HIDE DEF s
<1>4. now = {i \in DOMAIN t : t[i].save = v /\ s[i].current}
  BY <1>1 DEF CurrentOf, Of
<1>5. kept \cup now = {i \in DOMAIN t : s[i].current}
  <2>1. ASSUME NEW i \in DOMAIN t
        PROVE  i \in kept \cup now <=> s[i].current
    <3>1. CASE t[i].save = v
      BY <3>1, <1>4 DEF Of
    <3>2. CASE t[i].save # v
      BY <3>2, <1>1, <1>4 DEF Of
    <3>3. QED
      BY <3>1, <3>2
  <2>2. kept \cup now \subseteq DOMAIN t
    BY <1>4
  <2>3. QED
    BY <2>1, <2>2
<1>6. now = CurrentOf(t, v) => now \subseteq kept
  BY <1>4 DEF CurrentOf, Of
<1>7. metrics' = {i \in DOMAIN t : s[i].current}
  BY <1>3, <1>5, <1>6
<1>8. QED
  BY <1>1, <1>2, <1>3, <1>7

-----------------------------------------------------------------------------
(* Taking away a snapshot that is not the first leaves the first one first: *)
(* what precedes it precedes whatever it preceded.                          *)
LEMMA RemovedOther ==
    ASSUME NEW t, Rows(t), NEW k \in DOMAIN t, ~IsFirst(t, k),
           NEW i \in DOMAIN t \ {k}
    PROVE  IsFirst(Without(t, {k}), i) <=> IsFirst(t, i)
<1> DEFINE r == Without(t, {k})
<1>1. DOMAIN r = DOMAIN t \ {k} /\ \A j \in DOMAIN t \ {k} : r[j] = t[j]
  BY DEF Without
<1>2. \A j \in DOMAIN t : /\ j \in Nat
                          /\ t[j].date \in Nat
                          /\ t[j].loaded \in Nat
  BY DatesAssumption, TimesAssumption, BoundsAssumption
  DEF Rows, Snapshots, Ids, NoDate
<1> HIDE DEF r
<1>3. IsFirst(t, i) => IsFirst(r, i)
  BY <1>1 DEF IsFirst, Of, Precedes
<1>4. ASSUME IsFirst(r, i), ~IsFirst(t, i) PROVE FALSE
  <2>1. t[k].save = t[i].save /\ ~Precedes(t, i, k)
    BY <1>1, <1>4 DEF IsFirst, Of, Precedes
  <2>2. PICK m \in DOMAIN t \ {k} : t[m].save = t[k].save /\ ~Precedes(t, k, m)
    BY DEF IsFirst, Of
  <2>3. Precedes(t, k, i) /\ Precedes(t, m, k)
    BY <1>2, <2>1, <2>2 DEF Precedes
  <2>4. Precedes(t, m, i)
    BY <1>2, <2>3 DEF Precedes
  <2>5. m # i
    BY <1>2, <2>4 DEF Precedes
  <2>6. Precedes(t, i, m)
    BY <1>1, <1>4, <2>1, <2>2, <2>5 DEF IsFirst, Of, Precedes
  <2>7. QED
    BY <1>2, <2>4, <2>6 DEF Precedes
<1>5. QED
  BY <1>3, <1>4 DEF r

(* Rows of other saves do not bear on the order of a save's own.            *)
LEMMA OtherSavesOrder ==
    ASSUME NEW t, NEW r, NEW i \in DOMAIN t, i \in DOMAIN r,
           Of(r, t[i].save) = Of(t, t[i].save),
           \A j \in Of(t, t[i].save) : r[j] = t[j]
    PROVE  IsFirst(r, i) <=> IsFirst(t, i)
<1>1. r[i] = t[i]
  BY DEF Of
<1>2. \A j \in Of(t, t[i].save) : Precedes(r, i, j) <=> Precedes(t, i, j)
  BY <1>1 DEF Precedes
<1>3. QED
  BY <1>1, <1>2 DEF IsFirst

-----------------------------------------------------------------------------
LEMMA InitHolds == Init => IInv
BY BoundsAssumption
DEF Init, IInv, TypeOK, OneSaveIsActive, SnapshotsHaveSaves, FlagsAreRight,
    MetricsAreCurrent, Empty, Names

(* The commands that leave the snapshots alone.                             *)
LEMMA SavesKeep ==
    IInv /\ (List \/ EnsureDefault \/ CreateSave \/ SetActiveSave \/ StartLoad
             \/ FinishScan \/ EndLoad) => IInv'
<1> SUFFICES ASSUME IInv, List \/ EnsureDefault \/ CreateSave \/ SetActiveSave
                          \/ StartLoad \/ FinishScan \/ EndLoad
             PROVE  IInv'
  OBVIOUS
<1> USE BoundsAssumption
    DEF List, EnsureDefault, CreateSave, SetActiveSave, StartLoad, FinishScan,
        EndLoad, loadVars, seenVars
<1>1. UNCHANGED <<snaps, metrics>>
  OBVIOUS
<1>2. Table(saves, Saves) /\ OneActive(saves)
  BY DEF IInv, TypeOK, Table, OneSaveIsActive, OneActive
<1>3. Table(saves', Saves) /\ OneActive(saves') /\ nextToken' \in 0..MaxToken
  <2>1. CASE EnsureDefault \/ CreateSave
    <3>1. nextToken' \in Tokens
      BY <2>1 DEF IInv, TypeOK, Tokens
    <3>2. PICK n \in Ids, a \in BOOLEAN :
             /\ IsNextId(saves, n)
             /\ a <=> DOMAIN saves = {}
             /\ saves' = With(saves, n, [token |-> nextToken', active |-> a])
      <4>1. CASE EnsureDefault
        BY <4>1
      <4>2. CASE CreateSave
        BY <4>2
      <4>3. QED
        BY <2>1, <4>1, <4>2
    <3>3. /\ Table(With(saves, n, [token |-> nextToken', active |-> a]), Saves)
          /\ OneActive(With(saves, n, [token |-> nextToken', active |-> a]))
      BY <1>2, <3>1, <3>2, NewRow
    <3>4. nextToken' \in 0..MaxToken
      BY <3>1 DEF Tokens
    <3>5. QED
      BY <3>2, <3>3, <3>4
  <2>2. CASE SetActiveSave
    <3>1. saves' = Activated(saves, seenSave.id) /\ seenSave.id \in DOMAIN saves
      BY <2>2
    <3>2. QED
      BY <1>2, <2>2, <3>1, ActivatedRows DEF OneActive, IInv, TypeOK
  <2>3. CASE List \/ StartLoad \/ FinishScan \/ EndLoad
    BY <1>2, <2>3 DEF IInv, TypeOK
  <2>4. QED
    BY <2>1, <2>2, <2>3
<1>31. OneSaveIsActive'
  BY <1>3 DEF OneActive, OneSaveIsActive
<1>32. TypeOK'
  <2>1. seenSave' \in Names /\ seenSnap' \in Names /\ asked' \in Names
    BY <1>2 DEF IInv, TypeOK, Names, Saves, Tokens, Snapshots, Table
  <2>2. QED
    BY <1>1, <1>3, <2>1 DEF IInv, TypeOK, Table
<1>4. SnapshotsHaveSaves'
  BY <1>1 DEF IInv, SnapshotsHaveSaves, With, Activated
<1>5. FlagsAreRight(snaps)' /\ MetricsAreCurrent'
  BY <1>1 DEF IInv, FlagsAreRight, MetricsAreCurrent, IsFirst, Of, Precedes
<1>6. QED
  BY <1>31, <1>32, <1>4, <1>5 DEF IInv

LEMMA DeleteSaveKeeps == IInv /\ DeleteSave => IInv'
<1> SUFFICES ASSUME IInv, DeleteSave PROVE IInv'
  OBVIOUS
<1> DEFINE v == seenSave.id
           gone == Of(snaps, v)
<1>1. /\ snaps' = Without(snaps, gone)
      /\ metrics' = metrics \ gone
      /\ UNCHANGED <<loadPc, asked, seenSave, seenSnap>>
      /\ v \in DOMAIN saves
  BY DEF DeleteSave, loadVars, seenVars, Matches
<1>2. /\ DOMAIN snaps' = DOMAIN snaps \ gone
      /\ \A i \in DOMAIN snaps' : snaps'[i] = snaps[i] /\ snaps[i].save # v
  BY <1>1 DEF Without, Of
<1> DEFINE rest == Without(saves, {v})
<1>21. /\ Table(saves, Saves)
       /\ OneActive(saves)
       /\ Table(rest, Saves)
       /\ DOMAIN rest = DOMAIN saves \ {v}
       /\ \A j \in DOMAIN rest : rest[j] = saves[j]
  <2>1. Table(saves, Saves) /\ OneActive(saves)
    BY DEF IInv, TypeOK, Table, OneSaveIsActive, OneActive
  <2>2. QED
    BY <2>1, WithoutRows
<1>22. \/ /\ ~saves[v].active
          /\ saves' = rest
          /\ UNCHANGED nextToken
       \/ /\ \E k \in DOMAIN rest : saves' = Activated(rest, k)
          /\ UNCHANGED nextToken
       \/ /\ DOMAIN rest = {}
          /\ nextToken < MaxToken
          /\ nextToken' = nextToken + 1
          /\ \E n \in Ids : /\ IsNextId(rest, n)
                            /\ saves' = With(rest, n, [token |-> nextToken', active |-> TRUE])
  BY DEF DeleteSave
<1> HIDE DEF rest, v
<1>3. /\ Table(saves', Saves)
      /\ OneActive(saves')
      /\ nextToken' \in 0..MaxToken
      /\ DOMAIN saves \ {v} \subseteq DOMAIN saves'
  <2>1. CASE ~saves[v].active /\ saves' = rest /\ UNCHANGED nextToken
    BY <1>1, <1>21, <2>1 DEF OneActive, IInv, TypeOK
  <2>2. CASE (\E k \in DOMAIN rest : saves' = Activated(rest, k)) /\ UNCHANGED nextToken
    <3>1. PICK k \in DOMAIN rest : saves' = Activated(rest, k)
      BY <2>2
    <3>2. /\ Table(saves', Saves) /\ DOMAIN saves' = DOMAIN rest
          /\ \A j \in DOMAIN rest : saves'[j].active <=> j = k
      BY <1>21, <3>1, ActivatedRows
    <3>3. OneActive(saves')
      BY <3>2 DEF OneActive
    <3>4. nextToken' \in 0..MaxToken
      BY <2>2 DEF IInv, TypeOK
    <3>5. QED
      BY <1>21, <3>2, <3>3, <3>4
  <2>3. ASSUME DOMAIN rest = {}, nextToken < MaxToken, nextToken' = nextToken + 1,
               NEW n \in Ids, IsNextId(rest, n),
               saves' = With(rest, n, [token |-> nextToken', active |-> TRUE])
        PROVE  /\ Table(saves', Saves)
               /\ OneActive(saves')
               /\ nextToken' \in 0..MaxToken
               /\ DOMAIN saves \ {v} \subseteq DOMAIN saves'
    <3>1. nextToken' \in Tokens
      BY <2>3, BoundsAssumption DEF IInv, TypeOK, Tokens
    <3>2. OneActive(rest)
      BY <2>3 DEF OneActive
    <3>3. Table(saves', Saves) /\ OneActive(saves')
      BY <1>21, <2>3, <3>1, <3>2, NewRow
    <3>4. QED
      BY <1>21, <2>3, <3>1, <3>3 DEF Tokens
  <2>4. QED
    BY <1>22, <2>1, <2>2, <2>3
<1>4. OneSaveIsActive'
  BY <1>3 DEF OneActive, OneSaveIsActive
<1>41. Table(snaps', Snapshots)
  <2>1. Table(snaps, Snapshots)
    BY DEF IInv, TypeOK, Table
  <2>2. QED
    BY <1>1, <2>1, WithoutRows
<1>5. TypeOK'
  BY <1>1, <1>3, <1>41 DEF IInv, TypeOK, Table
<1>6. SnapshotsHaveSaves'
  BY <1>2, <1>3 DEF IInv, SnapshotsHaveSaves
<1>7. FlagsAreRight(snaps)'
  <2>1. ASSUME NEW i \in DOMAIN snaps'
        PROVE  IsFirst(snaps', i) <=> IsFirst(snaps, i)
    <3>1. /\ Of(snaps', snaps[i].save) = Of(snaps, snaps[i].save)
          /\ \A j \in Of(snaps, snaps[i].save) : snaps'[j] = snaps[j]
      BY <1>2, <2>1 DEF Of
    <3>2. i \in DOMAIN snaps
      BY <1>2
    <3>3. QED
      BY <2>1, <3>1, <3>2, OtherSavesOrder
  <2>2. QED
    BY <1>2, <2>1 DEF IInv, FlagsAreRight
<1>8. MetricsAreCurrent'
  BY <1>1, <1>2 DEF IInv, MetricsAreCurrent
<1>9. QED
  BY <1>4, <1>5, <1>6, <1>7, <1>8 DEF IInv

LEMMA DeleteSnapshotKeeps == IInv /\ DeleteSnapshot => IInv'
<1> SUFFICES ASSUME IInv, DeleteSnapshot PROVE IInv'
  OBVIOUS
<1> DEFINE k == seenSnap.id
           r == Without(snaps, {k})
<1>1. /\ UNCHANGED <<saves, nextToken, loadPc, asked, seenSave, seenSnap>>
      /\ k \in DOMAIN snaps
      /\ IF snaps[k].current
            THEN Reselect(r, snaps[k].save)
            ELSE snaps' = r /\ metrics' = metrics \ {k}
  BY DEF DeleteSnapshot, loadVars, seenVars, Matches
<1>2. /\ DOMAIN r = DOMAIN snaps \ {k}
      /\ \A i \in DOMAIN r : r[i] = snaps[i]
  BY DEF Without
<1>3. Rows(snaps) /\ Rows(r)
  <2>1. Table(snaps, Snapshots)
    BY DEF IInv, TypeOK, Table
  <2>2. QED
    BY <2>1, WithoutRows DEF Table, Rows
<1> HIDE DEF k
<1>4. /\ Rows(snaps')
      /\ DOMAIN snaps' = DOMAIN r
      /\ \A i \in DOMAIN r : snaps'[i].save = snaps[i].save
      /\ FlagsAreRight(snaps')
      /\ metrics' = {i \in DOMAIN snaps' : snaps'[i].current}
  <2>1. CASE snaps[k].current
    <3>1. ASSUME NEW i \in DOMAIN r, r[i].save # snaps[k].save
          PROVE  r[i].current <=> IsFirst(r, i)
      <4>1. /\ i \in DOMAIN snaps
            /\ Of(r, snaps[i].save) = Of(snaps, snaps[i].save)
            /\ \A j \in Of(snaps, snaps[i].save) : r[j] = snaps[j]
        BY <1>2, <3>1 DEF Of
      <4>2. IsFirst(r, i) <=> IsFirst(snaps, i)
        BY <3>1, <4>1, OtherSavesOrder
      <4>3. QED
        BY <1>2, <4>1, <4>2 DEF IInv, FlagsAreRight
    <3>2. \A i \in DOMAIN r : i \in metrics <=> r[i].current
      BY <1>2 DEF IInv, MetricsAreCurrent
    <3>3. Reselect(r, snaps[k].save)
      BY <1>1, <2>1
    <3> HIDE DEF r
    <3>4. QED
      BY <1>2, <1>3, <3>1, <3>2, <3>3, ReselectKeeps
  <2>2. CASE ~snaps[k].current
    <3>1. snaps' = r /\ metrics' = metrics \ {k}
      BY <1>1, <2>2
    <3>2. \A i \in DOMAIN r : r[i].current <=> IsFirst(r, i)
      BY <1>1, <1>2, <1>3, <2>2, RemovedOther DEF IInv, FlagsAreRight
    <3>3. metrics \ {k} = {i \in DOMAIN r : r[i].current}
      BY <1>2 DEF IInv, MetricsAreCurrent
    <3> HIDE DEF r
    <3>4. QED
      BY <1>2, <1>3, <3>1, <3>2, <3>3 DEF FlagsAreRight
  <2>3. QED
    BY <2>1, <2>2
<1>5. TypeOK'
  BY <1>1, <1>2, <1>4 DEF IInv, TypeOK, Rows
<1>6. OneSaveIsActive' /\ SnapshotsHaveSaves'
  BY <1>1, <1>2, <1>4 DEF IInv, OneSaveIsActive, SnapshotsHaveSaves
<1>7. QED
  BY <1>4, <1>5, <1>6 DEF IInv, MetricsAreCurrent

LEMMA UpdateDateKeeps == IInv /\ UpdateSnapshotGameDate => IInv'
<1> SUFFICES ASSUME IInv, UpdateSnapshotGameDate PROVE IInv'
  OBVIOUS
<1> DEFINE k == seenSnap.id
<1>1. /\ UNCHANGED <<saves, nextToken, loadPc, asked, seenSave, seenSnap>>
      /\ k \in DOMAIN snaps
  BY DEF UpdateSnapshotGameDate, loadVars, seenVars, Matches
<1>2. PICK d \in Dates : Reselect([snaps EXCEPT ![k].date = d], snaps[k].save)
  BY DEF UpdateSnapshotGameDate
<1> DEFINE r == [snaps EXCEPT ![k].date = d]
<1> HIDE DEF k
<1>3. /\ Rows(snaps) /\ Rows(r)
      /\ DOMAIN r = DOMAIN snaps
      /\ \A i \in DOMAIN snaps : /\ r[i].save = snaps[i].save
                                 /\ r[i].current = snaps[i].current
                                 /\ i # k => r[i] = snaps[i]
  BY <1>1 DEF IInv, TypeOK, Rows, Snapshots
<1>4. Reselect(r, snaps[k].save)
  BY <1>2
<1> HIDE DEF r
<1>5. ASSUME NEW i \in DOMAIN r, r[i].save # snaps[k].save
      PROVE  r[i].current <=> IsFirst(r, i)
  <2>1. /\ i \in DOMAIN snaps
        /\ Of(r, snaps[i].save) = Of(snaps, snaps[i].save)
        /\ \A j \in Of(snaps, snaps[i].save) : r[j] = snaps[j]
    BY <1>3, <1>5 DEF Of
  <2>2. IsFirst(r, i) <=> IsFirst(snaps, i)
    BY <1>5, <2>1, OtherSavesOrder
  <2>3. QED
    BY <1>3, <2>1, <2>2 DEF IInv, FlagsAreRight
<1>6. \A i \in DOMAIN r : i \in metrics <=> r[i].current
  BY <1>3 DEF IInv, MetricsAreCurrent
<1>7. /\ Rows(snaps')
      /\ DOMAIN snaps' = DOMAIN r
      /\ \A i \in DOMAIN r : snaps'[i].save = r[i].save
      /\ FlagsAreRight(snaps')
      /\ metrics' = {i \in DOMAIN snaps' : snaps'[i].current}
  BY <1>3, <1>4, <1>5, <1>6, ReselectKeeps
<1>8. TypeOK'
  BY <1>1, <1>7 DEF IInv, TypeOK, Rows
<1>9. OneSaveIsActive' /\ SnapshotsHaveSaves'
  BY <1>1, <1>3, <1>7 DEF IInv, OneSaveIsActive, SnapshotsHaveSaves
<1>10. QED
  BY <1>7, <1>8, <1>9 DEF IInv, MetricsAreCurrent

LEMMA PublishKeeps == IInv /\ Publish => IInv'
<1> SUFFICES ASSUME IInv, Publish PROVE IInv'
  OBVIOUS
<1> DEFINE v == asked.id
<1>1. /\ UNCHANGED <<saves, seenSave, seenSnap>>
      /\ loadPc' = "idle"
      /\ asked' = NoRow
      /\ v \in DOMAIN saves
      /\ nextToken' = nextToken + 1
      /\ nextToken < MaxToken
  BY DEF Publish, seenVars, IsAskedFor, Matches
<1> DEFINE New(n, d, l) == [save |-> v, token |-> nextToken', date |-> d,
                            loaded |-> l, current |-> FALSE]
<1>2. PICK n \in Ids, d \in Dates \cup {NoDate}, l \in Times :
         LET t == With(snaps, n, New(n, d, l))
             now == CurrentOf(Selected(t, v), v)
         IN  /\ IsNextId(snaps, n)
             /\ snaps' = Selected(t, v)
             /\ metrics' = (metrics \ (Of(t, v) \ now)) \cup ({n} \cap now)
  BY DEF Publish
<1> DEFINE t == With(snaps, n, New(n, d, l))
           s == Selected(t, v)
           now == CurrentOf(s, v)
<1>3. n \notin DOMAIN snaps
  BY <1>2, BoundsAssumption DEF IsNextId, Ids
<1>4. /\ DOMAIN t = DOMAIN snaps \cup {n}
      /\ t[n] = New(n, d, l)
      /\ \A i \in DOMAIN snaps : t[i] = snaps[i]
  BY <1>3 DEF With
<1>5. Rows(snaps) /\ Rows(t)
  <2>1. v \in Ids /\ nextToken' \in Tokens
    BY <1>1, BoundsAssumption DEF IInv, TypeOK, Tokens
  <2>2. New(n, d, l) \in Snapshots
    BY <2>1 DEF Snapshots
  <2>3. Rows(snaps)
    BY DEF IInv, TypeOK, Rows
  <2>4. Table(snaps, Snapshots)
    BY <2>3 DEF Table, Rows
  <2> HIDE DEF New
  <2>5. QED
    BY <2>2, <2>3, <2>4, WithRow DEF Table, Rows
<1>6. /\ t[n].save = v
      /\ t[n].current = FALSE
  BY <1>4
<1>7. snaps' = s /\ metrics' = (metrics \ (Of(t, v) \ now)) \cup ({n} \cap now)
  BY <1>2
<1> HIDE DEF t, New, v
<1>8. ASSUME NEW i \in DOMAIN t, t[i].save # v
      PROVE  t[i].current <=> IsFirst(t, i)
  <2>1. /\ i \in DOMAIN snaps
        /\ Of(t, snaps[i].save) = Of(snaps, snaps[i].save)
        /\ \A j \in Of(snaps, snaps[i].save) : t[j] = snaps[j]
    BY <1>4, <1>6, <1>8 DEF Of
  <2>2. i \in DOMAIN t
    OBVIOUS
  <2>3. IsFirst(t, i) <=> IsFirst(snaps, i)
    BY <2>1, <2>2, OtherSavesOrder
  <2>4. QED
    BY <1>4, <2>1, <2>3 DEF IInv, FlagsAreRight
<1>9. FlagsAreRight(s)
  BY <1>5, <1>8, SelectedFlags
<1>10. /\ Rows(s)
       /\ DOMAIN s = DOMAIN t
       /\ \A i \in DOMAIN t : /\ s[i].save = t[i].save
                              /\ s[i].current = IF t[i].save = v THEN IsFirst(t, i)
                                                                 ELSE t[i].current
  BY <1>5, SelectedRows
<1> HIDE DEF s
<1>11. now = {i \in DOMAIN t : t[i].save = v /\ s[i].current}
  BY <1>10 DEF CurrentOf, Of
<1>12. now \ {n} \subseteq metrics
  <2>1. ASSUME NEW i \in DOMAIN snaps, IsFirst(t, i) PROVE IsFirst(snaps, i)
    BY <1>3, <1>4, <2>1 DEF IsFirst, Of, Precedes
  <2>2. QED
    BY <1>4, <1>10, <1>11, <2>1 DEF IInv, FlagsAreRight, MetricsAreCurrent
<1>13. metrics' = {i \in DOMAIN s : s[i].current}
  <2>1. ASSUME NEW i \in DOMAIN t
        PROVE  i \in metrics' <=> s[i].current
    <3>1. CASE t[i].save = v
      BY <1>7, <1>11, <1>12, <3>1 DEF Of
    <3>2. CASE t[i].save # v
      <4>1. i \in DOMAIN snaps /\ t[i] = snaps[i]
        BY <1>4, <1>6, <3>2
      <4>2. i \in metrics <=> s[i].current
        BY <1>10, <3>2, <4>1 DEF IInv, MetricsAreCurrent
      <4>3. QED
        BY <1>7, <1>11, <3>2, <4>2 DEF Of
    <3>3. QED
      BY <3>1, <3>2
  <2>2. metrics' \subseteq DOMAIN t
    BY <1>4, <1>7 DEF IInv, MetricsAreCurrent
  <2>3. QED
    BY <1>10, <2>1, <2>2
<1>14. TypeOK'
  BY <1>1, <1>7, <1>10, <1>13, BoundsAssumption DEF IInv, TypeOK, Rows, Names
<1>15. OneSaveIsActive' /\ SnapshotsHaveSaves'
  BY <1>1, <1>4, <1>6, <1>7, <1>10 DEF IInv, OneSaveIsActive, SnapshotsHaveSaves, v
<1>16. QED
  BY <1>7, <1>9, <1>13, <1>14, <1>15 DEF IInv, MetricsAreCurrent

-----------------------------------------------------------------------------
(* The inductive invariant.                                                 *)
THEOREM StoreInvariant == Spec => []IInv
<1>1. IInv /\ UNCHANGED vars => IInv'
  BY DEF vars, loadVars, seenVars, IInv, TypeOK, OneSaveIsActive,
         SnapshotsHaveSaves, FlagsAreRight, MetricsAreCurrent, IsFirst, Of, Precedes
<1>2. IInv /\ [Next]_vars => IInv'
  BY <1>1, SavesKeep, DeleteSaveKeeps, DeleteSnapshotKeeps, UpdateDateKeeps,
     PublishKeeps DEF Next
<1>3. QED
  BY <1>2, InitHolds, PTL DEF Spec

(* Types, for any bounds on rows and tokens.                                *)
THEOREM TypeCorrect == Spec => []TypeOK
BY StoreInvariant, PTL DEF IInv

(* One save is active as soon as there is one.                              *)
THEOREM OneSaveStaysActive == Spec => []OneSaveIsActive
BY StoreInvariant, PTL DEF IInv

(* The current snapshot of a save is the first in the listing order.        *)
THEOREM CurrentStaysFirst == Spec => []CurrentIsFirst
BY StoreInvariant, PTL DEF IInv, FlagsAreRight, CurrentIsFirst

(* Metric rows are those of the current snapshots, though a publication     *)
(* stores them only for itself and trusts the older current one to have     *)
(* kept its own.                                                            *)
THEOREM MetricsStayCurrent == Spec => []MetricsAreCurrent
BY StoreInvariant, PTL DEF IInv

(* No snapshot is left to a save that reuses its save's id.                 *)
THEOREM SnapshotsKeepTheirSaves == Spec => []SnapshotsHaveSaves
BY StoreInvariant, PTL DEF IInv

(* The rows of saves, snapshots and metrics agree, whatever is created,     *)
(* switched, deleted, re-dated and published.                               *)
THEOREM StoreStaysConsistent == Spec => []StoreIsConsistent
BY OneSaveStaysActive, CurrentStaysFirst, MetricsStayCurrent, SnapshotsKeepTheirSaves,
   PTL DEF StoreIsConsistent

-----------------------------------------------------------------------------
(* Selecting anew keeps the rows but for their flags: the action properties *)
(* look at tokens, and other tables at saves.                               *)
SameRows(t, u) ==
    \A i \in DOMAIN t \cap DOMAIN u : t[i].token = u[i].token /\ t[i].save = u[i].save
SameDates(t, u) == \A i \in DOMAIN t \cap DOMAIN u : t[i].date = u[i].date
SameBut(t, u, save) ==
    \A i \in DOMAIN t : t[i].save # save => i \in DOMAIN u /\ t[i] = u[i]

LEMMA ReselectTokens ==
    ASSUME NEW t, Rows(t), NEW v, Reselect(t, v)
    PROVE  /\ DOMAIN snaps' = DOMAIN t
           /\ SameRows(snaps', t) /\ SameDates(snaps', t) /\ SameBut(snaps', t, v)
<1>1. snaps' = Selected(t, v)
  BY DEF Reselect
<1>2. \A i \in DOMAIN t : t[i].save # v => Selected(t, v)[i] = t[i]
  BY DEF Selected
<1>3. QED
  BY <1>1, <1>2, SelectedRows DEF SameRows, SameDates, SameBut

(* What each command that changes the snapshots does to their rows.         *)
LEMMA DeleteTokens ==
    IInv /\ (DeleteSnapshot \/ DeleteSave) =>
        /\ DOMAIN snaps' \subseteq DOMAIN snaps
        /\ SameRows(snaps', snaps) /\ SameDates(snaps', snaps)
        /\ DeleteSnapshot => SameBut(snaps', snaps, snaps[seenSnap.id].save)
        /\ DeleteSave => SameBut(snaps', snaps, seenSave.id)
        /\ \A i \in DOMAIN snaps \ DOMAIN snaps' :
              \/ snaps[i].token = seenSnap.token
              \/ saves[snaps[i].save].token = seenSave.token
<1>1. ASSUME IInv, DeleteSnapshot
      PROVE  /\ DOMAIN snaps' \subseteq DOMAIN snaps
             /\ SameRows(snaps', snaps) /\ SameDates(snaps', snaps)
             /\ SameBut(snaps', snaps, snaps[seenSnap.id].save)
             /\ \A i \in DOMAIN snaps \ DOMAIN snaps' : snaps[i].token = seenSnap.token
  <2> DEFINE r == Without(snaps, {seenSnap.id})
  <2>1. /\ DOMAIN r = DOMAIN snaps \ {seenSnap.id}
        /\ \A i \in DOMAIN r : r[i] = snaps[i]
    BY DEF Without
  <2>2. Rows(r)
    BY <1>1, WithoutRows DEF IInv, TypeOK, Rows, Table
  <2>3. snaps[seenSnap.id].token = seenSnap.token
    BY <1>1 DEF DeleteSnapshot, Matches
  <2>4. snaps' = r \/ Reselect(r, snaps[seenSnap.id].save)
    BY <1>1 DEF DeleteSnapshot
  <2> HIDE DEF r
  <2>5. /\ DOMAIN snaps' = DOMAIN r
        /\ SameRows(snaps', r) /\ SameDates(snaps', r)
        /\ SameBut(snaps', r, snaps[seenSnap.id].save)
    BY <2>2, <2>4, ReselectTokens DEF SameRows, SameDates, SameBut
  <2>6. QED
    BY <2>1, <2>3, <2>5 DEF SameRows, SameDates, SameBut
<1>2. ASSUME DeleteSave
      PROVE  /\ DOMAIN snaps' \subseteq DOMAIN snaps
             /\ SameRows(snaps', snaps) /\ SameDates(snaps', snaps)
             /\ SameBut(snaps', snaps, seenSave.id)
             /\ \A i \in DOMAIN snaps \ DOMAIN snaps' :
                   saves[snaps[i].save].token = seenSave.token
  <2>1. /\ snaps' = Without(snaps, Of(snaps, seenSave.id))
        /\ saves[seenSave.id].token = seenSave.token
    BY <1>2 DEF DeleteSave, Matches
  <2>2. QED
    BY <2>1 DEF Without, Of, SameRows, SameDates, SameBut
<1>3. QED
  BY <1>1, <1>2

LEMMA DateTokens ==
    IInv /\ UpdateSnapshotGameDate => DOMAIN snaps' = DOMAIN snaps /\ SameRows(snaps', snaps)
<1> SUFFICES ASSUME IInv, UpdateSnapshotGameDate
             PROVE  DOMAIN snaps' = DOMAIN snaps /\ SameRows(snaps', snaps)
  OBVIOUS
<1>1. PICK d \in Dates : Reselect([snaps EXCEPT ![seenSnap.id].date = d],
                                  snaps[seenSnap.id].save)
  BY DEF UpdateSnapshotGameDate
<1> DEFINE r == [snaps EXCEPT ![seenSnap.id].date = d]
<1>2. DOMAIN r = DOMAIN snaps /\ SameRows(r, snaps) /\ Rows(r)
  BY DEF IInv, TypeOK, Snapshots, SameRows, Rows
<1>3. Reselect(r, snaps[seenSnap.id].save)
  BY <1>1
<1> HIDE DEF r
<1>4. QED
  BY <1>2, <1>3, ReselectTokens DEF SameRows

LEMMA PublishTokens ==
    IInv /\ Publish =>
        /\ IsAskedFor(asked)
        /\ DOMAIN snaps \subseteq DOMAIN snaps'
        /\ SameRows(snaps', snaps) /\ SameDates(snaps', snaps)
        /\ SameBut(snaps', snaps, asked.id)
        /\ \A i \in DOMAIN snaps' \ DOMAIN snaps :
              snaps'[i].save = asked.id /\ snaps'[i].token = nextToken'
<1> SUFFICES ASSUME IInv, Publish
             PROVE  /\ IsAskedFor(asked)
                    /\ DOMAIN snaps \subseteq DOMAIN snaps'
                    /\ SameRows(snaps', snaps) /\ SameDates(snaps', snaps)
                    /\ SameBut(snaps', snaps, asked.id)
                    /\ \A i \in DOMAIN snaps' \ DOMAIN snaps :
                          snaps'[i].save = asked.id /\ snaps'[i].token = nextToken'
  OBVIOUS
<1> DEFINE New(d, l) == [save |-> asked.id, token |-> nextToken', date |-> d,
                         loaded |-> l, current |-> FALSE]
<1>1. PICK n \in Ids, d \in Dates \cup {NoDate}, l \in Times :
         /\ IsNextId(snaps, n)
         /\ snaps' = Selected(With(snaps, n, New(d, l)), asked.id)
  BY DEF Publish
<1> DEFINE t == With(snaps, n, New(d, l))
<1>2. n \notin DOMAIN snaps
  BY <1>1, BoundsAssumption DEF IsNextId, Ids
<1>3. /\ DOMAIN t = DOMAIN snaps \cup {n}
      /\ t[n].save = asked.id
      /\ t[n].token = nextToken'
      /\ \A i \in DOMAIN snaps : t[i] = snaps[i]
  BY <1>2 DEF With
<1>4. Rows(t)
  <2>1. asked.id \in Ids
    BY DEF Publish, IsAskedFor, Matches, IInv, TypeOK
  <2>2. nextToken' \in Tokens
    BY BoundsAssumption DEF Publish, IInv, TypeOK, Tokens
  <2>3. New(d, l) \in Snapshots
    BY <2>1, <2>2 DEF Snapshots
  <2>4. Table(snaps, Snapshots)
    BY DEF IInv, TypeOK, Table
  <2> HIDE DEF New
  <2>5. QED
    BY <2>3, <2>4, WithRow DEF Table, Rows
<1>5. snaps' = Selected(t, asked.id)
  BY <1>1
<1> HIDE DEF t
<1>6. /\ DOMAIN snaps' = DOMAIN t
      /\ \A i \in DOMAIN t : /\ snaps'[i].token = t[i].token
                             /\ snaps'[i].save = t[i].save
                             /\ snaps'[i].date = t[i].date
                             /\ t[i].save # asked.id => snaps'[i] = t[i]
  BY <1>4, <1>5, SelectedRows DEF Selected
<1>7. IsAskedFor(asked)
  BY DEF Publish
<1>8. QED
  BY <1>3, <1>6, <1>7 DEF SameRows, SameDates, SameBut

LEMMA OthersKeepSnapshots ==
    (Next \/ UNCHANGED vars)
    /\ ~(DeleteSnapshot \/ DeleteSave \/ UpdateSnapshotGameDate \/ Publish)
        => snaps' = snaps
BY DEF Next, List, EnsureDefault, CreateSave, SetActiveSave, StartLoad, FinishScan,
       EndLoad, vars

(* Every new snapshot is in the save its Load Data was asked for, under the *)
(* token it had then, and that save is active: for any number of switches   *)
(* during the scan.                                                         *)
THEOREM SnapshotsGoWhereAsked == Spec => PublishedWhereAsked
<1> DEFINE Step == \A i \in DOMAIN snaps' :
                      snaps'[i].token \notin TokensOf(snaps) =>
                          /\ Matches(saves, asked)
                          /\ snaps'[i].save = asked.id
                          /\ saves[asked.id].active
<1>1. ASSUME IInv, [Next]_vars PROVE Step
  <2>1. CASE Publish
    BY <1>1, <2>1, PublishTokens DEF TokensOf, SameRows, IsAskedFor
  <2>2. CASE UpdateSnapshotGameDate
    BY <1>1, <2>2, DateTokens DEF TokensOf, SameRows
  <2>3. CASE DeleteSnapshot \/ DeleteSave
    BY <1>1, <2>3, DeleteTokens DEF TokensOf, SameRows
  <2>4. CASE ~(DeleteSnapshot \/ DeleteSave \/ UpdateSnapshotGameDate \/ Publish)
    BY <1>1, <2>4, OthersKeepSnapshots DEF TokensOf
  <2>5. QED
    BY <2>1, <2>2, <2>3, <2>4
<1>2. IInv /\ [Next]_vars => [Step]_vars
  BY <1>1
<1>3. QED
  BY <1>2, StoreInvariant, PTL DEF Spec, PublishedWhereAsked

(* No deletion removes a snapshot, or the snapshots of a save, other than   *)
(* the one the user saw, whoever was given its id since.                    *)
THEOREM DeletionsAreOfWhatWasSeen == Spec => DeletedWasSeen
<1> DEFINE Step == \A i \in DOMAIN snaps :
                      snaps[i].token \notin TokensOf(snaps') =>
                          \/ snaps[i].token = seenSnap.token
                          \/ saves[snaps[i].save].token = seenSave.token
<1>1. ASSUME IInv, [Next]_vars PROVE Step
  <2>1. CASE Publish
    BY <1>1, <2>1, PublishTokens DEF TokensOf, SameRows
  <2>2. CASE UpdateSnapshotGameDate
    BY <1>1, <2>2, DateTokens DEF TokensOf, SameRows
  <2>3. CASE DeleteSnapshot \/ DeleteSave
    BY <1>1, <2>3, DeleteTokens DEF TokensOf, SameRows
  <2>4. CASE ~(DeleteSnapshot \/ DeleteSave \/ UpdateSnapshotGameDate \/ Publish)
    BY <1>1, <2>4, OthersKeepSnapshots DEF TokensOf
  <2>5. QED
    BY <2>1, <2>2, <2>3, <2>4
<1>2. IInv /\ [Next]_vars => [Step]_vars
  BY <1>1
<1>3. QED
  BY <1>2, StoreInvariant, PTL DEF Spec, DeletedWasSeen

(* What is published and what is deleted is what the window asked for, also *)
(* when row ids are given again.                                            *)
THEOREM StoreActsAsAsked == Spec => ActsOnWhatWasAsked
BY SnapshotsGoWhereAsked, DeletionsAreOfWhatWasSeen DEF ActsOnWhatWasAsked

-----------------------------------------------------------------------------
(* What a step of the store does to the rows that other tables hang on: a   *)
(* snapshot that stays is in the save it was in, and that save stays too;   *)
(* one that is added is in a save that nothing happens to meanwhile.        *)
LEMMA RowsOfAStep ==
    ASSUME IInv, Next \/ UNCHANGED vars
    PROVE  /\ \A i \in DOMAIN snaps \cap DOMAIN snaps' :
                 /\ snaps'[i].token = snaps[i].token
                 /\ snaps'[i].save = snaps[i].save
                 /\ snaps[i].save \in DOMAIN saves \cap DOMAIN saves'
                 /\ saves'[snaps[i].save].token = saves[snaps[i].save].token
           /\ \A i \in DOMAIN snaps' \ DOMAIN snaps :
                 saves' = saves /\ snaps'[i].save \in DOMAIN saves
<1>1. CASE List \/ StartLoad \/ FinishScan \/ EndLoad \/ UNCHANGED vars
  <2>1. saves' = saves /\ snaps' = snaps
    BY <1>1 DEF List, StartLoad, FinishScan, EndLoad, vars
  <2>2. QED
    BY <2>1 DEF IInv, SnapshotsHaveSaves
<1>2. CASE EnsureDefault
  <2>1. DOMAIN snaps = {} /\ snaps' = snaps
    BY <1>2 DEF EnsureDefault, IInv, SnapshotsHaveSaves
  <2>2. QED
    BY <2>1
<1>3. CASE CreateSave
  <2>1. snaps' = snaps
    BY <1>3 DEF CreateSave
  <2>2. PICK n \in Ids : /\ IsNextId(saves, n)
                         /\ saves' = With(saves, n, [token |-> nextToken', active |-> FALSE])
    BY <1>3 DEF CreateSave
  <2>3. n \notin DOMAIN saves
    BY <2>2, BoundsAssumption DEF IsNextId, Ids
  <2>4. /\ DOMAIN saves \subseteq DOMAIN saves'
        /\ \A s \in DOMAIN saves : saves'[s] = saves[s]
    BY <2>2, <2>3 DEF With
  <2>5. QED
    BY <2>1, <2>4 DEF IInv, SnapshotsHaveSaves
<1>4. CASE SetActiveSave
  <2>1. snaps' = snaps /\ saves' = Activated(saves, seenSave.id)
    BY <1>4 DEF SetActiveSave
  <2>2. /\ DOMAIN saves' = DOMAIN saves
        /\ \A s \in DOMAIN saves : saves'[s].token = saves[s].token
    BY <2>1 DEF Activated, IInv, TypeOK, Saves
  <2>3. QED
    BY <2>1, <2>2 DEF IInv, SnapshotsHaveSaves
<1>5. CASE DeleteSave
  <2> DEFINE v == seenSave.id
             rest == Without(saves, {v})
  <2>1. /\ DOMAIN rest = DOMAIN saves \ {v}
        /\ \A s \in DOMAIN rest : rest[s] = saves[s] /\ rest[s] \in Saves
    BY DEF Without, IInv, TypeOK
  <2>2. /\ DOMAIN snaps' = {i \in DOMAIN snaps : snaps[i].save # v}
        /\ \A i \in DOMAIN snaps' : snaps'[i] = snaps[i]
    BY <1>5 DEF DeleteSave, Without, Of
  <2>3. \/ saves' = rest
        \/ \E k \in DOMAIN rest : saves' = Activated(rest, k)
        \/ DOMAIN rest = {}
    BY <1>5 DEF DeleteSave
  <2> HIDE DEF rest
  <2>4. \A s \in DOMAIN rest : s \in DOMAIN saves' /\ saves'[s].token = rest[s].token
    BY <2>1, <2>3 DEF Activated, Saves
  <2>5. \A i \in DOMAIN snaps' : i \in DOMAIN snaps /\ snaps[i].save \in DOMAIN rest
    BY <2>1, <2>2 DEF IInv, SnapshotsHaveSaves
  <2>6. QED
    BY <2>1, <2>2, <2>4, <2>5
<1>6. CASE DeleteSnapshot \/ UpdateSnapshotGameDate
  <2>1. DOMAIN snaps' \subseteq DOMAIN snaps /\ SameRows(snaps', snaps)
    BY <1>6, DeleteTokens, DateTokens
  <2>2. saves' = saves
    BY <1>6 DEF DeleteSnapshot, UpdateSnapshotGameDate
  <2>3. QED
    BY <2>1, <2>2 DEF IInv, SnapshotsHaveSaves, SameRows
<1>7. CASE Publish
  <2>1. saves' = saves /\ asked.id \in DOMAIN saves
    BY <1>7 DEF Publish, IsAskedFor, Matches
  <2>2. QED
    BY <1>7, <2>1, PublishTokens DEF IInv, SnapshotsHaveSaves, SameRows
<1>8. QED
  BY <1>1, <1>2, <1>3, <1>4, <1>5, <1>6, <1>7 DEF Next

(* The same for the types and the rows of the store: a step of a table that *)
(* hangs on it is a step of the store or leaves it alone.                   *)
LEMMA StoreGoesOn == IInv /\ (Next \/ UNCHANGED vars) => IInv'
<1>1. IInv /\ UNCHANGED vars => IInv'
  BY DEF vars, loadVars, seenVars, IInv, TypeOK, OneSaveIsActive,
         SnapshotsHaveSaves, FlagsAreRight, MetricsAreCurrent, IsFirst, Of, Precedes
<1>2. QED
  BY <1>1, SavesKeep, DeleteSaveKeeps, DeleteSnapshotKeeps, UpdateDateKeeps,
     PublishKeeps DEF Next

-----------------------------------------------------------------------------
(* Club DNA.                                                                *)

(* Each table has a row for each row of the one it hangs on, and a squad is *)
(* one of all the players.                                                  *)
DnaTables ==
    /\ DOMAIN definitions = DOMAIN saves
    /\ DOMAIN squads = DOMAIN snaps
    /\ DOMAIN scores = DOMAIN snaps
    /\ \A i \in DOMAIN squads : DOMAIN squads[i] = Players

DnaInv == IInv /\ DnaTables /\ ScoresAreOfTheDefinition

(* The scores of a whole snapshot are a row for each player; a row written  *)
(* anew after a boost takes the place of the same player's.                 *)
LEMMA ScoresAreRows ==
    ASSUME NEW d, NEW squad, d # NoDefinition
    PROVE  ScoresOf(d, squad) = {Row(d, squad, p) : p \in Players}
BY DEF ScoresOf, WithRows

LEMMA BoostedRows ==
    ASSUME NEW d, d # NoDefinition, NEW squad, NEW p \in Players,
           NEW after, \A q \in Players \ {p} : after[q] = squad[q]
    PROVE  WithRows(ScoresOf(d, squad), d, after, {p}) = ScoresOf(d, after)
<1>1. \A q \in Players \ {p} : Row(d, after, q) = Row(d, squad, q)
  BY DEF Row
<1>2. \A q \in Players : Row(d, squad, q).uid = q /\ Row(d, squad, q).version = d.version
  BY DEF Row
<1>3. ScoresOf(d, squad) = {Row(d, squad, q) : q \in Players}
      /\ ScoresOf(d, after) = {Row(d, after, q) : q \in Players}
  BY ScoresAreRows
<1>4. WithRows(ScoresOf(d, squad), d, after, {p})
         = {r \in ScoresOf(d, squad) : ~(r.uid \in {p} /\ r.version = d.version)}
           \cup {Row(d, after, p)}
  BY DEF WithRows
<1>5. {r \in ScoresOf(d, squad) : ~(r.uid \in {p} /\ r.version = d.version)}
         = {Row(d, squad, q) : q \in Players \ {p}}
  BY <1>2, <1>3
<1>6. {Row(d, squad, q) : q \in Players \ {p}} = {Row(d, after, q) : q \in Players \ {p}}
  BY <1>1
<1>7. {Row(d, after, q) : q \in Players \ {p}} \cup {Row(d, after, p)}
         = {Row(d, after, q) : q \in Players}
  OBVIOUS
<1>8. QED
  BY <1>3, <1>4, <1>5, <1>6, <1>7

LEMMA SetClubDnaKeeps == DnaInv /\ SetClubDna => DnaInv'
<1> SUFFICES ASSUME DnaInv, SetClubDna PROVE DnaInv'
  OBVIOUS
<1>1. UNCHANGED vars /\ squads' = squads
  BY DEF SetClubDna
<1>2. IInv'
  BY <1>1, StoreGoesOn DEF DnaInv
<1>3. saves' = saves /\ snaps' = snaps
  BY <1>1 DEF vars
<1> DEFINE Set(new) ==
             /\ definitions' = [definitions EXCEPT ![seenSave.id] = new]
             /\ scores' = [i \in DOMAIN snaps |->
                              IF snaps[i].save = seenSave.id
                              THEN ScoresOf(new, squads[i]) ELSE scores[i]]
<1>4. PICK new : Set(new)
  <2>1. PICK attributes \in Definitions :
           Set([version |-> IF definitions[seenSave.id] = NoDefinition THEN 1
                            ELSE definitions[seenSave.id].version + 1,
                attributes |-> attributes])
    BY DEF SetClubDna
  <2> HIDE DEF Set
  <2>2. QED
    BY <2>1
<1>5. seenSave.id \in DOMAIN definitions
  BY DEF SetClubDna, IsAskedFor, Matches, DnaInv, DnaTables
<1>6. DnaTables'
  BY <1>1, <1>3, <1>4 DEF DnaInv, DnaTables
<1>7. ASSUME NEW i \in DOMAIN scores'
      PROVE  scores'[i] = ScoresOf(definitions'[snaps'[i].save], squads'[i])
  BY <1>1, <1>3, <1>4, <1>5, <1>7 DEF DnaInv, DnaTables, ScoresAreOfTheDefinition,
     IInv, SnapshotsHaveSaves
<1>8. QED
  BY <1>2, <1>6, <1>7 DEF DnaInv, ScoresAreOfTheDefinition

LEMMA RemoveClubDnaKeeps == DnaInv /\ RemoveClubDna => DnaInv'
<1> SUFFICES ASSUME DnaInv, RemoveClubDna PROVE DnaInv'
  OBVIOUS
<1>1. UNCHANGED vars /\ squads' = squads
  BY DEF RemoveClubDna
<1>2. IInv'
  BY <1>1, StoreGoesOn DEF DnaInv
<1>3. saves' = saves /\ snaps' = snaps
  BY <1>1 DEF vars
<1>4. /\ definitions' = [definitions EXCEPT ![seenSave.id] = NoDefinition]
      /\ scores' = [i \in DOMAIN snaps |->
                       IF snaps[i].save = seenSave.id THEN {} ELSE scores[i]]
      /\ seenSave.id \in DOMAIN definitions
  BY DEF RemoveClubDna, IsAskedFor, Matches, DnaInv, DnaTables
<1>5. DnaTables'
  BY <1>1, <1>3, <1>4 DEF DnaInv, DnaTables
<1>6. \A squad : ScoresOf(NoDefinition, squad) = {}
  BY DEF ScoresOf
<1>7. ASSUME NEW i \in DOMAIN scores'
      PROVE  scores'[i] = ScoresOf(definitions'[snaps'[i].save], squads'[i])
  BY <1>1, <1>3, <1>4, <1>6, <1>7 DEF DnaInv, DnaTables, ScoresAreOfTheDefinition,
     IInv, SnapshotsHaveSaves
<1>8. QED
  BY <1>2, <1>5, <1>7 DEF DnaInv, ScoresAreOfTheDefinition

LEMMA BoostPlayerKeeps == DnaInv /\ BoostPlayer => DnaInv'
<1> SUFFICES ASSUME DnaInv, BoostPlayer PROVE DnaInv'
  OBVIOUS
<1>1. UNCHANGED vars /\ definitions' = definitions
  BY DEF BoostPlayer
<1>2. IInv'
  BY <1>1, StoreGoesOn DEF DnaInv
<1>3. saves' = saves /\ snaps' = snaps
  BY <1>1 DEF vars
<1>a. PICK save \in DOMAIN saves, p \in Players, squad \in Squads :
         \E i \in CurrentOf(snaps, save) :
            LET after == [squads[i] EXCEPT ![p] = squad[p]] IN
            /\ squads' = [squads EXCEPT ![i] = after]
            /\ scores' = IF definitions[save] = NoDefinition THEN scores
                         ELSE [scores EXCEPT ![i] = WithRows(@, definitions[save], after, {p})]
  BY DEF BoostPlayer
<1>4. PICK k \in CurrentOf(snaps, save) :
         LET after == [squads[k] EXCEPT ![p] = squad[p]] IN
         /\ squads' = [squads EXCEPT ![k] = after]
         /\ scores' = IF definitions[save] = NoDefinition THEN scores
                      ELSE [scores EXCEPT ![k] = WithRows(@, definitions[save], after, {p})]
  BY <1>a
<1> DEFINE after == [squads[k] EXCEPT ![p] = squad[p]]
<1>5. k \in DOMAIN snaps /\ snaps[k].save = save
  BY DEF CurrentOf, Of
<1>6. DOMAIN squads[k] = Players /\ DOMAIN after = Players
  BY <1>5 DEF DnaInv, DnaTables
<1>7. /\ squads' = [squads EXCEPT ![k] = after]
      /\ scores' = IF definitions[save] = NoDefinition THEN scores
                   ELSE [scores EXCEPT ![k] = WithRows(@, definitions[save], after, {p})]
  BY <1>4
<1>8. definitions[save] # NoDefinition =>
         WithRows(ScoresOf(definitions[save], squads[k]), definitions[save], after, {p})
            = ScoresOf(definitions[save], after)
  <2>1. \A q \in Players \ {p} : after[q] = squads[k][q]
    BY <1>6
  <2> HIDE DEF after
  <2>2. QED
    BY <2>1, BoostedRows
<1> HIDE DEF after
<1>9. DnaTables'
  BY <1>1, <1>3, <1>6, <1>7 DEF DnaInv, DnaTables
<1>10. \A s : ScoresOf(NoDefinition, s) = {}
  BY DEF ScoresOf
<1>11. ASSUME NEW i \in DOMAIN snaps
       PROVE  scores'[i] = ScoresOf(definitions[snaps[i].save], squads'[i])
  <2>1. scores[i] = ScoresOf(definitions[snaps[i].save], squads[i])
    BY DEF DnaInv, DnaTables, ScoresAreOfTheDefinition
  <2>2. CASE i # k
    BY <1>7, <2>1, <2>2 DEF DnaInv, DnaTables
  <2>3. CASE i = k /\ definitions[save] = NoDefinition
    BY <1>5, <1>7, <1>10, <2>1, <2>3
  <2>4. CASE i = k /\ definitions[save] # NoDefinition
    <3>1. squads'[k] = after
      BY <1>5, <1>7 DEF DnaInv, DnaTables
    <3>2. scores'[k] = WithRows(scores[k], definitions[save], after, {p})
      BY <1>5, <1>7, <2>4 DEF DnaInv, DnaTables
    <3>3. QED
      BY <1>5, <1>8, <2>1, <2>4, <3>1, <3>2
  <2>5. QED
    BY <2>2, <2>3, <2>4
<1>12. ScoresAreOfTheDefinition'
  BY <1>1, <1>3, <1>9, <1>11 DEF DnaTables, ScoresAreOfTheDefinition
<1>13. QED
  BY <1>2, <1>9, <1>12 DEF DnaInv

LEMMA StoreChangesDnaKeeps == DnaInv /\ StoreChangesDna => DnaInv'
<1> SUFFICES ASSUME DnaInv, StoreChangesDna PROVE DnaInv'
  OBVIOUS
<1>1. IInv /\ Next
  BY DEF DnaInv, StoreChangesDna
<1>2. IInv'
  BY <1>1, StoreGoesOn
<1> DEFINE old == {i \in DOMAIN snaps \cap DOMAIN snaps' : snaps[i].token = snaps'[i].token}
<1>3. PICK squad \in Squads :
         /\ squads' = [i \in DOMAIN snaps' |-> IF i \in old THEN squads[i] ELSE squad]
         /\ scores' = [i \in DOMAIN snaps' |->
                          IF i \in old THEN scores[i]
                          ELSE ScoresOf(definitions[snaps'[i].save], squad)]
  BY DEF StoreChangesDna
<1>4. definitions' = [s \in DOMAIN saves' |->
                         IF s \in DOMAIN saves /\ saves[s].token = saves'[s].token
                         THEN definitions[s] ELSE NoDefinition]
  BY DEF StoreChangesDna
<1>5. /\ \A i \in DOMAIN snaps \cap DOMAIN snaps' :
            /\ snaps'[i].token = snaps[i].token
            /\ snaps'[i].save = snaps[i].save
            /\ snaps[i].save \in DOMAIN saves \cap DOMAIN saves'
            /\ saves'[snaps[i].save].token = saves[snaps[i].save].token
      /\ \A i \in DOMAIN snaps' \ DOMAIN snaps :
            saves' = saves /\ snaps'[i].save \in DOMAIN saves
  BY <1>1, RowsOfAStep
<1>6. old = DOMAIN snaps \cap DOMAIN snaps'
  BY <1>5
<1> HIDE DEF old
<1>7. DnaTables'
  BY <1>3, <1>4, <1>6, SquadsAssumption DEF DnaInv, DnaTables
<1>8. ASSUME NEW i \in DOMAIN snaps'
      PROVE  definitions'[snaps'[i].save] = definitions[snaps'[i].save]
  BY <1>4, <1>5, <1>8
<1>9. ASSUME NEW i \in DOMAIN snaps'
      PROVE  scores'[i] = ScoresOf(definitions'[snaps'[i].save], squads'[i])
  <2>1. CASE i \in old
    <3>1. scores[i] = ScoresOf(definitions[snaps[i].save], squads[i])
      BY <1>6, <2>1 DEF DnaInv, DnaTables, ScoresAreOfTheDefinition
    <3>2. QED
      BY <1>3, <1>5, <1>6, <1>8, <2>1, <3>1
  <2>2. CASE i \notin old
    BY <1>3, <1>8, <2>2
  <2>3. QED
    BY <2>1, <2>2
<1>10. ScoresAreOfTheDefinition'
  BY <1>7, <1>9 DEF DnaTables, ScoresAreOfTheDefinition
<1>11. QED
  BY <1>2, <1>7, <1>10 DEF DnaInv

(* Whatever is loaded, deleted, promoted, boosted and defined anew, and in  *)
(* which order, the scores of every snapshot are those its save's present   *)
(* definition gives its present squad; none is left of an earlier one whose *)
(* version is given again.                                                  *)
THEOREM ScoresAreTheDefinitions == DnaSpec => []ScoresAreOfTheDefinition
<1>1. DnaInit => DnaInv
  <2>1. DnaInit => IInv
    BY InitHolds DEF DnaInit
  <2>2. DnaInit => DnaTables /\ ScoresAreOfTheDefinition
    BY DEF DnaInit, Init, DnaTables, ScoresAreOfTheDefinition, Empty
  <2>3. QED
    BY <2>1, <2>2 DEF DnaInv
<1>2. DnaInv /\ [DnaNext]_dnaVars => DnaInv'
  <2>1. DnaInv /\ UNCHANGED dnaVars => DnaInv'
    <3> SUFFICES ASSUME DnaInv, UNCHANGED dnaVars PROVE DnaInv'
      OBVIOUS
    <3>1. UNCHANGED vars /\ UNCHANGED dnaTables
      BY DEF dnaVars
    <3>2. IInv'
      BY <3>1, StoreGoesOn DEF DnaInv
    <3>3. DnaTables' /\ ScoresAreOfTheDefinition'
      BY <3>1 DEF DnaInv, vars, dnaTables, DnaTables, ScoresAreOfTheDefinition
    <3>4. QED
      BY <3>2, <3>3 DEF DnaInv
  <2>2. QED
    BY <2>1, SetClubDnaKeeps, RemoveClubDnaKeeps, BoostPlayerKeeps, StoreChangesDnaKeeps
    DEF DnaNext
<1>3. QED
  BY <1>1, <1>2, PTL DEF DnaSpec, DnaInv

-----------------------------------------------------------------------------
(* CSV imports.                                                             *)

(* Tokens are drawn in order: a snapshot that is added has a later one.     *)
TokensAreDrawn == \A i \in DOMAIN snaps : snaps[i].token <= nextToken

LEMMA TokensOfAStep ==
    ASSUME IInv, Next \/ UNCHANGED vars
    PROVE  /\ nextToken \in Nat /\ nextToken' \in Nat /\ nextToken <= nextToken'
           /\ \A i \in DOMAIN snaps' \ DOMAIN snaps :
                 nextToken < snaps'[i].token /\ snaps'[i].token <= nextToken'
<1>1. nextToken \in Nat
  BY BoundsAssumption DEF IInv, TypeOK
<1>2. CASE Publish
  <2>1. nextToken' = nextToken + 1
    BY <1>2 DEF Publish
  <2>2. \A i \in DOMAIN snaps' \ DOMAIN snaps : snaps'[i].token = nextToken'
    BY <1>2, PublishTokens
  <2>3. QED
    BY <1>1, <2>1, <2>2
<1>3. CASE ~Publish
  <2>1. nextToken' \in {nextToken, nextToken + 1}
    BY <1>3 DEF Next, List, EnsureDefault, CreateSave, SetActiveSave, DeleteSave,
       DeleteSnapshot, UpdateSnapshotGameDate, StartLoad, FinishScan, EndLoad, vars
  <2>2. DOMAIN snaps' \subseteq DOMAIN snaps
    BY <1>3, OthersKeepSnapshots, DeleteTokens, DateTokens
  <2>3. QED
    BY <1>1, <2>1, <2>2
<1>4. QED
  BY <1>2, <1>3

LEMMA DrawnStay == IInv /\ TokensAreDrawn /\ (Next \/ UNCHANGED vars) => TokensAreDrawn'
<1> SUFFICES ASSUME IInv, TokensAreDrawn, Next \/ UNCHANGED vars,
                    NEW i \in DOMAIN snaps'
             PROVE  snaps'[i].token <= nextToken'
  BY DEF TokensAreDrawn
<1>1. CASE i \in DOMAIN snaps
  <2>1. snaps'[i].token = snaps[i].token
    BY <1>1, RowsOfAStep
  <2>2. snaps[i].token \in Nat /\ snaps[i].token <= nextToken
    BY <1>1 DEF IInv, TypeOK, Snapshots, Tokens, TokensAreDrawn
  <2>3. QED
    BY <2>1, <2>2, TokensOfAStep
<1>2. QED
  BY <1>1, TokensOfAStep

IsRow(r) == r = [stats |-> r.stats, percentiles |-> r.percentiles]

(* What is captured is what the snapshot knows, as long as it is there.     *)
IsName(row) == row = [id |-> row.id, token |-> row.token]
PeopleOf(people, kind) == IF kind = "staff" THEN people.staff ELSE people.players

CsvTables ==
    /\ DOMAIN youth = DOMAIN saves
    /\ DOMAIN lists = DOMAIN saves
    /\ DOMAIN known = DOMAIN snaps
    /\ DOMAIN moneyball = DOMAIN snaps
    /\ \A s \in DOMAIN lists : lists[s] = [players |-> lists[s].players,
                                           staff |-> lists[s].staff]

RowsAreKnown ==
    \A i \in DOMAIN moneyball : \A u \in DOMAIN moneyball[i] :
        u \in known[i].players /\ IsRow(moneyball[i][u])

CaptureIsKept ==
    /\ importing.pc = "reading" =>
          /\ importing.command \in Commands
          /\ IsName(importing.save) /\ IsName(importing.snap)
          /\ importing.snap.token \in 0..nextToken
          /\ Matches(snaps, importing.snap) =>
                importing.uids = PeopleOf(known[importing.snap.id], importing.command.list)
    /\ importing.pc = "writing" =>
          /\ importing.format \in {"youth", "moneyball", "players", "staff"}
          /\ importing.rows = [u \in DOMAIN importing.rows |-> importing.rows[u]]
          /\ IsName(importing.save) /\ IsName(importing.snap)
          /\ importing.snap.token \in 0..nextToken
          /\ Matches(snaps, importing.snap) =>
                DOMAIN importing.rows \subseteq
                    PeopleOf(known[importing.snap.id], importing.format)

CsvInv ==
    IInv /\ TokensAreDrawn /\ CsvTables /\ RowsAreKnown /\ CaptureIsKept
         /\ PercentilesAreOfTheWholeTable

-----------------------------------------------------------------------------
(* Ranking again changes nothing: it looks at the statistics, and replaces  *)
(* the percentiles.                                                         *)
LEMMA RankedRow ==
    ASSUME NEW rows, NEW file, NEW u \in DOMAIN rows, IsRow(rows[u])
    PROVE  Ranked(rows, file)[u] =
              [stats |-> rows[u].stats,
               percentiles |-> [k \in Keys |-> IF rows[u].stats[k] = NoValue THEN NoValue
                                               ELSE PercentileScore(rows, k, u)]]
<1> DEFINE p == [k \in Keys |-> IF rows[u].stats[k] = NoValue THEN NoValue
                                ELSE PercentileScore(rows, k, u)]
<1>1. Ranked(rows, file)[u] = [rows[u] EXCEPT !.percentiles = p]
  BY DEF Ranked
<1> HIDE DEF p
<1>2. \A r : IsRow(r) => [r EXCEPT !.percentiles = p] = [stats |-> r.stats, percentiles |-> p]
  BY DEF IsRow
<1>3. QED
  BY <1>1, <1>2 DEF p

LEMMA SameScores ==
    ASSUME NEW rows, NEW others, DOMAIN others = DOMAIN rows,
           \A u \in DOMAIN rows : others[u].stats = rows[u].stats,
           NEW k, NEW u \in DOMAIN rows
    PROVE  PercentileScore(others, k, u) = PercentileScore(rows, k, u)
<1>1. Having(others, k) = Having(rows, k)
  BY DEF Having
<1>2. \A v \in Having(rows, k) : v \in DOMAIN rows
  BY DEF Having
<1>3. {v \in Having(others, k) : others[v].stats[k] < others[u].stats[k]}
         = {v \in Having(rows, k) : rows[v].stats[k] < rows[u].stats[k]}
  BY <1>1, <1>2
<1>4. (\A v \in Having(others, k) : others[v].stats[k] = others[u].stats[k])
         <=> (\A v \in Having(rows, k) : rows[v].stats[k] = rows[u].stats[k])
  BY <1>1, <1>2
<1>5. QED
  BY <1>1, <1>3, <1>4 DEF PercentileScore

LEMMA RankedTwice ==
    ASSUME NEW rows, NEW f, NEW g, \A u \in DOMAIN rows : IsRow(rows[u])
    PROVE  /\ DOMAIN Ranked(rows, f) = DOMAIN rows
           /\ \A u \in DOMAIN rows : IsRow(Ranked(rows, f)[u])
           /\ Ranked(Ranked(rows, f), g) = Ranked(rows, f)
<1> DEFINE once == Ranked(rows, f)
           twice == Ranked(once, g)
<1>1. DOMAIN once = DOMAIN rows /\ DOMAIN twice = DOMAIN once
  BY DEF Ranked
<1>2. \A u \in DOMAIN rows :
         once[u] = [stats |-> rows[u].stats,
                    percentiles |-> [k \in Keys |-> IF rows[u].stats[k] = NoValue THEN NoValue
                                                    ELSE PercentileScore(rows, k, u)]]
  BY RankedRow
<1>3. once = [u \in DOMAIN rows |-> once[u]] /\ twice = [u \in DOMAIN once |-> twice[u]]
  BY DEF Ranked
<1> HIDE DEF once
<1>4. ASSUME NEW u \in DOMAIN rows
      PROVE  IsRow(once[u]) /\ once[u].stats = rows[u].stats
  <2> DEFINE p == [k \in Keys |-> IF rows[u].stats[k] = NoValue THEN NoValue
                                  ELSE PercentileScore(rows, k, u)]
  <2>1. once[u] = [stats |-> rows[u].stats, percentiles |-> p]
    BY <1>2
  <2> HIDE DEF p
  <2>2. QED
    BY <2>1 DEF IsRow
<1>5. \A u \in DOMAIN once :
         twice[u] = [stats |-> once[u].stats,
                     percentiles |-> [k \in Keys |-> IF once[u].stats[k] = NoValue THEN NoValue
                                                     ELSE PercentileScore(once, k, u)]]
  <2>1. \A u \in DOMAIN once : IsRow(once[u])
    BY <1>1, <1>4
  <2>2. QED
    BY <2>1, RankedRow
<1> HIDE DEF twice
<1>6. \A u \in DOMAIN rows : \A k : PercentileScore(once, k, u) = PercentileScore(rows, k, u)
  BY <1>1, <1>4, SameScores
<1>7. ASSUME NEW u \in DOMAIN rows PROVE twice[u] = once[u]
  BY <1>1, <1>2, <1>4, <1>5, <1>6
<1>8. twice = once
  BY <1>1, <1>3, <1>7
<1>9. QED
  BY <1>1, <1>4, <1>8 DEF once, twice

-----------------------------------------------------------------------------
(* A change of the store.                                                   *)
LEMMA KeptRows ==
    ASSUME NEW old, NEW new, NEW table, NEW none, DOMAIN table = DOMAIN old
    PROVE  /\ DOMAIN StillThere(new, Kept(old, new, table), none) = DOMAIN new
           /\ \A i \in DOMAIN new :
                 StillThere(new, Kept(old, new, table), none)[i] =
                    IF i \in DOMAIN old /\ old[i].token = new[i].token
                    THEN table[i] ELSE none
<1> DEFINE kept == Kept(old, new, table)
<1>1. /\ DOMAIN kept = {j \in DOMAIN old \cap DOMAIN new : old[j].token = new[j].token}
      /\ \A i \in DOMAIN kept : kept[i] = table[i]
  BY DEF Kept
<1> HIDE DEF kept
<1>2. /\ DOMAIN StillThere(new, kept, none) = DOMAIN new
      /\ \A i \in DOMAIN new :
            StillThere(new, kept, none)[i] = IF i \in DOMAIN kept THEN kept[i] ELSE none
  BY DEF StillThere
<1>3. QED
  BY <1>1, <1>2 DEF kept

(* Each table after it: what its row had, or nothing.                       *)
LEMMA TablesOfAStep ==
    ASSUME CsvInv, StoreChanges
    PROVE  /\ CsvTables'
           /\ importing' = importing
           /\ \A s \in DOMAIN saves' :
                 /\ youth'[s] = IF s \in DOMAIN saves /\ saves[s].token = saves'[s].token
                                THEN youth[s] ELSE Empty
                 /\ lists'[s] = IF s \in DOMAIN saves /\ saves[s].token = saves'[s].token
                                THEN lists[s] ELSE NoLists
           /\ \A i \in DOMAIN snaps \cap DOMAIN snaps' :
                 known'[i] = known[i] /\ moneyball'[i] = moneyball[i]
           /\ \A i \in DOMAIN snaps' \ DOMAIN snaps : moneyball'[i] = Empty
<1>1. IInv /\ Next /\ importing' = importing
  BY DEF CsvInv, StoreChanges
<1>2. PICK p \in Populations : known' = StillThere(snaps', Kept(snaps, snaps', known), p)
  BY DEF StoreChanges
<1>3. /\ youth' = StillThere(saves', Kept(saves, saves', youth), Empty)
      /\ moneyball' = StillThere(snaps', Kept(snaps, snaps', moneyball), Empty)
      /\ lists' = StillThere(saves', Kept(saves, saves', lists), NoLists)
  BY DEF StoreChanges
<1>4. /\ DOMAIN youth' = DOMAIN saves' /\ DOMAIN lists' = DOMAIN saves'
      /\ \A s \in DOMAIN saves' :
            /\ youth'[s] = IF s \in DOMAIN saves /\ saves[s].token = saves'[s].token
                           THEN youth[s] ELSE Empty
            /\ lists'[s] = IF s \in DOMAIN saves /\ saves[s].token = saves'[s].token
                           THEN lists[s] ELSE NoLists
  BY <1>3, KeptRows DEF CsvInv, CsvTables
<1>5. /\ DOMAIN known' = DOMAIN snaps' /\ DOMAIN moneyball' = DOMAIN snaps'
      /\ \A i \in DOMAIN snaps' :
            /\ known'[i] = IF i \in DOMAIN snaps /\ snaps[i].token = snaps'[i].token
                           THEN known[i] ELSE p
            /\ moneyball'[i] = IF i \in DOMAIN snaps /\ snaps[i].token = snaps'[i].token
                               THEN moneyball[i] ELSE Empty
  BY <1>2, <1>3, KeptRows DEF CsvInv, CsvTables
<1>6. \A i \in DOMAIN snaps \cap DOMAIN snaps' : snaps'[i].token = snaps[i].token
  BY <1>1, RowsOfAStep
<1>7. \A s \in DOMAIN lists' : lists'[s] = [players |-> lists'[s].players,
                                            staff |-> lists'[s].staff]
  BY <1>4 DEF NoLists, CsvInv, CsvTables
<1>8. QED
  BY <1>1, <1>4, <1>5, <1>6, <1>7 DEF CsvTables

LEMMA StoreChangesKeeps == CsvInv /\ StoreChanges => CsvInv'
<1> SUFFICES ASSUME CsvInv, StoreChanges PROVE CsvInv'
  OBVIOUS
<1>1. IInv /\ Next /\ TokensAreDrawn
  BY DEF CsvInv, StoreChanges
<1>2. IInv' /\ TokensAreDrawn'
  BY <1>1, StoreGoesOn, DrawnStay
<1>3. /\ CsvTables'
      /\ importing' = importing
      /\ \A i \in DOMAIN snaps \cap DOMAIN snaps' :
            known'[i] = known[i] /\ moneyball'[i] = moneyball[i]
      /\ \A i \in DOMAIN snaps' \ DOMAIN snaps : moneyball'[i] = Empty
  BY TablesOfAStep
<1>4. DOMAIN moneyball' = DOMAIN snaps' /\ DOMAIN moneyball = DOMAIN snaps
  BY <1>3 DEF CsvInv, CsvTables
<1>5. RowsAreKnown'
  <2>1. DOMAIN Empty = {}
    BY DEF Empty
  <2>2. QED
    BY <1>3, <1>4, <2>1 DEF CsvInv, RowsAreKnown
<1>6. PercentilesAreOfTheWholeTable'
  <2>1. Ranked(Empty, Empty) = Empty
    BY DEF Ranked, Empty
  <2>2. QED
    BY <1>3, <1>4, <2>1 DEF CsvInv, PercentilesAreOfTheWholeTable
<1>7. CaptureIsKept'
  <2>1. ASSUME importing.snap.token \in 0..nextToken, Matches(snaps', importing.snap)
        PROVE  /\ Matches(snaps, importing.snap)
               /\ known'[importing.snap.id] = known[importing.snap.id]
    <3> DEFINE i == importing.snap.id
    <3>1. i \in DOMAIN snaps' /\ snaps'[i].token = importing.snap.token
      BY <2>1 DEF Matches
    <3>2. snaps'[i].token \in Nat
      BY <1>2, <3>1 DEF IInv, TypeOK, Snapshots, Tokens
    <3>3. i \in DOMAIN snaps
      BY <1>1, <2>1, <3>1, <3>2, TokensOfAStep
    <3>4. snaps[i].token = snaps'[i].token
      BY <1>1, <3>1, <3>3, RowsOfAStep
    <3>5. QED
      BY <1>3, <3>1, <3>3, <3>4 DEF Matches
  <2>2. ASSUME importing.pc \in {"reading", "writing"}
        PROVE  importing.snap.token \in 0..nextToken /\ importing.snap.token \in 0..nextToken'
    <3>1. importing.snap.token \in 0..nextToken
      BY <2>2 DEF CsvInv, CaptureIsKept
    <3>2. QED
      BY <1>1, <3>1, TokensOfAStep
  <2>3. QED
    BY <1>3, <2>1, <2>2 DEF CsvInv, CaptureIsKept
<1>8. QED
  BY <1>2, <1>3, <1>5, <1>6, <1>7 DEF CsvInv

-----------------------------------------------------------------------------
(* The steps of the import itself leave the store alone.                    *)
LEMMA ImportLeavesStore ==
    ASSUME CsvInv, vars' = vars
    PROVE  IInv' /\ TokensAreDrawn' /\ saves' = saves /\ snaps' = snaps /\ nextToken' = nextToken
<1>1. IInv' /\ TokensAreDrawn'
  BY StoreGoesOn, DrawnStay DEF CsvInv
<1>2. QED
  BY <1>1 DEF vars

LEMMA CaptureKeeps == CsvInv /\ Capture => CsvInv'
<1> SUFFICES ASSUME CsvInv, Capture PROVE CsvInv'
  OBVIOUS
<1>1. /\ IInv' /\ TokensAreDrawn'
      /\ saves' = saves /\ snaps' = snaps /\ nextToken' = nextToken
  BY ImportLeavesStore DEF Capture
<1>2. UNCHANGED <<known, youth, moneyball, lists>>
  BY DEF Capture
<1>3. CsvTables' /\ RowsAreKnown' /\ PercentilesAreOfTheWholeTable'
  BY <1>1, <1>2 DEF CsvInv, CsvTables, RowsAreKnown, PercentilesAreOfTheWholeTable
<1>4. PICK command \in Commands, save \in DOMAIN saves, snap \in DOMAIN snaps :
         importing' = [pc |-> "reading", command |-> command,
                       save |-> [id |-> save, token |-> saves[save].token],
                       snap |-> [id |-> snap, token |-> snaps[snap].token],
                       uids |-> IF command.list = "staff" THEN known[snap].staff
                                ELSE known[snap].players]
  BY DEF Capture
<1>5. /\ importing'.pc = "reading"
      /\ importing'.command = command
      /\ importing'.snap = [id |-> snap, token |-> snaps[snap].token]
      /\ importing'.uids = PeopleOf(known[snap], command.list)
      /\ IsName(importing'.save) /\ IsName(importing'.snap)
  BY <1>4 DEF PeopleOf, IsName
<1>6. importing'.snap.id = snap /\ importing'.snap.token = snaps[snap].token
  BY <1>5
<1>7. snaps[snap].token \in 0..nextToken
  BY BoundsAssumption DEF CsvInv, TokensAreDrawn, IInv, TypeOK, Snapshots, Tokens
<1>8. CaptureIsKept'
  BY <1>1, <1>2, <1>5, <1>6, <1>7 DEF CaptureIsKept
<1>9. QED
  BY <1>1, <1>3, <1>8 DEF CsvInv

LEMMA ReadKeeps == CsvInv /\ Read => CsvInv'
<1> SUFFICES ASSUME CsvInv, Read PROVE CsvInv'
  OBVIOUS
<1>1. /\ IInv' /\ TokensAreDrawn'
      /\ saves' = saves /\ snaps' = snaps /\ nextToken' = nextToken
  BY ImportLeavesStore DEF Read
<1>2. UNCHANGED <<known, youth, moneyball, lists>>
  BY DEF Read
<1>3. CsvTables' /\ RowsAreKnown' /\ PercentilesAreOfTheWholeTable'
  BY <1>1, <1>2 DEF CsvInv, CsvTables, RowsAreKnown, PercentilesAreOfTheWholeTable
<1>4. PICK file \in Files :
         /\ IF importing.command.list = "none"
            THEN /\ file.format \in {"youth", "moneyball"}
                 /\ importing.command.format \in {"any", file.format}
            ELSE file.format = importing.command.format
         /\ importing' = [pc |-> "writing", save |-> importing.save,
                          snap |-> importing.snap, format |-> file.format,
                          rows |-> Matching(file)]
  BY DEF Read
<1>5. /\ importing'.pc = "writing"
      /\ importing'.save = importing.save
      /\ importing'.snap = importing.snap
      /\ importing'.format = file.format
      /\ importing'.rows = Matching(file)
  BY <1>4
<1>6. /\ importing.command \in Commands
      /\ IsName(importing.save) /\ IsName(importing.snap)
      /\ importing.snap.token \in 0..nextToken
      /\ Matches(snaps, importing.snap) =>
            importing.uids = PeopleOf(known[importing.snap.id], importing.command.list)
  BY DEF Read, CsvInv, CaptureIsKept
<1>7. /\ file.format \in {"youth", "moneyball", "players", "staff"}
      /\ (file.format = "staff") <=> (importing.command.list = "staff")
  BY <1>4, <1>6 DEF Commands
<1>8. /\ DOMAIN Matching(file) \subseteq importing.uids
      /\ Matching(file) = [u \in DOMAIN Matching(file) |-> Matching(file)[u]]
  BY DEF Matching
<1>9. CaptureIsKept'
  BY <1>1, <1>2, <1>5, <1>6, <1>7, <1>8 DEF CaptureIsKept, PeopleOf
<1>10. QED
  BY <1>1, <1>3, <1>9 DEF CsvInv

LEMMA GiveUpKeeps == CsvInv /\ (GiveUpImport \/ UNCHANGED csvVars) => CsvInv'
<1> SUFFICES ASSUME CsvInv, GiveUpImport \/ UNCHANGED csvVars PROVE CsvInv'
  OBVIOUS
<1>1. /\ UNCHANGED <<vars, known, youth, moneyball, lists>>
      /\ importing' \in {importing, NoImport}
  BY DEF GiveUpImport, csvVars, importVars
<1>2. /\ IInv' /\ TokensAreDrawn'
      /\ saves' = saves /\ snaps' = snaps /\ nextToken' = nextToken
  BY <1>1, ImportLeavesStore
<1>3. CsvTables' /\ RowsAreKnown' /\ PercentilesAreOfTheWholeTable'
  BY <1>1, <1>2 DEF CsvInv, CsvTables, RowsAreKnown, PercentilesAreOfTheWholeTable
<1>4. CaptureIsKept'
  BY <1>1, <1>2 DEF CsvInv, CaptureIsKept, NoImport
<1>5. QED
  BY <1>2, <1>3, <1>4 DEF CsvInv

(* A table after an import.                                                 *)
LEMMA UpsertedRows ==
    ASSUME NEW table, NEW row \in DOMAIN table, NEW rows
    PROVE  /\ DOMAIN Upserted(table, row, rows) = DOMAIN table
           /\ \A i \in DOMAIN table \ {row} : Upserted(table, row, rows)[i] = table[i]
           /\ DOMAIN Upserted(table, row, rows)[row] = DOMAIN table[row] \cup DOMAIN rows
           /\ \A u \in DOMAIN table[row] \cup DOMAIN rows :
                 Upserted(table, row, rows)[row][u] =
                    IF u \in DOMAIN rows THEN rows[u] ELSE table[row][u]
<1> DEFINE new == [u \in DOMAIN table[row] \cup DOMAIN rows |->
                      IF u \in DOMAIN rows THEN rows[u] ELSE table[row][u]]
<1>1. Upserted(table, row, rows) = [table EXCEPT ![row] = new]
  BY DEF Upserted
<1>2. /\ DOMAIN new = DOMAIN table[row] \cup DOMAIN rows
      /\ \A u \in DOMAIN table[row] \cup DOMAIN rows :
            new[u] = IF u \in DOMAIN rows THEN rows[u] ELSE table[row][u]
  OBVIOUS
<1> HIDE DEF new
<1>3. QED
  BY <1>1, <1>2

(* What one import writes, and where: into the save it captured, while that *)
(* is active, or into its current snapshot.                                 *)
LEMMA WriteEffect ==
    ASSUME CsvInv, Write
    PROVE  LET save == importing.save.id
               snap == importing.snap.id
               people == DOMAIN importing.rows
           IN  /\ save \in DOMAIN saves /\ saves[save].active
               /\ importing.save = [id |-> save, token |-> saves[save].token]
               /\ snap \in CurrentOf(snaps, save)
               /\ importing.snap = [id |-> snap, token |-> snaps[snap].token]
               /\ people \subseteq PeopleOf(known[snap], importing.format)
               /\ importing.format \in {"youth", "moneyball", "players", "staff"}
               /\ \/ importing.format = "youth" /\ WriteYouth
                  \/ importing.format = "moneyball" /\ WriteMoneyball
                  \/ /\ importing.format \in {"players", "staff"}
                     /\ people # {} /\ WriteList
<1>1. /\ Matches(saves, importing.save) /\ saves[importing.save.id].active
      /\ Matches(snaps, importing.snap) /\ snaps[importing.snap.id].current
      /\ snaps[importing.snap.id].save = importing.save.id
      /\ importing.pc = "writing"
  BY DEF Write, Revalidated
<1>2. /\ importing.format \in {"youth", "moneyball", "players", "staff"}
      /\ importing.rows = [u \in DOMAIN importing.rows |-> importing.rows[u]]
      /\ DOMAIN importing.rows \subseteq PeopleOf(known[importing.snap.id], importing.format)
      /\ IsName(importing.save) /\ IsName(importing.snap)
  BY <1>1 DEF CsvInv, CaptureIsKept
<1>3. /\ importing.format = "youth" => WriteYouth
      /\ importing.format = "moneyball" => WriteMoneyball
      /\ importing.format \in {"players", "staff"} => WriteList
  BY DEF Write
<1>4. importing.rows # Empty => DOMAIN importing.rows # {}
  BY <1>2 DEF Empty
<1>5. WriteList => importing.rows # Empty
  BY DEF WriteList
<1>6. QED
  BY <1>1, <1>2, <1>3, <1>4, <1>5 DEF Matches, CurrentOf, Of, IsName

(* The statistics of a snapshot after an import, ranked as a whole.         *)
LEMMA MoneyballWritten ==
    ASSUME CsvInv, WriteMoneyball, importing.snap.id \in DOMAIN snaps,
           DOMAIN importing.rows \subseteq known[importing.snap.id].players
    PROVE  LET id == importing.snap.id IN
           /\ DOMAIN moneyball' = DOMAIN moneyball
           /\ \A i \in DOMAIN moneyball \ {id} : moneyball'[i] = moneyball[i]
           /\ \A u \in DOMAIN moneyball'[id] :
                 u \in known[id].players /\ IsRow(moneyball'[id][u])
           /\ moneyball'[id] = Ranked(moneyball'[id], moneyball'[id])
<1> DEFINE id == importing.snap.id
           fresh == [u \in DOMAIN importing.rows |->
                        [stats |-> importing.rows[u],
                         percentiles |-> [k \in Keys |-> NoValue]]]
           rows == Upserted(moneyball, id, fresh)[id]
<1>1. id \in DOMAIN moneyball
  BY DEF CsvInv, CsvTables
<1>2. \A u \in DOMAIN moneyball[id] : u \in known[id].players /\ IsRow(moneyball[id][u])
  BY <1>1 DEF CsvInv, RowsAreKnown
<1>3. moneyball[id] = Ranked(moneyball[id], moneyball[id])
  BY <1>1 DEF CsvInv, PercentilesAreOfTheWholeTable
<1>4. moneyball' = moneyball \/ moneyball' = [moneyball EXCEPT ![id] = Ranked(rows, fresh)]
  BY DEF WriteMoneyball
<1>5. DOMAIN fresh = DOMAIN importing.rows /\ \A u \in DOMAIN fresh : IsRow(fresh[u])
  <2> DEFINE none == [k \in Keys |-> NoValue]
  <2>1. \A u \in DOMAIN fresh : fresh[u] = [stats |-> importing.rows[u], percentiles |-> none]
    OBVIOUS
  <2> HIDE DEF none
  <2>2. QED
    BY <2>1 DEF IsRow
<1> HIDE DEF fresh
<1>6. /\ DOMAIN rows = DOMAIN moneyball[id] \cup DOMAIN fresh
      /\ \A u \in DOMAIN rows : IsRow(rows[u])
  BY <1>1, <1>2, <1>5, UpsertedRows
<1> HIDE DEF rows
<1>7. /\ DOMAIN Ranked(rows, fresh) = DOMAIN rows
      /\ \A u \in DOMAIN rows : IsRow(Ranked(rows, fresh)[u])
      /\ Ranked(Ranked(rows, fresh), Ranked(rows, fresh)) = Ranked(rows, fresh)
  BY <1>6, RankedTwice
<1> HIDE DEF id
<1>8. CASE moneyball' = moneyball
  BY <1>2, <1>3, <1>8 DEF id
<1>9. CASE moneyball' = [moneyball EXCEPT ![id] = Ranked(rows, fresh)]
  <2>1. /\ DOMAIN moneyball' = DOMAIN moneyball
        /\ \A i \in DOMAIN moneyball \ {id} : moneyball'[i] = moneyball[i]
        /\ moneyball'[id] = Ranked(rows, fresh)
    BY <1>1, <1>9
  <2>2. \A u \in DOMAIN rows : u \in known[id].players
    BY <1>2, <1>5, <1>6 DEF id
  <2>3. QED
    BY <1>7, <2>1, <2>2 DEF id
<1>10. QED
  BY <1>4, <1>8, <1>9

LEMMA WriteKeeps == CsvInv /\ Write => CsvInv'
<1> SUFFICES ASSUME CsvInv, Write PROVE CsvInv'
  OBVIOUS
<1>1. /\ IInv' /\ TokensAreDrawn'
      /\ saves' = saves /\ snaps' = snaps /\ nextToken' = nextToken
  BY ImportLeavesStore DEF Write
<1>2. known' = known /\ importing' = NoImport
  BY DEF Write
<1>3. /\ importing.save.id \in DOMAIN saves
      /\ importing.snap.id \in DOMAIN snaps
      /\ DOMAIN importing.rows \subseteq PeopleOf(known[importing.snap.id], importing.format)
      /\ \/ importing.format = "youth" /\ WriteYouth
         \/ importing.format = "moneyball" /\ WriteMoneyball
         \/ importing.format \in {"players", "staff"} /\ WriteList
  BY WriteEffect DEF CurrentOf, Of
<1>4. CaptureIsKept'
  BY <1>2 DEF CaptureIsKept, NoImport
<1>5. CASE importing.format = "youth" /\ WriteYouth
  <2>1. DOMAIN youth' = DOMAIN youth /\ UNCHANGED <<moneyball, lists>>
    BY <1>3, <1>5, UpsertedRows DEF WriteYouth, CsvInv, CsvTables
  <2>2. CsvTables' /\ RowsAreKnown' /\ PercentilesAreOfTheWholeTable'
    BY <1>1, <1>2, <2>1 DEF CsvInv, CsvTables, RowsAreKnown, PercentilesAreOfTheWholeTable
  <2>3. QED
    BY <1>1, <1>4, <2>2 DEF CsvInv
<1>6. CASE importing.format = "moneyball" /\ WriteMoneyball
  <2> DEFINE id == importing.snap.id
  <2>1. DOMAIN importing.rows \subseteq known[id].players
    BY <1>3, <1>6 DEF PeopleOf
  <2>2. /\ DOMAIN moneyball' = DOMAIN moneyball
        /\ \A i \in DOMAIN moneyball \ {id} : moneyball'[i] = moneyball[i]
        /\ \A u \in DOMAIN moneyball'[id] :
              u \in known[id].players /\ IsRow(moneyball'[id][u])
        /\ moneyball'[id] = Ranked(moneyball'[id], moneyball'[id])
    BY <1>3, <1>6, <2>1, MoneyballWritten
  <2>3. UNCHANGED <<youth, lists>>
    BY <1>6 DEF WriteMoneyball
  <2> HIDE DEF id
  <2>4. CsvTables'
    BY <1>1, <1>2, <2>2, <2>3 DEF CsvInv, CsvTables
  <2>5. RowsAreKnown' /\ PercentilesAreOfTheWholeTable'
    BY <1>2, <2>2 DEF CsvInv, RowsAreKnown, PercentilesAreOfTheWholeTable
  <2>6. QED
    BY <1>1, <1>4, <2>4, <2>5 DEF CsvInv
<1>7. CASE importing.format \in {"players", "staff"} /\ WriteList
  <2>1. /\ UNCHANGED <<youth, moneyball>>
        /\ \/ lists' = [lists EXCEPT ![importing.save.id].players = DOMAIN importing.rows]
           \/ lists' = [lists EXCEPT ![importing.save.id].staff = DOMAIN importing.rows]
    BY <1>7 DEF WriteList
  <2>2. CsvTables'
    BY <1>1, <1>2, <2>1 DEF CsvInv, CsvTables
  <2>3. RowsAreKnown' /\ PercentilesAreOfTheWholeTable'
    BY <1>2, <2>1 DEF CsvInv, RowsAreKnown, PercentilesAreOfTheWholeTable
  <2>4. QED
    BY <1>1, <1>4, <2>2, <2>3 DEF CsvInv
<1>8. QED
  BY <1>3, <1>5, <1>6, <1>7

LEMMA CsvInvStays == CsvSpec => []CsvInv
<1>1. ImportInit => CsvInv
  <2>1. ImportInit => IInv
    BY InitHolds DEF ImportInit
  <2>2. ImportInit => /\ TokensAreDrawn /\ CsvTables /\ RowsAreKnown
                      /\ CaptureIsKept /\ PercentilesAreOfTheWholeTable
    BY DEF ImportInit, Init, TokensAreDrawn, CsvTables, RowsAreKnown, CaptureIsKept,
       PercentilesAreOfTheWholeTable, Empty, NoImport
  <2>3. QED
    BY <2>1, <2>2 DEF CsvInv
<1>2. CsvInv /\ [CsvNext]_csvVars => CsvInv'
  BY StoreChangesKeeps, CaptureKeeps, ReadKeeps, WriteKeeps, GiveUpKeeps DEF CsvNext
<1>3. QED
  BY <1>1, <1>2, PTL DEF CsvSpec

-----------------------------------------------------------------------------
SaveWritten(s) ==
    /\ importing.save = [id |-> s, token |-> saves[s].token]
    /\ saves[s].active
    /\ \E i \in CurrentOf(snaps, s) :
          /\ importing.snap.token = snaps[i].token
          /\ DOMAIN youth'[s] \ DOMAIN youth[s] \subseteq known[i].players
          /\ lists'[s].players # lists[s].players =>
                lists'[s].players # {} /\ lists'[s].players \subseteq known[i].players
          /\ lists'[s].staff # lists[s].staff =>
                lists'[s].staff # {} /\ lists'[s].staff \subseteq known[i].staff

SnapshotWritten(i) ==
    /\ importing.snap = [id |-> i, token |-> snaps[i].token]
    /\ snaps[i].current /\ saves[snaps[i].save].active
    /\ DOMAIN moneyball'[i] \subseteq known[i].players

LEMMA StoreWritesNothing ==
    ASSUME CsvInv, StoreChanges
    PROVE  /\ \A s \in DOMAIN lists \cap DOMAIN lists' :
                 saves'[s].token = saves[s].token => youth'[s] = youth[s] /\ lists'[s] = lists[s]
           /\ \A i \in DOMAIN moneyball \cap DOMAIN moneyball' : moneyball'[i] = moneyball[i]
<1>1. /\ DOMAIN lists' = DOMAIN saves' /\ DOMAIN lists = DOMAIN saves
      /\ DOMAIN moneyball' = DOMAIN snaps' /\ DOMAIN moneyball = DOMAIN snaps
  BY TablesOfAStep DEF CsvInv, CsvTables
<1>2. QED
  BY <1>1, TablesOfAStep

LEMMA ImportWrites ==
    ASSUME CsvInv, Write
    PROVE  /\ \A s \in DOMAIN lists :
                 <<youth'[s], lists'[s]>> # <<youth[s], lists[s]>> => SaveWritten(s)
           /\ \A i \in DOMAIN moneyball : moneyball'[i] # moneyball[i] => SnapshotWritten(i)
<1> DEFINE save == importing.save.id
           snap == importing.snap.id
           people == DOMAIN importing.rows
<1>1. /\ save \in DOMAIN saves /\ saves[save].active
      /\ importing.save = [id |-> save, token |-> saves[save].token]
      /\ snap \in CurrentOf(snaps, save)
      /\ importing.snap = [id |-> snap, token |-> snaps[snap].token]
      /\ people \subseteq PeopleOf(known[snap], importing.format)
      /\ \/ importing.format = "youth" /\ WriteYouth
         \/ importing.format = "moneyball" /\ WriteMoneyball
         \/ /\ importing.format \in {"players", "staff"}
            /\ people # {} /\ WriteList
  BY WriteEffect
<1>2. snap \in DOMAIN snaps /\ snaps[snap].save = save /\ snaps[snap].current
  BY <1>1 DEF CurrentOf, Of
<1>3. importing.snap.token = snaps[snap].token
  BY <1>1
<1>4. DOMAIN youth = DOMAIN saves /\ DOMAIN lists = DOMAIN saves /\ DOMAIN moneyball = DOMAIN snaps
  BY DEF CsvInv, CsvTables
<1>5. CASE importing.format = "youth" /\ WriteYouth
  <2>1. /\ youth' = Upserted(youth, save, importing.rows)
        /\ UNCHANGED <<moneyball, lists>>
    BY <1>5 DEF WriteYouth
  <2>2. people \subseteq known[snap].players
    BY <1>1, <1>5 DEF PeopleOf
  <2>3. /\ \A s \in DOMAIN youth \ {save} : youth'[s] = youth[s]
        /\ DOMAIN youth'[save] \ DOMAIN youth[save] \subseteq known[snap].players
    BY <1>1, <1>4, <2>1, <2>2, UpsertedRows
  <2>4. SaveWritten(save)
    BY <1>1, <1>3, <2>1, <2>3 DEF SaveWritten
  <2> HIDE DEF save
  <2>5. QED
    BY <1>4, <2>1, <2>3, <2>4
<1>6. CASE importing.format = "moneyball" /\ WriteMoneyball
  <2>1. people \subseteq known[snap].players
    BY <1>1, <1>6 DEF PeopleOf
  <2>2. /\ \A i \in DOMAIN moneyball \ {snap} : moneyball'[i] = moneyball[i]
        /\ \A u \in DOMAIN moneyball'[snap] : u \in known[snap].players
    BY <1>2, <1>6, <2>1, MoneyballWritten
  <2>3. UNCHANGED <<youth, lists>>
    BY <1>6 DEF WriteMoneyball
  <2>4. SnapshotWritten(snap)
    BY <1>1, <1>2, <2>2 DEF SnapshotWritten
  <2> HIDE DEF snap
  <2>5. QED
    BY <2>2, <2>3, <2>4
<1>7. CASE importing.format \in {"players", "staff"} /\ people # {} /\ WriteList
  <2>1. lists[save] = [players |-> lists[save].players, staff |-> lists[save].staff]
    BY <1>1, <1>4 DEF CsvInv, CsvTables
  <2>2. UNCHANGED <<youth, moneyball>>
    BY <1>7 DEF WriteList
  <2>3. /\ \A s \in DOMAIN lists \ {save} : lists'[s] = lists[s]
        /\ \/ /\ importing.format = "players"
              /\ lists'[save].players = people /\ lists'[save].staff = lists[save].staff
           \/ /\ importing.format = "staff"
              /\ lists'[save].staff = people /\ lists'[save].players = lists[save].players
    BY <1>1, <1>4, <1>7, <2>1 DEF WriteList
  <2>4. SaveWritten(save)
    BY <1>1, <1>3, <1>7, <2>2, <2>3 DEF SaveWritten, PeopleOf
  <2> HIDE DEF save
  <2>5. QED
    BY <1>4, <2>2, <2>3, <2>4
<1>8. QED
  BY <1>1, <1>5, <1>6, <1>7

(* An import writes into the save and the snapshot it captured and into no  *)
(* other, while they are the active and the current one; percentiles are    *)
(* those of all the rows of their snapshot.                                 *)
THEOREM ImportsStayWhole == CsvSpec => ImportsAreWhole
<1> DEFINE Step ==
      /\ \A s \in DOMAIN lists \cap DOMAIN lists' :
            /\ saves'[s].token = saves[s].token
            /\ <<youth'[s], lists'[s]>> # <<youth[s], lists[s]>>
            => SaveWritten(s)
      /\ \A i \in DOMAIN moneyball \cap DOMAIN moneyball' :
            /\ snaps'[i].token = snaps[i].token
            /\ moneyball'[i] # moneyball[i]
            => SnapshotWritten(i)
<1>1. CsvInv /\ [CsvNext]_csvVars => Step
  <2> SUFFICES ASSUME CsvInv, [CsvNext]_csvVars PROVE Step
    OBVIOUS
  <2>1. CASE StoreChanges
    BY <2>1, StoreWritesNothing
  <2>2. CASE Write
    BY <2>2, ImportWrites
  <2>3. CASE Capture \/ Read \/ GiveUpImport \/ UNCHANGED csvVars
    <3>1. UNCHANGED <<youth, lists, moneyball>>
      BY <2>3 DEF Capture, Read, GiveUpImport, csvVars, importVars
    <3>2. QED
      BY <3>1
  <2>4. QED
    BY <2>1, <2>2, <2>3 DEF CsvNext
<1>2. CsvInv /\ [CsvNext]_csvVars => [Step]_csvVars
  BY <1>1
<1>3. CsvSpec => ImportsStayInTheirSave
  BY <1>2, CsvInvStays, PTL DEF CsvSpec, ImportsStayInTheirSave, SaveWritten, SnapshotWritten
<1>4. CsvSpec => []PercentilesAreOfTheWholeTable
  BY CsvInvStays, PTL DEF CsvInv
<1>5. QED
  BY <1>3, <1>4 DEF ImportsAreWhole

-----------------------------------------------------------------------------
(* The academy.                                                             *)
Class == [save : Ids, year : Nat, automatic : BOOLEAN]
Classes(t) == t \in [DOMAIN t -> Class]
OneAYear(t) ==
    \A c, d \in DOMAIN t : t[c].save = t[d].save /\ t[c].year = t[d].year => c = d

AcademyTables ==
    /\ DOMAIN managed = DOMAIN saves
    /\ DOMAIN classes \subseteq 1..MaxClass
    /\ Classes(classes)

AcademyInv == IInv /\ AcademyTables /\ AcademyIsConsistent

(* The largest id is one: ids are bounded, so one of the table's is at the  *)
(* least distance from the bound.                                           *)
LEMMA LargestId ==
    ASSUME NEW S, S \subseteq 1..MaxClass, S # {}
    PROVE  Max(S) \in S /\ \A c \in S : c <= Max(S)
<1> DEFINE T == {MaxClass - c : c \in S}
           Less == OpToRel(<, Nat)
<1>1. \A c \in S : c \in Nat /\ MaxClass - c \in Nat
  BY AcademyAssumption
<1>2. T \subseteq Nat /\ T # {}
  BY <1>1
<1>3. \A c \in S : MaxClass - c \in T
  OBVIOUS
<1>4. PICK x \in T : \A y \in T : ~ (<<y, x>> \in Less)
  BY <1>2, NatLessThanWellFounded, WFMin
<1>5. \A y \in T : ~(y < x)
  BY <1>2, <1>4 DEF OpToRel
<1>6. PICK m \in S : x = MaxClass - m
  OBVIOUS
<1> HIDE DEF T
<1>7. ASSUME NEW c \in S PROVE m >= c
  <2>1. ~(MaxClass - c < MaxClass - m)
    BY <1>3, <1>5, <1>6
  <2>2. QED
    BY <1>1, <2>1, AcademyAssumption
<1>8. Max(S) \in S /\ \A c \in S : Max(S) >= c
  BY <1>7 DEF Max
<1>9. QED
  BY <1>1, <1>8

(* A new class has an id of its own.                                        *)
LEMMA NewClassRows ==
    ASSUME NEW t, Classes(t), DOMAIN t \subseteq 1..MaxClass,
           NEW save, NEW year, NEW automatic
    PROVE  \E n : /\ n \notin DOMAIN t
                  /\ NewClass(t, save, year, automatic)
                        = With(t, n, [save |-> save, year |-> year, automatic |-> automatic])
<1> DEFINE n == IF DOMAIN t = {} THEN 1 ELSE Max(DOMAIN t) + 1
<1>1. n \notin DOMAIN t
  <2>1. CASE DOMAIN t = {}
    BY <2>1
  <2>2. CASE DOMAIN t # {}
    <3>1. Max(DOMAIN t) \in DOMAIN t /\ \A c \in DOMAIN t : c <= Max(DOMAIN t)
      BY <2>2, LargestId
    <3>2. Max(DOMAIN t) \in Nat
      BY <3>1, AcademyAssumption
    <3>3. Max(DOMAIN t) + 1 \notin DOMAIN t
      BY <3>1, <3>2
    <3>4. QED
      BY <2>2, <3>3
  <2>3. QED
    BY <2>1, <2>2
<1>2. NewClass(t, save, year, automatic)
         = With(t, n, [save |-> save, year |-> year, automatic |-> automatic])
  BY DEF NewClass
<1> HIDE DEF n
<1>3. QED
  BY <1>1, <1>2

(* What a table of classes keeps when one is added, or taken over.          *)
Grown(t, r, save) ==
    /\ Classes(r) /\ OneAYear(r)
    /\ DOMAIN t \subseteq DOMAIN r
    /\ \A c \in DOMAIN t : r[c].save = t[c].save
    /\ \A c \in DOMAIN r \ DOMAIN t : r[c].save = save

LEMMA ClassAdded ==
    ASSUME NEW t, Classes(t), OneAYear(t), DOMAIN t \subseteq 1..MaxClass,
           NEW save \in Ids, NEW year \in Nat, NEW automatic \in BOOLEAN,
           ClassOf(t, save, year) = {}
    PROVE  /\ Grown(t, NewClass(t, save, year, automatic), save)
           /\ \A s : AutomaticYears(NewClass(t, save, year, automatic), s) =
                 AutomaticYears(t, s) \cup (IF s = save /\ automatic THEN {year} ELSE {})
<1>1. PICK n : /\ n \notin DOMAIN t
               /\ NewClass(t, save, year, automatic)
                     = With(t, n, [save |-> save, year |-> year, automatic |-> automatic])
  BY NewClassRows
<1> DEFINE r == NewClass(t, save, year, automatic)
<1>2. /\ DOMAIN r = DOMAIN t \cup {n}
      /\ r[n] = [save |-> save, year |-> year, automatic |-> automatic]
      /\ \A c \in DOMAIN t : r[c] = t[c]
      /\ r = [c \in DOMAIN r |-> r[c]]
  BY <1>1 DEF With
<1>3. /\ r[n] \in Class
      /\ r[n].save = save /\ r[n].year = year /\ r[n].automatic = automatic
  BY <1>2 DEF Class
<1> HIDE DEF r
<1>4. Classes(r)
  BY <1>2, <1>3 DEF Classes
<1>5. OneAYear(r)
  BY <1>2, <1>3 DEF OneAYear, ClassOf
<1>6. Grown(t, r, save)
  BY <1>1, <1>2, <1>3, <1>4, <1>5 DEF Grown
<1>7. ASSUME NEW s
      PROVE  AutomaticYears(r, s) =
                AutomaticYears(t, s) \cup (IF s = save /\ automatic THEN {year} ELSE {})
  <2>1. {k \in DOMAIN r : r[k].save = s /\ r[k].automatic}
           = {k \in DOMAIN t : t[k].save = s /\ t[k].automatic}
             \cup (IF s = save /\ automatic THEN {n} ELSE {})
    BY <1>1, <1>2, <1>3
  <2>2. QED
    BY <1>2, <1>3, <2>1 DEF AutomaticYears
<1>8. QED
  BY <1>6, <1>7 DEF r

LEMMA AutomaticKeeps ==
    ASSUME NEW t, Classes(t), OneAYear(t), DOMAIN t \subseteq 1..MaxClass,
           NEW save \in Ids, NEW year \in Nat
    PROVE  /\ Grown(t, Automatic(t, save, year), save)
           /\ \A s : AutomaticYears(Automatic(t, save, year), s) =
                 AutomaticYears(t, s) \cup (IF s = save THEN {year} ELSE {})
<1>1. CASE ClassOf(t, save, year) = {}
  <2>1. PICK yes \in BOOLEAN : yes = TRUE
    OBVIOUS
  <2>2. Automatic(t, save, year) = NewClass(t, save, year, yes)
    BY <1>1, <2>1 DEF Automatic
  <2>3. /\ Grown(t, NewClass(t, save, year, yes), save)
        /\ \A s : AutomaticYears(NewClass(t, save, year, yes), s) =
              AutomaticYears(t, s) \cup (IF s = save /\ yes THEN {year} ELSE {})
    BY <1>1, ClassAdded
  <2>4. QED
    BY <2>1, <2>2, <2>3
<1>2. CASE ClassOf(t, save, year) # {}
  <2> DEFINE r == Automatic(t, save, year)
  <2>1. PICK n \in DOMAIN t : t[n].save = save /\ t[n].year = year
    BY <1>2 DEF ClassOf
  <2>2. r = [c \in DOMAIN t |-> IF c \in ClassOf(t, save, year)
                               THEN [t[c] EXCEPT !.automatic = TRUE] ELSE t[c]]
    BY <1>2 DEF Automatic
  <2>3. /\ DOMAIN r = DOMAIN t
        /\ \A c \in DOMAIN t :
              /\ r[c] \in Class
              /\ r[c].save = t[c].save /\ r[c].year = t[c].year
              /\ r[c].automatic = (t[c].automatic \/ c \in ClassOf(t, save, year))
    <3>1. ASSUME NEW c \in DOMAIN t
          PROVE  /\ r[c] \in Class
                 /\ r[c].save = t[c].save /\ r[c].year = t[c].year
                 /\ r[c].automatic = (t[c].automatic \/ c \in ClassOf(t, save, year))
      <4>1. t[c] \in Class
        BY DEF Classes
      <4>2. CASE c \in ClassOf(t, save, year)
        BY <2>2, <4>1, <4>2 DEF Class
      <4>3. CASE c \notin ClassOf(t, save, year)
        BY <2>2, <4>1, <4>3 DEF Class
      <4>4. QED
        BY <4>2, <4>3
    <3>2. QED
      BY <2>2, <3>1
  <2>4. Classes(r)
    BY <2>2, <2>3 DEF Classes
  <2> HIDE DEF r
  <2>5. Grown(t, r, save)
    BY <2>3, <2>4 DEF Grown, OneAYear
  <2>6. ASSUME NEW s
        PROVE  AutomaticYears(r, s) = AutomaticYears(t, s) \cup (IF s = save THEN {year} ELSE {})
    <3>1. \A c \in DOMAIN t : c \in ClassOf(t, save, year) <=> c = n
      BY <2>1 DEF ClassOf, OneAYear
    <3>2. {k \in DOMAIN r : r[k].save = s /\ r[k].automatic}
             = {k \in DOMAIN t : t[k].save = s /\ t[k].automatic}
               \cup (IF s = save THEN {n} ELSE {})
      BY <2>1, <2>3, <3>1
    <3>3. QED
      BY <2>1, <2>3, <3>2 DEF AutomaticYears
  <2>7. QED
    BY <2>5, <2>6 DEF r
<1>3. QED
  BY <1>1, <1>2

LEMMA GrownStaysConsistent ==
    ASSUME NEW t, NEW r, NEW save, Grown(t, r, save), NEW s, NEW m,
           m \in DOMAIN t, t[m].save = s
    PROVE  m \in DOMAIN r /\ r[m].save = s
BY DEF Grown

-----------------------------------------------------------------------------
(* The commands of the academy leave the store and the automatic classes.   *)
LEMMA ActiveSaveIsThere ==
    ASSUME IInv, DOMAIN saves # {}
    PROVE  ActiveSave \in DOMAIN saves
BY DEF IInv, OneSaveIsActive, ActiveSave

SameYears == \A s : AutomaticYears(classes', s) = AutomaticYears(classes, s)

LEMMA CommandKeeps == AcademyInv /\ AcademyCommand => AcademyInv' /\ SameYears
<1> SUFFICES ASSUME AcademyInv, AcademyCommand PROVE AcademyInv' /\ SameYears
  OBVIOUS
<1>1. vars' = vars
  BY DEF AcademyCommand, SetManagedClub, CreateClass, DeleteClass, AssignMember,
     RemoveMember, SetMemberOutcome
<1>2. IInv' /\ saves' = saves
  BY <1>1, StoreGoesOn DEF AcademyInv, vars
<1>3. ActiveSave \in DOMAIN saves /\ ActiveSave \in Ids
  BY ActiveSaveIsThere DEF AcademyCommand, AcademyInv, IInv, TypeOK
<1>4. CASE SetManagedClub
  <2>1. PICK c : managed' = [managed EXCEPT ![ActiveSave] = c]
    BY <1>4 DEF SetManagedClub
  <2>2. UNCHANGED <<classes, members, outcomes>>
    BY <1>4 DEF SetManagedClub
  <2>3. DOMAIN managed' = DOMAIN managed
    BY <2>1
  <2>4. QED
    BY <1>2, <2>2, <2>3 DEF AcademyInv, AcademyTables, AcademyIsConsistent, SameYears
<1>5. CASE CreateClass
  <2>1. PICK year \in Dates : /\ ClassOf(classes, ActiveSave, year) = {}
                              /\ classes' = NewClass(classes, ActiveSave, year, FALSE)
    BY <1>5 DEF CreateClass
  <2>2. DOMAIN classes' \subseteq 1..MaxClass /\ UNCHANGED <<managed, members, outcomes>>
    BY <1>5 DEF CreateClass
  <2>3. PICK no \in BOOLEAN : no = FALSE
    OBVIOUS
  <2>4. year \in Nat /\ classes' = NewClass(classes, ActiveSave, year, no)
    BY <2>1, <2>3, DatesAssumption
  <2>5. Classes(classes) /\ OneAYear(classes) /\ DOMAIN classes \subseteq 1..MaxClass
    BY DEF AcademyInv, AcademyTables, AcademyIsConsistent, OneAYear
  <2>6. /\ Grown(classes, classes', ActiveSave)
        /\ \A s : AutomaticYears(classes', s) = AutomaticYears(classes, s)
                     \cup (IF s = ActiveSave /\ no THEN {year} ELSE {})
    <3> DEFINE new == NewClass(classes, ActiveSave, year, no)
    <3>1. /\ Grown(classes, new, ActiveSave)
          /\ \A s : AutomaticYears(new, s) = AutomaticYears(classes, s)
                       \cup (IF s = ActiveSave /\ no THEN {year} ELSE {})
      BY <1>3, <2>1, <2>4, <2>5, ClassAdded
    <3> HIDE DEF new
    <3>2. classes' = new
      BY <2>4 DEF new
    <3>3. QED
      BY <3>1, <3>2
  <2>7. SameYears
    BY <2>3, <2>6 DEF SameYears
  <2>8. AcademyTables'
    BY <1>2, <2>2, <2>6 DEF AcademyInv, AcademyTables, Grown
  <2>9. AcademyIsConsistent'
    BY <1>2, <1>3, <2>2, <2>6, <2>7
    DEF AcademyInv, AcademyTables, AcademyIsConsistent, Grown, OneAYear, SameYears
  <2>10. QED
    BY <1>2, <2>7, <2>8, <2>9 DEF AcademyInv
<1>6. CASE DeleteClass
  <2>1. PICK c \in DOMAIN classes :
           /\ ~classes[c].automatic
           /\ classes' = Without(classes, {c})
           /\ members' = Without(members, {m \in DOMAIN members : members[m] = c})
    BY <1>6 DEF DeleteClass
  <2>2. DOMAIN outcomes' \subseteq DOMAIN members' /\ managed' = managed
    BY <1>6 DEF DeleteClass
  <2>3. /\ DOMAIN classes' = DOMAIN classes \ {c}
        /\ \A d \in DOMAIN classes' : classes'[d] = classes[d]
        /\ Classes(classes')
    BY <2>1 DEF Without, AcademyInv, AcademyTables, Classes
  <2>4. /\ DOMAIN members' = {m \in DOMAIN members : members[m] # c}
        /\ \A m \in DOMAIN members' : members'[m] = members[m]
    BY <2>1 DEF Without
  <2>5. ASSUME NEW s PROVE AutomaticYears(classes', s) = AutomaticYears(classes, s)
    <3>1. {k \in DOMAIN classes' : classes'[k].save = s /\ classes'[k].automatic}
             = {k \in DOMAIN classes : classes[k].save = s /\ classes[k].automatic}
      BY <2>1, <2>3
    <3>2. QED
      BY <2>3, <3>1 DEF AutomaticYears
  <2>6. AcademyTables'
    BY <1>2, <2>2, <2>3 DEF AcademyInv, AcademyTables
  <2>7. AcademyIsConsistent'
    BY <1>2, <2>2, <2>3, <2>4, <2>5 DEF AcademyInv, AcademyIsConsistent
  <2>8. QED
    BY <1>2, <2>5, <2>6, <2>7 DEF AcademyInv, SameYears
<1>7. CASE AssignMember
  <2>1. PICK p \in Youngsters, c \in DOMAIN classes :
           classes[c].save = ActiveSave /\ members' = With(members, <<ActiveSave, p>>, c)
    BY <1>7 DEF AssignMember
  <2>2. UNCHANGED <<managed, classes, outcomes>>
    BY <1>7 DEF AssignMember
  <2>3. /\ DOMAIN members' = DOMAIN members \cup {<<ActiveSave, p>>}
        /\ \A m \in DOMAIN members' :
              \/ m = <<ActiveSave, p>> /\ members'[m] = c
              \/ m \in DOMAIN members /\ members'[m] = members[m]
    BY <2>1 DEF With
  <2>4. QED
    BY <1>2, <2>1, <2>2, <2>3 DEF AcademyInv, AcademyTables, AcademyIsConsistent, SameYears
<1>8. CASE RemoveMember
  <2>1. PICK m \in DOMAIN members : members' = Without(members, {m})
                                    /\ outcomes' = Without(outcomes, {m})
    BY <1>8 DEF RemoveMember
  <2>2. UNCHANGED <<managed, classes>>
    BY <1>8 DEF RemoveMember
  <2>3. /\ DOMAIN members' = DOMAIN members \ {m}
        /\ DOMAIN outcomes' = DOMAIN outcomes \ {m}
        /\ \A k \in DOMAIN members' : members'[k] = members[k]
    BY <2>1 DEF Without
  <2>4. QED
    BY <1>2, <2>2, <2>3 DEF AcademyInv, AcademyTables, AcademyIsConsistent, SameYears
<1>9. CASE SetMemberOutcome
  <2>1. PICK m \in DOMAIN members :
           \/ \E o : outcomes' = With(outcomes, m, o)
           \/ outcomes' = Without(outcomes, {m})
    BY <1>9 DEF SetMemberOutcome
  <2>2. UNCHANGED <<managed, classes, members>>
    BY <1>9 DEF SetMemberOutcome
  <2>3. DOMAIN outcomes' \subseteq DOMAIN outcomes \cup {m}
    BY <2>1 DEF With, Without
  <2>4. QED
    BY <1>2, <2>2, <2>3 DEF AcademyInv, AcademyTables, AcademyIsConsistent, SameYears
<1>10. QED
  BY <1>4, <1>5, <1>6, <1>7, <1>8, <1>9 DEF AcademyCommand

-----------------------------------------------------------------------------
(* What a step of the store shows: the dates, if they count, of a snapshot  *)
(* that has become the current one of the save.                             *)
Shown(s) ==
    {snaps'[i].date : i \in
        {j \in CurrentOf(snaps', s) \cap trusted' :
            /\ snaps'[j].date >= BaselineYear
            /\ \A k \in CurrentOf(snaps, s) : snaps[k].token # snaps'[j].token}}

Redated ==
    \E i \in DOMAIN snaps \cap DOMAIN snaps' :
        snaps[i].token = snaps'[i].token /\ snaps[i].date # snaps'[i].date

LEMMA NoneShown ==
    ASSUME NEW s,
           \A j \in CurrentOf(snaps', s) :
               j \in CurrentOf(snaps, s) /\ snaps'[j].token = snaps[j].token
    PROVE  Shown(s) = {}
BY DEF Shown

LEMMA NothingShown == snaps' = snaps => \A s : Shown(s) = {}
BY NoneShown

(* A save has one current snapshot.                                         *)
LEMMA OneIsCurrent ==
    ASSUME NEW t, Rows(t), FlagsAreRight(t), NEW s,
           NEW i \in CurrentOf(t, s), NEW j \in CurrentOf(t, s)
    PROVE  i = j
<1>1. /\ i \in DOMAIN t /\ t[i].save = s /\ IsFirst(t, i)
      /\ j \in DOMAIN t /\ t[j].save = s /\ IsFirst(t, j)
  BY DEF CurrentOf, Of, FlagsAreRight
<1>2. \A k \in DOMAIN t : k \in Nat /\ t[k].date \in Nat /\ t[k].loaded \in Nat
  BY DatesAssumption, TimesAssumption, BoundsAssumption
  DEF Rows, Snapshots, Ids, NoDate
<1>3. ASSUME i # j PROVE FALSE
  <2>1. Precedes(t, i, j) /\ Precedes(t, j, i)
    BY <1>1, <1>3 DEF IsFirst, Of
  <2>2. QED
    BY <1>1, <1>2, <2>1 DEF Precedes
<1>4. QED
  BY <1>3

(* Publishing and deleting: the class of the year that is shown is there    *)
(* afterwards, and none but that is new.                                    *)
LEMMA ObservedFollows ==
    ASSUME AcademyInv, IInv', NEW v \in DOMAIN saves,
           SameRows(snaps', snaps), SameBut(snaps', snaps, v),
           classes' = ObservedIn(classes, snaps', trusted', v)
    PROVE  /\ Grown(classes, classes', v)
           /\ \A s : AutomaticYears(classes', s) = AutomaticYears(classes, s) \cup Shown(s)
<1> DEFINE now == CurrentOf(snaps', v)
           tokens == {snaps[i].token : i \in CurrentOf(snaps, v)}
           promoted == {i \in now : snaps'[i].token \notin tokens}
<1>1. Classes(classes) /\ OneAYear(classes) /\ DOMAIN classes \subseteq 1..MaxClass
  BY DEF AcademyInv, AcademyTables, AcademyIsConsistent, OneAYear
<1>2. v \in Ids
  BY DEF AcademyInv, IInv, TypeOK
<1>3. ASSUME NEW s, s # v PROVE Shown(s) = {}
  <2>1. \A j \in CurrentOf(snaps', s) :
           j \in CurrentOf(snaps, s) /\ snaps'[j].token = snaps[j].token
    BY <1>3 DEF CurrentOf, Of, SameBut
  <2>2. QED
    BY <2>1, NoneShown
<1>4. Grown(classes, classes, v)
  BY <1>1 DEF Grown
<1>5. \A j \in now : j \in promoted <=>
         \A k \in CurrentOf(snaps, v) : snaps[k].token # snaps'[j].token
  OBVIOUS
<1>6. CASE promoted = {}
  <2>1. classes' = classes
    BY <1>6 DEF ObservedIn
  <2>2. Shown(v) = {}
    BY <1>5, <1>6 DEF Shown
  <2>3. QED
    BY <1>3, <1>4, <2>1, <2>2
<1>7. CASE promoted # {}
  <2> DEFINE i == CHOOSE j \in promoted : TRUE
  <2>1. i \in promoted
    BY <1>7
  <2>2. classes' = Observed(classes, v, snaps'[i].date, i \in trusted')
    BY <1>7 DEF ObservedIn
  <2> HIDE DEF i
  <2>3. \A j \in now : j = i
    <3>0. Rows(snaps') /\ FlagsAreRight(snaps')
      BY DEF IInv, TypeOK, Rows
    <3>1. i \in now
      BY <2>1
    <3>2. \A j \in CurrentOf(snaps', v) : j = i
      BY <3>1, <3>0, OneIsCurrent
    <3>3. QED
      BY <3>2
  <2>4. snaps'[i].date \in Nat
    <3>1. i \in DOMAIN snaps'
      BY <2>1 DEF CurrentOf, Of
    <3>2. QED
      BY <3>1, DatesAssumption DEF IInv, TypeOK, Snapshots, NoDate
  <2>5. {j \in now \cap trusted' :
            /\ snaps'[j].date >= BaselineYear
            /\ \A k \in CurrentOf(snaps, v) : snaps[k].token # snaps'[j].token}
           = IF i \in trusted' /\ snaps'[i].date >= BaselineYear THEN {i} ELSE {}
    BY <1>5, <2>1, <2>3
  <2>6. Shown(v) = IF i \in trusted' /\ snaps'[i].date >= BaselineYear
                   THEN {snaps'[i].date} ELSE {}
    BY <2>5 DEF Shown
  <2>7. CASE i \in trusted' /\ snaps'[i].date >= BaselineYear
    <3>1. classes' = Automatic(classes, v, snaps'[i].date)
      BY <2>2, <2>7 DEF Observed
    <3>2. /\ Grown(classes, classes', v)
          /\ \A s : AutomaticYears(classes', s) = AutomaticYears(classes, s)
                       \cup (IF s = v THEN {snaps'[i].date} ELSE {})
      BY <1>1, <1>2, <2>4, <3>1, AutomaticKeeps
    <3>3. QED
      BY <1>3, <2>6, <2>7, <3>2
  <2>8. CASE ~(i \in trusted' /\ snaps'[i].date >= BaselineYear)
    <3>1. classes' = classes
      BY <2>2, <2>8 DEF Observed
    <3>2. QED
      BY <1>3, <1>4, <2>6, <2>8, <3>1
  <2>9. QED
    BY <2>7, <2>8
<1>8. QED
  BY <1>6, <1>7

Follows ==
    \A s \in DOMAIN managed \cap DOMAIN managed' :
        saves[s].token = saves'[s].token =>
            AutomaticYears(classes', s) =
                AutomaticYears(classes, s) \cup (IF Redated THEN {} ELSE Shown(s))

LEMMA ObservingKeeps ==
    ASSUME AcademyInv, PublishAndObserve \/ DeleteAndObserve
    PROVE  AcademyInv' /\ Follows
<1>1. Publish \/ DeleteSnapshot
  BY DEF PublishAndObserve, DeleteAndObserve
<1>2. IInv /\ IInv' /\ saves' = saves
  BY <1>1, StoreGoesOn DEF AcademyInv, Next, Publish, DeleteSnapshot
<1> DEFINE v == IF Publish THEN asked.id ELSE snaps[seenSnap.id].save
<1>3. /\ v \in DOMAIN saves
      /\ SameRows(snaps', snaps) /\ SameDates(snaps', snaps) /\ SameBut(snaps', snaps, v)
  <2>1. CASE Publish
    BY <1>2, <2>1, PublishTokens DEF IsAskedFor, Matches
  <2>2. CASE ~Publish
    <3>1. DeleteSnapshot /\ seenSnap.id \in DOMAIN snaps
      BY <1>1, <2>2 DEF DeleteSnapshot, Matches
    <3>2. QED
      BY <1>2, <2>2, <3>1, DeleteTokens DEF IInv, SnapshotsHaveSaves
  <2>3. QED
    BY <2>1, <2>2
<1>4. classes' = ObservedIn(classes, snaps', trusted', v)
  <2>1. CASE Publish
    <3>1. nextToken' # nextToken
      BY <2>1, BoundsAssumption DEF Publish, AcademyInv, IInv, TypeOK
    <3>2. ~DeleteSnapshot
      BY <3>1 DEF DeleteSnapshot
    <3>3. QED
      BY <2>1, <3>2 DEF PublishAndObserve, DeleteAndObserve
  <2>2. CASE ~Publish
    BY <2>2 DEF PublishAndObserve, DeleteAndObserve
  <2>3. QED
    BY <2>1, <2>2
<1> HIDE DEF v
<1>5. /\ Grown(classes, classes', v)
      /\ \A s : AutomaticYears(classes', s) = AutomaticYears(classes, s) \cup Shown(s)
  BY <1>2, <1>3, <1>4, ObservedFollows
<1>6. DOMAIN classes' \subseteq 1..MaxClass /\ UNCHANGED <<managed, members, outcomes>>
  BY DEF PublishAndObserve, DeleteAndObserve
<1>7. AcademyTables'
  BY <1>2, <1>5, <1>6 DEF AcademyInv, AcademyTables, Grown
<1>8. AcademyIsConsistent'
  <2>1. \A s \in DOMAIN managed' : BaselineYear \in AutomaticYears(classes', s)
    BY <1>5, <1>6 DEF AcademyInv, AcademyIsConsistent
  <2>2. \A c \in DOMAIN classes' : classes'[c].save \in DOMAIN saves'
    BY <1>2, <1>3, <1>5 DEF AcademyInv, AcademyIsConsistent, Grown
  <2>3. \A m \in DOMAIN members' :
           members'[m] \in DOMAIN classes' /\ classes'[members'[m]].save = m[1]
    BY <1>5, <1>6 DEF AcademyInv, AcademyIsConsistent, Grown
  <2>4. QED
    BY <1>5, <1>6, <2>1, <2>2, <2>3 DEF AcademyInv, AcademyIsConsistent, Grown, OneAYear
<1>9. ~Redated
  BY <1>3 DEF Redated, SameDates
<1>10. QED
  BY <1>2, <1>5, <1>7, <1>8, <1>9 DEF AcademyInv, Follows

-----------------------------------------------------------------------------
(* What re-dates, switches, lists or loads makes no class.                  *)
LEMMA StoreAloneKeeps ==
    ASSUME AcademyInv, StoreAlone
    PROVE  AcademyInv' /\ Follows
<1>1. Next /\ UNCHANGED academyTables
  BY DEF StoreAlone, Next
<1>2. IInv /\ IInv'
  BY <1>1, StoreGoesOn DEF AcademyInv
<1>3. DOMAIN saves' = DOMAIN saves
  BY DEF StoreAlone, List, SetActiveSave, StartLoad, FinishScan, EndLoad,
     UpdateSnapshotGameDate, Activated
<1>4. AcademyInv'
  BY <1>1, <1>2, <1>3 DEF academyTables, AcademyInv, AcademyTables, AcademyIsConsistent
<1>5. CASE UpdateSnapshotGameDate
  <2> DEFINE k == seenSnap.id
  <2>1. k \in DOMAIN snaps
    BY <1>5 DEF UpdateSnapshotGameDate, Matches
  <2>2. PICK d \in Dates : snaps' = Selected([snaps EXCEPT ![k].date = d], snaps[k].save)
    BY <1>5 DEF UpdateSnapshotGameDate, Reselect
  <2> DEFINE r == [snaps EXCEPT ![k].date = d]
  <2>3. /\ Rows(snaps) /\ Rows(r)
        /\ DOMAIN r = DOMAIN snaps
        /\ r[k].date = d /\ r[k].token = snaps[k].token
    BY <1>2, <2>1 DEF IInv, TypeOK, Rows, Snapshots
  <2>4. CASE snaps[k].date = d
    <3>1. r = snaps
      BY <2>1, <2>4, <1>2 DEF IInv, TypeOK, Snapshots
    <3>2. snaps' = Selected(snaps, snaps[k].save)
      BY <2>2, <3>1
    <3>3. \A i \in DOMAIN snaps :
             /\ snaps'[i].save = snaps[i].save /\ snaps'[i].token = snaps[i].token
             /\ snaps'[i].current <=> snaps[i].current
      BY <1>2, <2>3, <3>2, SelectedRows DEF IInv, FlagsAreRight
    <3>4. DOMAIN snaps' = DOMAIN snaps
      BY <2>3, <3>2, SelectedRows
    <3>5. ASSUME NEW s PROVE Shown(s) = {}
      <4>1. \A j \in CurrentOf(snaps', s) :
               j \in CurrentOf(snaps, s) /\ snaps'[j].token = snaps[j].token
        BY <3>3, <3>4 DEF CurrentOf, Of
      <4>2. QED
        BY <4>1, NoneShown
    <3>6. QED
      BY <1>1, <1>4, <3>5 DEF academyTables, Follows
  <2>5. CASE snaps[k].date # d
    <3>1. snaps' = Selected(r, snaps[k].save)
      BY <2>2
    <3> HIDE DEF r
    <3>2. DOMAIN snaps' = DOMAIN r /\ snaps'[k].date = d /\ snaps'[k].token = snaps[k].token
      BY <2>1, <2>3, <3>1, SelectedRows
    <3>3. Redated
      BY <2>1, <2>3, <2>5, <3>2 DEF Redated
    <3>4. QED
      BY <1>1, <1>4, <3>3 DEF academyTables, Follows
  <2>6. QED
    BY <2>4, <2>5
<1>6. CASE ~UpdateSnapshotGameDate
  <2>1. snaps' = snaps
    BY <1>6 DEF StoreAlone, List, SetActiveSave, StartLoad, FinishScan, EndLoad
  <2>2. \A s : Shown(s) = {}
    BY <2>1, NothingShown
  <2>3. QED
    BY <1>1, <1>4, <2>2 DEF academyTables, Follows
<1>7. QED
  BY <1>5, <1>6

-----------------------------------------------------------------------------
(* One save at most is new after one command, and none that was replaced is *)
(* both old and new.                                                        *)
LEMMA SavesOfAStep ==
    ASSUME IInv, EnsureDefault \/ CreateSave \/ DeleteSave
    PROVE  /\ \A a, b \in NewSaves : a = b
           /\ \A i \in DOMAIN snaps' : i \in DOMAIN snaps /\ snaps'[i] = snaps[i]
<1>1. CASE EnsureDefault \/ CreateSave
  <2>1. PICK n \in Ids : \E row : saves' = With(saves, n, row)
    BY <1>1 DEF EnsureDefault, CreateSave
  <2>2. \A s \in DOMAIN saves' : s = n \/ (s \in DOMAIN saves /\ saves'[s] = saves[s])
    BY <2>1 DEF With
  <2>3. \A s \in NewSaves : s = n
    BY <2>2 DEF NewSaves
  <2>4. snaps' = snaps
    BY <1>1 DEF EnsureDefault, CreateSave
  <2>5. QED
    BY <2>3, <2>4
<1>2. CASE DeleteSave
  <2> DEFINE rest == Without(saves, {seenSave.id})
  <2>1. \A s \in DOMAIN rest : /\ s \in DOMAIN saves /\ rest[s] = saves[s]
                               /\ saves[s] \in Saves
    BY DEF Without, IInv, TypeOK
  <2>2. \A i \in DOMAIN snaps' : i \in DOMAIN snaps /\ snaps'[i] = snaps[i]
    BY <1>2 DEF DeleteSave, Without
  <2>3. \/ saves' = rest
        \/ \E k \in DOMAIN rest : saves' = Activated(rest, k)
        \/ DOMAIN rest = {} /\ \E n \in Ids : \E row : saves' = With(rest, n, row)
    BY <1>2 DEF DeleteSave
  <2> HIDE DEF rest
  <2>4. CASE saves' = rest
    BY <2>1, <2>2, <2>4 DEF NewSaves
  <2>5. CASE \E k \in DOMAIN rest : saves' = Activated(rest, k)
    <3>1. \A s \in DOMAIN saves' : s \in DOMAIN rest /\ saves'[s].token = rest[s].token
      BY <2>1, <2>5 DEF Activated, Saves
    <3>2. QED
      BY <2>1, <2>2, <3>1 DEF NewSaves
  <2>6. CASE DOMAIN rest = {} /\ \E n \in Ids : \E row : saves' = With(rest, n, row)
    <3>1. PICK n : DOMAIN saves' = {n}
      BY <2>6 DEF With
    <3>2. QED
      BY <2>2, <3>1 DEF NewSaves
  <2>7. QED
    BY <2>3, <2>4, <2>5, <2>6
<1>3. QED
  BY <1>1, <1>2

LEMMA SavesChangeKeeps ==
    ASSUME AcademyInv, SavesChange
    PROVE  AcademyInv' /\ Follows
<1>1. EnsureDefault \/ CreateSave \/ DeleteSave
  BY DEF SavesChange
<1>2. IInv /\ IInv'
  BY <1>1, StoreGoesOn DEF AcademyInv, Next
<1>3. /\ \A a, b \in NewSaves : a = b
      /\ \A i \in DOMAIN snaps' : i \in DOMAIN snaps /\ snaps'[i] = snaps[i]
  BY <1>1, <1>2, SavesOfAStep
<1> DEFINE rest == Without(classes, {c \in DOMAIN classes : classes[c].save \in GoneSaves})
           new == CHOOSE s \in NewSaves : TRUE
<1>4. /\ classes' = IF NewSaves = {} THEN rest ELSE Automatic(rest, new, BaselineYear)
      /\ DOMAIN classes' \subseteq 1..MaxClass
      /\ DOMAIN managed' = DOMAIN saves'
      /\ members' = Without(members, {m \in DOMAIN members : m[1] \in GoneSaves})
      /\ outcomes' = Without(outcomes, {m \in DOMAIN outcomes : m[1] \in GoneSaves})
  BY DEF SavesChange
<1>5. NewSaves # {} => new \in NewSaves
  OBVIOUS
<1> HIDE DEF new
<1>6. /\ NewSaves \subseteq DOMAIN saves' /\ DOMAIN saves' \subseteq Ids
      /\ \A s \in DOMAIN saves : s \notin GoneSaves => s \in DOMAIN saves'
      /\ \A s \in DOMAIN saves' : s \notin NewSaves => s \in DOMAIN saves /\ s \notin GoneSaves
  BY <1>2 DEF NewSaves, GoneSaves, IInv, TypeOK
<1>7. /\ DOMAIN rest = {c \in DOMAIN classes : classes[c].save \notin GoneSaves}
      /\ \A c \in DOMAIN rest : rest[c] = classes[c]
      /\ Classes(rest)
  BY DEF Without, AcademyInv, AcademyTables, Classes
<1> HIDE DEF rest
<1>8. OneAYear(rest) /\ DOMAIN rest \subseteq 1..MaxClass
  BY <1>7 DEF AcademyInv, AcademyTables, AcademyIsConsistent, OneAYear
<1>9. ASSUME NEW s, s \notin GoneSaves
      PROVE  AutomaticYears(rest, s) = AutomaticYears(classes, s)
  <2>1. {k \in DOMAIN rest : rest[k].save = s /\ rest[k].automatic}
           = {k \in DOMAIN classes : classes[k].save = s /\ classes[k].automatic}
    BY <1>7, <1>9
  <2>2. QED
    BY <1>7, <2>1 DEF AutomaticYears
<1>10. /\ Grown(rest, classes', new)
       /\ \A s \in DOMAIN saves' : AutomaticYears(classes', s) =
             AutomaticYears(rest, s) \cup (IF s \in NewSaves THEN {BaselineYear} ELSE {})
       /\ NewSaves = {} => DOMAIN classes' = DOMAIN rest
  <2>1. CASE NewSaves = {}
    BY <1>4, <1>7, <1>8, <2>1 DEF Grown
  <2>2. CASE NewSaves # {}
    <3>1. new \in Ids /\ BaselineYear \in Nat
      BY <1>5, <1>6, <2>2, AcademyAssumption
    <3>2. /\ Grown(rest, Automatic(rest, new, BaselineYear), new)
          /\ \A s : AutomaticYears(Automatic(rest, new, BaselineYear), s) =
                AutomaticYears(rest, s) \cup (IF s = new THEN {BaselineYear} ELSE {})
      BY <1>7, <1>8, <3>1, AutomaticKeeps
    <3>3. classes' = Automatic(rest, new, BaselineYear)
      BY <1>4, <2>2
    <3>4. \A s : s \in NewSaves <=> s = new
      BY <1>3, <1>5, <2>2
    <3>5. QED
      BY <2>2, <3>2, <3>3, <3>4
  <2>3. QED
    BY <2>1, <2>2
<1>11. AcademyTables'
  BY <1>4, <1>10 DEF AcademyTables, Grown
<1>12. AcademyIsConsistent'
  <2>1. ASSUME NEW s \in DOMAIN managed'
        PROVE  BaselineYear \in AutomaticYears(classes', s)
    <3>1. CASE s \in NewSaves
      BY <1>4, <1>10, <3>1
    <3>2. CASE s \notin NewSaves
      <4>1. s \in DOMAIN managed /\ s \notin GoneSaves
        BY <1>4, <1>6, <3>2 DEF AcademyInv, AcademyTables
      <4>2. BaselineYear \in AutomaticYears(rest, s)
        BY <1>9, <4>1 DEF AcademyInv, AcademyIsConsistent
      <4>3. QED
        BY <1>4, <1>10, <4>2
    <3>3. QED
      BY <3>1, <3>2
  <2>2. ASSUME NEW c \in DOMAIN classes'
        PROVE  classes'[c].save \in DOMAIN saves'
    <3>1. CASE c \in DOMAIN rest
      <4>1. classes'[c].save = classes[c].save /\ classes[c].save \notin GoneSaves
        BY <1>7, <1>10, <3>1 DEF Grown
      <4>2. classes[c].save \in DOMAIN saves
        BY <1>7, <3>1 DEF AcademyInv, AcademyIsConsistent
      <4>3. QED
        BY <1>6, <4>1, <4>2
    <3>2. CASE c \notin DOMAIN rest
      BY <1>5, <1>6, <1>10, <3>2 DEF Grown
    <3>3. QED
      BY <3>1, <3>2
  <2>3. /\ DOMAIN members' = {m \in DOMAIN members : m[1] \notin GoneSaves}
        /\ \A m \in DOMAIN members' : members'[m] = members[m]
        /\ DOMAIN outcomes' = {m \in DOMAIN outcomes : m[1] \notin GoneSaves}
    BY <1>4 DEF Without
  <2>4. ASSUME NEW m \in DOMAIN members'
        PROVE  members'[m] \in DOMAIN classes' /\ classes'[members'[m]].save = m[1]
    <3>1. /\ members'[m] = members[m] /\ m[1] \notin GoneSaves
          /\ members[m] \in DOMAIN classes /\ classes[members[m]].save = m[1]
      BY <2>3 DEF AcademyInv, AcademyIsConsistent
    <3>2. members[m] \in DOMAIN rest /\ rest[members[m]].save = m[1]
      BY <1>7, <3>1
    <3>3. QED
      BY <1>10, <3>1, <3>2 DEF Grown
  <2>5. DOMAIN outcomes' \subseteq DOMAIN members'
    BY <2>3 DEF AcademyInv, AcademyIsConsistent
  <2>6. QED
    BY <1>10, <2>1, <2>2, <2>4, <2>5 DEF AcademyIsConsistent, Grown, OneAYear
<1>13. Follows
  <2> SUFFICES ASSUME NEW s \in DOMAIN managed \cap DOMAIN managed',
                      saves[s].token = saves'[s].token
               PROVE  /\ AutomaticYears(classes', s) = AutomaticYears(classes, s)
                      /\ Shown(s) = {}
    BY DEF Follows
  <2>1. s \in DOMAIN saves /\ s \in DOMAIN saves'
    BY <1>4 DEF AcademyInv, AcademyTables
  <2>2. s \notin NewSaves /\ s \notin GoneSaves
    BY <2>1 DEF NewSaves, GoneSaves
  <2>3. \A j \in CurrentOf(snaps', s) :
           j \in CurrentOf(snaps, s) /\ snaps'[j].token = snaps[j].token
    BY <1>3 DEF CurrentOf, Of
  <2>4. QED
    BY <1>9, <1>10, <2>1, <2>2, <2>3, NoneShown
<1>14. QED
  BY <1>2, <1>11, <1>12, <1>13 DEF AcademyInv

-----------------------------------------------------------------------------
LEMMA AcademyStep == AcademyInv /\ [AcademyNext]_academyVars => AcademyInv' /\ Follows
<1> SUFFICES ASSUME AcademyInv, [AcademyNext]_academyVars PROVE AcademyInv' /\ Follows
  OBVIOUS
<1>1. CASE AcademyCommand
  <2>1. AcademyInv' /\ SameYears
    BY <1>1, CommandKeeps
  <2>2. snaps' = snaps
    BY <1>1 DEF AcademyCommand, SetManagedClub, CreateClass, DeleteClass, AssignMember,
       RemoveMember, SetMemberOutcome, vars
  <2>3. QED
    BY <2>1, <2>2, NothingShown DEF Follows, SameYears
<1>2. CASE UNCHANGED academyVars
  <2>1. UNCHANGED vars /\ UNCHANGED academyTables
    BY <1>2 DEF academyVars
  <2>2. IInv' /\ snaps' = snaps /\ saves' = saves
    BY <2>1, StoreGoesOn DEF AcademyInv, vars
  <2>3. AcademyInv'
    BY <2>1, <2>2 DEF academyTables, AcademyInv, AcademyTables, AcademyIsConsistent
  <2>4. QED
    BY <2>1, <2>2, <2>3, NothingShown DEF Follows, academyTables
<1>3. QED
  BY <1>1, <1>2, StoreAloneKeeps, SavesChangeKeeps, ObservingKeeps DEF AcademyNext

(* Every save has its first class, one class a year and members of its own, *)
(* and an automatic class is made exactly when a snapshot that shows its    *)
(* year becomes the current one by being loaded or promoted.                *)
THEOREM AcademyStaysTrue == AcademySpec => AcademyFollowsSnapshots
<1>1. AcademyInit => AcademyInv
  <2>1. AcademyInit => IInv
    BY InitHolds DEF AcademyInit
  <2>2. AcademyInit => AcademyTables /\ AcademyIsConsistent
    BY DEF AcademyInit, Init, AcademyTables, AcademyIsConsistent, Classes, Empty
  <2>3. QED
    BY <2>1, <2>2 DEF AcademyInv
<1>2. AcademyInv /\ [AcademyNext]_academyVars => AcademyInv'
  BY AcademyStep
<1>3. AcademySpec => []AcademyInv
  BY <1>1, <1>2, PTL DEF AcademySpec
<1>4. AcademySpec => []AcademyIsConsistent
  BY <1>3, PTL DEF AcademyInv
<1>5. AcademyInv /\ [AcademyNext]_academyVars => [Follows]_academyVars
  BY AcademyStep
<1>6. AcademySpec => [][Follows]_academyVars
  BY <1>3, <1>5, PTL DEF AcademySpec
<1>7. Follows => \A s \in DOMAIN managed \cap DOMAIN managed' :
        LET same == saves[s].token = saves'[s].token
            shown == {snaps'[i].date : i \in
                         {j \in CurrentOf(snaps', s) \cap trusted' :
                             /\ snaps'[j].date >= BaselineYear
                             /\ \A k \in CurrentOf(snaps, s) :
                                   snaps[k].token # snaps'[j].token}}
            redated == \E i \in DOMAIN snaps \cap DOMAIN snaps' :
                          /\ snaps[i].token = snaps'[i].token
                          /\ snaps[i].date # snaps'[i].date
        IN  same => AutomaticYears(classes', s) =
                       AutomaticYears(classes, s) \cup (IF redated THEN {} ELSE shown)
  BY DEF Follows, Shown, Redated
<1>8. AcademySpec => AutomaticFollowsCurrent
  BY <1>6, <1>7, PTL DEF AutomaticFollowsCurrent
<1>9. QED
  BY <1>4, <1>8 DEF AcademyFollowsSnapshots
=============================================================================
