---------------------------- MODULE PlannerProofs ----------------------------
(***************************************************************************)
(* Theorems about Planner: its types, that the depth chart holds together  *)
(* and nothing is left of what is gone, that a plan places only those who  *)
(* may play and leaves nobody better out, that nothing is lost unasked, and*)
(* that the planner implements DepthChart; for any teams, lanes, people and*)
(* scores.                                                                 *)
(***************************************************************************)
EXTENDS Planner, FiniteSetTheorems, WellFoundedInduction, TLAPS

(* What is placed by a plan in a string it is not done with is in the one   *)
(* that is in turn, in a ranked lane it has filled.                         *)
PlanIsInTurn ==
    \A a \in tx.placed : a.by = "optimizer" /\ a.string \in tx.left =>
        InTurn(a.string) /\ a.lane \in tx.done /\ ranks[a.lane] # 0

PlanAgrees ==
    tx # NoTx =>
        /\ Manual(tx.placed) = Manual(placed)
        /\ tx.left \subseteq AllStrings
        /\ PlanIsInTurn

(* The inductive invariant.                                                 *)
IInv == TypeOK /\ ChartIsConsistent /\ PlanAgrees /\ PlannedAreEligible

-----------------------------------------------------------------------------
(* The tables.                                                              *)

LEMMA StringsAreIds ==
    ASSUME TypeOK
    PROVE  /\ AllStrings \subseteq Ids
           /\ \A t \in Teams : StringsOf(t) \subseteq AllStrings
<1>1. \A t \in Teams : strings[t] \in Seq(Ids)
  BY DEF TypeOK
<1>2. \A t \in Teams : \A k \in DOMAIN strings[t] : strings[t][k] \in Ids
  BY <1>1
<1> QED
  BY <1>2 DEF AllStrings, StringsOf

LEMMA SomeAreDistinct ==
    ASSUME NEW rows, NEW some \in SUBSET rows, Distinct(rows) PROVE Distinct(some)
BY DEF Distinct

LEMMA OneMoreIsDistinct ==
    ASSUME NEW rows, Distinct(rows), NEW s, NEW l, NEW p, NEW by,
           p \notin Players(rows), ~Taken(rows, s, l)
    PROVE  Distinct(rows \cup {Row(s, l, p, by)})
BY DEF Distinct, Players, Taken, Row

(* A string has a team and a place in it.                                   *)
LEMMA StringsHavePlaces ==
    ASSUME TypeOK, NEW s \in AllStrings
    PROVE  /\ TeamOf(s) \in Teams
           /\ s \in StringsOf(TeamOf(s))
           /\ PlaceOf(s) \in Nat
<1>1. \E t \in Teams : s \in StringsOf(t)
  BY DEF AllStrings
<1>2. TeamOf(s) \in Teams /\ s \in StringsOf(TeamOf(s))
  BY <1>1 DEF TeamOf
<1>3. \E k \in DOMAIN strings[TeamOf(s)] : strings[TeamOf(s)][k] = s
  BY <1>2 DEF StringsOf
<1>4. PlaceOf(s) \in DOMAIN strings[TeamOf(s)]
  BY <1>3 DEF PlaceOf
<1>5. DOMAIN strings[TeamOf(s)] \subseteq Nat
  BY <1>2 DEF TypeOK
<1> QED
  BY <1>2, <1>4, <1>5

LEMMA OneIsInTurn ==
    ASSUME TypeOK, tx.left \subseteq AllStrings, NEW s, NEW z, InTurn(s), InTurn(z)
    PROVE  s = z
<1> SUFFICES ASSUME s # z PROVE FALSE
  OBVIOUS
<1>1. s \in AllStrings /\ z \in AllStrings /\ Before(s, z) /\ Before(z, s)
  BY DEF InTurn
<1>2. /\ TeamOf(s) \in Teams /\ PlaceOf(s) \in Nat
      /\ TeamOf(z) \in Teams /\ PlaceOf(z) \in Nat
  BY <1>1, StringsHavePlaces
<1>3. Order[TeamOf(s)] \in Nat /\ Order[TeamOf(z)] \in Nat
  BY <1>2, PlannerAssumption
<1> QED
  BY <1>1, <1>2, <1>3 DEF Before

(* Chart is about the rows that are stored, plan about those of the         *)
(* transaction: what a step leaves alone stays.                             *)
LEMMA PlanStays ==
    ASSUME IInv, UNCHANGED <<strings, ranks, squad, tx, placed>>
    PROVE  PlanAgrees' /\ PlannedAreEligible' /\ PlacesAreUnique'
<1>1. /\ strings' = strings /\ ranks' = ranks /\ squad' = squad
      /\ tx' = tx /\ placed' = placed
  OBVIOUS
<1>2. \A t : StringsOf(t)' = StringsOf(t)
  BY <1>1 DEF StringsOf
<1>3. AllStrings' = AllStrings
  BY <1>2 DEF AllStrings
<1>4. \A s : TeamOf(s)' = TeamOf(s)
  BY <1>2 DEF TeamOf
<1>5. \A s : PlaceOf(s)' = PlaceOf(s)
  BY <1>1, <1>4 DEF PlaceOf
<1>6. \A s, z : Before(s, z)' = Before(s, z)
  BY <1>4, <1>5 DEF Before
<1>7. \A s : InTurn(s)' <=> InTurn(s)
  BY <1>1, <1>6 DEF InTurn
<1>8. PlanAgrees'
  BY <1>1, <1>3, <1>7 DEF IInv, PlanAgrees, PlanIsInTurn
<1>9. PlannedAreEligible'
  BY <1>1, <1>4 DEF IInv, PlannedAreEligible, AgeEligible
<1> QED
  BY <1>1, <1>8, <1>9 DEF IInv, ChartIsConsistent, PlacesAreUnique

LEMMA UnrankedIsRanks == Unranked \in Ranks
<1>1. Cardinality(Lanes) \in Nat
  BY PlannerAssumption, FS_CardinalityType
<1> QED
  BY <1>1 DEF Unranked, Ranks

LEMMA NoPlanAgrees ==
    ASSUME tx' = NoTx
    PROVE  PlanAgrees' /\ PlannedAreEligible'
BY DEF PlanAgrees, PlannedAreEligible

LEMMA FreshIsNew ==
    ASSUME NEW slots, NEW kept \in SUBSET Ids, NEW f \in FreshFor(slots, kept)
    PROVE  /\ f \in [slots -> Ids]
           /\ \A x \in slots : f[x] \in Ids /\ f[x] \notin kept
           /\ \A x, y \in slots : f[x] = f[y] => x = y
<1>1. f \in [slots -> Ids] /\ \A x \in slots : \A s \in kept : s < f[x]
  BY DEF FreshFor
<1>2. ASSUME NEW x \in slots PROVE f[x] \in Ids /\ f[x] \notin kept
  BY <1>1, <1>2 DEF Ids
<1> QED
  BY <1>1, <1>2 DEF FreshFor

LEMMA EnsuredKeeps ==
    ASSUME IInv, Ensured, UNCHANGED targets
    PROVE  /\ ranks' \in Ranks
           /\ teams' \subseteq Teams
           /\ strings' \in [Teams -> Seq(Ids)]
           /\ targets \subseteq teams'
           /\ \A t \in Teams \ teams' : strings'[t] = <<>>
           /\ AllStrings \subseteq AllStrings'
           /\ \A t, u \in Teams : t # u => StringsOf(t)' \cap StringsOf(u)' = {}
<1>1. ranks' \in Ranks /\ teams' \subseteq Teams /\ targets \subseteq teams'
  BY UnrankedIsRanks DEF IInv, TypeOK, Ensured, Enabled, ChartIsConsistent, NothingIsOrphaned
<1>2. PICK f \in FreshFor(Bare, AllStrings) :
          strings' = [t \in Teams |-> IF t \in Bare THEN <<f[t]>> ELSE strings[t]]
  BY DEF Ensured
<1>3. /\ f \in [Bare -> Ids]
      /\ \A t \in Bare : f[t] \in Ids /\ f[t] \notin AllStrings
      /\ \A t, u \in Bare : f[t] = f[u] => t = u
  BY <1>2, FreshIsNew, StringsAreIds DEF IInv
<1>4. Bare \subseteq Teams /\ \A t \in Bare : strings[t] = <<>>
  BY DEF Bare, Enabled, IInv, TypeOK
<1>5. \A t \in Teams : strings'[t] = IF t \in Bare THEN <<f[t]>> ELSE strings[t]
  BY <1>2
<1>6. \A t \in Bare : <<f[t]>> \in Seq(Ids) /\ StringsOf(t)' = {f[t]} /\ StringsOf(t) = {}
  <2> SUFFICES ASSUME NEW t \in Bare
               PROVE  <<f[t]>> \in Seq(Ids) /\ StringsOf(t)' = {f[t]} /\ StringsOf(t) = {}
    OBVIOUS
  <2>1. f[t] \in Ids /\ t \in Teams
    BY <1>3, <1>4
  <2>2. <<f[t]>> \in Seq(Ids) /\ DOMAIN <<f[t]>> = {1} /\ <<f[t]>>[1] = f[t]
    BY <2>1
  <2>3. strings'[t] = <<f[t]>>
    BY <1>5, <2>1
  <2>4. StringsOf(t)' = {f[t]}
    BY <2>2, <2>3 DEF StringsOf
  <2>5. DOMAIN strings[t] = {}
    BY <1>4
  <2> QED
    BY <2>2, <2>4, <2>5 DEF StringsOf
<1>7. \A t \in Teams \ Bare : StringsOf(t)' = StringsOf(t)
  BY <1>5 DEF StringsOf
<1>8. strings' \in [Teams -> Seq(Ids)]
  BY <1>2, <1>6 DEF IInv, TypeOK
<1>9. AllStrings \subseteq AllStrings'
  BY <1>6, <1>7 DEF AllStrings
<1>10. \A t \in Teams \ teams' : strings'[t] = <<>>
  BY <1>5 DEF Ensured, Bare, Enabled, IInv, ChartIsConsistent, NothingIsOrphaned
<1>11. \A t \in Teams : StringsOf(t) \subseteq AllStrings
  BY StringsAreIds DEF IInv
<1>12. ASSUME NEW t \in Teams, NEW u \in Teams, t # u
       PROVE  StringsOf(t)' \cap StringsOf(u)' = {}
  <2>1. CASE t \in Bare /\ u \in Bare
    BY <2>1, <1>3, <1>6, <1>12
  <2>2. CASE t \in Bare /\ u \notin Bare
    BY <2>2, <1>3, <1>6, <1>7, <1>11
  <2>3. CASE t \notin Bare /\ u \in Bare
    BY <2>3, <1>3, <1>6, <1>7, <1>11
  <2>4. CASE t \notin Bare /\ u \notin Bare
    BY <2>4, <1>7, <1>12 DEF IInv, ChartIsConsistent, NothingIsOrphaned
  <2> QED
    BY <2>1, <2>2, <2>3, <2>4
<1> QED
  BY <1>1, <1>8, <1>9, <1>10, <1>12

LEMMA CommandKeeps ==
    ASSUME TypeOK, NEW players \in SUBSET People, NEW confirmed \in BOOLEAN,
           Command(players, confirmed)
    PROVE  /\ tx = NoTx
           /\ asked' \in [players : SUBSET People, confirmed : BOOLEAN]
           /\ changes' \in 0..MaxChanges
BY PlannerAssumption DEF TypeOK, Command

LEMMA PlayersArePeople ==
    ASSUME TypeOK, NEW rows \in SUBSET Placements
    PROVE  Players(rows) \in SUBSET People
BY DEF Players, Placements

(* What a command that begins with ensure_depth has to do itself.           *)
LEMMA EnsuredCommandKeeps ==
    ASSUME IInv, Ensured,
           NEW players \in SUBSET People, NEW confirmed \in BOOLEAN,
           Command(players, confirmed),
           placed' \subseteq Placements, Distinct(placed'),
           \A a \in placed' : a.string \in AllStrings',
           UNCHANGED <<squad, targets, tx>>
    PROVE  IInv'
<1>1. /\ tx' = NoTx
      /\ asked' \in [players : SUBSET People, confirmed : BOOLEAN]
      /\ changes' \in 0..MaxChanges
  BY CommandKeeps DEF IInv
<1>2. /\ ranks' \in Ranks
      /\ teams' \subseteq Teams
      /\ strings' \in [Teams -> Seq(Ids)]
      /\ targets \subseteq teams'
      /\ \A t \in Teams \ teams' : strings'[t] = <<>>
      /\ \A t, u \in Teams : t # u => StringsOf(t)' \cap StringsOf(u)' = {}
  BY EnsuredKeeps
<1>3. TypeOK'
  BY <1>1, <1>2 DEF IInv, TypeOK
<1>4. ChartIsConsistent'
  BY <1>1, <1>2 DEF ChartIsConsistent, PlacesAreUnique, NothingIsOrphaned
<1> QED
  BY <1>1, <1>3, <1>4, NoPlanAgrees DEF IInv

LEMMA OldStringsStay ==
    ASSUME IInv, Ensured, UNCHANGED targets
    PROVE  \A a \in placed : a.string \in AllStrings'
BY EnsuredKeeps DEF IInv, ChartIsConsistent, NothingIsOrphaned

-----------------------------------------------------------------------------
(* The commands.                                                            *)

LEMMA GetDepthKeeps == IInv /\ GetDepth => IInv'
<1> SUFFICES ASSUME IInv, GetDepth PROVE IInv'
  OBVIOUS
<1>1. placed' \subseteq Placements /\ Distinct(placed')
  BY DEF IInv, TypeOK, ChartIsConsistent, PlacesAreUnique, GetDepth
<1>2. \A a \in placed' : a.string \in AllStrings'
  BY OldStringsStay DEF GetDepth
<1> QED
  BY <1>1, <1>2, EnsuredCommandKeeps DEF GetDepth

LEMMA AssignKeeps ==
    ASSUME IInv, NEW s \in Ids, NEW l \in Lanes, NEW p \in People, AssignPlayer(s, l, p)
    PROVE  IInv'
<1>1. placed' \subseteq Placements
  BY DEF IInv, TypeOK, AssignPlayer, Row, Placements
<1>2. Distinct(placed')
  BY OneMoreIsDistinct DEF IInv, ChartIsConsistent, PlacesAreUnique, AssignPlayer
<1>3. s \in AllStrings'
  BY DEF AssignPlayer, AllStrings, StringsOf
<1>4. \A a \in placed' : a.string \in AllStrings'
  BY <1>3, OldStringsStay DEF AssignPlayer, Row
<1> QED
  BY <1>1, <1>2, <1>4, EnsuredCommandKeeps DEF AssignPlayer

LEMMA MoveKeeps ==
    ASSUME IInv, NEW s \in Ids, NEW l \in Lanes, NEW p \in People, MovePlayer(s, l, p)
    PROVE  IInv'
<1> DEFINE others == {a \in placed : a.player # p}
<1>1. placed' = others \cup {Row(s, l, p, "manual")}
  BY DEF MovePlayer
<1>2. placed' \subseteq Placements
  BY <1>1 DEF IInv, TypeOK, Row, Placements
<1>3. Distinct(others)
  BY SomeAreDistinct DEF IInv, ChartIsConsistent, PlacesAreUnique
<1>4. p \notin Players(others) /\ ~Taken(others, s, l)
  BY DEF MovePlayer, Players, Taken
<1>5. Distinct(placed')
  BY <1>1, <1>3, <1>4, OneMoreIsDistinct
<1>6. s \in AllStrings'
  BY DEF MovePlayer, AllStrings, StringsOf
<1>7. \A a \in placed' : a.string \in AllStrings'
  BY <1>1, <1>6, OldStringsStay DEF MovePlayer, Row
<1> QED
  BY <1>2, <1>5, <1>7, EnsuredCommandKeeps DEF MovePlayer

LEMMA ClearAssignmentKeeps ==
    ASSUME IInv, NEW s \in Ids, NEW l \in Lanes, ClearAssignment(s, l)
    PROVE  IInv'
<1> DEFINE there == {a \in placed : a.string = s /\ a.lane = l}
<1>1. placed' = placed \ there /\ Command(Players(there), FALSE) /\ Ensured
      /\ UNCHANGED <<squad, targets, tx>>
  BY DEF ClearAssignment
<1>2. Players(there) \in SUBSET People
  BY PlayersArePeople DEF IInv, TypeOK
<1>3. placed' \subseteq Placements /\ Distinct(placed')
  BY <1>1, SomeAreDistinct DEF IInv, TypeOK, ChartIsConsistent, PlacesAreUnique
<1>4. \A a \in placed' : a.string \in AllStrings'
  BY <1>1, OldStringsStay
<1> QED
  BY <1>1, <1>2, <1>3, <1>4, EnsuredCommandKeeps

LEMMA ClearAllKeeps == IInv /\ ClearAll => IInv'
<1> SUFFICES ASSUME IInv, ClearAll PROVE IInv'
  OBVIOUS
<1>1. Players(placed) \in SUBSET People
  BY PlayersArePeople DEF IInv, TypeOK
<1>2. placed' = {} /\ Distinct({})
  BY DEF ClearAll, Distinct
<1> QED
  BY <1>1, <1>2, EnsuredCommandKeeps DEF ClearAll

(* Commands that leave the chart alone.                                     *)
LEMMA OthersKeep == IInv /\ (EnsureTeams \/ SaveTactic \/ SaveTargets \/ NewSnapshot) => IInv'
<1> SUFFICES ASSUME IInv, EnsureTeams \/ SaveTactic \/ SaveTargets \/ NewSnapshot PROVE IInv'
  OBVIOUS
<1>1. Command({}, FALSE) /\ UNCHANGED <<strings, placed, tx>>
  BY DEF EnsureTeams, SaveTactic, SaveTargets, NewSnapshot
<1>2. /\ tx' = NoTx
      /\ asked' \in [players : SUBSET People, confirmed : BOOLEAN]
      /\ changes' \in 0..MaxChanges
  BY <1>1, CommandKeeps DEF IInv
<1>3. teams' \in {teams, Enabled} /\ Enabled \subseteq Teams /\ teams \subseteq Enabled
  BY DEF EnsureTeams, SaveTactic, SaveTargets, NewSnapshot, Enabled, IInv, TypeOK
<1>4. targets' \subseteq teams'
  BY <1>3 DEF EnsureTeams, SaveTactic, SaveTargets, NewSnapshot, IInv, ChartIsConsistent,
              NothingIsOrphaned
<1>5. TypeOK'
  BY <1>1, <1>2, <1>3, <1>4 DEF EnsureTeams, SaveTactic, SaveTargets, NewSnapshot, IInv, TypeOK
<1>6. AllStrings' = AllStrings /\ \A t \in Teams : StringsOf(t)' = StringsOf(t)
  BY <1>1 DEF AllStrings, StringsOf
<1>7. NothingIsOrphaned'
  BY <1>1, <1>2, <1>3, <1>4, <1>6 DEF IInv, ChartIsConsistent, NothingIsOrphaned
<1>8. PlacesAreUnique'
  BY <1>1, <1>2 DEF IInv, ChartIsConsistent, PlacesAreUnique
<1> QED
  BY <1>2, <1>5, <1>7, <1>8, NoPlanAgrees DEF IInv, ChartIsConsistent

LEMMA InputsNameStrings ==
    ASSUME TypeOK, NEW d \in Inputs
    PROVE  /\ DOMAIN d \subseteq Teams
           /\ \A t \in DOMAIN d :
                  /\ \E n \in Nat : DOMAIN d[t] = 1..n
                  /\ \A k \in DOMAIN d[t] : d[t][k] # 0 => d[t][k] \in StringsOf(t)
<1>1. DOMAIN d \subseteq Teams /\ \A t \in DOMAIN d : d[t] \in Lists(t)
  BY DEF Inputs
<1>2. ASSUME NEW t \in DOMAIN d
      PROVE  \E n \in 1..MaxPerTeam : d[t] \in [1..n -> StringsOf(t) \cup {0}]
  BY <1>1 DEF Lists
<1>3. ASSUME NEW t \in DOMAIN d
      PROVE  /\ \E n \in Nat : DOMAIN d[t] = 1..n
             /\ \A k \in DOMAIN d[t] : d[t][k] # 0 => d[t][k] \in StringsOf(t)
  <2>1. PICK n \in 1..MaxPerTeam : d[t] \in [1..n -> StringsOf(t) \cup {0}]
    BY <1>2
  <2>2. n \in Nat /\ DOMAIN d[t] = 1..n
    BY <2>1
  <2>3. \A k \in DOMAIN d[t] : d[t][k] \in StringsOf(t) \cup {0}
    BY <2>1, <2>2
  <2> QED
    BY <2>2, <2>3
<1> QED
  BY <1>1, <1>3

(* A string that a change of the teams keeps is in its team still, and a    *)
(* new one has an id of none that is kept.                                  *)
LEMMA SaveTeamsStrings ==
    ASSUME IInv, NEW d \in Inputs, NEW confirmed \in BOOLEAN, SaveTeams(d, confirmed)
    PROVE  /\ strings' \in [Teams -> Seq(Ids)]
           /\ \A t \in Teams \ DOMAIN d : strings'[t] = <<>>
           /\ AllStrings \ Dropped(d) \subseteq AllStrings'
           /\ \A t, u \in Teams : t # u => StringsOf(t)' \cap StringsOf(u)' = {}
<1> DEFINE kept == AllStrings \ Dropped(d)
<1>1. /\ DOMAIN d \subseteq Teams
      /\ \A t \in DOMAIN d :
             /\ \E n \in Nat : DOMAIN d[t] = 1..n
             /\ \A k \in DOMAIN d[t] : d[t][k] # 0 => d[t][k] \in StringsOf(t)
  BY InputsNameStrings DEF IInv
<1>2. PICK f \in FreshFor(Slots(d), kept) :
          strings' = [t \in Teams |-> IF t \notin DOMAIN d THEN <<>>
                          ELSE [k \in DOMAIN d[t] |->
                              IF d[t][k] = 0 THEN f[<<t, k>>] ELSE d[t][k]]]
  BY DEF SaveTeams
<1>3. kept \in SUBSET Ids /\ \A t \in Teams : StringsOf(t) \subseteq AllStrings \cap Ids
  BY StringsAreIds DEF IInv
<1>4. /\ \A x \in Slots(d) : f[x] \in Ids /\ f[x] \notin kept
      /\ \A x, y \in Slots(d) : f[x] = f[y] => x = y
  BY <1>2, <1>3, FreshIsNew
<1>5. \A t \in DOMAIN d : \A k \in DOMAIN d[t] : d[t][k] = 0 => <<t, k>> \in Slots(d)
  BY DEF Slots
<1>6. \A t \in Teams \ DOMAIN d : strings'[t] = <<>>
  BY <1>2
<1>7. ASSUME NEW t \in DOMAIN d
      PROVE  /\ DOMAIN strings'[t] = DOMAIN d[t]
             /\ \A k \in DOMAIN d[t] :
                    strings'[t][k] = IF d[t][k] = 0 THEN f[<<t, k>>] ELSE d[t][k]
  BY <1>1, <1>2
<1>8. ASSUME NEW t \in DOMAIN d PROVE strings'[t] \in Seq(Ids)
  <2>1. PICK n \in Nat : DOMAIN d[t] = 1..n
    BY <1>1
  <2>2. \A k \in DOMAIN d[t] : strings'[t][k] \in Ids
    BY <1>1, <1>3, <1>4, <1>5, <1>7
  <2>3. strings'[t] = [k \in 1..n |-> IF d[t][k] = 0 THEN f[<<t, k>>] ELSE d[t][k]]
    BY <1>1, <1>2, <2>1
  <2>4. strings'[t] \in [1..n -> Ids]
    BY <1>7, <2>1, <2>2, <2>3
  <2> QED
    BY <2>4
<1>9. strings' \in [Teams -> Seq(Ids)]
  <2>1. DOMAIN strings' = Teams /\ strings' = [t \in Teams |-> strings'[t]]
    BY <1>2
  <2>2. ASSUME NEW t \in Teams PROVE strings'[t] \in Seq(Ids)
    <3>1. <<>> \in Seq(Ids)
      OBVIOUS
    <3> QED
      BY <1>6, <1>8, <3>1
  <2> QED
    BY <2>1, <2>2
<1>10. \A t \in DOMAIN d : \A k \in DOMAIN d[t] :
           d[t][k] # 0 => d[t][k] \in StringsOf(t) /\ d[t][k] \in kept
  <2> SUFFICES ASSUME NEW t \in DOMAIN d, NEW k \in DOMAIN d[t], d[t][k] # 0
               PROVE  d[t][k] \in StringsOf(t) /\ d[t][k] \notin Dropped(d)
    BY <1>1, <1>3
  <2>1. d[t][k] \in StringsOf(t)
    BY <1>1
  <2>2. ASSUME NEW u \in Teams, u # t PROVE d[t][k] \notin StringsOf(u)
    BY <1>1, <2>1, <2>2 DEF IInv, ChartIsConsistent, NothingIsOrphaned
  <2>3. d[t][k] \notin UNION {StringsOf(u) : u \in Teams \ DOMAIN d}
    BY <2>2
  <2>4. ASSUME NEW u \in DOMAIN d PROVE d[t][k] \notin StringsOf(u) \ {d[u][j] : j \in DOMAIN d[u]}
    BY <1>1, <2>2
  <2> QED
    BY <2>1, <2>3, <2>4 DEF Dropped
<1>11. ASSUME NEW t \in Teams, NEW x \in StringsOf(t)'
       PROVE  /\ t \in DOMAIN d
              /\ \/ x \in StringsOf(t) /\ x \in kept
                 \/ \E k \in DOMAIN d[t] :
                        <<t, k>> \in Slots(d) /\ x = f[<<t, k>>]
  <2>1. PICK k \in DOMAIN strings'[t] : x = strings'[t][k]
    BY DEF StringsOf
  <2>2. t \in DOMAIN d
    BY <2>1, <1>6
  <2>3. CASE d[t][k] = 0
    BY <2>1, <2>2, <2>3, <1>5, <1>7
  <2>4. CASE d[t][k] # 0
    BY <2>1, <2>2, <2>4, <1>7, <1>10
  <2> QED
    BY <2>2, <2>3, <2>4
<1>12. ASSUME NEW t \in Teams, NEW u \in Teams, t # u
       PROVE  StringsOf(t)' \cap StringsOf(u)' = {}
  <2> SUFFICES ASSUME NEW x \in StringsOf(t)', x \in StringsOf(u)' PROVE FALSE
    OBVIOUS
  <2>1. CASE x \in kept
    <3>1. x \in StringsOf(t)
      <4>1. \/ x \in StringsOf(t)
            \/ \E k \in DOMAIN d[t] : <<t, k>> \in Slots(d) /\ x = f[<<t, k>>]
        BY <1>11
      <4> QED
        BY <4>1, <2>1, <1>4
    <3>2. x \in StringsOf(u)
      <4>1. \/ x \in StringsOf(u)
            \/ \E k \in DOMAIN d[u] : <<u, k>> \in Slots(d) /\ x = f[<<u, k>>]
        BY <1>11
      <4> QED
        BY <4>1, <2>1, <1>4
    <3> QED
      BY <3>1, <3>2, <1>12 DEF IInv, ChartIsConsistent, NothingIsOrphaned
  <2>2. CASE x \notin kept
    <3>1. PICK k \in DOMAIN d[t] : <<t, k>> \in Slots(d) /\ x = f[<<t, k>>]
      BY <2>2, <1>11
    <3>2. PICK j \in DOMAIN d[u] : <<u, j>> \in Slots(d) /\ x = f[<<u, j>>]
      BY <2>2, <1>11
    <3> QED
      BY <3>1, <3>2, <1>4, <1>12
  <2> QED
    BY <2>1, <2>2
<1>13. ASSUME NEW x \in kept PROVE x \in AllStrings'
  <2>1. PICK t \in Teams : x \in StringsOf(t)
    BY DEF AllStrings
  <2>2. t \in DOMAIN d /\ x \in {d[t][k] : k \in DOMAIN d[t]}
    BY <2>1 DEF Dropped
  <2>3. PICK k \in DOMAIN d[t] : x = d[t][k]
    BY <2>2
  <2>4. x # 0
    BY <1>3 DEF Ids
  <2>5. k \in DOMAIN strings'[t] /\ strings'[t][k] = x
    BY <2>2, <2>3, <2>4, <1>7
  <2> QED
    BY <2>1, <2>5 DEF AllStrings, StringsOf
<1> QED
  BY <1>6, <1>9, <1>12, <1>13

LEMMA SaveTeamsKeeps ==
    ASSUME IInv, NEW d \in Inputs, NEW confirmed \in BOOLEAN, SaveTeams(d, confirmed)
    PROVE  IInv'
<1> DEFINE lost == {a \in placed : a.string \in Dropped(d)}
           named == IF confirmed THEN Players(lost) ELSE {}
<1>1. /\ Command(named, confirmed)
      /\ targets' = targets \ (Enabled \ DOMAIN d)
      /\ placed' = placed \ lost
      /\ teams' = DOMAIN d
      /\ ranks' = (IF ranks = NoTactic THEN Unranked ELSE ranks)
      /\ UNCHANGED <<squad, tx>>
  BY DEF SaveTeams
<1>2. named \in SUBSET People
  BY PlayersArePeople DEF IInv, TypeOK
<1>3. /\ tx' = NoTx
      /\ asked' \in [players : SUBSET People, confirmed : BOOLEAN]
      /\ changes' \in 0..MaxChanges
  BY <1>1, <1>2, CommandKeeps DEF IInv
<1>4. /\ strings' \in [Teams -> Seq(Ids)]
      /\ \A t \in Teams \ DOMAIN d : strings'[t] = <<>>
      /\ AllStrings \ Dropped(d) \subseteq AllStrings'
      /\ \A t, u \in Teams : t # u => StringsOf(t)' \cap StringsOf(u)' = {}
  BY SaveTeamsStrings
<1>5. DOMAIN d \subseteq Teams
  BY InputsNameStrings DEF IInv
<1>6. targets' \subseteq teams' /\ targets' \subseteq Teams
  BY <1>1 DEF Enabled, IInv, TypeOK, ChartIsConsistent, NothingIsOrphaned
<1>7. TypeOK'
  BY <1>1, <1>3, <1>4, <1>5, <1>6, UnrankedIsRanks DEF IInv, TypeOK
<1>8. PlacesAreUnique'
  BY <1>1, <1>3, SomeAreDistinct DEF IInv, ChartIsConsistent, PlacesAreUnique
<1>9. NothingIsOrphaned'
  BY <1>1, <1>3, <1>4, <1>6 DEF IInv, ChartIsConsistent, NothingIsOrphaned
<1> QED
  BY <1>3, <1>7, <1>8, <1>9, NoPlanAgrees DEF IInv, ChartIsConsistent

-----------------------------------------------------------------------------
(* The optimizer.                                                           *)

LEMMA BeginOptimizeKeeps == IInv /\ BeginOptimize => IInv'
<1> SUFFICES ASSUME IInv, BeginOptimize PROVE IInv'
  OBVIOUS
<1>1. PICK scores \in Tables :
          tx' = [left |-> UNION {{strings'[t][k] : k \in DOMAIN strings'[t]} : t \in Teams},
                 done |-> {}, placed |-> Manual(placed), scores |-> scores]
  BY DEF BeginOptimize
<1>2. Command({}, FALSE) /\ squad # NoSnapshot /\ Ensured /\ UNCHANGED <<placed, squad, targets>>
  BY DEF BeginOptimize
<1>3. /\ asked' \in [players : SUBSET People, confirmed : BOOLEAN]
      /\ changes' \in 0..MaxChanges
  BY <1>2, CommandKeeps DEF IInv
<1>4. /\ ranks' \in Ranks
      /\ teams' \subseteq Teams
      /\ strings' \in [Teams -> Seq(Ids)]
      /\ targets \subseteq teams'
      /\ \A t \in Teams \ teams' : strings'[t] = <<>>
      /\ \A t, u \in Teams : t # u => StringsOf(t)' \cap StringsOf(u)' = {}
      /\ \A a \in placed : a.string \in AllStrings'
  BY <1>2, EnsuredKeeps, OldStringsStay
<1>5. /\ tx'.left = AllStrings' /\ tx'.done = {}
      /\ tx'.placed = Manual(placed) /\ tx'.scores = scores
  BY <1>1 DEF AllStrings, StringsOf
<1>6. AllStrings' \subseteq Ids
  <2>1. \A t \in Teams : \A k \in DOMAIN strings'[t] : strings'[t][k] \in Ids
    BY <1>4
  <2> QED
    BY <2>1 DEF AllStrings, StringsOf
<1>7. Manual(placed) \subseteq placed /\ Distinct(Manual(placed))
  BY SomeAreDistinct DEF Manual, IInv, ChartIsConsistent, PlacesAreUnique
<1>8. tx' \in [left : SUBSET Ids, done : SUBSET Lanes, placed : SUBSET Placements,
               scores : Tables]
  BY <1>1, <1>5, <1>6, <1>7 DEF IInv, TypeOK
<1>9. ranks' # NoTactic
  <2>1. ranks' \in [Lanes -> Nat]
    BY <1>4 DEF Ranks
  <2> QED
    BY <2>1, PlannerAssumption
<1>10. TypeOK'
  BY <1>2, <1>3, <1>4, <1>8, <1>9 DEF IInv, TypeOK
<1>11. ChartIsConsistent'
  BY <1>2, <1>4, <1>5, <1>7 DEF IInv, ChartIsConsistent, PlacesAreUnique, NothingIsOrphaned
<1>12. \A a \in tx'.placed : a.by = "manual"
  BY <1>5 DEF Manual
<1>13. PlanAgrees'
  BY <1>2, <1>5, <1>12 DEF PlanAgrees, PlanIsInTurn, Manual
<1>14. PlannedAreEligible'
  BY <1>12 DEF PlannedAreEligible, Manual
<1> QED
  BY <1>10, <1>11, <1>13, <1>14 DEF IInv

TxType == [left : SUBSET Ids, done : SUBSET Lanes, placed : SUBSET Placements, scores : Tables]

(* What both steps of the optimizer do: rows are added, for those who may   *)
(* play, and the rest stays as it is.                                       *)
LEMMA PlanGrows ==
    ASSUME IInv, tx # NoTx,
           UNCHANGED <<teams, strings, placed, ranks, squad, targets, asked, changes>>,
           NEW rows \in SUBSET Placements,
           tx' \in TxType, tx'.placed = tx.placed \cup rows, Distinct(tx'.placed),
           tx'.left \subseteq tx.left, tx'.scores = tx.scores,
           \A a \in rows :
               /\ a.by = "optimizer" /\ a.string \in AllStrings
               /\ squad[a.player] # Away
               /\ AgeEligible(TeamOf(a.string), a.player)
               /\ tx.scores[a.player][a.lane] # NoScore,
           PlanIsInTurn'
    PROVE  IInv'
<1>2. TypeOK'
  BY DEF IInv, TypeOK, TxType
<1>3. \A t : StringsOf(t)' = StringsOf(t)
  BY DEF StringsOf
<1>4. AllStrings' = AllStrings /\ \A s : TeamOf(s)' = TeamOf(s)
  BY <1>3 DEF AllStrings, TeamOf
<1>5. ChartIsConsistent'
  BY <1>3, <1>4 DEF IInv, ChartIsConsistent, PlacesAreUnique, NothingIsOrphaned
<1>6. Manual(tx'.placed) = Manual(tx.placed)
  BY DEF Manual
<1>7. PlanAgrees'
  BY <1>4, <1>6 DEF IInv, PlanAgrees, Manual
<1>8. PlannedAreEligible'
  BY <1>4, <1>6 DEF IInv, PlannedAreEligible, AgeEligible
<1> QED
  BY <1>2, <1>5, <1>7, <1>8 DEF IInv

LEMMA InTurnStays ==
    ASSUME UNCHANGED strings, tx'.left = tx.left
    PROVE  \A s : InTurn(s)' <=> InTurn(s)
<1>1. \A t : StringsOf(t)' = StringsOf(t)
  BY DEF StringsOf
<1>2. \A s : TeamOf(s)' = TeamOf(s)
  BY <1>1 DEF TeamOf
<1>3. \A s : PlaceOf(s)' = PlaceOf(s)
  BY <1>2 DEF PlaceOf
<1> QED
  BY <1>2, <1>3 DEF InTurn, Before

LEMMA FreeAreEligible ==
    ASSUME NEW s, NEW l, NEW p \in Free(s, l)
    PROVE  /\ p \in People /\ p \notin Players(tx.placed)
           /\ squad[p] # Away
           /\ AgeEligible(TeamOf(s), p)
           /\ tx.scores[p][l] # NoScore
BY DEF Free, Candidates

(* A cell that is open and not filled yet is empty in the plan.             *)
LEMMA OpenIsEmpty ==
    ASSUME IInv, tx # NoTx, NEW s, InTurn(s), NEW l \in OpenLanes(s),
           l \notin tx.done \/ ranks[l] = 0
    PROVE  ~Taken(tx.placed, s, l)
<1> SUFFICES ASSUME NEW a \in tx.placed, a.string = s, a.lane = l PROVE FALSE
  BY DEF Taken
<1>1. CASE a.by = "manual"
  <2>1. a \in Manual(placed)
    BY <1>1 DEF IInv, PlanAgrees, Manual
  <2> QED
    BY <2>1 DEF OpenLanes, Taken
<1>2. CASE a.by = "optimizer"
  BY <1>2 DEF IInv, PlanAgrees, PlanIsInTurn, InTurn
<1> QED
  BY <1>1, <1>2 DEF IInv, TypeOK, Placements

LEMMA FillRankedKeeps == IInv /\ FillRanked => IInv'
<1> SUFFICES ASSUME IInv, FillRanked PROVE IInv'
  OBVIOUS
<1>1. PICK s \in tx.left :
          /\ InTurn(s)
          /\ \E l \in RankedLeft(s) :
                \/ tx' = [tx EXCEPT !.done = @ \cup {l}]
                \/ \E p \in Free(s, l) :
                      tx' = [tx EXCEPT !.done = @ \cup {l},
                                !.placed = @ \cup {Row(s, l, p, "optimizer")}]
  BY DEF FillRanked
<1>2. PICK l \in RankedLeft(s) :
          \/ tx' = [tx EXCEPT !.done = @ \cup {l}]
          \/ \E p \in Free(s, l) :
                tx' = [tx EXCEPT !.done = @ \cup {l},
                          !.placed = @ \cup {Row(s, l, p, "optimizer")}]
  BY <1>1
<1>3. /\ tx # NoTx
      /\ UNCHANGED <<teams, strings, placed, ranks, squad, targets, asked, changes>>
  BY DEF FillRanked
<1>4. /\ l \in Lanes /\ l \in OpenLanes(s) /\ l \notin tx.done /\ ranks[l] # 0
  BY DEF RankedLeft, OpenLanes
<1>5. tx \in TxType
  BY <1>3 DEF IInv, TypeOK, TxType
<1>6. s \in AllStrings /\ s \in Ids
  BY <1>3, <1>5 DEF IInv, PlanAgrees, TxType
<1>7. Distinct(tx.placed)
  BY <1>3 DEF IInv, ChartIsConsistent, PlacesAreUnique
<1>8. ASSUME NEW rows \in SUBSET Placements,
             tx'.left = tx.left, tx'.done = tx.done \cup {l},
             tx'.placed = tx.placed \cup rows, tx'.scores = tx.scores, tx' \in TxType,
             Distinct(tx.placed \cup rows),
             \A a \in rows : /\ a.by = "optimizer" /\ a.string = s /\ a.lane = l
                             /\ squad[a.player] # Away
                             /\ AgeEligible(TeamOf(s), a.player)
                             /\ tx.scores[a.player][l] # NoScore
      PROVE  IInv'
  <2>1. \A z : InTurn(z)' <=> InTurn(z)
    BY <1>3, <1>8, InTurnStays
  <2>2. PlanIsInTurn
    BY <1>3 DEF IInv, PlanAgrees
  <2>3. PlanIsInTurn'
    BY <1>1, <1>3, <1>4, <1>8, <2>1, <2>2 DEF PlanIsInTurn
  <2> QED
    BY <1>3, <1>6, <1>8, <2>3, PlanGrows
<1>9. CASE tx' = [tx EXCEPT !.done = @ \cup {l}]
  <2>1. /\ tx'.left = tx.left /\ tx'.done = tx.done \cup {l}
        /\ tx'.placed = tx.placed /\ tx'.scores = tx.scores
        /\ tx' \in TxType
    BY <1>4, <1>5, <1>9 DEF TxType
  <2> DEFINE rows == {}
  <2>2. tx.placed \cup rows = tx.placed /\ rows \in SUBSET Placements /\ \A a \in rows : FALSE
    OBVIOUS
  <2> HIDE DEF rows
  <2>3. tx'.placed = tx.placed \cup rows /\ Distinct(tx.placed \cup rows)
    BY <2>1, <2>2, <1>7
  <2> QED
    BY <2>1, <2>2, <2>3, <1>8
<1>10. ASSUME NEW p \in Free(s, l),
              tx' = [tx EXCEPT !.done = @ \cup {l},
                        !.placed = @ \cup {Row(s, l, p, "optimizer")}]
       PROVE  IInv'
  <2> DEFINE rows == {Row(s, l, p, "optimizer")}
  <2>1. /\ p \in People /\ p \notin Players(tx.placed)
        /\ squad[p] # Away /\ AgeEligible(TeamOf(s), p)
        /\ tx.scores[p][l] # NoScore
    BY FreeAreEligible
  <2>2. ~Taken(tx.placed, s, l)
    BY <1>1, <1>3, <1>4, OpenIsEmpty
  <2>3. Distinct(tx.placed \cup rows)
    BY <1>7, <2>1, <2>2, OneMoreIsDistinct
  <2>4. rows \in SUBSET Placements
    BY <1>4, <1>6, <2>1 DEF Row, Placements
  <2>5. \A a \in rows : /\ a.by = "optimizer" /\ a.string = s /\ a.lane = l /\ a.player = p
    BY DEF Row
  <2> HIDE DEF rows
  <2>6. /\ tx'.left = tx.left /\ tx'.done = tx.done \cup {l}
        /\ tx'.placed = tx.placed \cup rows /\ tx'.scores = tx.scores
        /\ tx' \in TxType
    BY <1>4, <1>5, <1>10, <2>4 DEF TxType, rows
  <2> QED
    BY <1>8, <2>1, <2>3, <2>4, <2>5, <2>6
<1> QED
  BY <1>2, <1>9, <1>10

LEMMA FillRestKeeps == IInv /\ FillRest => IInv'
<1> SUFFICES ASSUME IInv, FillRest PROVE IInv'
  OBVIOUS
<1>1. PICK s \in tx.left :
          /\ InTurn(s)
          /\ \E m \in Matchings(s) :
                tx' = [tx EXCEPT !.left = @ \ {s}, !.done = {},
                          !.placed = @ \cup {Row(s, l, m[l], "optimizer") : l \in DOMAIN m}]
  BY DEF FillRest
<1>2. PICK m \in Matchings(s) :
          tx' = [tx EXCEPT !.left = @ \ {s}, !.done = {},
                    !.placed = @ \cup {Row(s, l, m[l], "optimizer") : l \in DOMAIN m}]
  BY <1>1
<1>3. /\ tx # NoTx
      /\ UNCHANGED <<teams, strings, placed, ranks, squad, targets, asked, changes>>
  BY DEF FillRest
<1> DEFINE rows == {Row(s, l, m[l], "optimizer") : l \in DOMAIN m}
<1>4. /\ DOMAIN m \subseteq RestLanes(s)
      /\ \A l \in DOMAIN m : m[l] \in Free(s, l)
      /\ \A l, k \in DOMAIN m : m[l] = m[k] => l = k
  BY DEF Matchings
<1>5. \A l \in DOMAIN m : l \in Lanes /\ l \in OpenLanes(s) /\ ranks[l] = 0
  BY <1>4 DEF RestLanes, OpenLanes
<1>6. \A l \in DOMAIN m : /\ m[l] \in People /\ m[l] \notin Players(tx.placed)
                          /\ squad[m[l]] # Away /\ AgeEligible(TeamOf(s), m[l])
                          /\ tx.scores[m[l]][l] # NoScore
  BY <1>4, FreeAreEligible
<1>7. \A l \in DOMAIN m : ~Taken(tx.placed, s, l)
  BY <1>1, <1>3, <1>5, OpenIsEmpty
<1>8. tx \in TxType
  BY <1>3 DEF IInv, TypeOK, TxType
<1>9. s \in AllStrings /\ s \in Ids
  BY <1>3, <1>8 DEF IInv, PlanAgrees, TxType
<1>10. ASSUME NEW a \in rows
       PROVE  \E l \in DOMAIN m : /\ a = Row(s, l, m[l], "optimizer") /\ a.by = "optimizer"
                                  /\ a.string = s /\ a.lane = l /\ a.player = m[l]
  BY DEF Row
<1>11. rows \in SUBSET Placements
  BY <1>5, <1>6, <1>9 DEF Row, Placements
<1> HIDE DEF rows
<1>12. Distinct(tx.placed \cup rows)
  <2>1. Distinct(tx.placed)
    BY <1>3 DEF IInv, ChartIsConsistent, PlacesAreUnique
  <2>2. ASSUME NEW a \in rows, NEW b \in rows,
               a.player = b.player \/ (a.string = b.string /\ a.lane = b.lane)
        PROVE  a = b
    BY <1>4, <1>10, <2>2
  <2>3. ASSUME NEW a \in rows, NEW b \in tx.placed
        PROVE  a.player # b.player /\ ~(a.string = b.string /\ a.lane = b.lane)
    BY <1>6, <1>7, <1>10 DEF Players, Taken
  <2> QED
    BY <2>1, <2>2, <2>3 DEF Distinct
<1>13. /\ tx'.left = tx.left \ {s} /\ tx'.done = {}
       /\ tx'.placed = tx.placed \cup rows /\ tx'.scores = tx.scores
       /\ tx' \in TxType
  BY <1>2, <1>8, <1>11 DEF TxType, rows
<1>14. \A a \in tx'.placed : a.by = "optimizer" => a.string \notin tx'.left
  <2>1. TypeOK /\ tx.left \subseteq AllStrings /\ PlanIsInTurn
    BY <1>3 DEF IInv, PlanAgrees
  <2>2. ASSUME NEW a \in tx.placed, a.by = "optimizer", a.string \in tx.left
        PROVE  a.string = s
    <3>1. InTurn(a.string)
      BY <2>1, <2>2 DEF PlanIsInTurn
    <3> QED
      BY <1>1, <2>1, <3>1, OneIsInTurn
  <2> QED
    BY <1>10, <1>13, <2>2
<1>15. PlanIsInTurn'
  BY <1>14 DEF PlanIsInTurn
<1>16. \A a \in rows : /\ a.by = "optimizer" /\ a.string \in AllStrings
                       /\ squad[a.player] # Away
                       /\ AgeEligible(TeamOf(a.string), a.player)
                       /\ tx.scores[a.player][a.lane] # NoScore
  BY <1>6, <1>9, <1>10
<1> QED
  BY <1>3, <1>11, <1>12, <1>13, <1>15, <1>16, PlanGrows

LEMMA EndOfPlanKeeps == IInv /\ (CommitPlan \/ RollBack) => IInv'
<1> SUFFICES ASSUME IInv, CommitPlan \/ RollBack PROVE IInv'
  OBVIOUS
<1>1. /\ tx # NoTx /\ tx' = NoTx /\ placed' \in {placed, tx.placed}
      /\ UNCHANGED <<teams, strings, ranks, squad, targets, asked, changes>>
  BY DEF CommitPlan, RollBack
<1>2. tx \in TxType
  BY <1>1 DEF IInv, TypeOK, TxType
<1>3. TypeOK'
  BY <1>1, <1>2 DEF IInv, TypeOK, TxType
<1>4. \A t : StringsOf(t)' = StringsOf(t)
  BY <1>1 DEF StringsOf
<1>5. AllStrings' = AllStrings
  BY <1>4 DEF AllStrings
<1>6. ChartIsConsistent'
  BY <1>1, <1>4, <1>5 DEF IInv, ChartIsConsistent, PlacesAreUnique, NothingIsOrphaned
<1> QED
  BY <1>1, <1>3, <1>6, NoPlanAgrees DEF IInv

-----------------------------------------------------------------------------
(* The theorems.                                                            *)

LEMMA InitHolds == Init => IInv
<1> SUFFICES ASSUME Init PROVE IInv
  OBVIOUS
<1>1. TypeOK
  <2>1. <<>> \in Seq(Ids)
    OBVIOUS
  <2> QED
    BY <2>1, PlannerAssumption DEF Init, TypeOK, Nobody
<1>2. \A t \in Teams : StringsOf(t) = {}
  BY DEF Init, StringsOf
<1> QED
  BY <1>1, <1>2 DEF Init, IInv, ChartIsConsistent, PlacesAreUnique, NothingIsOrphaned, Distinct,
                    PlanAgrees, PlannedAreEligible

LEMMA NextKeeps == IInv /\ [Next]_vars => IInv'
<1> SUFFICES ASSUME IInv, [Next]_vars PROVE IInv'
  OBVIOUS
<1>1. CASE GetDepth
  BY <1>1, GetDepthKeeps
<1>2. CASE EnsureTeams \/ SaveTactic \/ SaveTargets \/ NewSnapshot
  BY <1>2, OthersKeep
<1>3. CASE ClearAll
  BY <1>3, ClearAllKeeps
<1>4. CASE \E s \in Ids, l \in Lanes, p \in People : AssignPlayer(s, l, p)
  BY <1>4, AssignKeeps
<1>5. CASE \E s \in Ids, l \in Lanes, p \in People : MovePlayer(s, l, p)
  BY <1>5, MoveKeeps
<1>6. CASE \E s \in Ids, l \in Lanes : ClearAssignment(s, l)
  BY <1>6, ClearAssignmentKeeps
<1>7. CASE \E d \in Inputs, c \in BOOLEAN : SaveTeams(d, c)
  BY <1>7, SaveTeamsKeeps
<1>8. CASE BeginOptimize
  BY <1>8, BeginOptimizeKeeps
<1>9. CASE FillRanked
  BY <1>9, FillRankedKeeps
<1>10. CASE FillRest
  BY <1>10, FillRestKeeps
<1>11. CASE CommitPlan \/ RollBack
  BY <1>11, EndOfPlanKeeps
<1>12. CASE UNCHANGED vars
  <2>1. \A t : StringsOf(t)' = StringsOf(t)
    BY <1>12 DEF vars, StringsOf
  <2>2. AllStrings' = AllStrings
    BY <2>1 DEF AllStrings
  <2>3. NothingIsOrphaned'
    BY <1>12, <2>1, <2>2 DEF vars, IInv, ChartIsConsistent, NothingIsOrphaned
  <2>4. TypeOK'
    BY <1>12 DEF vars, IInv, TypeOK
  <2> QED
    BY <1>12, <2>3, <2>4, PlanStays DEF vars, IInv, ChartIsConsistent
<1> QED
  BY <1>1, <1>2, <1>3, <1>4, <1>5, <1>6, <1>7, <1>8, <1>9, <1>10, <1>11, <1>12 DEF Next

(* The inductive invariant, for any teams, lanes, people and scores.        *)
THEOREM PlannerInvariant == Spec => []IInv
<1> QED
  BY InitHolds, NextKeeps, PTL DEF Spec

(* The tables and the transaction keep their types.                         *)
THEOREM TypeCorrect == Spec => []TypeOK
<1>1. IInv => TypeOK
  BY DEF IInv
<1> QED
  BY <1>1, PlannerInvariant, PTL

(* A player is in one cell and a cell holds one, at every step of a plan    *)
(* too, and nothing is left of a string or a team that is gone              *)
(* (save_team_settings, ensure_depth, optimize_depth_with_basis).           *)
THEOREM ChartStaysConsistent == Spec => []ChartIsConsistent
<1>1. IInv => ChartIsConsistent
  BY DEF IInv
<1> QED
  BY <1>1, PlannerInvariant, PTL

(* A plan places only players of the managed club, within the age limit of  *)
(* the team, in lanes they have a score for.                                *)
THEOREM PlansAreOfTheEligible == Spec => []PlannedAreEligible
<1>1. IInv => PlannedAreEligible
  BY DEF IInv
<1> QED
  BY <1>1, PlannerInvariant, PTL

-----------------------------------------------------------------------------
(* That a plan leaves nobody better out.  A cell is settled when whoever is *)
(* left without a place would not be better in it; the cells of the strings *)
(* that are done are, and so are the lanes that are done in the one in turn.*)
Settled(s, l) ==
    \A p \in Free(s, l) :
        \E a \in tx.placed :
            /\ a.string = s /\ a.lane = l
            /\ a.by = "optimizer" => tx.scores[a.player][l] >= tx.scores[p][l]

BestSoFar ==
    tx # NoTx =>
        \A s \in AllStrings, l \in Lanes :
            s \notin tx.left \/ (InTurn(s) /\ l \in tx.done) => Settled(s, l)

(* The total of a matching counts its scores, piled on their lanes.         *)
Pile(m, l) == {l} \X (1..tx.scores[m[l]][l])
Piles(m, some) == UNION {Pile(m, l) : l \in some}
Picked(some) == CHOOSE l \in some : TRUE
IsTotal(g, m, all) ==
    g = [some \in SUBSET all |->
            IF some = {} THEN 0
            ELSE tx.scores[m[Picked(some)]][Picked(some)] + g[some \ {Picked(some)}]]
IsScored(m) == IsFiniteSet(DOMAIN m) /\ \A l \in DOMAIN m : tx.scores[m[l]][l] \in Nat

LEMMA PilesAreCounted ==
    ASSUME NEW m, IsScored(m), NEW l \in DOMAIN m
    PROVE  IsFiniteSet(Pile(m, l)) /\ Cardinality(Pile(m, l)) = tx.scores[m[l]][l]
<1> DEFINE k == tx.scores[m[l]][l]
<1>1. k \in Nat
  BY DEF IsScored
<1> HIDE DEF k
<1>2. IsFiniteSet(1..k) /\ Cardinality(1..k) = k
  BY <1>1, FS_Interval
<1>3. IsFiniteSet({l}) /\ Cardinality({l}) = 1
  <2>1. \A x : IsFiniteSet({x}) /\ Cardinality({x}) = 1
    BY FS_Singleton, Zenon
  <2>2. QED
    BY <2>1, Zenon
<1> DEFINE A == {l}
           B == 1..k
<1>4. IsFiniteSet(A \X B) /\ Cardinality(A \X B) = 1 * k
  <2>1. /\ IsFiniteSet(A) /\ Cardinality(A) = 1
        /\ IsFiniteSet(B) /\ Cardinality(B) = k
    BY <1>2, <1>3
  <2> HIDE DEF A, B
  <2>2. IsFiniteSet(A \X B) /\ Cardinality(A \X B) = Cardinality(A) * Cardinality(B)
    BY <2>1, FS_Product
  <2>3. QED
    BY <2>1, <2>2
<1>5. QED
  BY <1>1, <1>4 DEF Pile, k

LEMMA PilesAreFinite ==
    ASSUME NEW m, IsScored(m), NEW some \in SUBSET DOMAIN m
    PROVE  IsFiniteSet(some) /\ IsFiniteSet(Piles(m, some))
<1>1. IsFiniteSet(some)
  BY FS_Subset DEF IsScored
<1>2. \A l \in some : IsFiniteSet(Pile(m, l))
  BY PilesAreCounted
<1>3. IsFiniteSet({Pile(m, l) : l \in some})
  <2> DEFINE f == [l \in some |-> Pile(m, l)]
             T == {Pile(m, l) : l \in some}
  <2>1. f \in Surjection(some, T)
    BY DEF Surjection
  <2> HIDE DEF f, T
  <2>2. IsFiniteSet(T)
    BY <1>1, <2>1, FS_Surjection
  <2>3. QED
    BY <2>2 DEF T
<1>4. IsFiniteSet(UNION {Pile(m, l) : l \in some})
  BY <1>2, <1>3, FS_UNION
<1>5. QED
  BY <1>1, <1>4 DEF Piles

LEMMA OnePileMore ==
    ASSUME NEW m, IsScored(m), NEW some \in SUBSET DOMAIN m, NEW x \in some
    PROVE  Cardinality(Piles(m, some)) =
              tx.scores[m[x]][x] + Cardinality(Piles(m, some \ {x}))
<1> DEFINE A == Pile(m, x)
           B == Piles(m, some \ {x})
<1>1. Piles(m, some) = A \cup B
  BY DEF Piles
<1>2. A \cap B = {}
  BY DEF Pile, Piles
<1>3. IsFiniteSet(A) /\ Cardinality(A) = tx.scores[m[x]][x] /\ tx.scores[m[x]][x] \in Nat
  BY PilesAreCounted DEF IsScored
<1>4. IsFiniteSet(B)
  BY PilesAreFinite
<1> HIDE DEF A, B
<1>5. Cardinality(A \cup B) = Cardinality(A) + Cardinality(B) - Cardinality(A \cap B)
  BY <1>3, <1>4, FS_Union
<1>6. Cardinality(A \cap B) = 0 /\ Cardinality(B) \in Nat
  <2>1. Cardinality(A \cap B) = Cardinality({})
    BY <1>2, Zenon
  <2>2. QED
    BY <1>4, <2>1, FS_EmptySet, FS_CardinalityType
<1>7. QED
  BY <1>1, <1>3, <1>5, <1>6 DEF B

LEMMA CountIsTotal ==
    ASSUME NEW m, IsScored(m)
    PROVE  IsTotal([some \in SUBSET DOMAIN m |-> Cardinality(Piles(m, some))], m, DOMAIN m)
<1> DEFINE g == [some \in SUBSET DOMAIN m |-> Cardinality(Piles(m, some))]
<1>1. ASSUME NEW some \in SUBSET DOMAIN m
      PROVE  g[some] = IF some = {} THEN 0
                       ELSE tx.scores[m[Picked(some)]][Picked(some)] + g[some \ {Picked(some)}]
  <2>1. CASE some = {}
    <3>1. Piles(m, some) = {}
      BY <2>1 DEF Piles
    <3>2. QED
      BY <2>1, <3>1, FS_EmptySet
  <2>2. CASE some # {}
    <3>1. Picked(some) \in some
      BY <2>2 DEF Picked
    <3>2. some \ {Picked(some)} \in SUBSET DOMAIN m
      OBVIOUS
    <3>3. QED
      BY <2>2, <3>1, <3>2, OnePileMore
  <2>3. QED
    BY <2>1, <2>2
<1>2. g = [some \in SUBSET DOMAIN m |-> g[some]]
  OBVIOUS
<1> HIDE DEF g
<1>3. IsTotal(g, m, DOMAIN m)
  BY <1>1, <1>2 DEF IsTotal
<1>4. QED
  BY <1>3 DEF g

(* There is one such function: two would differ at a smallest set first.    *)
LEMMA LeastNumber ==
    ASSUME NEW T, T \subseteq Nat, T # {}
    PROVE  \E x \in T : \A y \in T : x <= y
<1> DEFINE Less == OpToRel(<, Nat)
<1>1. PICK x \in T : \A y \in T : ~ (<<y, x>> \in Less)
  BY NatLessThanWellFounded, WFMin
<1>2. \A y \in T : ~(y < x)
  BY <1>1 DEF OpToRel
<1> HIDE DEF Less
<1>3. QED
  BY <1>2

LEMMA TotalsAreOne ==
    ASSUME NEW m, NEW all, IsFiniteSet(all), NEW g, NEW h, IsTotal(g, m, all), IsTotal(h, m, all)
    PROVE  g[all] = h[all]
<1> DEFINE Wrong == {some \in SUBSET all : g[some] # h[some]}
           Sizes == {Cardinality(some) : some \in Wrong}
<1>1. SUFFICES ASSUME all \in Wrong PROVE FALSE
  OBVIOUS
<1>2. \A some \in SUBSET all : IsFiniteSet(some) /\ Cardinality(some) \in Nat
  BY FS_Subset, FS_CardinalityType
<1>3. Sizes \subseteq Nat /\ Sizes # {}
  BY <1>1, <1>2
<1>4. PICK k \in Sizes : \A j \in Sizes : k <= j
  <2> HIDE DEF Sizes
  <2>1. QED
    BY <1>3, LeastNumber
<1>5. PICK some \in Wrong : k = Cardinality(some)
  BY <1>4
<1>6. some \in SUBSET all /\ g[some] # h[some]
  BY <1>5
<1> DEFINE x == Picked(some)
<1>7. /\ g[some] = IF some = {} THEN 0 ELSE tx.scores[m[x]][x] + g[some \ {x}]
      /\ h[some] = IF some = {} THEN 0 ELSE tx.scores[m[x]][x] + h[some \ {x}]
  BY <1>6 DEF IsTotal
<1>8. some # {} /\ x \in some
  BY <1>6, <1>7 DEF Picked
<1> HIDE DEF x
<1>9. some \ {x} \in Wrong
  BY <1>6, <1>7, <1>8
<1>10. k <= Cardinality(some \ {x})
  BY <1>4, <1>9
<1>11. Cardinality(some \ {x}) = Cardinality(some) - 1
  BY <1>2, <1>6, <1>8, FS_RemoveElement
<1>12. QED
  BY <1>2, <1>5, <1>6, <1>10, <1>11

LEMMA TotalIsCount ==
    ASSUME NEW m, IsScored(m)
    PROVE  Total(m) = Cardinality(Piles(m, DOMAIN m))
<1> DEFINE count == [some \in SUBSET DOMAIN m |-> Cardinality(Piles(m, some))]
<1>1. IsTotal(count, m, DOMAIN m)
  BY CountIsTotal
<1>2. count[DOMAIN m] = Cardinality(Piles(m, DOMAIN m))
  OBVIOUS
<1> HIDE DEF count
<1>3. IsTotal(CHOOSE g : IsTotal(g, m, DOMAIN m), m, DOMAIN m)
  BY <1>1
<1>4. (CHOOSE g : IsTotal(g, m, DOMAIN m))[DOMAIN m] = Cardinality(Piles(m, DOMAIN m))
  BY <1>1, <1>2, <1>3, TotalsAreOne DEF IsScored
<1>5. Total(m) = (CHOOSE g : IsTotal(g, m, DOMAIN m))[DOMAIN m]
  BY DEF Total, MapThenSumSet, MapThenFoldSet, IsTotal, Picked
<1>6. QED
  BY <1>4, <1>5

(* A higher pile makes a higher total, and so does one more.                *)
LEMMA MorePilesAreMore ==
    ASSUME NEW m, NEW n, IsScored(m), IsScored(n),
           DOMAIN m \subseteq DOMAIN n,
           \A l \in DOMAIN m : tx.scores[m[l]][l] <= tx.scores[n[l]][l]
    PROVE  /\ Total(m) \in Nat /\ Total(n) \in Nat /\ Total(m) <= Total(n)
           /\ (\E l \in DOMAIN m : tx.scores[m[l]][l] < tx.scores[n[l]][l]) => Total(m) < Total(n)
<1> DEFINE P == Piles(m, DOMAIN m)
           Q == Piles(n, DOMAIN n)
<1>1. Total(m) = Cardinality(P) /\ Total(n) = Cardinality(Q)
  BY TotalIsCount
<1>2. IsFiniteSet(P) /\ IsFiniteSet(Q)
  BY PilesAreFinite
<1>3. \A l \in DOMAIN m : Pile(m, l) \subseteq Pile(n, l)
  <2>1. ASSUME NEW l \in DOMAIN m PROVE Pile(m, l) \subseteq Pile(n, l)
    <3> DEFINE j == tx.scores[m[l]][l]
               k == tx.scores[n[l]][l]
    <3>1. j \in Nat /\ k \in Nat /\ j <= k
      BY DEF IsScored
    <3> HIDE DEF j, k
    <3>2. 1..j \subseteq 1..k
      BY <3>1
    <3>3. {l} \X (1..j) \subseteq {l} \X (1..k)
      BY <3>2
    <3>4. QED
      BY <3>3 DEF Pile, j, k
  <2>2. QED
    BY <2>1
<1>4. P \subseteq Q
  BY <1>3 DEF Piles
<1>5. ASSUME NEW l \in DOMAIN m, tx.scores[m[l]][l] < tx.scores[n[l]][l]
      PROVE  P # Q
  <2> DEFINE j == tx.scores[m[l]][l]
             k == tx.scores[n[l]][l]
  <2>1. j \in Nat /\ k \in Nat /\ j < k
    BY <1>5 DEF IsScored
  <2>2. <<l, k>> \in Pile(n, l)
    <3> HIDE DEF j, k
    <3>1. k \in 1..k
      BY <2>1
    <3>2. <<l, k>> \in {l} \X (1..k)
      BY <3>1
    <3>3. QED
      BY <3>2 DEF Pile, k
  <2>3. <<l, k>> \in Q
    BY <2>2 DEF Piles
  <2>4. ASSUME NEW i \in DOMAIN m, <<l, k>> \in Pile(m, i) PROVE FALSE
    <3>1. i = l /\ k \in 1..tx.scores[m[i]][i]
      BY <2>4 DEF Pile
    <3>2. k \in 1..j
      BY <3>1
    <3> HIDE DEF j, k
    <3>3. QED
      BY <2>1, <3>2
  <2>5. <<l, k>> \notin P
    BY <2>4 DEF Piles
  <2> HIDE DEF k, P, Q
  <2>6. QED
    BY <2>3, <2>5
<1> HIDE DEF P, Q
<1>6. /\ Cardinality(P) \in Nat /\ Cardinality(Q) \in Nat /\ Cardinality(P) <= Cardinality(Q)
      /\ Cardinality(P) = Cardinality(Q) => P = Q
  BY <1>2, <1>4, FS_CardinalityType, FS_Subset
<1>7. QED
  BY <1>1, <1>5, <1>6

(* The best matching leaves nobody better out: to put one without a place   *)
(* into a lane would raise the total, or fill a lane more.                  *)
LEMMA ScoresAreNumbers ==
    ASSUME TypeOK, tx # NoTx, NEW s, NEW l \in Lanes, NEW p \in Free(s, l)
    PROVE  tx.scores[p][l] \in Nat
<1>1. tx.scores \in Tables
  BY DEF TypeOK
<1>2. tx.scores \in [People -> [Lanes -> Scores]]
  BY <1>1, PlannerAssumption
<1>3. p \in People /\ tx.scores[p][l] # NoScore
  BY FreeAreEligible
<1>4. QED
  BY <1>2, <1>3 DEF Scores

LEMMA MatchingsAreScored ==
    ASSUME TypeOK, tx # NoTx, NEW s, NEW m \in Matchings(s)
    PROVE  /\ IsScored(m) /\ DOMAIN m \subseteq RestLanes(s)
           /\ \A l \in DOMAIN m : m[l] \in Free(s, l)
           /\ \A l, k \in DOMAIN m : m[l] = m[k] => l = k
<1>1. /\ DOMAIN m \subseteq RestLanes(s)
      /\ \A l \in DOMAIN m : m[l] \in Free(s, l)
      /\ \A l, k \in DOMAIN m : m[l] = m[k] => l = k
  BY DEF Matchings
<1>2. DOMAIN m \subseteq Lanes
  BY <1>1 DEF RestLanes, OpenLanes
<1>3. IsFiniteSet(DOMAIN m)
  BY <1>2, FS_Subset, PlannerAssumption
<1>4. \A l \in DOMAIN m : tx.scores[m[l]][l] \in Nat
  BY <1>1, <1>2, ScoresAreNumbers
<1>5. QED
  BY <1>1, <1>3, <1>4 DEF IsScored

LEMMA PutIn ==
    ASSUME TypeOK, tx # NoTx, NEW s, NEW m \in Matchings(s),
           NEW l \in RestLanes(s), NEW p \in Free(s, l), \A k \in DOMAIN m : m[k] # p,
           NEW n, n = [k \in DOMAIN m \cup {l} |-> IF k = l THEN p ELSE m[k]]
    PROVE  n \in Matchings(s)
<1>1. /\ DOMAIN m \subseteq RestLanes(s)
      /\ \A k \in DOMAIN m : m[k] \in Free(s, k)
      /\ \A j, k \in DOMAIN m : m[j] = m[k] => j = k
  BY MatchingsAreScored
<1>2. DOMAIN n = DOMAIN m \cup {l} /\ DOMAIN n \in SUBSET RestLanes(s)
  BY <1>1
<1>3. \A k \in DOMAIN n : n[k] \in Free(s, k)
  BY <1>1
<1>4. \A j, k \in DOMAIN n : n[j] = n[k] => j = k
  BY <1>1
<1>5. n \in [DOMAIN n -> People]
  <2>1. \A k \in DOMAIN n : n[k] \in People
    BY <1>3, FreeAreEligible
  <2>2. QED
    BY <2>1
<1>6. QED
  BY <1>2, <1>3, <1>4, <1>5 DEF Matchings

LEMMA BestLeavesNobodyBetter ==
    ASSUME TypeOK, tx # NoTx, NEW s, NEW m, BestMatching(s, m),
           NEW l \in RestLanes(s), NEW p \in Free(s, l), \A k \in DOMAIN m : m[k] # p
    PROVE  l \in DOMAIN m /\ tx.scores[m[l]][l] >= tx.scores[p][l]
<1>1. PICK n : n = [k \in DOMAIN m \cup {l} |-> IF k = l THEN p ELSE m[k]]
  OBVIOUS
<1>2. m \in Matchings(s)
  BY DEF BestMatching
<1>3. n \in Matchings(s)
  BY <1>1, <1>2, PutIn
<1>4. AtLeast(m, n)
  BY <1>3 DEF BestMatching
<1>5. IsScored(m) /\ IsScored(n)
  BY <1>2, <1>3, MatchingsAreScored
<1>6. DOMAIN n = DOMAIN m \cup {l} /\ n[l] = p /\ \A k \in DOMAIN m : k # l => n[k] = m[k]
  BY <1>1
<1>7. ASSUME l \in DOMAIN m PROVE tx.scores[m[l]][l] >= tx.scores[p][l]
  <2>1. tx.scores[m[l]][l] \in Nat /\ tx.scores[n[l]][l] \in Nat
    BY <1>5, <1>6, <1>7 DEF IsScored
  <2>2. SUFFICES ASSUME tx.scores[m[l]][l] < tx.scores[n[l]][l] PROVE FALSE
    BY <1>6, <2>1
  <2>3. \A k \in DOMAIN m : tx.scores[m[k]][k] <= tx.scores[n[k]][k]
    BY <1>5, <1>6, <2>1, <2>2 DEF IsScored
  <2>4. DOMAIN m \subseteq DOMAIN n /\ DOMAIN n = DOMAIN m
    BY <1>6, <1>7
  <2>5. Total(m) \in Nat /\ Total(n) \in Nat /\ Total(m) < Total(n)
    BY <1>5, <1>7, <2>2, <2>3, <2>4, MorePilesAreMore
  <2>6. QED
    BY <1>4, <2>5 DEF AtLeast
<1>8. ASSUME l \notin DOMAIN m PROVE FALSE
  <2>1. \A k \in DOMAIN m : tx.scores[m[k]][k] <= tx.scores[n[k]][k]
    BY <1>5, <1>6, <1>8 DEF IsScored
  <2>2. DOMAIN m \subseteq DOMAIN n
    BY <1>6
  <2>3. Total(m) \in Nat /\ Total(n) \in Nat /\ Total(m) <= Total(n)
    BY <1>5, <2>1, <2>2, MorePilesAreMore
  <2>4. Cardinality(DOMAIN n) = Cardinality(DOMAIN m) + 1 /\ Cardinality(DOMAIN m) \in Nat
    BY <1>5, <1>6, <1>8, FS_AddElement, FS_CardinalityType DEF IsScored
  <2>5. QED
    BY <1>4, <2>3, <2>4 DEF AtLeast
<1>9. QED
  BY <1>7, <1>8

(* The steps of a plan.                                                     *)
LEMMA FewerAreFree ==
    ASSUME UNCHANGED <<strings, squad>>, tx'.scores = tx.scores, tx.placed \subseteq tx'.placed
    PROVE  /\ AllStrings' = AllStrings
           /\ \A s, l : Free(s, l)' \subseteq Free(s, l)
           /\ \A s, l : \A p \in Free(s, l)' : p \notin Players(tx'.placed)
<1>1. \A t : StringsOf(t)' = StringsOf(t)
  BY DEF StringsOf
<1>2. AllStrings' = AllStrings /\ \A s : TeamOf(s)' = TeamOf(s)
  BY <1>1 DEF AllStrings, TeamOf
<1>3. \A s : Candidates(TeamOf(s), tx.scores)' = Candidates(TeamOf(s), tx.scores)
  BY <1>2 DEF Candidates, AgeEligible
<1>4. Players(tx.placed) \subseteq Players(tx'.placed)
  BY DEF Players
<1>5. QED
  BY <1>2, <1>3, <1>4 DEF Free

LEMMA SettledStays ==
    ASSUME UNCHANGED <<strings, squad>>, tx'.scores = tx.scores, tx.placed \subseteq tx'.placed,
           NEW s, NEW l, Settled(s, l)
    PROVE  Settled(s, l)'
<1>1. Free(s, l)' \subseteq Free(s, l)
  BY FewerAreFree
<1>2. QED
  BY <1>1 DEF Settled

LEMMA FillRankedSettles == IInv /\ BestSoFar /\ FillRanked => BestSoFar'
<1> SUFFICES ASSUME IInv, BestSoFar, FillRanked PROVE BestSoFar'
  OBVIOUS
<1>1. PICK s \in tx.left : InTurn(s) /\ \E l \in RankedLeft(s) :
         \/ Free(s, l) = {} /\ tx' = [tx EXCEPT !.done = @ \cup {l}]
         \/ \E p \in Free(s, l) :
               /\ \A q \in Free(s, l) :
                      \/ tx.scores[q][l] < tx.scores[p][l]
                      \/ tx.scores[q][l] = tx.scores[p][l] /\ p <= q
               /\ tx' = [tx EXCEPT !.done = @ \cup {l},
                         !.placed = @ \cup {Row(s, l, p, "optimizer")}]
  BY DEF FillRanked
<1>2. PICK l \in RankedLeft(s) :
         \/ Free(s, l) = {} /\ tx' = [tx EXCEPT !.done = @ \cup {l}]
         \/ \E p \in Free(s, l) :
               /\ \A q \in Free(s, l) :
                      \/ tx.scores[q][l] < tx.scores[p][l]
                      \/ tx.scores[q][l] = tx.scores[p][l] /\ p <= q
               /\ tx' = [tx EXCEPT !.done = @ \cup {l},
                         !.placed = @ \cup {Row(s, l, p, "optimizer")}]
  BY <1>1
<1>3. /\ tx # NoTx /\ strings' = strings /\ squad' = squad
      /\ TypeOK /\ tx.left \subseteq AllStrings
  BY DEF FillRanked, IInv, PlanAgrees
<1>4. tx \in TxType
  BY <1>3 DEF TypeOK, TxType
<1>5. l \in Lanes
  BY DEF RankedLeft, OpenLanes
<1>6. /\ tx'.left = tx.left /\ tx'.done = tx.done \cup {l}
      /\ tx'.scores = tx.scores /\ tx.placed \subseteq tx'.placed
  BY <1>2, <1>4 DEF TxType
<1>7. Settled(s, l)'
  <2>1. Free(s, l)' \subseteq Free(s, l)
    BY <1>3, <1>6, FewerAreFree
  <2>2. CASE Free(s, l) = {}
    BY <2>1, <2>2 DEF Settled
  <2>3. ASSUME NEW p \in Free(s, l),
               \A q \in Free(s, l) :
                  \/ tx.scores[q][l] < tx.scores[p][l]
                  \/ tx.scores[q][l] = tx.scores[p][l] /\ p <= q,
               tx' = [tx EXCEPT !.done = @ \cup {l},
                         !.placed = @ \cup {Row(s, l, p, "optimizer")}]
        PROVE  Settled(s, l)'
    <3> DEFINE row == Row(s, l, p, "optimizer")
    <3>1. row \in tx'.placed
      BY <1>4, <2>3 DEF TxType
    <3>2. row.string = s /\ row.lane = l /\ row.player = p
      BY DEF Row
    <3> HIDE DEF row
    <3>3. \A q \in Free(s, l) : tx.scores[p][l] >= tx.scores[q][l]
      BY <1>3, <1>5, <2>3, ScoresAreNumbers
    <3>4. \A q \in Free(s, l)' : tx'.scores[row.player][l] >= tx'.scores[q][l]
      BY <1>6, <2>1, <3>2, <3>3
    <3>5. QED
      BY <3>1, <3>2, <3>4 DEF Settled
  <2>4. QED
    BY <1>2, <2>2, <2>3
<1>8. \A z : InTurn(z)' <=> InTurn(z)
  BY <1>3, <1>6, InTurnStays
<1>9. AllStrings' = AllStrings
  BY <1>3, <1>6, FewerAreFree
<1>10. ASSUME NEW z \in AllStrings, NEW k \in Lanes,
              z \notin tx.left \/ (InTurn(z) /\ k \in tx.done \cup {l})
       PROVE  Settled(z, k)'
  <2>1. CASE z \notin tx.left \/ (InTurn(z) /\ k \in tx.done)
    <3>1. Settled(z, k)
      BY <1>3, <2>1 DEF BestSoFar
    <3>2. QED
      BY <1>3, <1>6, <3>1, SettledStays
  <2>2. CASE InTurn(z) /\ k = l
    <3>1. z = s
      BY <1>1, <1>3, <2>2, OneIsInTurn
    <3>2. QED
      BY <1>7, <2>2, <3>1
  <2>3. QED
    BY <1>10, <2>1, <2>2
<1>11. QED
  BY <1>6, <1>8, <1>9, <1>10 DEF BestSoFar

LEMMA FillRestSettles == IInv /\ BestSoFar /\ FillRest => BestSoFar'
<1> SUFFICES ASSUME IInv, BestSoFar, FillRest PROVE BestSoFar'
  OBVIOUS
<1>1. PICK s \in tx.left : InTurn(s) /\ RankedLeft(s) = {} /\ \E m \in Matchings(s) :
         /\ BestMatching(s, m)
         /\ tx' = [tx EXCEPT !.left = @ \ {s}, !.done = {},
                   !.placed = @ \cup {Row(s, l, m[l], "optimizer") : l \in DOMAIN m}]
  BY DEF FillRest
<1>2. PICK m \in Matchings(s) :
         /\ BestMatching(s, m)
         /\ tx' = [tx EXCEPT !.left = @ \ {s}, !.done = {},
                   !.placed = @ \cup {Row(s, l, m[l], "optimizer") : l \in DOMAIN m}]
  BY <1>1
<1>3. /\ tx # NoTx /\ strings' = strings /\ squad' = squad
      /\ TypeOK /\ tx.left \subseteq AllStrings /\ Manual(tx.placed) = Manual(placed)
  BY DEF FillRest, IInv, PlanAgrees
<1>4. tx \in TxType
  BY <1>3 DEF TypeOK, TxType
<1> DEFINE rows == {Row(s, l, m[l], "optimizer") : l \in DOMAIN m}
<1>5. /\ tx'.left = tx.left \ {s} /\ tx'.done = {}
      /\ tx'.scores = tx.scores /\ tx'.placed = tx.placed \cup rows
  BY <1>2, <1>4 DEF TxType
<1>6. \A l \in DOMAIN m : \E a \in rows :
         a.string = s /\ a.lane = l /\ a.player = m[l]
  <2>1. ASSUME NEW l \in DOMAIN m
        PROVE  /\ Row(s, l, m[l], "optimizer") \in rows
               /\ Row(s, l, m[l], "optimizer").string = s
               /\ Row(s, l, m[l], "optimizer").lane = l
               /\ Row(s, l, m[l], "optimizer").player = m[l]
    BY DEF Row
  <2>2. QED
    BY <2>1
<1> HIDE DEF rows
<1>7. tx.placed \subseteq tx'.placed /\ s \in AllStrings
  BY <1>3, <1>5
<1>8. /\ AllStrings' = AllStrings
      /\ \A z, l : Free(z, l)' \subseteq Free(z, l)
      /\ \A z, l : \A p \in Free(z, l)' : p \notin Players(tx'.placed)
  BY <1>3, <1>5, <1>7, FewerAreFree
<1>9. ASSUME NEW l \in Lanes PROVE Settled(s, l)'
  <2>1. CASE l \notin OpenLanes(s)
    <3>1. PICK a \in Manual(placed) : a.string = s /\ a.lane = l
      BY <2>1 DEF OpenLanes, Taken
    <3>2. a \in tx'.placed /\ a.by # "optimizer"
      BY <1>3, <1>7, <3>1 DEF Manual
    <3>3. QED
      BY <3>1, <3>2 DEF Settled
  <2>2. CASE l \in OpenLanes(s) /\ ranks[l] # 0
    <3>1. l \in tx.done
      BY <1>1, <2>2 DEF RankedLeft
    <3>2. Settled(s, l)
      BY <1>1, <1>3, <1>7, <3>1 DEF BestSoFar
    <3>3. QED
      BY <1>3, <1>5, <1>7, <3>2, SettledStays
  <2>3. CASE l \in RestLanes(s)
    <3>1. ASSUME NEW p \in Free(s, l)'
          PROVE  \E a \in tx'.placed :
                    a.string = s /\ a.lane = l /\ tx'.scores[a.player][l] >= tx'.scores[p][l]
      <4>1. p \in Free(s, l) /\ p \notin Players(tx'.placed)
        BY <1>8
      <4>2. \A k \in DOMAIN m : m[k] # p
        BY <1>5, <1>6, <4>1 DEF Players
      <4>3. l \in DOMAIN m /\ tx.scores[m[l]][l] >= tx.scores[p][l]
        BY <1>2, <1>3, <2>3, <4>1, <4>2, BestLeavesNobodyBetter
      <4>4. PICK a \in rows : a.string = s /\ a.lane = l /\ a.player = m[l]
        BY <1>6, <4>3
      <4>5. QED
        BY <1>5, <4>3, <4>4
    <3>2. QED
      BY <3>1 DEF Settled
  <2>4. QED
    BY <2>1, <2>2, <2>3 DEF RestLanes
<1>10. ASSUME NEW z \in AllStrings, NEW l \in Lanes, z \notin tx.left \ {s}
       PROVE  Settled(z, l)'
  <2>1. CASE z = s
    BY <1>9, <2>1
  <2>2. CASE z # s
    <3>1. Settled(z, l)
      BY <1>3, <1>10, <2>2 DEF BestSoFar
    <3>2. QED
      BY <1>3, <1>5, <1>7, <3>1, SettledStays
  <2>3. QED
    BY <2>1, <2>2
<1>11. QED
  BY <1>5, <1>8, <1>10 DEF BestSoFar

LEMMA BestStays == IInv /\ BestSoFar /\ [Next]_vars => BestSoFar'
<1> SUFFICES ASSUME IInv, BestSoFar, [Next]_vars PROVE BestSoFar'
  OBVIOUS
<1>1. CASE tx' = NoTx
  BY <1>1 DEF BestSoFar
<1>2. CASE BeginOptimize
  <2>1. PICK scores \in Tables :
           tx' = [left |-> UNION {{strings'[t][k] : k \in DOMAIN strings'[t]} : t \in Teams},
                  done |-> {}, placed |-> Manual(placed), scores |-> scores]
    BY <1>2 DEF BeginOptimize
  <2>2. tx'.left = AllStrings' /\ tx'.done = {}
    BY <2>1 DEF AllStrings, StringsOf
  <2>3. QED
    BY <2>2 DEF BestSoFar
<1>3. CASE FillRanked
  BY <1>3, FillRankedSettles
<1>4. CASE FillRest
  BY <1>4, FillRestSettles
<1>5. CASE UNCHANGED vars
  <2>1. /\ strings' = strings /\ squad' = squad /\ tx' = tx
    BY <1>5 DEF vars
  <2>2. AllStrings' = AllStrings /\ \A z : InTurn(z)' <=> InTurn(z)
    BY <2>1, FewerAreFree, InTurnStays
  <2>3. ASSUME NEW s, NEW l, Settled(s, l) PROVE Settled(s, l)'
    BY <2>1, <2>3, SettledStays
  <2>4. QED
    BY <2>1, <2>2, <2>3 DEF BestSoFar
<1>6. CASE \/ GetDepth \/ EnsureTeams \/ ClearAll \/ SaveTactic \/ SaveTargets
           \/ CommitPlan \/ RollBack \/ NewSnapshot
  <2>1. tx' = NoTx
    BY <1>6 DEF GetDepth, EnsureTeams, ClearAll, SaveTactic, SaveTargets, CommitPlan, RollBack,
       NewSnapshot, Command
  <2>2. QED
    BY <1>1, <2>1
<1>7. ASSUME NEW s \in Ids, NEW l \in Lanes, NEW p \in People,
             AssignPlayer(s, l, p) \/ MovePlayer(s, l, p)
      PROVE  BestSoFar'
  <2>1. tx' = NoTx
    BY <1>7 DEF AssignPlayer, MovePlayer, Command
  <2>2. QED
    BY <1>1, <2>1
<1>8. ASSUME NEW s \in Ids, NEW l \in Lanes, ClearAssignment(s, l)
      PROVE  BestSoFar'
  <2>1. tx' = NoTx
    BY <1>8 DEF ClearAssignment, Command
  <2>2. QED
    BY <1>1, <2>1
<1>9. ASSUME NEW d \in Inputs, NEW c \in BOOLEAN, SaveTeams(d, c) PROVE BestSoFar'
  <2>1. tx' = NoTx
    BY <1>9 DEF SaveTeams, Command
  <2>2. QED
    BY <1>1, <2>1
<1>10. QED
  BY <1>2, <1>3, <1>4, <1>5, <1>6, <1>7, <1>8, <1>9 DEF Next

(* A plan is made of those who may play, and of the best of them: when it   *)
(* is finished, nobody without a place would be better in a cell that is    *)
(* empty or that the plan has filled (assign_ranked_lanes, match_lanes).    *)
THEOREM PlansAreBest == Spec => []PlanIsBest
<1>1. Init => IInv /\ BestSoFar
  BY InitHolds DEF Init, BestSoFar
<1>2. IInv /\ BestSoFar /\ [Next]_vars => (IInv /\ BestSoFar)'
  BY NextKeeps, BestStays
<1>3. IInv /\ BestSoFar => PlanIsBest
  BY DEF IInv, BestSoFar, Settled, PlanIsBest, NobodyBetterIsLeft
<1> QED
  BY <1>1, <1>2, <1>3, PTL DEF Spec

-----------------------------------------------------------------------------
(* What the user has placed is lost only by a command that names it or was  *)
(* confirmed to remove it.                                                  *)
LEMMA StepsLoseNothing ==
    IInv /\ Next => \A a \in Manual(placed) : a \notin placed' => a.player \in asked'.players
<1> SUFFICES ASSUME IInv, Next, NEW a \in Manual(placed), a \notin placed'
             PROVE  a.player \in asked'.players
  OBVIOUS
<1>1. a \in placed /\ placed' # placed
  BY DEF Manual
<1>2. CASE \E s \in Ids, l \in Lanes, p \in People : AssignPlayer(s, l, p)
  BY <1>1, <1>2 DEF AssignPlayer
<1>3. CASE \E s \in Ids, l \in Lanes, p \in People : MovePlayer(s, l, p)
  BY <1>1, <1>3 DEF MovePlayer, Command
<1>4. CASE \E s \in Ids, l \in Lanes : ClearAssignment(s, l)
  <2>1. PICK s \in Ids, l \in Lanes : ClearAssignment(s, l)
    BY <1>4
  <2> DEFINE there == {b \in placed : b.string = s /\ b.lane = l}
  <2>2. asked'.players = Players(there) /\ a \in there
    BY <1>1, <2>1 DEF ClearAssignment, Command
  <2> QED
    BY <2>2 DEF Players
<1>5. CASE ClearAll
  BY <1>1, <1>5 DEF ClearAll, Command, Players
<1>6. CASE \E d \in Inputs, c \in BOOLEAN : SaveTeams(d, c)
  <2>1. PICK d \in Inputs, c \in BOOLEAN : SaveTeams(d, c)
    BY <1>6
  <2> DEFINE lost == {b \in placed : b.string \in Dropped(d)}
  <2>2. a \in lost
    BY <1>1, <2>1 DEF SaveTeams
  <2>3. c
    BY <2>1, <2>2 DEF SaveTeams, Populated
  <2>4. asked'.players = Players(lost)
    BY <2>1, <2>3 DEF SaveTeams, Command
  <2> QED
    BY <2>2, <2>4 DEF Players
<1>7. CASE CommitPlan
  <2>1. Manual(tx.placed) = Manual(placed) /\ placed' = tx.placed
    BY <1>7 DEF CommitPlan, IInv, PlanAgrees
  <2> QED
    BY <2>1 DEF Manual
<1> QED
  BY <1>1, <1>2, <1>3, <1>4, <1>5, <1>6, <1>7
     DEF Next, GetDepth, EnsureTeams, SaveTactic, SaveTargets, BeginOptimize, FillRanked,
         FillRest, RollBack, NewSnapshot

(* Never by a plan, and never by a change of the teams that was not         *)
(* confirmed (optimize_depth_with_basis, save_team_settings).               *)
THEOREM NothingGetsLost == Spec => NothingIsLost
<1>1. IInv /\ [Next]_vars
          => [\A a \in Manual(placed) : a \notin placed' => a.player \in asked'.players]_vars
  BY StepsLoseNothing
<1> QED
  BY <1>1, PlannerInvariant, PTL DEF Spec, NothingIsLost

-----------------------------------------------------------------------------
(* The refinement.                                                          *)

LEMMA CellOfRow ==
    ASSUME NEW rows, Distinct(rows), NEW a \in rows
    PROVE  CellIn(rows, a.player) = <<a.string, a.lane>>
<1> DEFINE b == CHOOSE r \in rows : r.player = a.player
<1>1. b \in rows /\ b.player = a.player
  OBVIOUS
<1>2. b = a
  BY <1>1 DEF Distinct
<1>3. a.player \in Players(rows)
  BY DEF Players
<1> QED
  BY <1>2, <1>3 DEF CellIn

LEMMA RowOfCell ==
    ASSUME NEW rows, NEW p, CellIn(rows, p) # Nowhere
    PROVE  \E a \in rows : a.player = p /\ CellIn(rows, p) = <<a.string, a.lane>>
<1>1. p \in Players(rows)
  BY DEF CellIn
<1> DEFINE b == CHOOSE r \in rows : r.player = p
<1>2. \E r \in rows : r.player = p
  BY <1>1 DEF Players
<1>3. b \in rows /\ b.player = p
  BY <1>2
<1> QED
  BY <1>1, <1>3 DEF CellIn

LEMMA CellsAreCells ==
    ASSUME NEW rows \in SUBSET Placements, NEW p
    PROVE  CellIn(rows, p) \in Cells \cup {Nowhere}
<1> SUFFICES ASSUME CellIn(rows, p) # Nowhere PROVE CellIn(rows, p) \in Cells
  OBVIOUS
<1>1. PICK a \in rows : CellIn(rows, p) = <<a.string, a.lane>>
  BY RowOfCell
<1> QED
  BY <1>1 DEF Placements, Cells

(* Taking rows away takes their players out, and moves nobody.              *)
LEMMA TakingOut ==
    ASSUME IInv, NEW gone \in SUBSET placed, placed' = placed \ gone
    PROVE  Chart!TakeOut(Players(gone)) /\ Players(gone) \in SUBSET People
<1>1. placed \subseteq Placements /\ Distinct(placed) /\ Distinct(placed')
  BY SomeAreDistinct DEF IInv, TypeOK, ChartIsConsistent, PlacesAreUnique
<1>2. Players(gone) \in SUBSET People
  BY <1>1, PlayersArePeople DEF IInv
<1>3. ASSUME NEW a \in placed PROVE a \in gone <=> a.player \in Players(gone)
  BY <1>1 DEF Distinct, Players
<1>4. ASSUME NEW p \in People
      PROVE  CellIn(placed', p) = IF p \in Players(gone) THEN Nowhere ELSE CellIn(placed, p)
  <2>1. CASE p \in Players(gone)
    <3>1. p \notin Players(placed')
      BY <1>3, <2>1 DEF Players
    <3> QED
      BY <2>1, <3>1 DEF CellIn
  <2>2. CASE p \notin Players(placed)
    BY <2>2 DEF CellIn, Players
  <2>3. CASE p \in Players(placed) /\ p \notin Players(gone)
    <3>1. PICK a \in placed : a.player = p
      BY <2>3 DEF Players
    <3>2. a \in placed'
      BY <1>3, <2>3, <3>1
    <3>3. CellIn(placed, p) = <<a.string, a.lane>> /\ CellIn(placed', p) = <<a.string, a.lane>>
      BY <1>1, <3>1, <3>2, CellOfRow
    <3> QED
      BY <2>3, <3>3
  <2> QED
    BY <2>1, <2>2, <2>3
<1>5. Players(Manual(placed')) = Players(Manual(placed)) \ Players(gone)
  BY <1>3 DEF Players, Manual
<1> QED
  BY <1>2, <1>4, <1>5 DEF Chart!TakeOut

(* A row in place of those the player had puts the player there.            *)
LEMMA PuttingIn ==
    ASSUME IInv, NEW s \in Ids, NEW l \in Lanes, NEW p \in People,
           ~Taken(placed, s, l),
           placed' = {a \in placed : a.player # p} \cup {Row(s, l, p, "manual")},
           Distinct(placed')
    PROVE  Chart!Put(p, <<s, l>>)
<1> DEFINE row == Row(s, l, p, "manual")
<1>1. Distinct(placed) /\ <<s, l>> \in Cells /\ Nowhere \notin Cells
  BY PlannerAssumption DEF IInv, ChartIsConsistent, PlacesAreUnique, Cells
<1>2. row \in placed' /\ row.string = s /\ row.lane = l /\ row.player = p /\ row.by = "manual"
  BY DEF Row
<1>3. ASSUME NEW q \in People PROVE CellIn(placed, q) # <<s, l>>
  <2> SUFFICES ASSUME CellIn(placed, q) = <<s, l>> PROVE FALSE
    OBVIOUS
  <2>1. PICK a \in placed : CellIn(placed, q) = <<a.string, a.lane>>
    BY <1>1, RowOfCell
  <2> QED
    BY <2>1 DEF Taken
<1>4. CellIn(placed', p) = <<s, l>>
  BY <1>2, CellOfRow
<1>5. ASSUME NEW q \in People, q # p PROVE CellIn(placed', q) = CellIn(placed, q)
  <2>1. CASE q \in Players(placed)
    <3>1. PICK a \in placed : a.player = q
      BY <2>1 DEF Players
    <3>2. a \in placed'
      BY <1>5, <3>1
    <3> QED
      BY <1>1, <3>1, <3>2, CellOfRow
  <2>2. CASE q \notin Players(placed)
    <3>1. q \notin Players(placed')
      BY <1>5, <2>2 DEF Players, Row
    <3> QED
      BY <2>2, <3>1 DEF CellIn
  <2> QED
    BY <2>1, <2>2
<1>6. Players(Manual(placed')) = Players(Manual(placed)) \cup {p}
  BY <1>2 DEF Players, Manual, Row
<1> QED
  BY <1>3, <1>4, <1>5, <1>6 DEF Chart!Put

LEMMA StepsAreOfTheChart ==
    IInv /\ IInv' /\ Next =>
        \/ Chart!ChartNext
        \/ UNCHANGED <<[p \in People |-> CellIn(placed, p)], Players(Manual(placed))>>
<1> SUFFICES ASSUME IInv, IInv', Next, placed' # placed PROVE Chart!ChartNext
  OBVIOUS
<1>1. /\ placed \subseteq Placements /\ Distinct(placed)
      /\ placed' \subseteq Placements /\ Distinct(placed')
  BY DEF IInv, TypeOK, ChartIsConsistent, PlacesAreUnique
<1>2. ASSUME NEW s \in Ids, NEW l \in Lanes, NEW p \in People, AssignPlayer(s, l, p)
      PROVE  Chart!ChartNext
  <2>1. {a \in placed : a.player # p} = placed
    BY <1>2 DEF AssignPlayer, Players
  <2>2. Chart!Put(p, <<s, l>>)
    BY <1>1, <1>2, <2>1, PuttingIn DEF AssignPlayer
  <2> QED
    BY <2>2 DEF Chart!ChartNext, Cells
<1>3. ASSUME NEW s \in Ids, NEW l \in Lanes, NEW p \in People, MovePlayer(s, l, p)
      PROVE  Chart!ChartNext
  <2>1. Chart!Put(p, <<s, l>>)
    BY <1>1, <1>3, PuttingIn DEF MovePlayer
  <2> QED
    BY <2>1 DEF Chart!ChartNext, Cells
<1>4. ASSUME NEW gone \in SUBSET placed, placed' = placed \ gone PROVE Chart!ChartNext
  BY <1>4, TakingOut DEF Chart!ChartNext
<1>5. ASSUME NEW s \in Ids, NEW l \in Lanes, ClearAssignment(s, l) PROVE Chart!ChartNext
  <2>1. placed' = placed \ {a \in placed : a.string = s /\ a.lane = l}
    BY <1>5 DEF ClearAssignment
  <2> QED
    BY <2>1, <1>4
<1>6. CASE ClearAll
  <2>1. placed' = placed \ placed
    BY <1>6 DEF ClearAll
  <2> QED
    BY <2>1, <1>4
<1>7. ASSUME NEW d \in Inputs, NEW c \in BOOLEAN, SaveTeams(d, c) PROVE Chart!ChartNext
  <2>1. placed' = placed \ {a \in placed : a.string \in Dropped(d)}
    BY <1>7 DEF SaveTeams
  <2> QED
    BY <2>1, <1>4
<1>8. CASE CommitPlan
  <2>1. Manual(placed') = Manual(placed)
    BY <1>8 DEF CommitPlan, IInv, PlanAgrees
  <2>2. [p \in People |-> CellIn(placed', p)] \in [People -> Cells \cup {Nowhere}]
    BY <1>1, CellsAreCells
  <2>3. ASSUME NEW p \in People, NEW q \in People, p # q, CellIn(placed', p) # Nowhere,
               CellIn(placed', p) = CellIn(placed', q)
        PROVE  FALSE
    <3>1. PICK a \in placed' : a.player = p /\ CellIn(placed', p) = <<a.string, a.lane>>
      BY <2>3, RowOfCell
    <3>2. PICK b \in placed' : b.player = q /\ CellIn(placed', q) = <<b.string, b.lane>>
      BY <2>3, RowOfCell
    <3>3. <<a.string, a.lane>> = <<b.string, b.lane>>
      BY <2>3, <3>1, <3>2
    <3>4. a.string = b.string /\ a.lane = b.lane
      BY <3>3
    <3>5. a = b
      BY <1>1, <3>4 DEF Distinct
    <3> QED
      BY <2>3, <3>1, <3>2, <3>5
  <2>4. ASSUME NEW p \in Players(Manual(placed))
        PROVE  CellIn(placed', p) = CellIn(placed, p) /\ p \in People
    <3>1. PICK a \in Manual(placed) : a.player = p
      BY DEF Players
    <3>2. a \in placed /\ a \in placed'
      BY <2>1, <3>1 DEF Manual
    <3> QED
      BY <1>1, <3>1, <3>2, CellOfRow DEF Placements
  <2>5. Chart!Replan
    BY <2>1, <2>2, <2>3, <2>4 DEF Chart!Replan, Chart!Apart
  <2> QED
    BY <2>5 DEF Chart!ChartNext
<1> QED
  BY <1>2, <1>3, <1>5, <1>6, <1>7, <1>8
     DEF Next, GetDepth, EnsureTeams, SaveTactic, SaveTargets, BeginOptimize, FillRanked,
         FillRest, RollBack, NewSnapshot

(* The planner implements DepthChart: the user puts a player in a free cell *)
(* or takes players out, and a new plan moves nobody the user has placed.   *)
THEOREM ChartIsImplemented == Spec => ImplementsChart
<1>1. Init => Chart!ChartInit
  BY DEF Init, Chart!ChartInit, CellIn, Players, Manual
<1>2. IInv /\ IInv' /\ [Next]_vars
          => [Chart!ChartNext]_<<[p \in People |-> CellIn(placed, p)], Players(Manual(placed))>>
  <2>1. CASE Next
    BY <2>1, StepsAreOfTheChart
  <2>2. CASE UNCHANGED vars
    BY <2>2 DEF vars
  <2> QED
    BY <2>1, <2>2
<1> QED
  BY <1>1, <1>2, PlannerInvariant, PTL DEF Spec, ImplementsChart, Chart!ChartSpec
=============================================================================
