----------------------- MODULE GatesStaffSearchProofs ------------------------
(***************************************************************************)
(* Three theories that share nothing.  BoostGate, for any set of threads:  *)
(* its types, that no gate leaks, that a boost runs alone, and that the    *)
(* gates implement GatePolicy.  StaffAllocation, for any staff, any slots  *)
(* and any general requirements: that staff are well placed when the last  *)
(* pass is done, which needs that the best way of filling the places that  *)
(* Matching speaks of exists and what makes it best.  Search and TacticFit,*)
(* for any database, request, player and lane: that the pages together are *)
(* the search, and that SQL shows the tactic score of the planner.         *)
(***************************************************************************)
EXTENDS BoostGate, StaffAllocation, TacticFit,
        FiniteSetTheorems, SequenceTheorems, WellFoundedInduction, TLAPS

(* Every variable of the gates keeps its type (boost_gate.rs).              *)
THEOREM TypeCorrect == Spec => []TypeOK
<1>1. Init => TypeOK
  BY DEF Init, TypeOK, Locations
<1>2. TypeOK /\ [Next]_vars => TypeOK'
  <2> SUFFICES ASSUME TypeOK, [Next]_vars
               PROVE  TypeOK'
    OBVIOUS
  <2> USE DEF TypeOK, Locations, Goto
  <2>1. ASSUME NEW t \in Threads, TryBoost(t) \/ TryLoad(t) \/ TryContext(t)
        PROVE  TypeOK'
    BY <2>1 DEF TryBoost, TryLoad, TryContext
  <2>2. ASSUME NEW t \in Threads, Progress(t)
        PROVE  TypeOK'
    BY <2>2 DEF Progress, TryBoostLoad, TryBoostContext, DropLoadThenBoost,
                DropBoost, EndBoost, EndBoostLoad, EndBoostContext, ProbeLoad,
                EndLoad, ProbeContext, EndContext, DropProbe
  <2>3. CASE UNCHANGED vars
    BY <2>3 DEF vars
  <2>4. QED
    BY <2>1, <2>2, <2>3 DEF Next
<1>3. QED
  BY <1>1, <1>2, PTL DEF Spec

(* One step of the gates preserves GatesFollowLocations, by the command     *)
(* whose step it is.                                                        *)
LEMMA StepKeepsGates ==
    TypeOK /\ GatesFollowLocations /\ [Next]_vars => GatesFollowLocations'
<1> SUFFICES ASSUME TypeOK, GatesFollowLocations, [Next]_vars
             PROVE  GatesFollowLocations'
  OBVIOUS
<1> USE GateAssumption DEF TypeOK, Locations, Goto,
        GatesFollowLocations, HoldsBoost, HoldsLoad, HoldsContext
<1>1. ASSUME NEW t \in Threads, TryBoost(t)
      PROVE  GatesFollowLocations'
  BY <1>1 DEF TryBoost
<1>2. ASSUME NEW t \in Threads, TryLoad(t)
      PROVE  GatesFollowLocations'
  BY <1>2 DEF TryLoad
<1>3. ASSUME NEW t \in Threads, TryContext(t)
      PROVE  GatesFollowLocations'
  BY <1>3 DEF TryContext
<1>4. ASSUME NEW t \in Threads, TryBoostLoad(t)
      PROVE  GatesFollowLocations'
  BY <1>4 DEF TryBoostLoad
<1>5. ASSUME NEW t \in Threads, TryBoostContext(t)
      PROVE  GatesFollowLocations'
  BY <1>5 DEF TryBoostContext
<1>6. ASSUME NEW t \in Threads, DropLoadThenBoost(t) \/ DropBoost(t)
      PROVE  GatesFollowLocations'
  BY <1>6 DEF DropLoadThenBoost, DropBoost
<1>7. ASSUME NEW t \in Threads, EndBoost(t) \/ EndBoostLoad(t) \/ EndBoostContext(t)
      PROVE  GatesFollowLocations'
  BY <1>7 DEF EndBoost, EndBoostLoad, EndBoostContext
<1>8. ASSUME NEW t \in Threads, ProbeLoad(t) \/ EndLoad(t)
      PROVE  GatesFollowLocations'
  BY <1>8 DEF ProbeLoad, EndLoad
<1>9. ASSUME NEW t \in Threads, ProbeContext(t) \/ EndContext(t) \/ DropProbe(t)
      PROVE  GatesFollowLocations'
  BY <1>9 DEF ProbeContext, EndContext, DropProbe
<1>10. CASE UNCHANGED vars
  BY <1>10 DEF vars
<1>11. QED
  BY <1>1, <1>2, <1>3, <1>4, <1>5, <1>6, <1>7, <1>8, <1>9, <1>10
     DEF Next, Progress

(* No gate is ever leaked or shared (the drops of boost_gate.rs).           *)
THEOREM GatesAreNeverLeaked == Spec => []GatesFollowLocations
<1>1. Init => GatesFollowLocations
  BY GateAssumption DEF Init, GatesFollowLocations, HoldsBoost, HoldsLoad, HoldsContext
<1>2. QED
  BY <1>1, StepKeepsGates, TypeCorrect, PTL DEF Spec

(* A thread that holds every gate excludes the others from what it runs.    *)
LEMMA GatesGiveExclusion ==
    TypeOK /\ GatesFollowLocations => BoostRunsAlone
BY GateAssumption DEF TypeOK, GatesFollowLocations, HoldsBoost, HoldsLoad, HoldsContext,
       BoostRunsAlone

(* While a boost runs, no other boost, Load Data or save switch does.       *)
THEOREM BoostExclusion == Spec => []BoostRunsAlone
BY TypeCorrect, GatesAreNeverLeaked, GatesGiveExclusion, PTL

(* A step of the gates is a step of the policy, or leaves it as it is.      *)
LEMMA StepImplementsPolicy ==
    TypeOK /\ GatesFollowLocations /\ [Next]_vars => [Policy!Next]_Running
<1> SUFFICES ASSUME TypeOK, GatesFollowLocations, [Next]_vars
             PROVE  [Policy!Next]_Running
  OBVIOUS
<1> USE GateAssumption DEF TypeOK, Locations, Goto, Running
<1>1. ASSUME NEW t \in Threads, TryLoad(t)
      PROVE  Policy!StartLoad(t) \/ UNCHANGED Running
  BY <1>1 DEF TryLoad, GatesFollowLocations, HoldsLoad, Policy!StartLoad,
              Policy!Idle, Policy!NoneRuns
<1>2. ASSUME NEW t \in Threads, TryContext(t)
      PROVE  Policy!StartSwitch(t) \/ UNCHANGED Running
  BY <1>2 DEF TryContext, GatesFollowLocations, HoldsContext, Policy!StartSwitch,
              Policy!Idle, Policy!NoneRuns
<1>3. ASSUME NEW t \in Threads, TryBoostContext(t)
      PROVE  Policy!StartBoost(t) \/ UNCHANGED Running
  BY <1>3 DEF TryBoostContext, GatesFollowLocations, HoldsLoad, HoldsContext,
              Policy!StartBoost, Policy!Idle, Policy!NoneRuns
<1>4. ASSUME NEW t \in Threads, EndBoost(t) \/ EndLoad(t) \/ EndContext(t)
      PROVE  Policy!Stop(t)
  BY <1>4 DEF EndBoost, EndLoad, EndContext, Policy!Stop, Policy!Idle
<1>5. ASSUME NEW t \in Threads,
             \/ TryBoost(t) \/ TryBoostLoad(t) \/ DropLoadThenBoost(t)
             \/ DropBoost(t) \/ EndBoostLoad(t) \/ EndBoostContext(t)
             \/ ProbeLoad(t) \/ ProbeContext(t) \/ DropProbe(t)
      PROVE  UNCHANGED Running
  BY <1>5 DEF TryBoost, TryBoostLoad, DropLoadThenBoost, DropBoost, EndBoostLoad,
              EndBoostContext, ProbeLoad, ProbeContext, DropProbe
<1>6. CASE UNCHANGED vars
  BY <1>6 DEF vars
<1>7. QED
  BY <1>1, <1>2, <1>3, <1>4, <1>5, <1>6 DEF Next, Progress, Policy!Next

(* The three try_locks implement the policy of who may run beside whom.     *)
THEOREM GatesImplementPolicy == Spec => ImplementsPolicy
<1>1. Init => Policy!Init
  BY DEF Init, Policy!Init, Running
<1>2. QED
  BY <1>1, StepImplementsPolicy, TypeCorrect, GatesAreNeverLeaked, PTL
     DEF Spec, ImplementsPolicy, Policy!Spec

-----------------------------------------------------------------------------
(* Orders.  What a choice asks for exists: of finitely many things one is   *)
(* last, since fewest come after it.                                        *)
LEMMA LeastNumber ==
    ASSUME NEW T, T \subseteq Nat, T # {}
    PROVE  \E x \in T : \A y \in T : x <= y
<1> DEFINE Less == OpToRel(<, Nat)
<1>1. PICK x \in T : \A y \in T : ~ (<<y, x>> \in Less)
  BY NatLessThanWellFounded, WFMin
<1>2. \A y \in T : ~(y < x)
  BY <1>1 DEF OpToRel
<1> HIDE DEF Less
<1>3. QED
  BY <1>2

LEMMA OneIsLast ==
    ASSUME NEW S, IsFiniteSet(S), S # {}, NEW R,
           \A x \in S : <<x, x>> \notin R,
           \A x, y, z \in S : <<x, y>> \in R /\ <<y, z>> \in R => <<x, z>> \in R
    PROVE  \E x \in S : \A y \in S : <<x, y>> \notin R
<1> DEFINE after == [x \in S |-> {y \in S : <<x, y>> \in R}]
           Counts == {Cardinality(after[x]) : x \in S}
<1>1. \A x \in S : IsFiniteSet(after[x]) /\ Cardinality(after[x]) \in Nat
  BY FS_Subset, FS_CardinalityType
<1>2. \A x, y \in S : y \in after[x] <=> <<x, y>> \in R
  OBVIOUS
<1>3. \A x \in S : after[x] \subseteq S
  OBVIOUS
<1> HIDE DEF after
<1>4. Counts \subseteq Nat /\ Counts # {}
  BY <1>1
<1>5. PICK n \in Counts : \A m \in Counts : n <= m
  <2> HIDE DEF Counts
  <2>1. QED
    BY <1>4, LeastNumber
<1>6. PICK x \in S : n = Cardinality(after[x])
  BY <1>5
<1>7. ASSUME NEW y \in S, <<x, y>> \in R
      PROVE  FALSE
  <2>1. after[y] \in SUBSET after[x] /\ y \in after[x] /\ y \notin after[y]
    BY <1>2, <1>3, <1>7
  <2>2. /\ Cardinality(after[y]) <= Cardinality(after[x])
        /\ Cardinality(after[x]) = Cardinality(after[y]) => after[x] = after[y]
    BY <1>1, <2>1, FS_Subset
  <2>3. n <= Cardinality(after[y])
    BY <1>5
  <2>4. QED
    BY <1>1, <1>6, <2>1, <2>2, <2>3
<1>8. QED
  BY <1>7

(* Objectives are compared like words.                                      *)
IsWord(a, n) == DOMAIN a = 1..n /\ \A i \in 1..n : a[i] \in Int

LEMMA BetterIsAnOrder ==
    ASSUME NEW n \in Nat, NEW a, NEW b, NEW c, IsWord(a, n), IsWord(b, n), IsWord(c, n)
    PROVE  /\ ~Better(a, a)
           /\ Better(a, b) /\ Better(b, c) => Better(a, c)
<1>1. ~Better(a, a)
  BY DEF Better, IsWord
<1>2. ASSUME Better(a, b), Better(b, c)
      PROVE  Better(a, c)
  <2>1. PICK i \in 1..n : a[i] > b[i] /\ \A j \in 1..(i - 1) : a[j] = b[j]
    BY <1>2 DEF Better, IsWord
  <2>2. PICK k \in 1..n : b[k] > c[k] /\ \A j \in 1..(k - 1) : b[j] = c[j]
    BY <1>2 DEF Better, IsWord
  <2>3. CASE i <= k
    <3>1. a[i] > c[i]
      <4>1. CASE i = k
        BY <2>1, <2>2, <4>1 DEF IsWord
      <4>2. CASE i # k
        <5>1. i \in 1..(k - 1)
          BY <2>3, <4>2
        <5>2. QED
          BY <2>1, <2>2, <5>1 DEF IsWord
      <4>3. QED
        BY <4>1, <4>2
    <3>2. \A j \in 1..(i - 1) : a[j] = c[j]
      <4>1. \A j \in 1..(i - 1) : j \in 1..(k - 1)
        BY <2>3
      <4>2. QED
        BY <2>1, <2>2, <4>1
    <3>3. QED
      BY <3>1, <3>2 DEF Better, IsWord
  <2>4. CASE k < i
    <3>1. k \in 1..(i - 1) /\ \A j \in 1..(k - 1) : j \in 1..(i - 1)
      BY <2>4
    <3>2. a[k] > c[k] /\ \A j \in 1..(k - 1) : a[j] = c[j]
      BY <2>1, <2>2, <3>1 DEF IsWord
    <3>3. QED
      BY <3>2 DEF Better, IsWord
  <2>5. QED
    BY <2>3, <2>4
<1>3. QED
  BY <1>1, <1>2

LEMMA FirstOfThree ==
    ASSUME NEW a, NEW b, IsWord(a, 3), IsWord(b, 3),
           a[1] # b[1] \/ a[2] # b[2] \/ a[3] # b[3]
    PROVE  Better(a, b) \/ Better(b, a)
<1>1. CASE a[1] # b[1]
  <2>1. \A j \in 1..(1 - 1) : FALSE
    OBVIOUS
  <2>2. QED
    BY <1>1, <2>1 DEF Better, IsWord
<1>2. CASE a[1] = b[1] /\ a[2] # b[2]
  <2>1. \A j \in 1..(2 - 1) : j = 1
    OBVIOUS
  <2>2. QED
    BY <1>2, <2>1 DEF Better, IsWord
<1>3. CASE a[1] = b[1] /\ a[2] = b[2] /\ a[3] # b[3]
  <2>1. \A j \in 1..(3 - 1) : j = 1 \/ j = 2
    OBVIOUS
  <2>2. QED
    BY <1>3, <2>1 DEF Better, IsWord
<1>4. QED
  BY <1>1, <1>2, <1>3

(* What a function makes of finitely many things is finite.                 *)
LEMMA ImagesAreFinite ==
    ASSUME NEW S, IsFiniteSet(S), NEW f, DOMAIN f = S
    PROVE  IsFiniteSet({f[x] : x \in S}) /\ Cardinality({f[x] : x \in S}) <= Cardinality(S)
<1> DEFINE T == {f[x] : x \in S}
           g == [x \in S |-> f[x]]
<1>1. g \in Surjection(S, T)
  BY DEF Surjection
<1> HIDE DEF g
<1>2. QED
  BY <1>1, FS_Surjection

-----------------------------------------------------------------------------
(* The slots: finitely many, and of each set of them there is a first.      *)
LEMMA OrdersAreTuples == DOMAIN Scopes = 1..4 /\ DOMAIN Jobs = 1..17 /\ DOMAIN Heads = 1..4
BY DEF Scopes, Jobs, Heads

JobIds == {Jobs[i] : i \in DOMAIN Jobs}
ScopeIds == {Scopes[i] : i \in DOMAIN Scopes}

LEMMA PositionsAreOfJobs ==
    \A u \in Positions : u = <<u[1], u[2]>> /\ u[1] \in ScopeIds /\ u[2] \in JobIds
<1>1. TeamJobs \subseteq JobIds
  <2>1. /\ Jobs[1] = "manager" /\ Jobs[2] = "assistant_manager" /\ Jobs[3] = "coaches"
        /\ Jobs[5] = "performance_analyst" /\ Jobs[6] = "physio" /\ Jobs[7] = "sports_scientist"
    BY DEF Jobs
  <2>2. QED
    BY <2>1, OrdersAreTuples DEF TeamJobs, JobIds
<1>2. "club" \in ScopeIds
  <2>1. Scopes[4] = "club"
    BY DEF Scopes
  <2>2. QED
    BY <2>1, OrdersAreTuples DEF ScopeIds
<1>3. {Scopes[i] : i \in 1..3} \subseteq ScopeIds
  BY OrdersAreTuples DEF ScopeIds
<1>4. QED
  BY <1>1, <1>2, <1>3 DEF Positions, JobIds

LEMMA SlotsAreOfTargets ==
    ASSUME targets \in Wanteds, NEW s \in Slots
    PROVE  /\ s = [scope |-> s.scope, job |-> s.job, number |-> s.number]
           /\ s.scope \in ScopeIds /\ s.job \in JobIds /\ s.number \in Nat \ {0}
           /\ <<s.scope, s.job>> \in Positions
           /\ <<s.scope, s.job>> \in DOMAIN targets
           /\ s.number \in 1..targets[<<s.scope, s.job>>]
<1>1. PICK t \in DOMAIN targets :
        s \in {[scope |-> t[1], job |-> t[2], number |-> n] : n \in 1..targets[t]}
  BY DEF Slots
<1>2. t \in Positions /\ targets[t] \in Nat
  BY WantedsAssumption
<1>3. t = <<t[1], t[2]>> /\ t[1] \in ScopeIds /\ t[2] \in JobIds
  BY <1>2, PositionsAreOfJobs
<1>4. PICK n \in 1..targets[t] : s = [scope |-> t[1], job |-> t[2], number |-> n]
  BY <1>1
<1>5. QED
  BY <1>2, <1>3, <1>4

LEMMA SlotsAreFinite ==
    ASSUME targets \in Wanteds
    PROVE  IsFiniteSet(Slots)
<1>1. IsFiniteSet(DOMAIN targets)
  <2>1. IsFiniteSet(ScopeIds) /\ IsFiniteSet(JobIds)
    <3>1. IsFiniteSet(1..4) /\ IsFiniteSet(1..17)
      <4>1. 1 \in Int /\ 4 \in Int /\ 17 \in Int
        OBVIOUS
      <4>2. IsFiniteSet(1..4)
        BY <4>1, FS_Interval
      <4>3. IsFiniteSet(1..17)
        BY <4>1, FS_Interval
      <4>4. QED
        BY <4>2, <4>3
    <3>2. IsFiniteSet({Scopes[i] : i \in 1..4}) /\ IsFiniteSet({Jobs[i] : i \in 1..17})
      BY <3>1, OrdersAreTuples, ImagesAreFinite
    <3>3. QED
      BY <3>2, OrdersAreTuples DEF ScopeIds, JobIds
  <2>2. IsFiniteSet(ScopeIds \X JobIds)
    BY <2>1, FS_Product
  <2>3. DOMAIN targets \subseteq ScopeIds \X JobIds
    BY PositionsAreOfJobs, WantedsAssumption
  <2>4. QED
    BY <2>2, <2>3, FS_Subset
<1> DEFINE wanted == {u \in DOMAIN targets : u[2] = "manager" => u[1] \in {"reserves", "youth"}}
           slotsAt == [t \in wanted |->
                          {[scope |-> t[1], job |-> t[2], number |-> n] : n \in 1..targets[t]}]
<1>2. IsFiniteSet(wanted)
  BY <1>1, FS_Subset
<1>3. IsFiniteSet({slotsAt[t] : t \in wanted})
  <2>1. DOMAIN slotsAt = wanted
    OBVIOUS
  <2> HIDE DEF slotsAt, wanted
  <2>2. QED
    BY <1>2, <2>1, ImagesAreFinite
<1>4. ASSUME NEW t \in wanted
      PROVE  IsFiniteSet(slotsAt[t])
  <2>1. targets[t] \in Nat
    BY WantedsAssumption
  <2>2. IsFiniteSet(1..targets[t])
    BY <2>1, FS_Interval
  <2> DEFINE slot == [n \in 1..targets[t] |-> [scope |-> t[1], job |-> t[2], number |-> n]]
  <2>3. slotsAt[t] = {slot[n] : n \in 1..targets[t]}
    OBVIOUS
  <2>4. DOMAIN slot = 1..targets[t]
    OBVIOUS
  <2> HIDE DEF slot, slotsAt
  <2>5. IsFiniteSet({slot[n] : n \in 1..targets[t]})
    BY <2>2, <2>4, ImagesAreFinite
  <2>6. QED
    BY <2>3, <2>5
<1>5. Slots = UNION {slotsAt[t] : t \in wanted}
  <2>1. \A t \in wanted : slotsAt[t] = {[scope |-> t[1], job |-> t[2], number |-> n] : n \in 1..targets[t]}
    OBVIOUS
  <2> HIDE DEF slotsAt
  <2>2. {slotsAt[t] : t \in wanted}
          = {{[scope |-> t[1], job |-> t[2], number |-> n] : n \in 1..targets[t]} : t \in wanted}
    BY <2>1
  <2>3. QED
    BY <2>2 DEF Slots
<1> HIDE DEF slotsAt, wanted
<1>6. QED
  BY <1>3, <1>4, <1>5, FS_UNION

(* The first of some slots is one of them.                                  *)
KeyOf(s) == <<Position(Scopes, s.scope), Position(Jobs, s.job), s.number>>

LEMMA KeysAreWords ==
    ASSUME targets \in Wanteds, NEW s \in Slots
    PROVE  /\ IsWord(KeyOf(s), 3)
           /\ Scopes[KeyOf(s)[1]] = s.scope /\ Jobs[KeyOf(s)[2]] = s.job
           /\ KeyOf(s)[3] = s.number
<1>1. Position(Scopes, s.scope) \in 1..4 /\ Scopes[Position(Scopes, s.scope)] = s.scope
  <2>1. \E i \in 1..4 : Scopes[i] = s.scope
    BY SlotsAreOfTargets, OrdersAreTuples DEF ScopeIds
  <2>2. QED
    BY <2>1, OrdersAreTuples DEF Position
<1>2. Position(Jobs, s.job) \in 1..17 /\ Jobs[Position(Jobs, s.job)] = s.job
  <2>1. \E i \in 1..17 : Jobs[i] = s.job
    BY SlotsAreOfTargets, OrdersAreTuples DEF JobIds
  <2>2. QED
    BY <2>1, OrdersAreTuples DEF Position
<1>3. s.number \in Nat
  BY SlotsAreOfTargets
<1>4. QED
  BY <1>1, <1>2, <1>3 DEF KeyOf, IsWord

LEMMA FirstIsOneOfThem ==
    ASSUME targets \in Wanteds, NEW slots, slots \subseteq Slots, slots # {}
    PROVE  First(slots) \in slots
<1> DEFINE R == {u \in slots \X slots : Better(KeyOf(u[1]), KeyOf(u[2]))}
<1>1. IsFiniteSet(slots)
  BY SlotsAreFinite, FS_Subset
<1>2. \A x, y \in slots : <<x, y>> \in R <=> Better(KeyOf(x), KeyOf(y))
  OBVIOUS
<1> HIDE DEF R
<1>3. \A x \in slots : IsWord(KeyOf(x), 3)
  BY KeysAreWords
<1>4. \A x \in slots : ~Better(KeyOf(x), KeyOf(x))
  BY <1>3, BetterIsAnOrder
<1>5. \A x, y, z \in slots :
          Better(KeyOf(x), KeyOf(y)) /\ Better(KeyOf(y), KeyOf(z)) => Better(KeyOf(x), KeyOf(z))
  BY <1>3, BetterIsAnOrder
<1>6. PICK s \in slots : \A z \in slots : <<s, z>> \notin R
  <2>1. \A x \in slots : <<x, x>> \notin R
    BY <1>2, <1>4
  <2>2. \A x, y, z \in slots : <<x, y>> \in R /\ <<y, z>> \in R => <<x, z>> \in R
    BY <1>2, <1>5
  <2>3. QED
    BY <1>1, <2>1, <2>2, OneIsLast
<1>7. ASSUME NEW z \in slots \ {s}
      PROVE  Better(KeyOf(z), KeyOf(s))
  <2>1. s.scope # z.scope \/ s.job # z.job \/ s.number # z.number
    BY SlotsAreOfTargets
  <2>2. KeyOf(s)[1] # KeyOf(z)[1] \/ KeyOf(s)[2] # KeyOf(z)[2] \/ KeyOf(s)[3] # KeyOf(z)[3]
    BY <2>1, KeysAreWords
  <2>3. Better(KeyOf(s), KeyOf(z)) \/ Better(KeyOf(z), KeyOf(s))
    BY <1>3, <2>2, FirstOfThree
  <2>4. QED
    BY <1>2, <1>6, <2>3
<1>8. \E x \in slots : \A z \in slots \ {x} : Precedes(x, z)
  BY <1>7 DEF Precedes, KeyOf
<1>9. QED
  BY <1>8 DEF First

-----------------------------------------------------------------------------
(* The value of a way.  It is the sum of what its places contribute, which  *)
(* counts the places that are filled and then the scores piled on them.     *)
IsQuestion(q) ==
    /\ q.full \in Nat /\ q.optional \in Nat /\ q.quota \in 0..q.optional
    /\ IsFiniteSet(q.uids) /\ q.uids \subseteq Nat
    /\ q.filledFirst
    /\ \A i \in Places(q) : \A p \in q.uids : q.score[i][p] \in Nat \cup {NoScore}

LengthOf(q) == 2 + q.full + q.optional

IsWay(q, w) ==
    /\ DOMAIN w \subseteq Places(q) /\ IsFiniteSet(DOMAIN w)
    /\ \A i \in DOMAIN w : /\ w[i] \in q.uids \cup {Vacant}
                           /\ w[i] # Vacant => w[i] \in q.uids /\ q.score[i][w[i]] \in Nat

HasPlace(w) == {i \in DOMAIN w : w[i] # Vacant}
PiledOn(q, w, i) == {i} \X (1..q.score[i][w[i]])
Pile(q, w, s) == UNION {PiledOn(q, w, i) : i \in s \cap HasPlace(w)}
FilledIn(w, s) == Cardinality(s \cap HasPlace(w))
HeightOf(q, w, s) == Cardinality(Pile(q, w, s))
Tie(q, w, i) == Wanted(q, i) - Rank(q, w[i])
Sum(q, w, s) ==
    [c \in 1..LengthOf(q) |->
        IF c = 1 THEN FilledIn(w, s)
        ELSE IF c = 2 THEN HeightOf(q, w, s)
        ELSE IF c - 2 \in s THEN Tie(q, w, c - 2) ELSE 0]

LEMMA ApartTheyAdd ==
    ASSUME NEW A, NEW B, IsFiniteSet(A), IsFiniteSet(B), A \cap B = {}
    PROVE  IsFiniteSet(A \cup B) /\ Cardinality(A \cup B) = Cardinality(A) + Cardinality(B)
<1>1. Cardinality(A) \in Nat /\ Cardinality(B) \in Nat /\ Cardinality(A \cap B) = 0
  <2>1. Cardinality(A \cap B) = Cardinality({})
    BY Zenon
  <2>2. QED
    BY <2>1, FS_CardinalityType, FS_EmptySet
<1>2. Cardinality(A \cup B) = Cardinality(A) + Cardinality(B) - Cardinality(A \cap B)
  BY FS_Union
<1>3. IsFiniteSet(A \cup B)
  BY FS_Union
<1>4. QED
  BY <1>1, <1>2, <1>3

LEMMA TiesAreNumbers ==
    ASSUME NEW q, IsQuestion(q), NEW w, IsWay(q, w), NEW i \in DOMAIN w
    PROVE  /\ Tie(q, w, i) \in Int /\ i \in 1..(q.full + q.optional)
           /\ Tie(q, w, i) = Wanted(q, i) - Rank(q, w[i])
           /\ Wanted(q, i) \in Int /\ Rank(q, w[i]) \in Int
<1>1. i \in 1..(q.full + q.optional)
  BY DEF IsWay, Places
<1>2. Cardinality(q.uids) \in Nat
  BY FS_CardinalityType DEF IsQuestion
<1>3. Wanted(q, i) \in Int
  BY <1>2 DEF Wanted
<1>4. IsFiniteSet({u \in q.uids : u <= w[i]})
  BY FS_Subset DEF IsQuestion
<1>5. Cardinality({u \in q.uids : u <= w[i]}) \in Nat
  BY <1>4, FS_CardinalityType
<1>6. Rank(q, w[i]) \in Int
  BY <1>2, <1>5 DEF Rank
<1>7. QED
  BY <1>1, <1>3, <1>6 DEF Tie

LEMMA PilesAreFinite ==
    ASSUME NEW q, IsQuestion(q), NEW w, IsWay(q, w), NEW s \in SUBSET DOMAIN w
    PROVE  /\ IsFiniteSet(s \cap HasPlace(w)) /\ Cardinality(s \cap HasPlace(w)) \in Nat
           /\ IsFiniteSet(Pile(q, w, s)) /\ Cardinality(Pile(q, w, s)) \in Nat
           /\ \A i \in HasPlace(w) : /\ IsFiniteSet(PiledOn(q, w, i))
                                     /\ Cardinality(PiledOn(q, w, i)) = q.score[i][w[i]]
                                     /\ q.score[i][w[i]] \in Nat
<1>1. IsFiniteSet(s \cap HasPlace(w))
  BY FS_Subset DEF IsWay
<1>2. ASSUME NEW i \in HasPlace(w)
      PROVE  /\ IsFiniteSet(PiledOn(q, w, i))
             /\ Cardinality(PiledOn(q, w, i)) = q.score[i][w[i]]
             /\ q.score[i][w[i]] \in Nat
  <2> DEFINE n == q.score[i][w[i]]
             numbers == 1..n
             here == {i}
  <2>1. n \in Nat
    BY DEF HasPlace, IsWay
  <2> HIDE DEF n
  <2>2. IsFiniteSet(numbers) /\ Cardinality(numbers) = n
    BY <2>1, FS_Interval
  <2>3. IsFiniteSet(here) /\ Cardinality(here) = 1
    BY FS_Singleton
  <2> HIDE DEF numbers, here
  <2>4. IsFiniteSet(here \X numbers)
    BY <2>2, <2>3, FS_Product
  <2>5. Cardinality(here \X numbers) = 1 * n
    BY <2>2, <2>3, FS_Product
  <2>6. PiledOn(q, w, i) = here \X numbers
    BY DEF PiledOn, here, numbers, n
  <2>7. QED
    BY <2>1, <2>4, <2>5, <2>6 DEF n
<1> DEFINE on == [i \in s \cap HasPlace(w) |-> PiledOn(q, w, i)]
<1>3. IsFiniteSet({on[i] : i \in s \cap HasPlace(w)})
  <2>1. DOMAIN on = s \cap HasPlace(w)
    OBVIOUS
  <2> HIDE DEF on
  <2>2. QED
    BY <1>1, <2>1, ImagesAreFinite
<1>4. Pile(q, w, s) = UNION {on[i] : i \in s \cap HasPlace(w)}
  BY DEF Pile
<1>5. \A T \in {on[i] : i \in s \cap HasPlace(w)} : IsFiniteSet(T)
  BY <1>2
<1>6. IsFiniteSet(Pile(q, w, s))
  BY <1>3, <1>4, <1>5, FS_UNION
<1>7. QED
  BY <1>1, <1>2, <1>6, FS_CardinalityType

LEMMA OnePlaceMore ==
    ASSUME NEW q, IsQuestion(q), NEW w, IsWay(q, w), NEW s \in SUBSET DOMAIN w, NEW x \in s
    PROVE  /\ w[x] = Vacant =>
                  /\ FilledIn(w, s) = FilledIn(w, s \ {x})
                  /\ HeightOf(q, w, s) = HeightOf(q, w, s \ {x})
           /\ w[x] # Vacant =>
                  /\ FilledIn(w, s) = 1 + FilledIn(w, s \ {x})
                  /\ HeightOf(q, w, s)
                       = q.score[x][w[x]] + HeightOf(q, w, s \ {x})
                  /\ q.score[x][w[x]] \in Nat
<1>1. s \ {x} \in SUBSET DOMAIN w
  OBVIOUS
<1>2. CASE w[x] = Vacant
  <2>1. s \cap HasPlace(w) = (s \ {x}) \cap HasPlace(w)
    BY <1>2 DEF HasPlace
  <2>2. QED
    BY <1>2, <2>1 DEF Pile, FilledIn, HeightOf
<1>3. CASE w[x] # Vacant
  <2>1. x \in HasPlace(w)
    BY <1>3 DEF HasPlace
  <2>2. s \cap HasPlace(w) = ((s \ {x}) \cap HasPlace(w)) \cup {x} /\ x \notin (s \ {x}) \cap HasPlace(w)
    BY <2>1
  <2>3. Cardinality(s \cap HasPlace(w)) = Cardinality((s \ {x}) \cap HasPlace(w)) + 1
    <3>1. IsFiniteSet((s \ {x}) \cap HasPlace(w))
      BY <1>1, PilesAreFinite
    <3>2. QED
      BY <2>2, <3>1, FS_AddElement
  <2>4. Pile(q, w, s) = PiledOn(q, w, x) \cup Pile(q, w, s \ {x})
    BY <2>2 DEF Pile
  <2>5. PiledOn(q, w, x) \cap Pile(q, w, s \ {x}) = {}
    BY DEF PiledOn, Pile
  <2>6. /\ IsFiniteSet(PiledOn(q, w, x)) /\ IsFiniteSet(Pile(q, w, s \ {x}))
        /\ Cardinality(PiledOn(q, w, x)) = q.score[x][w[x]] /\ q.score[x][w[x]] \in Nat
    <3>1. IsFiniteSet(Pile(q, w, s \ {x}))
      BY <1>1, PilesAreFinite
    <3>2. /\ IsFiniteSet(PiledOn(q, w, x))
          /\ Cardinality(PiledOn(q, w, x)) = q.score[x][w[x]] /\ q.score[x][w[x]] \in Nat
      BY <2>1, PilesAreFinite
    <3>3. QED
      BY <3>1, <3>2
  <2>7. Cardinality(Pile(q, w, s)) = q.score[x][w[x]] + Cardinality(Pile(q, w, s \ {x}))
    BY <2>4, <2>5, <2>6, ApartTheyAdd
  <2>8. (s \ {x}) \cap HasPlace(w) \subseteq DOMAIN w
    OBVIOUS
  <2>9. Cardinality((s \ {x}) \cap HasPlace(w)) \in Nat
    BY <1>1, PilesAreFinite
  <2>10. QED
    BY <1>3, <2>3, <2>6, <2>7, <2>9 DEF FilledIn, HeightOf
<1>4. QED
  BY <1>2, <1>3

LEMMA ThreeChanges ==
    ASSUME NEW n \in Nat, NEW k \in 3..n, NEW a, NEW b, NEW d
    PROVE  [[i \in 1..n |-> 0] EXCEPT ![1] = a, ![2] = b, ![k] = d]
             = [c \in 1..n |-> IF c = k THEN d ELSE IF c = 1 THEN a ELSE IF c = 2 THEN b ELSE 0]
OBVIOUS

LEMMA ContributionIs ==
    ASSUME NEW q, IsQuestion(q), NEW i \in Places(q), NEW p
    PROVE  Contribution(q, i, p) =
             [c \in 1..LengthOf(q) |->
                 IF c = i + 2 THEN Wanted(q, i) - Rank(q, p)
                 ELSE IF c = 1 THEN (IF p = Vacant THEN 0 ELSE 1)
                 ELSE IF c = 2 THEN (IF p = Vacant THEN 0 ELSE q.score[i][p])
                 ELSE 0]
<1>1. i \in Nat /\ i >= 1 /\ 1..(2 + q.full + q.optional) = 1..LengthOf(q)
  BY DEF Places, LengthOf, IsQuestion
<1> DEFINE a == IF p = Vacant THEN 0 ELSE 1
           b == IF p = Vacant THEN 0 ELSE q.score[i][p]
           d == Wanted(q, i) - Rank(q, p)
<1>2. LengthOf(q) \in Nat /\ i + 2 \in 3..LengthOf(q)
  BY DEF Places, LengthOf, IsQuestion
<1>3. Contribution(q, i, p) = [[c \in 1..LengthOf(q) |-> 0] EXCEPT ![1] = a, ![2] = b, ![i + 2] = d]
  <2>1. Zero(q) = [c \in 1..LengthOf(q) |-> 0]
    BY DEF Zero, LengthOf
  <2>2. Contribution(q, i, p) = [Zero(q) EXCEPT ![1] = IF q.filledFirst THEN a ELSE b,
                                                ![2] = IF q.filledFirst THEN b ELSE a,
                                                ![i + 2] = d]
    BY DEF Contribution
  <2>3. (IF q.filledFirst THEN a ELSE b) = a /\ (IF q.filledFirst THEN b ELSE a) = b
    BY DEF IsQuestion
  <2>4. QED
    BY <2>1, <2>2, <2>3
<1> HIDE DEF a, b, d
<1>4. Contribution(q, i, p)
        = [c \in 1..LengthOf(q) |-> IF c = i + 2 THEN d ELSE IF c = 1 THEN a ELSE IF c = 2 THEN b ELSE 0]
  BY <1>2, <1>3, ThreeChanges
<1>5. QED
  BY <1>4 DEF a, b, d

LEMMA SumGrows ==
    ASSUME NEW q, IsQuestion(q), NEW w, IsWay(q, w), NEW s \in SUBSET DOMAIN w, NEW x \in s
    PROVE  Sum(q, w, s) = Plus(Contribution(q, x, w[x]), Sum(q, w, s \ {x}))
<1> DEFINE con == Contribution(q, x, w[x])
           rest == Sum(q, w, s \ {x})
<1>1. x \in Places(q) /\ x \in DOMAIN w /\ x \in Nat /\ x >= 1
  BY DEF IsWay, Places
<1>2. con = [c \in 1..LengthOf(q) |->
                 IF c = x + 2 THEN Wanted(q, x) - Rank(q, w[x])
                 ELSE IF c = 1 THEN (IF w[x] = Vacant THEN 0 ELSE 1)
                 ELSE IF c = 2 THEN (IF w[x] = Vacant THEN 0 ELSE q.score[x][w[x]])
                 ELSE 0]
  BY <1>1, ContributionIs
<1>3. Plus(con, rest) = [c \in 1..LengthOf(q) |-> con[c] + rest[c]]
  BY <1>2 DEF Plus
<1>4. s \ {x} \in SUBSET DOMAIN w
  OBVIOUS
<1>5. /\ FilledIn(w, s \ {x}) \in Nat
      /\ HeightOf(q, w, s \ {x}) \in Nat
  BY <1>4, PilesAreFinite DEF FilledIn, HeightOf
<1>6. /\ FilledIn(w, s)
           = (IF w[x] = Vacant THEN 0 ELSE 1) + FilledIn(w, s \ {x})
      /\ HeightOf(q, w, s)
           = (IF w[x] = Vacant THEN 0 ELSE q.score[x][w[x]]) + HeightOf(q, w, s \ {x})
  <2> HIDE DEF con, rest
  <2> DEFINE n == FilledIn(w, s)
             m == FilledIn(w, s \ {x})
             a == HeightOf(q, w, s)
             b == HeightOf(q, w, s \ {x})
  <2>1. /\ w[x] = Vacant => n = m /\ a = b
        /\ w[x] # Vacant => n = 1 + m /\ a = q.score[x][w[x]] + b /\ q.score[x][w[x]] \in Nat
    BY OnePlaceMore
  <2>2. m \in Nat /\ b \in Nat
    BY <1>5
  <2> HIDE DEF n, m, a, b
  <2>3. n = (IF w[x] = Vacant THEN 0 ELSE 1) + m
    BY <2>1, <2>2
  <2>4. a = (IF w[x] = Vacant THEN 0 ELSE q.score[x][w[x]]) + b
    BY <2>1, <2>2
  <2>5. QED
    BY <2>3, <2>4 DEF n, m, a, b
<1>7. ASSUME NEW c \in 1..LengthOf(q)
      PROVE  Sum(q, w, s)[c] = con[c] + rest[c]
  <2>1. CASE c = 1
    <3>1. rest[c] = FilledIn(w, s \ {x})
          /\ Sum(q, w, s)[c] = FilledIn(w, s)
      BY <2>1 DEF Sum
    <3>2. con[c] = IF w[x] = Vacant THEN 0 ELSE 1
      BY <1>1, <1>2, <2>1
    <3>3. QED
      BY <1>5, <1>6, <3>1, <3>2
  <2>2. CASE c = 2
    <3>1. rest[c] = HeightOf(q, w, s \ {x}) /\ Sum(q, w, s)[c] = HeightOf(q, w, s)
      BY <2>2 DEF Sum
    <3>2. con[c] = IF w[x] = Vacant THEN 0 ELSE q.score[x][w[x]]
      BY <1>1, <1>2, <2>2
    <3>3. QED
      BY <1>5, <1>6, <3>1, <3>2
  <2>3. CASE c # 1 /\ c # 2
    <3>1. c - 2 \in Int /\ (c = x + 2 <=> c - 2 = x)
      BY <1>1
    <3>2. Sum(q, w, s)[c] = IF c - 2 \in s THEN Tie(q, w, c - 2) ELSE 0
      BY <2>3 DEF Sum
    <3>3. rest[c] = IF c - 2 \in s \ {x} THEN Tie(q, w, c - 2) ELSE 0
      BY <2>3 DEF Sum
    <3>4. con[c] = IF c - 2 = x THEN Tie(q, w, x) ELSE 0
      BY <1>2, <2>3, <3>1 DEF Tie
    <3>5. Tie(q, w, x) \in Int /\ (c - 2 \in s => Tie(q, w, c - 2) \in Int)
      BY TiesAreNumbers
    <3>6. QED
      BY <3>1, <3>2, <3>3, <3>4, <3>5
  <2>4. QED
    BY <2>1, <2>2, <2>3
<1>8. Sum(q, w, s) = [c \in 1..LengthOf(q) |-> Sum(q, w, s)[c]]
  BY DEF Sum
<1> HIDE DEF con, rest
<1>9. QED
  BY <1>3, <1>7, <1>8 DEF con, rest

(* FoldSet by its definition; there is one function that it can be.         *)
Picked(s) == CHOOSE x \in s : TRUE
IsTotal(g, q, w) ==
    g = [s \in SUBSET DOMAIN w |->
            IF s = {} THEN Zero(q)
            ELSE Plus(Contribution(q, Picked(s), w[Picked(s)]), g[s \ {Picked(s)}])]

LEMMA PickedIsOne ==
    ASSUME NEW s, s # {}
    PROVE  Picked(s) \in s
BY DEF Picked

LEMMA SumIsTotal ==
    ASSUME NEW q, IsQuestion(q), NEW w, IsWay(q, w)
    PROVE  IsTotal([s \in SUBSET DOMAIN w |-> Sum(q, w, s)], q, w)
<1> DEFINE g == [s \in SUBSET DOMAIN w |-> Sum(q, w, s)]
<1>1. ASSUME NEW s \in SUBSET DOMAIN w
      PROVE  g[s] = IF s = {} THEN Zero(q)
                    ELSE Plus(Contribution(q, Picked(s), w[Picked(s)]), g[s \ {Picked(s)}])
  <2>1. CASE s = {}
    <3>1. Sum(q, w, {}) = [c \in 1..LengthOf(q) |-> 0]
      <4>1. {} \cap HasPlace(w) = {} /\ Pile(q, w, {}) = {}
        BY DEF Pile
      <4>2. QED
        BY <4>1, FS_EmptySet DEF Sum, FilledIn, HeightOf
    <3>2. QED
      BY <2>1, <3>1 DEF Zero, LengthOf
  <2>2. CASE s # {}
    <3>1. Picked(s) \in s /\ s \ {Picked(s)} \in SUBSET DOMAIN w
      BY <2>2, PickedIsOne
    <3>2. Sum(q, w, s) = Plus(Contribution(q, Picked(s), w[Picked(s)]), Sum(q, w, s \ {Picked(s)}))
      BY <3>1, SumGrows
    <3>3. QED
      BY <2>2, <3>1, <3>2
  <2>3. QED
    BY <2>1, <2>2
<1>2. g = [s \in SUBSET DOMAIN w |-> g[s]]
  OBVIOUS
<1> HIDE DEF g
<1>3. IsTotal(g, q, w)
  BY <1>1, <1>2 DEF IsTotal
<1>4. QED
  BY <1>3 DEF g

LEMMA TotalsAreOne ==
    ASSUME NEW q, NEW w, IsFiniteSet(DOMAIN w), NEW g, NEW h, IsTotal(g, q, w), IsTotal(h, q, w)
    PROVE  g[DOMAIN w] = h[DOMAIN w]
<1> DEFINE S == DOMAIN w
           Wrong == {s \in SUBSET S : g[s] # h[s]}
           Sizes == {Cardinality(s) : s \in Wrong}
<1>1. SUFFICES ASSUME S \in Wrong PROVE FALSE
  OBVIOUS
<1>2. \A s \in SUBSET S : IsFiniteSet(s) /\ Cardinality(s) \in Nat
  BY FS_Subset, FS_CardinalityType
<1>3. Sizes \subseteq Nat /\ Sizes # {}
  BY <1>1, <1>2
<1>4. PICK m \in Sizes : \A k \in Sizes : m <= k
  <2> HIDE DEF Sizes
  <2>1. QED
    BY <1>3, LeastNumber
<1>5. PICK s \in Wrong : m = Cardinality(s)
  BY <1>4
<1>6. s \in SUBSET S /\ g[s] # h[s]
  BY <1>5
<1>7. /\ g[s] = IF s = {} THEN Zero(q)
                ELSE Plus(Contribution(q, Picked(s), w[Picked(s)]), g[s \ {Picked(s)}])
      /\ h[s] = IF s = {} THEN Zero(q)
                ELSE Plus(Contribution(q, Picked(s), w[Picked(s)]), h[s \ {Picked(s)}])
  BY <1>6 DEF IsTotal
<1>8. s # {} /\ g[s \ {Picked(s)}] # h[s \ {Picked(s)}]
  BY <1>6, <1>7
<1>9. s \ {Picked(s)} \in Wrong
  BY <1>6, <1>8
<1>10. m <= Cardinality(s \ {Picked(s)})
  BY <1>4, <1>9
<1>11. Cardinality(s \ {Picked(s)}) = Cardinality(s) - 1
  BY <1>2, <1>6, <1>8, PickedIsOne, FS_RemoveElement
<1>12. QED
  BY <1>2, <1>5, <1>6, <1>10, <1>11

LEMMA ObjectiveIsSum ==
    ASSUME NEW q, IsQuestion(q), NEW w, IsWay(q, w)
    PROVE  Objective(q, w) = Sum(q, w, DOMAIN w)
<1> DEFINE sum == [s \in SUBSET DOMAIN w |-> Sum(q, w, s)]
<1>1. Objective(q, w) = (CHOOSE g : IsTotal(g, q, w))[DOMAIN w]
  BY DEF Objective, FoldSet, MapThenFoldSet, IsTotal, Picked
<1>2. IsTotal(sum, q, w)
  BY SumIsTotal
<1>3. sum[DOMAIN w] = Sum(q, w, DOMAIN w)
  OBVIOUS
<1> HIDE DEF sum
<1>4. IsTotal(CHOOSE g : IsTotal(g, q, w), q, w)
  BY <1>2
<1>5. QED
  BY <1>1, <1>2, <1>3, <1>4, TotalsAreOne DEF IsWay

-----------------------------------------------------------------------------
(* The best way of filling the places.                                      *)
LEMMA PlacesAreFinite ==
    ASSUME NEW q, IsQuestion(q)
    PROVE  IsFiniteSet(Places(q))
<1> DEFINE n == q.full + q.optional
<1>1. 1 \in Int /\ n \in Int
  BY DEF IsQuestion
<1> HIDE DEF n
<1>2. IsFiniteSet(1..n)
  BY <1>1, FS_Interval
<1>3. QED
  BY <1>2 DEF n, Places

LEMMA WaysAreWays ==
    ASSUME NEW q, IsQuestion(q), NEW k, NEW w \in Ways(q, k)
    PROVE  /\ IsWay(q, w) /\ DOMAIN w \in Decided(q, k)
           /\ w = [i \in DOMAIN w |-> w[i]]
           /\ \A i, j \in DOMAIN w : w[i] = w[j] /\ w[i] # Vacant => i = j
<1>1. PICK s \in Decided(q, k) : w \in [s -> q.uids \cup {Vacant}]
  BY DEF Ways
<1>2. s \in SUBSET Places(q) /\ IsFiniteSet(Places(q))
  BY PlacesAreFinite DEF Decided
<1>3. DOMAIN w = s /\ IsFiniteSet(s) /\ w = [i \in s |-> w[i]]
  BY <1>1, <1>2, FS_Subset
<1>4. /\ \A i \in s : w[i] # Vacant => Fits(q, i, w[i])
      /\ \A i, j \in s : w[i] = w[j] /\ w[i] # Vacant => i = j
  BY <1>3 DEF Ways
<1>5. ASSUME NEW i \in s
      PROVE  /\ w[i] \in q.uids \cup {Vacant}
             /\ w[i] # Vacant => w[i] \in q.uids /\ q.score[i][w[i]] \in Nat
  <2>1. w[i] \in q.uids \cup {Vacant}
    BY <1>1
  <2>2. w[i] # Vacant => q.score[i][w[i]] \in Nat \cup {NoScore}
    BY <1>2, <2>1 DEF IsQuestion
  <2>3. QED
    BY <1>4, <2>1, <2>2 DEF Fits
<1>6. QED
  BY <1>1, <1>2, <1>3, <1>4, <1>5 DEF IsWay

LEMMA WaysAreFinite ==
    ASSUME NEW q, IsQuestion(q), NEW k
    PROVE  IsFiniteSet(Ways(q, k))
<1> DEFINE Marks == Places(q) \X (q.uids \cup {Vacant})
           way == [g \in SUBSET Marks |-> [i \in {u[1] : u \in g} |-> CHOOSE y : <<i, y>> \in g]]
<1>1. IsFiniteSet(SUBSET Marks)
  <2>1. IsFiniteSet(Places(q))
    BY PlacesAreFinite
  <2>2. IsFiniteSet(q.uids \cup {Vacant})
    BY FS_AddElement DEF IsQuestion
  <2>3. QED
    BY <2>1, <2>2, FS_Product, FS_SUBSET
<1>2. ASSUME NEW w \in Ways(q, k)
      PROVE  \E g \in SUBSET Marks : w = way[g]
  <2> DEFINE g == {<<i, w[i]>> : i \in DOMAIN w}
  <2>1. /\ DOMAIN w \subseteq Places(q) /\ w = [i \in DOMAIN w |-> w[i]]
        /\ \A i \in DOMAIN w : w[i] \in q.uids \cup {Vacant}
    BY WaysAreWays DEF IsWay
  <2>2. g \in SUBSET Marks
    BY <2>1
  <2>3. {u[1] : u \in g} = DOMAIN w
    <3>1. \A i \in DOMAIN w : <<i, w[i]>> \in g /\ <<i, w[i]>>[1] = i
      OBVIOUS
    <3>2. \A u \in g : u[1] \in DOMAIN w
      OBVIOUS
    <3> HIDE DEF g
    <3>3. QED
      BY <3>1, <3>2
  <2>4. \A i \in DOMAIN w : (CHOOSE y : <<i, y>> \in g) = w[i]
    <3>1. \A i \in DOMAIN w : \A y : <<i, y>> \in g <=> y = w[i]
      OBVIOUS
    <3> HIDE DEF g
    <3>2. QED
      BY <3>1
  <2>5. way[g] = [i \in {u[1] : u \in g} |-> CHOOSE y : <<i, y>> \in g]
    BY <2>2
  <2> HIDE DEF g, way
  <2>6. way[g] = w
    BY <2>1, <2>3, <2>4, <2>5
  <2>7. QED
    BY <2>2, <2>6
<1>3. IsFiniteSet({way[g] : g \in SUBSET Marks})
  <2>1. DOMAIN way = SUBSET Marks
    OBVIOUS
  <2> HIDE DEF way, Marks
  <2>2. QED
    BY <1>1, <2>1, ImagesAreFinite
<1> HIDE DEF way, Marks
<1>4. Ways(q, k) \subseteq {way[g] : g \in SUBSET Marks}
  BY <1>2
<1>5. QED
  BY <1>3, <1>4, FS_Subset

LEMMA ThereIsAWay ==
    ASSUME NEW q, IsQuestion(q)
    PROVE  Ways(q, Target(q)) # {}
<1> DEFINE n == q.full + q.quota
           w == [i \in 1..n |-> Vacant]
<1>1. q.full \in Nat /\ q.quota \in Nat /\ n \in Nat /\ q.quota <= q.optional /\ q.optional \in Nat
  BY DEF IsQuestion
<1>2. 1..n \in SUBSET Places(q)
  BY <1>1 DEF Places
<1>3. Cardinality(1..n) = Target(q)
  <2>1. Cardinality(1..n) = n
    BY <1>1, FS_Interval
  <2>2. QED
    BY <2>1 DEF Target
<1>4. Cardinality((1..n) \cap Optional(q)) <= q.quota
  <2> DEFINE a == q.full + 1
             b == q.full + q.quota
  <2>1. (1..n) \cap Optional(q) = a..b
    BY <1>1 DEF Optional
  <2>2. a \in Int /\ b \in Int /\ (a > b => q.quota = 0) /\ b - a + 1 = q.quota
    BY <1>1
  <2> HIDE DEF a, b, n
  <2>3. Cardinality(a..b) = IF a > b THEN 0 ELSE b - a + 1
    BY <2>2, FS_Interval
  <2>4. Cardinality(a..b) = q.quota
    BY <2>2, <2>3
  <2>5. Cardinality((1..n) \cap Optional(q)) = q.quota
    BY <2>1, <2>4, Zenon
  <2>6. QED
    BY <1>1, <2>5
<1>5. 1..n \in Decided(q, Target(q))
  BY <1>2, <1>3, <1>4 DEF Decided
<1>6. w \in [1..n -> q.uids \cup {Vacant}] /\ DOMAIN w = 1..n /\ \A i \in 1..n : w[i] = Vacant
  OBVIOUS
<1> HIDE DEF w, n
<1>7. w \in Ways(q, Target(q))
  BY <1>5, <1>6 DEF Ways
<1>8. QED
  BY <1>7

LEMMA ObjectivesAreWords ==
    ASSUME NEW q, IsQuestion(q), NEW w, IsWay(q, w)
    PROVE  /\ LengthOf(q) \in Nat /\ LengthOf(q) >= 2
           /\ IsWord(Objective(q, w), LengthOf(q))
           /\ Objective(q, w)[1] = FilledIn(w, DOMAIN w) /\ FilledIn(w, DOMAIN w) \in Nat
           /\ Objective(q, w)[2] = HeightOf(q, w, DOMAIN w) /\ HeightOf(q, w, DOMAIN w) \in Nat
<1>1. Objective(q, w) = Sum(q, w, DOMAIN w)
  BY ObjectiveIsSum
<1>2. LengthOf(q) \in Nat /\ LengthOf(q) >= 2
  BY DEF LengthOf, IsQuestion
<1>3. FilledIn(w, DOMAIN w) \in Nat /\ HeightOf(q, w, DOMAIN w) \in Nat
  BY PilesAreFinite DEF FilledIn, HeightOf
<1>4. \A i \in DOMAIN w : Tie(q, w, i) \in Int
  BY TiesAreNumbers
<1>5. QED
  BY <1>1, <1>2, <1>3, <1>4 DEF Sum, IsWord

LEMMA BestWayIsBest ==
    ASSUME NEW q, IsQuestion(q)
    PROVE  /\ BestWay(q) \in Ways(q, Target(q))
           /\ \A v \in Ways(q, Target(q)) : ~Better(Objective(q, v), Objective(q, BestWay(q)))
<1> DEFINE W == Ways(q, Target(q))
           o == [w \in W |-> Objective(q, w)]
           R == {u \in W \X W : Better(o[u[2]], o[u[1]])}
<1>1. IsFiniteSet(W) /\ W # {}
  BY WaysAreFinite, ThereIsAWay
<1>2. LengthOf(q) \in Nat /\ \A w \in W : o[w] = Objective(q, w) /\ IsWord(o[w], LengthOf(q))
  BY <1>1, WaysAreWays, ObjectivesAreWords
<1>3. \A w, v \in W : <<w, v>> \in R <=> Better(o[v], o[w])
  OBVIOUS
<1> HIDE DEF W, o, R
<1>4. \A w \in W : <<w, w>> \notin R
  BY <1>2, <1>3, BetterIsAnOrder
<1>5. \A x, y, z \in W : <<x, y>> \in R /\ <<y, z>> \in R => <<x, z>> \in R
  BY <1>2, <1>3, BetterIsAnOrder
<1>6. PICK w \in W : \A v \in W : <<w, v>> \notin R
  BY <1>1, <1>4, <1>5, OneIsLast
<1>7. IsBest(q, Target(q), w)
  BY <1>2, <1>3, <1>6 DEF IsBest, W
<1>8. IsBest(q, Target(q), BestWay(q))
  BY <1>6, <1>7 DEF BestWay, W
<1>9. QED
  BY <1>8 DEF IsBest

(* No way fills more places than the best, and none that fills as many has  *)
(* a higher total.                                                          *)
LEMMA BestIsMost ==
    ASSUME NEW q, IsQuestion(q), NEW v \in Ways(q, Target(q)), NEW w, w = BestWay(q)
    PROVE  /\ FilledIn(v, DOMAIN v) <= FilledIn(w, DOMAIN w)
           /\ FilledIn(v, DOMAIN v) = FilledIn(w, DOMAIN w) =>
                 HeightOf(q, v, DOMAIN v) <= HeightOf(q, w, DOMAIN w)
<1> DEFINE a == Objective(q, v)
           b == Objective(q, w)
<1>1. ~Better(a, b) /\ w \in Ways(q, Target(q))
  BY BestWayIsBest
<1>2. IsWay(q, v) /\ IsWay(q, w)
  BY <1>1, WaysAreWays
<1>3. /\ DOMAIN a = 1..LengthOf(q) /\ LengthOf(q) \in Nat /\ LengthOf(q) >= 2
      /\ a[1] = FilledIn(v, DOMAIN v) /\ a[2] = HeightOf(q, v, DOMAIN v) /\ a[1] \in Nat /\ a[2] \in Nat
      /\ b[1] = FilledIn(w, DOMAIN w) /\ b[2] = HeightOf(q, w, DOMAIN w) /\ b[1] \in Nat /\ b[2] \in Nat
  BY <1>2, ObjectivesAreWords DEF IsWord
<1> HIDE DEF a, b
<1>4. 1 \in DOMAIN a /\ 2 \in DOMAIN a
  BY <1>3
<1>5. ~(a[1] > b[1])
  <2>1. \A j \in 1..(1 - 1) : a[j] = b[j]
    OBVIOUS
  <2>2. QED
    BY <1>1, <1>4, <2>1 DEF Better
<1>6. a[1] = b[1] => ~(a[2] > b[2])
  <2>1. a[1] = b[1] => \A j \in 1..(2 - 1) : a[j] = b[j]
    OBVIOUS
  <2>2. QED
    BY <1>1, <1>4, <2>1 DEF Better
<1>7. QED
  BY <1>3, <1>5, <1>6

(* Whoever could have a place and has none is no better than who has it.    *)
LEMMA NobodyBetterIsLeft ==
    ASSUME NEW q, IsQuestion(q), NEW w, w = BestWay(q), NEW i \in DOMAIN w,
           NEW p \in q.uids, \A j \in DOMAIN w : w[j] # p, q.score[i][p] \in Nat
    PROVE  w[i] # Vacant /\ q.score[i][w[i]] >= q.score[i][p]
<1> DEFINE v == [w EXCEPT ![i] = p]
           D == DOMAIN w
<1>1. w \in Ways(q, Target(q))
  BY BestWayIsBest
<1>2. /\ IsWay(q, w) /\ D \in Decided(q, Target(q)) /\ w = [j \in D |-> w[j]]
      /\ \A j, k \in D : w[j] = w[k] /\ w[j] # Vacant => j = k
  BY <1>1, WaysAreWays
<1>3. p # Vacant /\ p # NoScore /\ q.score[i][p] # NoScore
  BY MatchingAssumption DEF IsQuestion
<1>4. DOMAIN v = D /\ v = [j \in D |-> IF j = i THEN p ELSE w[j]]
      /\ v[i] = p /\ \A j \in D \ {i} : v[j] = w[j]
  BY <1>2
<1> HIDE DEF v
<1>5. v \in Ways(q, Target(q))
  <2>1. \A j \in D : w[j] \in q.uids \cup {Vacant} /\ (w[j] # Vacant => q.score[j][w[j]] # NoScore)
    BY <1>2, MatchingAssumption DEF IsWay
  <2>2. v \in [D -> q.uids \cup {Vacant}]
    BY <1>4, <2>1
  <2>3. \A j \in D : v[j] # Vacant => Fits(q, j, v[j])
    BY <1>3, <1>4, <2>1 DEF Fits
  <2>4. \A j, k \in D : v[j] = v[k] /\ v[j] # Vacant => j = k
    BY <1>2, <1>4
  <2>5. QED
    BY <1>2, <1>4, <2>2, <2>3, <2>4 DEF Ways
<1>6. IsWay(q, v)
  BY <1>5, WaysAreWays
<1>7. /\ FilledIn(v, D \ {i}) = FilledIn(w, D \ {i})
      /\ HeightOf(q, v, D \ {i}) = HeightOf(q, w, D \ {i})
  <2>1. (D \ {i}) \cap HasPlace(v) = (D \ {i}) \cap HasPlace(w)
    BY <1>4 DEF HasPlace
  <2>2. \A j \in (D \ {i}) \cap HasPlace(w) : PiledOn(q, v, j) = PiledOn(q, w, j)
    BY <1>4 DEF PiledOn
  <2>3. Pile(q, v, D \ {i}) = Pile(q, w, D \ {i})
    BY <2>1, <2>2 DEF Pile
  <2>4. QED
    BY <2>1, <2>3 DEF FilledIn, HeightOf
<1> DEFINE n == FilledIn(w, D)
           m == FilledIn(w, D \ {i})
           h == HeightOf(q, w, D)
           r == HeightOf(q, w, D \ {i})
<1>8. m \in Nat /\ r \in Nat
  BY <1>2, PilesAreFinite DEF FilledIn, HeightOf
<1>9. D \in SUBSET DOMAIN w /\ D \in SUBSET DOMAIN v /\ i \in D
  BY <1>4
<1>10. /\ w[i] = Vacant => n = m /\ h = r
       /\ w[i] # Vacant => n = 1 + m /\ h = q.score[i][w[i]] + r /\ q.score[i][w[i]] \in Nat
  BY <1>2, <1>9, OnePlaceMore
<1>11. FilledIn(v, D) = 1 + m /\ HeightOf(q, v, D) = q.score[i][p] + r
  <2>1. v[i] # Vacant => /\ FilledIn(v, D) = 1 + FilledIn(v, D \ {i})
                         /\ HeightOf(q, v, D) = q.score[i][v[i]] + HeightOf(q, v, D \ {i})
    BY <1>6, <1>9, OnePlaceMore
  <2>2. QED
    BY <1>3, <1>4, <1>7, <2>1
<1>12. /\ FilledIn(v, D) <= n
       /\ FilledIn(v, D) = n => HeightOf(q, v, D) <= h
  BY <1>4, <1>5, BestIsMost
<1> HIDE DEF n, m, h, r, D
<1>13. w[i] # Vacant
  BY <1>8, <1>10, <1>11, <1>12
<1>14. QED
  BY <1>8, <1>10, <1>11, <1>12, <1>13

-----------------------------------------------------------------------------
(* The general coaches of a scope.                                          *)
Requirements == {GeneralRequirements[i] : i \in DOMAIN GeneralRequirements}

LEMMA ScoresAreNumbers ==
    ASSUME staff \in Staffs, NEW p \in DOMAIN staff, NEW role \in Roles \cup Requirements, NEW scope
    PROVE  ScoreIn(p, role, scope) \in Nat \cup {NoScore}
<1>1. /\ staff[p].scores[role] \in Nat \cup {NoScore} /\ staff[p].youngsters \in Nat \cup {NoScore}
  BY StaffsAssumption DEF Requirements
<1>2. \A a, b \in Nat : (a + 5 * b + 1) \div 2 \in Nat
  OBVIOUS
<1>3. QED
  BY <1>1, <1>2 DEF ScoreIn, AssignmentScore

ScoreTable(C, scope) ==
    [k \in 1..Len(GeneralRequirements) |-> [p \in C |-> ScoreIn(p, GeneralRequirements[k], scope)]]
QuestionFor(n, C, scope) == CoachQuestion(n, ScoreTable(C, scope))

LEMMA Remainders ==
    ASSUME NEW a \in Nat, NEW r \in Nat \ {0}
    PROVE  a % r \in 0..(r - 1) /\ a % r <= a
OBVIOUS

LEMMA WhatIsAsked ==
    ASSUME NEW n, NEW C, NEW scope
    PROVE  /\ QuestionFor(n, C, scope).uids = C
           /\ QuestionFor(n, C, scope).full = n - (n % Len(GeneralRequirements))
           /\ QuestionFor(n, C, scope).optional = Len(GeneralRequirements)
           /\ QuestionFor(n, C, scope).quota = n % Len(GeneralRequirements)
<1> DEFINE table == ScoreTable(C, scope)
<1>1. 1 \in 1..Len(GeneralRequirements) /\ Len(GeneralRequirements) \in Nat
  BY RequirementsAssumption
<1>2. DOMAIN table[1] = C /\ Len(table) = Len(GeneralRequirements)
  BY <1>1 DEF ScoreTable
<1> HIDE DEF table
<1>3. QED
  BY <1>2 DEF QuestionFor, CoachQuestion, table

LEMMA QuestionsAreQuestions ==
    ASSUME staff \in Staffs, NEW n \in Nat, NEW C \in SUBSET DOMAIN staff, NEW scope, NEW q,
           q = QuestionFor(n, C, scope)
    PROVE  /\ IsQuestion(q) /\ Target(q) = n
           /\ \A i \in Places(q) : /\ RequirementAt(i) \in Requirements
                                   /\ \A p \in C : q.score[i][p] = ScoreIn(p, RequirementAt(i), scope)
<1> DEFINE r == Len(GeneralRequirements)
           table == ScoreTable(C, scope)
<1>1. r \in Nat \ {0} /\ DOMAIN GeneralRequirements = 1..r
  BY RequirementsAssumption
<1>2. Len(table) = r /\ \A k \in 1..r : table[k] = [p \in C |-> ScoreIn(p, GeneralRequirements[k], scope)]
  BY <1>1 DEF ScoreTable
<1>3. DOMAIN table[1] = C
  <2>1. 1 \in 1..r
    BY <1>1
  <2> HIDE DEF table, r
  <2>2. QED
    BY <1>2, <2>1
<1> HIDE DEF r, table
<1>4. n % r \in 0..(r - 1) /\ n % r <= n /\ n - (n % r) \in Nat
  BY <1>1, Remainders
<1>5. /\ q.full = n - (n % r) /\ q.optional = r /\ q.quota = n % r
      /\ q.score = [i \in 1..(n - (n % r) + r) |-> table[((i - 1) % r) + 1]]
      /\ q.uids = C /\ q.filledFirst
  BY <1>2, <1>3 DEF QuestionFor, CoachQuestion, table
<1>6. Places(q) = 1..(n - (n % r) + r)
  BY <1>5 DEF Places
<1>7. ASSUME NEW i \in Places(q)
      PROVE  /\ RequirementAt(i) \in Requirements
             /\ \A p \in C : q.score[i][p] = ScoreIn(p, RequirementAt(i), scope)
  <2>1. i \in Nat \ {0} /\ i \in 1..(n - (n % r) + r)
    BY <1>1, <1>4, <1>6
  <2>2. (i - 1) % r \in 0..(r - 1)
    <3>1. i - 1 \in Nat
      BY <2>1
    <3>2. QED
      BY <1>1, <3>1, Remainders
  <2>3. ((i - 1) % r) + 1 \in 1..r
    BY <1>1, <2>2
  <2>4. RequirementAt(i) = GeneralRequirements[((i - 1) % r) + 1]
    BY DEF RequirementAt, r
  <2>5. q.score[i] = table[((i - 1) % r) + 1]
    BY <1>5, <2>1
  <2>6. table[((i - 1) % r) + 1] = [p \in C |-> ScoreIn(p, RequirementAt(i), scope)]
    BY <1>2, <2>3, <2>4
  <2>7. QED
    BY <1>1, <2>3, <2>4, <2>5, <2>6 DEF Requirements
<1>8. Target(q) = n
  BY <1>4, <1>5 DEF Target
<1>9. IsFiniteSet(C) /\ C \subseteq Nat
  BY StaffsAssumption, FS_Subset
<1>10. \A i \in Places(q) : \A p \in C : q.score[i][p] \in Nat \cup {NoScore}
  BY <1>7, ScoresAreNumbers
<1>11. q.quota \in 0..q.optional
  BY <1>1, <1>4, <1>5
<1>12. IsQuestion(q)
  BY <1>1, <1>4, <1>5, <1>9, <1>10, <1>11 DEF IsQuestion
<1>13. QED
  BY <1>5, <1>7, <1>8, <1>12 DEF r

(* What can be done with fewer coaches can be done with more.               *)
LEMMA WaysOfFewer ==
    ASSUME staff \in Staffs, NEW n \in Nat, NEW C \in SUBSET DOMAIN staff, NEW D \in SUBSET C, NEW scope,
           NEW w \in Ways(QuestionFor(n, D, scope), n)
    PROVE  w \in Ways(QuestionFor(n, C, scope), n)
<1> DEFINE q == QuestionFor(n, C, scope)
           r == QuestionFor(n, D, scope)
<1>1. D \in SUBSET DOMAIN staff
  OBVIOUS
<1>2. /\ q.uids = C /\ q.full = r.full /\ q.optional = r.optional /\ q.quota = r.quota
      /\ \A i \in Places(q) : \A p \in C : q.score[i][p] = ScoreIn(p, RequirementAt(i), scope)
  <2>1. /\ q.uids = C /\ q.full = n - (n % Len(GeneralRequirements))
        /\ q.optional = Len(GeneralRequirements) /\ q.quota = n % Len(GeneralRequirements)
    BY WhatIsAsked
  <2>2. /\ r.full = n - (n % Len(GeneralRequirements))
        /\ r.optional = Len(GeneralRequirements) /\ r.quota = n % Len(GeneralRequirements)
    BY WhatIsAsked
  <2>3. \A i \in Places(q) : \A p \in C : q.score[i][p] = ScoreIn(p, RequirementAt(i), scope)
    BY QuestionsAreQuestions
  <2> HIDE DEF q, r
  <2>4. QED
    BY <2>1, <2>2, <2>3
<1>3. /\ r.uids = D
      /\ \A i \in Places(r) : \A p \in D : r.score[i][p] = ScoreIn(p, RequirementAt(i), scope)
  <2>1. r.uids = D
    BY WhatIsAsked
  <2>2. \A i \in Places(r) : \A p \in D : r.score[i][p] = ScoreIn(p, RequirementAt(i), scope)
    BY <1>1, QuestionsAreQuestions
  <2>3. QED
    BY <2>1, <2>2
<1> HIDE DEF q, r
<1>4. Places(q) = Places(r) /\ Optional(q) = Optional(r)
  BY <1>2 DEF Places, Optional
<1>5. Decided(q, n) = Decided(r, n)
  BY <1>2, <1>4 DEF Decided
<1>6. w \in Ways(r, n)
  BY DEF r
<1>7. PICK s \in Decided(r, n) : w \in [s -> D \cup {Vacant}]
  BY <1>3, <1>6 DEF Ways
<1>8. w \in [s -> C \cup {Vacant}] /\ DOMAIN w = s /\ s \subseteq Places(q)
  BY <1>4, <1>7 DEF Decided
<1>9. \A i \in DOMAIN w : w[i] # Vacant => Fits(q, i, w[i])
  <2>1. \A i \in DOMAIN w : w[i] # Vacant => Fits(r, i, w[i]) /\ w[i] \in D
    BY <1>6, <1>7 DEF Ways
  <2>2. QED
    BY <1>2, <1>3, <1>4, <1>8, <2>1 DEF Fits
<1>10. \A i, j \in DOMAIN w : w[i] = w[j] /\ w[i] # Vacant => i = j
  BY <1>6 DEF Ways
<1>11. w \in Ways(q, n)
  BY <1>2, <1>5, <1>7, <1>8, <1>9, <1>10 DEF Ways
<1>12. QED
  BY <1>11 DEF q

(* Counted by their numbers, things are numbered from 1.                    *)
RankOf(S, num, s) == Cardinality({z \in S : num[z] <= num[s]})

LEMMA RanksAreNumbers ==
    ASSUME NEW S, IsFiniteSet(S), NEW num \in [S -> Nat],
           \A s, z \in S : num[s] = num[z] => s = z
    PROVE  /\ Cardinality(S) \in Nat
           /\ \A s \in S : RankOf(S, num, s) \in 1..Cardinality(S)
           /\ \A s, z \in S : RankOf(S, num, s) = RankOf(S, num, z) => s = z
           /\ \A n \in 1..Cardinality(S) : \E s \in S : RankOf(S, num, s) = n
<1> DEFINE upTo == [s \in S |-> {z \in S : num[z] <= num[s]}]
           rank == [s \in S |-> RankOf(S, num, s)]
           n == Cardinality(S)
<1>1. n \in Nat
  BY FS_CardinalityType
<1>2. \A s \in S : upTo[s] \in SUBSET S /\ s \in upTo[s] /\ rank[s] = Cardinality(upTo[s])
  BY DEF RankOf
<1>3. \A s, z \in S : z \in upTo[s] <=> num[z] <= num[s]
  OBVIOUS
<1> HIDE DEF upTo
<1>4. ASSUME NEW s \in S
      PROVE  IsFiniteSet(upTo[s]) /\ rank[s] \in 1..n
  <2>1. IsFiniteSet(upTo[s]) /\ Cardinality(upTo[s]) <= n
    BY <1>2, FS_Subset
  <2>2. Cardinality(upTo[s]) \in Nat /\ Cardinality(upTo[s]) # 0
    BY <1>2, <2>1, FS_CardinalityType, FS_EmptySet
  <2>3. QED
    BY <1>1, <1>2, <2>1, <2>2
<1>5. ASSUME NEW s \in S, NEW z \in S, rank[s] = rank[z], num[s] <= num[z]
      PROVE  s = z
  <2>1. upTo[s] \in SUBSET upTo[z]
    BY <1>2, <1>3, <1>5
  <2>2. upTo[s] = upTo[z]
    BY <1>2, <1>4, <1>5, <2>1, FS_Subset
  <2>3. num[z] <= num[s]
    BY <1>2, <1>3, <2>2
  <2>4. QED
    BY <1>5, <2>3
<1>6. ASSUME NEW s \in S, NEW z \in S, rank[s] = rank[z]
      PROVE  s = z
  <2>1. num[s] <= num[z] \/ num[z] <= num[s]
    OBVIOUS
  <2>2. QED
    BY <1>5, <1>6, <2>1
<1>7. rank \in Injection(S, 1..n)
  <2>1. rank \in [S -> 1..n]
    BY <1>4
  <2> HIDE DEF rank
  <2>2. QED
    BY <1>6, <2>1 DEF Injection, IsInjective
<1>8. rank \in Surjection(S, 1..n)
  <2>1. IsFiniteSet(1..n) /\ Cardinality(1..n) = n
    BY <1>1, FS_Interval
  <2> HIDE DEF rank
  <2>2. QED
    BY <1>7, <2>1, FS_Injection
<1>9. \A k \in 1..n : \E s \in S : rank[s] = k
  BY <1>8 DEF Surjection
<1>10. QED
  BY <1>1, <1>4, <1>6, <1>9

-----------------------------------------------------------------------------
(* The general coaches of a scope, slot by slot.                            *)
Coaches == {p \in DOMAIN staff : staff[p].job = "coach"}
GeneralQuestion(scope) ==
    QuestionFor(Cardinality(GeneralSlots(scope)), Coaches \ Assigned, scope)

LEMMA GeneralSlotsAreNumbered ==
    ASSUME targets \in Wanteds, NEW scope
    PROVE  /\ GeneralSlots(scope) \subseteq Slots /\ IsFiniteSet(GeneralSlots(scope))
           /\ Cardinality(GeneralSlots(scope)) \in Nat
           /\ \A s \in GeneralSlots(scope) : s.number \in Nat /\ s.scope = scope /\ s.job = "coaches"
           /\ \A s, z \in GeneralSlots(scope) : s.number = z.number => s = z
<1>1. GeneralSlots(scope) \subseteq Slots
  BY DEF GeneralSlots, CoachSlots
<1>2. IsFiniteSet(GeneralSlots(scope)) /\ Cardinality(GeneralSlots(scope)) \in Nat
  BY <1>1, SlotsAreFinite, FS_Subset, FS_CardinalityType
<1>3. \A s \in GeneralSlots(scope) : s.scope = scope /\ s.job = "coaches"
  BY DEF GeneralSlots, CoachSlots
<1>4. \A s \in GeneralSlots(scope) :
          s.number \in Nat /\ s = [scope |-> s.scope, job |-> s.job, number |-> s.number]
  BY <1>1, SlotsAreOfTargets
<1>5. QED
  BY <1>1, <1>2, <1>3, <1>4

(* The places that are decided and the slots are counted off together.      *)
CountOff(S, num, D, same) == [s \in S |-> CHOOSE i \in D : RankOf(D, same, i) = RankOf(S, num, s)]

LEMMA CountedOff ==
    ASSUME NEW S, IsFiniteSet(S), NEW D, IsFiniteSet(D), Cardinality(D) = Cardinality(S),
           NEW num \in [S -> Nat], \A s, z \in S : num[s] = num[z] => s = z,
           NEW same \in [D -> Nat], \A i, j \in D : same[i] = same[j] => i = j,
           NEW at, at = CountOff(S, num, D, same)
    PROVE  /\ at \in [S -> D]
           /\ \A s, z \in S : at[s] = at[z] => s = z
           /\ \A i \in D : \E s \in S : at[s] = i
<1>1. /\ \A i \in D : RankOf(D, same, i) \in 1..Cardinality(D)
      /\ \A i, j \in D : RankOf(D, same, i) = RankOf(D, same, j) => i = j
      /\ \A n \in 1..Cardinality(D) : \E i \in D : RankOf(D, same, i) = n
  BY RanksAreNumbers
<1>2. /\ \A s \in S : RankOf(S, num, s) \in 1..Cardinality(S)
      /\ \A s, z \in S : RankOf(S, num, s) = RankOf(S, num, z) => s = z
      /\ \A n \in 1..Cardinality(S) : \E s \in S : RankOf(S, num, s) = n
  BY RanksAreNumbers
<1>3. \A s \in S : at[s] \in D /\ RankOf(D, same, at[s]) = RankOf(S, num, s)
  <2> SUFFICES ASSUME NEW s \in S
               PROVE  at[s] \in D /\ RankOf(D, same, at[s]) = RankOf(S, num, s)
    OBVIOUS
  <2>1. \E i \in D : RankOf(D, same, i) = RankOf(S, num, s)
    BY <1>1, <1>2
  <2>2. at[s] = CHOOSE i \in D : RankOf(D, same, i) = RankOf(S, num, s)
    BY DEF CountOff
  <2>3. QED
    BY <2>1, <2>2
<1>4. at \in [S -> D]
  BY <1>3 DEF CountOff
<1>5. ASSUME NEW s \in S, NEW z \in S, at[s] = at[z]
      PROVE  s = z
  BY <1>2, <1>3, <1>5
<1>6. ASSUME NEW i \in D
      PROVE  \E s \in S : at[s] = i
  <2>1. PICK s \in S : RankOf(S, num, s) = RankOf(D, same, i)
    BY <1>1, <1>2
  <2>2. at[s] = i
    <3>1. at[s] \in D /\ RankOf(D, same, at[s]) = RankOf(D, same, i)
      BY <1>3, <2>1
    <3>2. QED
      BY <1>1, <3>1
  <2>3. QED
    BY <2>2
<1>7. QED
  BY <1>4, <1>5, <1>6

(* MatchGeneral gives every slot one of the places of the best way.         *)
LEMMA SlotsHavePlaces ==
    ASSUME staff \in Staffs, targets \in Wanteds, NEW scope, NEW slots, slots = GeneralSlots(scope),
           NEW q, q = GeneralQuestion(scope), NEW w, w = BestWay(q)
    PROVE  \E at \in [slots -> DOMAIN w] :
              /\ \A s, z \in slots : at[s] = at[z] => s = z
              /\ \A i \in DOMAIN w : \E s \in slots : at[s] = i
              /\ MatchGeneral(scope)
                   = [s \in slots |->
                         Filled(w[at[s]],
                                IF w[at[s]] = Vacant THEN NoScore ELSE q.score[at[s]][w[at[s]]],
                                RequirementAt(at[s]))]
<1> DEFINE D == DOMAIN w
           at == [s \in slots |-> CHOOSE i \in D :
                     Cardinality({j \in D : j <= i}) = Cardinality({z \in slots : z.number <= s.number})]
           num == [s \in slots |-> s.number]
           same == [i \in D |-> i]
<1>1. /\ slots \subseteq Slots /\ IsFiniteSet(slots) /\ Cardinality(slots) \in Nat
      /\ \A s \in slots : s.number \in Nat
      /\ \A s, z \in slots : s.number = z.number => s = z
  BY GeneralSlotsAreNumbered
<1>2. Coaches \ Assigned \in SUBSET DOMAIN staff
  BY DEF Coaches
<1>3. IsQuestion(q) /\ Target(q) = Cardinality(slots)
  BY <1>1, <1>2, QuestionsAreQuestions DEF GeneralQuestion
<1>4. w \in Ways(q, Target(q))
  BY <1>3, BestWayIsBest
<1>5. IsWay(q, w) /\ D \in Decided(q, Target(q))
  BY <1>3, <1>4, WaysAreWays
<1>6. IsFiniteSet(D) /\ D \subseteq Nat /\ Cardinality(D) = Cardinality(slots)
  BY <1>3, <1>5 DEF IsWay, Decided, Places, IsQuestion
<1>7. num \in [slots -> Nat] /\ \A s, z \in slots : num[s] = num[z] => s = z
  BY <1>1
<1>8. same \in [D -> Nat] /\ \A i, j \in D : same[i] = same[j] => i = j
  BY <1>6
<1>9. at = CountOff(slots, num, D, same)
  <2>1. \A s \in slots : {z \in slots : num[z] <= num[s]} = {z \in slots : z.number <= s.number}
    OBVIOUS
  <2>2. \A i \in D : {j \in D : same[j] <= same[i]} = {j \in D : j <= i}
    OBVIOUS
  <2>3. \A s \in slots : RankOf(slots, num, s) = Cardinality({z \in slots : z.number <= s.number})
    <3> HIDE DEF num
    <3>1. QED
      BY <2>1 DEF RankOf
  <2>4. \A i \in D : RankOf(D, same, i) = Cardinality({j \in D : j <= i})
    <3> HIDE DEF same, D
    <3>1. QED
      BY <2>2 DEF RankOf
  <2> HIDE DEF num, same, D
  <2>5. \A s \in slots :
            (CHOOSE i \in D : RankOf(D, same, i) = RankOf(slots, num, s))
            = (CHOOSE i \in D : Cardinality({j \in D : j <= i})
                                  = Cardinality({z \in slots : z.number <= s.number}))
    BY <2>3, <2>4
  <2>6. QED
    BY <2>5 DEF CountOff
<1> HIDE DEF num, same
<1>10. /\ at \in [slots -> D]
       /\ \A s, z \in slots : at[s] = at[z] => s = z
       /\ \A i \in D : \E s \in slots : at[s] = i
  <2> HIDE DEF at, D
  <2>1. QED
    <3>1. IsFiniteSet(slots) /\ IsFiniteSet(D) /\ Cardinality(D) = Cardinality(slots)
      BY <1>1, <1>6
    <3>2. num \in [slots -> Nat] /\ same \in [D -> Nat]
      BY <1>7, <1>8
    <3>3. \A s, z \in slots : num[s] = num[z] => s = z
      BY <1>7
    <3>4. \A i, j \in D : same[i] = same[j] => i = j
      BY <1>8
    <3>5. QED
      BY <3>1, <3>2, <3>3, <3>4, <1>9, CountedOff
<1>11. CoachQuestion(Cardinality(slots), GeneralScores(scope)) = q
  BY DEF GeneralQuestion, QuestionFor, ScoreTable, GeneralScores, Coaches
<1>12. MatchGeneral(scope)
         = [s \in slots |->
               Filled(w[at[s]],
                      IF w[at[s]] = Vacant THEN NoScore ELSE q.score[at[s]][w[at[s]]],
                      RequirementAt(at[s]))]
  BY <1>11 DEF MatchGeneral
<1> HIDE DEF at
<1>13. QED
  BY <1>10, <1>12

(* Whoever is recommended is free and scored for the requirement; nobody is *)
(* recommended twice, nobody better is left and no more could be found.     *)
UidsIn(m) == {m[s].uid : s \in DOMAIN m} \ {Vacant}

LEMMA WhoIsMatched ==
    ASSUME staff \in Staffs, targets \in Wanteds, NEW scope, NEW m, m = MatchGeneral(scope)
    PROVE  /\ DOMAIN m = GeneralSlots(scope)
           /\ \A s \in DOMAIN m :
                 /\ m[s].requirement \in Requirements
                 /\ m[s].uid \in (Coaches \ Assigned) \cup {Vacant}
                 /\ m[s].uid # Vacant => /\ m[s].score \in Nat
                                         /\ m[s].score = ScoreIn(m[s].uid, m[s].requirement, scope)
           /\ \A s, z \in DOMAIN m : m[s].uid = m[z].uid /\ m[s].uid # Vacant => s = z
           /\ \A s \in DOMAIN m : \A p \in Coaches \ Assigned :
                 p \notin UidsIn(m) /\ ScoreIn(p, m[s].requirement, scope) # NoScore =>
                     m[s].uid # Vacant /\ m[s].score >= ScoreIn(p, m[s].requirement, scope)
           /\ \A C \in SUBSET (Coaches \ Assigned) :
                 LET n == Cardinality(DOMAIN m) IN
                 \A v \in Ways(QuestionFor(n, C, scope), n) : Cardinality(HasPlace(v)) <= Cardinality(UidsIn(m))
<1> DEFINE slots == GeneralSlots(scope)
           free == Coaches \ Assigned
           n == Cardinality(slots)
           q == GeneralQuestion(scope)
           w == BestWay(q)
<1>1. slots \subseteq Slots /\ n \in Nat
  BY GeneralSlotsAreNumbered
<1>2. free \in SUBSET DOMAIN staff /\ q = QuestionFor(n, free, scope)
  BY DEF Coaches, GeneralQuestion
<1> HIDE DEF n, free
<1>3. /\ IsQuestion(q) /\ q.uids = free /\ Target(q) = n
      /\ \A i \in Places(q) : /\ RequirementAt(i) \in Requirements
                              /\ \A p \in free : q.score[i][p] = ScoreIn(p, RequirementAt(i), scope)
  <2> HIDE DEF q
  <2>1. IsQuestion(q) /\ Target(q) = n
    BY <1>1, <1>2, QuestionsAreQuestions
  <2>2. \A i \in Places(q) : RequirementAt(i) \in Requirements
    BY <1>1, <1>2, QuestionsAreQuestions
  <2>3. \A i \in Places(q) : \A p \in free : q.score[i][p] = ScoreIn(p, RequirementAt(i), scope)
    BY <1>1, <1>2, QuestionsAreQuestions
  <2>4. q.uids = free
    BY <1>2, WhatIsAsked
  <2>5. QED
    BY <2>1, <2>2, <2>3, <2>4
<1>4. PICK at \in [slots -> DOMAIN w] :
        /\ \A s, z \in slots : at[s] = at[z] => s = z
        /\ \A i \in DOMAIN w : \E s \in slots : at[s] = i
        /\ m = [s \in slots |->
                   Filled(w[at[s]],
                          IF w[at[s]] = Vacant THEN NoScore ELSE q.score[at[s]][w[at[s]]],
                          RequirementAt(at[s]))]
  BY SlotsHavePlaces
<1> HIDE DEF q
<1>5. w \in Ways(q, n)
  BY <1>3, BestWayIsBest
<1>6. /\ IsWay(q, w) /\ DOMAIN w \subseteq Places(q)
      /\ \A i, j \in DOMAIN w : w[i] = w[j] /\ w[i] # Vacant => i = j
      /\ \A i \in DOMAIN w : /\ w[i] \in free \cup {Vacant}
                             /\ w[i] # Vacant => w[i] \in free /\ q.score[i][w[i]] \in Nat
  BY <1>3, <1>5, WaysAreWays DEF IsWay
<1>7. IsFiniteSet(HasPlace(w)) /\ IsFiniteSet(DOMAIN w)
  BY <1>6, FS_Subset DEF IsWay, HasPlace
<1> DEFINE best == w
<1> HIDE DEF w, slots
<1>8. DOMAIN m = slots
  BY <1>4
<1>9. ASSUME NEW s \in slots
      PROVE  /\ at[s] \in DOMAIN w /\ at[s] \in Places(q)
             /\ m[s].uid = w[at[s]] /\ m[s].requirement = RequirementAt(at[s])
             /\ m[s].uid # Vacant => m[s].score = q.score[at[s]][w[at[s]]]
  <2>1. m[s] = Filled(w[at[s]],
                      IF w[at[s]] = Vacant THEN NoScore ELSE q.score[at[s]][w[at[s]]],
                      RequirementAt(at[s]))
    BY <1>4
  <2>2. at[s] \in DOMAIN w
    BY <1>4
  <2>3. QED
    BY <1>6, <2>1, <2>2 DEF Filled
<1>10. ASSUME NEW s \in slots
       PROVE  /\ m[s].requirement \in Requirements
              /\ m[s].uid \in free \cup {Vacant}
              /\ m[s].uid # Vacant => /\ m[s].score \in Nat
                                      /\ m[s].score = ScoreIn(m[s].uid, m[s].requirement, scope)
  BY <1>3, <1>6, <1>9
<1>11. ASSUME NEW s \in slots, NEW z \in slots, m[s].uid = m[z].uid, m[s].uid # Vacant
       PROVE  s = z
  <2>1. at[s] = at[z]
    BY <1>6, <1>9, <1>11
  <2>2. QED
    BY <1>4, <2>1
<1>12. UidsIn(m) = {w[i] : i \in HasPlace(w)}
  <2>1. ASSUME NEW s \in slots, m[s].uid # Vacant
        PROVE  m[s].uid \in {w[i] : i \in HasPlace(w)}
    BY <1>9, <2>1 DEF HasPlace
  <2>2. ASSUME NEW i \in HasPlace(w)
        PROVE  w[i] \in UidsIn(m)
    <3>1. i \in DOMAIN w /\ w[i] # Vacant
      BY DEF HasPlace
    <3>2. PICK s \in slots : at[s] = i
      BY <1>4, <3>1
    <3>3. m[s].uid = w[i]
      BY <1>9, <3>2
    <3>4. QED
      BY <1>8, <3>1, <3>2, <3>3 DEF UidsIn
  <2>3. QED
    BY <1>8, <2>1, <2>2 DEF UidsIn
<1>13. ASSUME NEW s \in slots, NEW p \in free, p \notin UidsIn(m),
              ScoreIn(p, m[s].requirement, scope) # NoScore
       PROVE  m[s].uid # Vacant /\ m[s].score >= ScoreIn(p, m[s].requirement, scope)
  <2>1. at[s] \in DOMAIN w /\ at[s] \in Places(q) /\ p \in q.uids
    BY <1>3, <1>9
  <2>2. p # Vacant /\ \A j \in DOMAIN w : w[j] # p
    <3>1. p # Vacant
      BY <1>3, MatchingAssumption DEF IsQuestion
    <3>2. QED
      BY <1>12, <1>13, <3>1 DEF HasPlace
  <2>3. q.score[at[s]][p] = ScoreIn(p, m[s].requirement, scope)
    BY <1>3, <1>9, <2>1
  <2>4. q.score[at[s]][p] \in Nat
    BY <1>3, <1>13, <2>1, <2>3 DEF IsQuestion
  <2>5. w[at[s]] # Vacant /\ q.score[at[s]][w[at[s]]] >= q.score[at[s]][p]
    BY <1>3, <2>1, <2>2, <2>4, NobodyBetterIsLeft DEF w
  <2>6. QED
    BY <1>9, <2>3, <2>5
<1>14. Cardinality(HasPlace(w)) = Cardinality(UidsIn(m))
  <2> DEFINE who == [i \in HasPlace(w) |-> w[i]]
  <2>1. \A i \in HasPlace(w) : who[i] = w[i] /\ i \in DOMAIN w /\ w[i] # Vacant
    BY DEF HasPlace
  <2>2. who \in [HasPlace(w) -> UidsIn(m)]
    BY <1>12
  <2> HIDE DEF who
  <2>3. who \in Injection(HasPlace(w), UidsIn(m))
    BY <1>6, <2>1, <2>2 DEF Injection, IsInjective
  <2>4. who \in Surjection(HasPlace(w), UidsIn(m))
    BY <1>12, <2>1, <2>2 DEF Surjection
  <2>5. Cardinality(UidsIn(m)) = Cardinality(HasPlace(w)) <=> who \in Injection(HasPlace(w), UidsIn(m))
    BY <1>7, <2>4, FS_Surjection
  <2>6. QED
    BY <2>3, <2>5
<1>15. ASSUME NEW C \in SUBSET free, NEW v \in Ways(QuestionFor(n, C, scope), n)
       PROVE  Cardinality(HasPlace(v)) <= Cardinality(UidsIn(m))
  <2>1. v \in Ways(q, n)
    BY <1>1, <1>2, WaysOfFewer
  <2>2. FilledIn(v, DOMAIN v) <= FilledIn(w, DOMAIN w)
    BY <1>3, <2>1, BestIsMost DEF w
  <2>3. (DOMAIN v) \cap HasPlace(v) = HasPlace(v) /\ (DOMAIN w) \cap HasPlace(w) = HasPlace(w)
    BY DEF HasPlace
  <2>4. FilledIn(v, DOMAIN v) = Cardinality(HasPlace(v)) /\ FilledIn(w, DOMAIN w) = Cardinality(HasPlace(w))
    BY <2>3, Zenon DEF FilledIn
  <2>5. QED
    BY <1>14, <2>2, <2>4
<1>16. QED
  BY <1>8, <1>10, <1>11, <1>13, <1>15 DEF slots, free, n

-----------------------------------------------------------------------------
(* One slot: the best who is left.                                          *)
IsGeneral(s) == s.job = "coaches" /\ CoachTypeAt(s.number) = "general"
HeadJobs == {Heads[i] : i \in DOMAIN Heads}

LEMMA RolesAreScored ==
    ASSUME targets \in Wanteds, NEW s \in Slots
    PROVE  /\ ~IsGeneral(s) => RoleOf(s) \in Roles
           /\ s.job # "coaches" => Role(s.job) \in Roles /\ RoleOf(s) = Role(s.job)
<1>1. s.job \in JobIds
  BY SlotsAreOfTargets
<1>2. Role(s.job) \in Roles
  BY <1>1 DEF Roles, JobIds
<1>3. CoachTypeAt(s.number) \in {"general", "goalkeeping", "fitness"}
  BY DEF CoachTypeAt
<1>4. QED
  BY <1>2, <1>3 DEF RoleOf, IsGeneral, Roles

LEMMA WhoIsEligible ==
    ASSUME NEW s
    PROVE  /\ Eligible(s) \subseteq DOMAIN staff
           /\ \A p \in Eligible(s) : ScoreIn(p, RoleOf(s), s.scope) # NoScore
<1>1. CASE s.job # "coaches"
  BY <1>1 DEF Eligible, Group, RoleOf
<1>2. CASE s.job = "coaches" /\ CoachTypeAt(s.number) = "fitness"
  BY <1>2 DEF Eligible, RoleOf
<1>3. CASE s.job = "coaches" /\ CoachTypeAt(s.number) = "goalkeeping"
  BY <1>3 DEF Eligible, RoleOf
<1>4. CASE s.job = "coaches" /\ CoachTypeAt(s.number) \notin {"fitness", "goalkeeping"}
  BY <1>4 DEF Eligible
<1>5. QED
  BY <1>1, <1>2, <1>3, <1>4

LEMMA OneIsBest ==
    ASSUME NEW F, IsFiniteSet(F), F \subseteq Nat, F # {}, NEW score \in [F -> Nat]
    PROVE  \E p \in F : \A q \in F \ {p} : score[p] > score[q] \/ (score[p] = score[q] /\ p < q)
<1> DEFINE R == {u \in F \X F : score[u[1]] < score[u[2]]
                                \/ (score[u[1]] = score[u[2]] /\ u[2] < u[1])}
<1>1. \A x, y \in F : <<x, y>> \in R <=> score[x] < score[y] \/ (score[x] = score[y] /\ y < x)
  OBVIOUS
<1> HIDE DEF R
<1>2. \A x \in F : score[x] \in Nat /\ x \in Nat
  OBVIOUS
<1>3. \A x \in F : <<x, x>> \notin R
  BY <1>1, <1>2
<1>4. \A x, y, z \in F : <<x, y>> \in R /\ <<y, z>> \in R => <<x, z>> \in R
  BY <1>1, <1>2
<1>5. PICK p \in F : \A q \in F : <<p, q>> \notin R
  BY <1>3, <1>4, OneIsLast
<1>6. ASSUME NEW q \in F \ {p}
      PROVE  score[p] > score[q] \/ (score[p] = score[q] /\ p < q)
  <2>1. ~(score[p] < score[q] \/ (score[p] = score[q] /\ q < p))
    BY <1>1, <1>5
  <2>2. score[p] \in Nat /\ score[q] \in Nat /\ p \in Nat /\ q \in Nat /\ p # q
    BY <1>2
  <2>3. QED
    BY <2>1, <2>2
<1>7. QED
  BY <1>6

LEMMA WhoIsAllocated ==
    ASSUME staff \in Staffs, targets \in Wanteds, NEW s \in Slots, ~IsGeneral(s), NEW a, a = Allocate(s)
    PROVE  /\ a.requirement = RoleOf(s)
           /\ a.uid \in (Eligible(s) \ Assigned) \cup {Vacant}
           /\ a.uid # Vacant => /\ a.score \in Nat
                                /\ a.score = ScoreIn(a.uid, RoleOf(s), s.scope)
           /\ \A p \in Eligible(s) \ Assigned :
                 a.uid # Vacant /\ a.score >= ScoreIn(p, RoleOf(s), s.scope)
<1> DEFINE free == Eligible(s) \ Assigned
           score == [p \in free |-> ScoreIn(p, RoleOf(s), s.scope)]
           best == CHOOSE p \in free : \A q \in free \ {p} :
                       \/ ScoreIn(p, RoleOf(s), s.scope) > ScoreIn(q, RoleOf(s), s.scope)
                       \/ (ScoreIn(p, RoleOf(s), s.scope) = ScoreIn(q, RoleOf(s), s.scope) /\ p < q)
<1>1. free \subseteq DOMAIN staff /\ IsFiniteSet(free) /\ free \subseteq Nat
  <2>1. free \subseteq DOMAIN staff
    BY WhoIsEligible
  <2>2. IsFiniteSet(DOMAIN staff) /\ DOMAIN staff \subseteq Nat
    BY StaffsAssumption
  <2> HIDE DEF free
  <2>3. QED
    BY <2>1, <2>2, FS_Subset
<1>2. RoleOf(s) \in Roles
  BY RolesAreScored
<1>3. \A p \in free : ScoreIn(p, RoleOf(s), s.scope) \in Nat
  <2>1. \A p \in free : ScoreIn(p, RoleOf(s), s.scope) # NoScore
    BY WhoIsEligible
  <2>2. \A p \in free : ScoreIn(p, RoleOf(s), s.scope) \in Nat \cup {NoScore}
    BY <1>1, <1>2, ScoresAreNumbers
  <2>3. QED
    BY <2>1, <2>2
<1>4. a = IF free = {} THEN Filled(Vacant, NoScore, RoleOf(s))
          ELSE Filled(best, ScoreIn(best, RoleOf(s), s.scope), RoleOf(s))
  BY DEF Allocate
<1> HIDE DEF free
<1>5. score \in [free -> Nat] /\ \A p \in free : score[p] = ScoreIn(p, RoleOf(s), s.scope)
  BY <1>3
<1> HIDE DEF score
<1>6. CASE free = {}
  <2>1. a = Filled(Vacant, NoScore, RoleOf(s))
    BY <1>4, <1>6
  <2>2. QED
    BY <1>6, <2>1 DEF Filled, free
<1>7. CASE free # {}
  <2>1. \E p \in free : \A q \in free \ {p} : score[p] > score[q] \/ (score[p] = score[q] /\ p < q)
    BY <1>1, <1>5, <1>7, OneIsBest
  <2>2. \E p \in free : \A q \in free \ {p} :
            \/ ScoreIn(p, RoleOf(s), s.scope) > ScoreIn(q, RoleOf(s), s.scope)
            \/ (ScoreIn(p, RoleOf(s), s.scope) = ScoreIn(q, RoleOf(s), s.scope) /\ p < q)
    BY <1>5, <2>1
  <2>3. best \in free /\ \A q \in free \ {best} :
            \/ ScoreIn(best, RoleOf(s), s.scope) > ScoreIn(q, RoleOf(s), s.scope)
            \/ (ScoreIn(best, RoleOf(s), s.scope) = ScoreIn(q, RoleOf(s), s.scope) /\ best < q)
    BY <2>2
  <2>4. a = Filled(best, ScoreIn(best, RoleOf(s), s.scope), RoleOf(s))
    BY <1>4, <1>7
  <2> HIDE DEF best
  <2>5. a.uid = best /\ a.score = ScoreIn(best, RoleOf(s), s.scope) /\ a.requirement = RoleOf(s)
    BY <2>4 DEF Filled
  <2>6. a.score \in Nat /\ \A p \in free : a.score >= ScoreIn(p, RoleOf(s), s.scope)
    BY <1>3, <2>3, <2>5
  <2>7. best # Vacant
    BY <1>1, <2>3, MatchingAssumption
  <2>8. QED
    BY <2>3, <2>5, <2>6, <2>7 DEF free
<1>8. QED
  BY <1>6, <1>7

(* Heads are of departments, and neither they nor members are coaches.      *)
LEMMA DepartmentsOfHeads ==
    /\ \A job \in HeadJobs : DepartmentOf(job) \in Departments /\ DepartmentOf(job) # job
    /\ \A job \in Departments : DepartmentOf(job) = job
    /\ HeadJobs \cap Departments = {}
    /\ "coaches" \notin HeadJobs \cup Departments
<1>1. HeadJobs = {"head_performance_analyst", "chief_scout", "head_physio", "head_sports_science"}
  <2>1. /\ Heads[1] = "head_performance_analyst" /\ Heads[2] = "chief_scout"
        /\ Heads[3] = "head_physio" /\ Heads[4] = "head_sports_science"
    BY DEF Heads
  <2>2. \A i \in 1..4 : i = 1 \/ i = 2 \/ i = 3 \/ i = 4
    OBVIOUS
  <2>3. QED
    BY <2>1, <2>2, OrdersAreTuples DEF HeadJobs
<1>2. QED
  BY <1>1 DEF DepartmentOf, Departments

(* Which pass a slot is filled in.                                          *)
LEMMA WhatIsPassed ==
    ASSUME NEW k \in 1..Passes, NEW s \in SlotsOfPass(k)
    PROVE  /\ s \in Slots
           /\ s.job \in HeadJobs => k < 5
           /\ s.job \in Departments => k = 5
           /\ k < 7 => s.job # "coaches"
           /\ k >= 7 => s.job = "coaches" /\ s.scope = Scopes[k - 6] /\ k - 6 \in 1..3
<1>1. HeadJobs \cap Departments = {} /\ "coaches" \notin HeadJobs \cup Departments
  BY DepartmentsOfHeads
<1>2. k \in 1..4 \/ k = 5 \/ k = 6 \/ k \in 7..9
  BY DEF Passes
<1>3. CASE k \in 1..4
  <2>1. SlotsOfPass(k) = {z \in Slots : z.job = Heads[k]}
    BY <1>3 DEF SlotsOfPass
  <2>2. s \in Slots /\ s.job \in HeadJobs
    BY <1>3, <2>1, OrdersAreTuples DEF HeadJobs
  <2>3. QED
    BY <1>1, <1>3, <2>2 DEF Departments
<1>4. CASE k = 5
  <2>1. SlotsOfPass(k) = {z \in Slots : z.job \in Departments}
    BY <1>4 DEF SlotsOfPass
  <2>2. QED
    BY <1>1, <1>4, <2>1 DEF Departments
<1>5. CASE k = 6
  <2>1. SlotsOfPass(k) = {z \in Slots : z.job \notin Departments \cup HeadJobs \cup {"coaches"}}
    BY <1>5 DEF SlotsOfPass, HeadJobs
  <2>2. QED
    BY <1>5, <2>1
<1>6. CASE k \in 7..9
  <2>1. SlotsOfPass(k) = CoachSlots(Scopes[k - 6])
    BY <1>6 DEF SlotsOfPass
  <2>2. s \in Slots /\ s.job = "coaches" /\ s.scope = Scopes[k - 6]
    BY <2>1 DEF CoachSlots
  <2>3. QED
    BY <1>1, <1>6, <2>2 DEF Departments
<1>7. QED
  BY <1>2, <1>3, <1>4, <1>5, <1>6

LEMMA AllIsPassed ==
    ASSUME targets \in Wanteds, NEW s \in Slots
    PROVE  \E k \in 1..Passes : s \in SlotsOfPass(k)
<1>1. CASE s.job \in HeadJobs
  <2>1. PICK k \in 1..4 : s.job = Heads[k]
    BY <1>1, OrdersAreTuples DEF HeadJobs
  <2>2. s \in SlotsOfPass(k) /\ k \in 1..Passes
    BY <2>1 DEF SlotsOfPass, Passes
  <2>3. QED
    BY <2>2
<1>2. CASE s.job \in Departments
  <2>1. s \in SlotsOfPass(5) /\ 5 \in 1..Passes
    BY <1>2 DEF SlotsOfPass, Passes
  <2>2. QED
    BY <2>1
<1>3. CASE s.job \notin Departments \cup HeadJobs \cup {"coaches"}
  <2>1. s \in SlotsOfPass(6) /\ 6 \in 1..Passes
    BY <1>3 DEF SlotsOfPass, Passes, HeadJobs
  <2>2. QED
    BY <2>1
<1>4. CASE s.job = "coaches"
  <2>1. <<s.scope, s.job>> \in Positions
    BY SlotsAreOfTargets
  <2>2. PICK i \in 1..3 : s.scope = Scopes[i]
    BY <1>4, <2>1 DEF Positions, TeamJobs
  <2>3. i + 6 \in 7..9 /\ (i + 6) - 6 = i
    OBVIOUS
  <2>4. s \in CoachSlots(Scopes[i])
    BY <1>4, <2>2 DEF CoachSlots
  <2>5. SlotsOfPass(i + 6) = CoachSlots(Scopes[(i + 6) - 6])
    BY <2>3 DEF SlotsOfPass
  <2>6. s \in SlotsOfPass(i + 6) /\ i + 6 \in 1..Passes
    BY <2>3, <2>4, <2>5 DEF Passes
  <2>7. QED
    BY <2>6
<1>5. QED
  BY <1>1, <1>2, <1>3, <1>4

-----------------------------------------------------------------------------
(* What holds while the slots are filled.  Who may have a slot, what they   *)
(* score in it, the slots of each pass and how many coaches could be used   *)
(* depend on the question alone, which no step changes.                     *)
Suited == [s \in Slots |-> IF IsGeneral(s) THEN Coaches ELSE Eligible(s)]
Scored == [s \in Slots |-> [role \in Roles \cup Requirements |->
                               [p \in DOMAIN staff |-> ScoreIn(p, role, s.scope)]]]
PassOf == [k \in 1..Passes |-> SlotsOfPass(k)]
GeneralOf == [i \in 1..3 |-> GeneralSlots(Scopes[i])]
Usable == [i \in 1..3 |-> [C \in SUBSET Coaches |->
              LET n == Cardinality(GeneralSlots(Scopes[i])) IN
              {Cardinality(HasPlace(v)) : v \in Ways(QuestionFor(n, C, Scopes[i]), n)}]]

AssignedBy(f) == {f[s].uid : s \in DOMAIN f} \ {Vacant}
Mine(f, slots) == {f[s].uid : s \in slots} \ {Vacant}

(* p would be no better in the slot.                                        *)
NoBetter(f, s, role, p) ==
    Scored[s][role][p] # NoScore => f[s].uid # Vacant /\ f[s].score >= Scored[s][role][p]

WellFilled(f) ==
    /\ DOMAIN f \subseteq Slots
    /\ \A s \in DOMAIN f :
          /\ IsGeneral(s) => f[s].requirement \in Requirements
          /\ ~IsGeneral(s) => f[s].requirement = RoleOf(s)
          /\ f[s].uid \in Suited[s] \cup {Vacant}
          /\ f[s].uid # Vacant => /\ f[s].score \in Nat
                                  /\ f[s].score = Scored[s][f[s].requirement][f[s].uid]
OncePerPerson(f) == \A s, z \in DOMAIN f : f[s].uid = f[z].uid /\ f[s].uid # Vacant => s = z
NobodyBetter(f) ==
    \A s \in DOMAIN f : \A p \in Suited[s] \ AssignedBy(f) : NoBetter(f, s, f[s].requirement, p)
GeneralTogether(f) ==
    \A i \in 1..3 : GeneralOf[i] \subseteq DOMAIN f \/ GeneralOf[i] \cap DOMAIN f = {}
HeadsAreBest(f) ==
    \A h, s \in DOMAIN f :
        h.job \in HeadJobs /\ s.job = DepartmentOf(h.job) /\ f[s].uid # Vacant =>
            NoBetter(f, h, Role(h.job), f[s].uid)
MostAreUsed(f) ==
    \A i \in 1..3 : GeneralOf[i] # {} /\ GeneralOf[i] \subseteq DOMAIN f =>
        \A n \in Usable[i][Mine(f, GeneralOf[i]) \cup (Coaches \ AssignedBy(f))] :
            n <= Cardinality(Mine(f, GeneralOf[i]))

Placed(f) == /\ WellFilled(f) /\ OncePerPerson(f) /\ NobodyBetter(f)
             /\ GeneralTogether(f) /\ HeadsAreBest(f) /\ MostAreUsed(f)
Asked == staff \in Staffs /\ targets \in Wanteds
PassesAreDone ==
    /\ stage \in 1..(Passes + 1)
    /\ \A k \in 1..Passes : k < stage => PassOf[k] \subseteq DOMAIN filled
    /\ \A s \in DOMAIN filled : s.job \in Departments => stage >= 5

StaffInv == Asked /\ PassesAreDone /\ Placed(filled)

(* What is looked up in the tables.                                         *)
LEMMA TablesAre ==
    ASSUME Asked, NEW s \in Slots
    PROVE  /\ Suited[s] = IF IsGeneral(s) THEN Coaches ELSE Eligible(s)
           /\ Suited[s] \subseteq DOMAIN staff /\ Vacant \notin Suited[s]
           /\ \A role \in Roles \cup Requirements : \A p \in DOMAIN staff :
                 Scored[s][role][p] = ScoreIn(p, role, s.scope)
<1>1. Suited[s] = IF IsGeneral(s) THEN Coaches ELSE Eligible(s)
  BY DEF Suited
<1>2. Coaches \subseteq DOMAIN staff /\ Eligible(s) \subseteq DOMAIN staff
  BY WhoIsEligible DEF Coaches
<1>3. Vacant \notin DOMAIN staff
  BY StaffsAssumption, MatchingAssumption DEF Asked
<1>4. QED
  BY <1>1, <1>2, <1>3 DEF Scored

(* Slots are filled with people who are free: one slot, or the general      *)
(* slots of a scope.                                                        *)
Merged(f, m) == [z \in DOMAIN f \cup DOMAIN m |-> IF z \in DOMAIN m THEN m[z] ELSE f[z]]

IsFill(f, m) ==
    /\ WellFilled(m) /\ OncePerPerson(m)
    /\ DOMAIN m \cap DOMAIN f = {}
    /\ AssignedBy(m) \cap AssignedBy(f) = {}
    /\ \A s \in DOMAIN m : \A p \in Suited[s] \ (AssignedBy(f) \cup AssignedBy(m)) :
          NoBetter(m, s, m[s].requirement, p)
    /\ \/ \E i \in 1..3 :
             /\ DOMAIN m = GeneralOf[i]
             /\ \A C \in SUBSET (Coaches \ AssignedBy(f)) : \A n \in Usable[i][C] :
                   n <= Cardinality(AssignedBy(m))
       \/ \E s \in Slots :
             /\ DOMAIN m = {s} /\ ~IsGeneral(s)
             /\ s.job \in HeadJobs => \A z \in DOMAIN f : z.job \notin Departments

LEMMA GeneralsAre ==
    ASSUME NEW i \in 1..3
    PROVE  /\ GeneralOf[i] \subseteq Slots
           /\ \A s \in GeneralOf[i] : IsGeneral(s) /\ s.scope = Scopes[i]
           /\ \A j \in 1..3 : j # i => GeneralOf[j] \cap GeneralOf[i] = {}
<1>1. \A j \in 1..3 : GeneralOf[j] = GeneralSlots(Scopes[j])
  BY DEF GeneralOf
<1>2. \A j \in 1..3 : \A s \in GeneralOf[j] : s \in Slots /\ IsGeneral(s) /\ s.scope = Scopes[j]
  BY <1>1 DEF GeneralSlots, CoachSlots, IsGeneral
<1>3. \A j \in 1..3 : j # i => Scopes[j] # Scopes[i]
  BY DEF Scopes
<1>4. QED
  BY <1>2, <1>3

LEMMA MoreAreUsable ==
    ASSUME Asked, NEW i \in 1..3, NEW C \in SUBSET Coaches, NEW D \in SUBSET C
    PROVE  Usable[i][D] \subseteq Usable[i][C]
<1> DEFINE n == Cardinality(GeneralSlots(Scopes[i]))
<1>1. n \in Nat
  BY GeneralSlotsAreNumbered DEF Asked
<1>2. C \in SUBSET DOMAIN staff /\ D \in SUBSET Coaches
  BY DEF Coaches
<1>3. /\ Usable[i][C] = {Cardinality(HasPlace(v)) : v \in Ways(QuestionFor(n, C, Scopes[i]), n)}
      /\ Usable[i][D] = {Cardinality(HasPlace(v)) : v \in Ways(QuestionFor(n, D, Scopes[i]), n)}
  BY <1>2 DEF Usable
<1> HIDE DEF n
<1>4. ASSUME NEW v \in Ways(QuestionFor(n, D, Scopes[i]), n)
      PROVE  v \in Ways(QuestionFor(n, C, Scopes[i]), n)
  BY <1>1, <1>2, <1>4, WaysOfFewer DEF Asked
<1>5. QED
  BY <1>3, <1>4

(* Everything said of the slots that are filled stays true.                 *)
LEMMA FillsKeepOrder ==
    ASSUME Asked, NEW f, Placed(f), NEW m, IsFill(f, m), NEW g, g = Merged(f, m)
    PROVE  Placed(g)
<1>1. /\ DOMAIN g = DOMAIN f \cup DOMAIN m
      /\ \A s \in DOMAIN m : g[s] = m[s]
      /\ \A s \in DOMAIN f : g[s] = f[s]
  BY DEF Merged, IsFill
<1>2. AssignedBy(g) = AssignedBy(f) \cup AssignedBy(m)
  BY <1>1 DEF AssignedBy
<1>3. DOMAIN m \subseteq Slots /\ DOMAIN f \subseteq Slots
  BY DEF IsFill, Placed, WellFilled
<1>5. WellFilled(g)
  <2>1. WellFilled(f) /\ WellFilled(m)
    BY DEF IsFill, Placed
  <2>2. ASSUME NEW s \in DOMAIN g
        PROVE  /\ IsGeneral(s) => g[s].requirement \in Requirements
               /\ ~IsGeneral(s) => g[s].requirement = RoleOf(s)
               /\ g[s].uid \in Suited[s] \cup {Vacant}
               /\ g[s].uid # Vacant => /\ g[s].score \in Nat
                                       /\ g[s].score = Scored[s][g[s].requirement][g[s].uid]
    <3>1. CASE s \in DOMAIN m
      BY <1>1, <2>1, <3>1 DEF WellFilled
    <3>2. CASE s \in DOMAIN f
      BY <1>1, <2>1, <3>2 DEF WellFilled
    <3>3. QED
      BY <1>1, <3>1, <3>2
  <2>3. QED
    BY <1>1, <1>3, <2>2 DEF WellFilled
<1>6. OncePerPerson(g)
  <2>1. ASSUME NEW s \in DOMAIN g, NEW z \in DOMAIN g, g[s].uid = g[z].uid, g[s].uid # Vacant
        PROVE  s = z
    <3>1. CASE s \in DOMAIN m /\ z \in DOMAIN m
      BY <1>1, <2>1, <3>1 DEF IsFill, OncePerPerson
    <3>2. CASE s \in DOMAIN f /\ z \in DOMAIN f
      BY <1>1, <2>1, <3>2 DEF Placed, OncePerPerson
    <3>3. CASE (s \in DOMAIN m /\ z \in DOMAIN f) \/ (s \in DOMAIN f /\ z \in DOMAIN m)
      <4>1. g[s].uid \in AssignedBy(f) \cap AssignedBy(m)
        BY <1>1, <2>1, <3>3 DEF AssignedBy
      <4>2. QED
        BY <4>1 DEF IsFill
    <3>4. (s \in DOMAIN m \/ s \in DOMAIN f) /\ (z \in DOMAIN m \/ z \in DOMAIN f)
      BY <1>1
    <3>5. QED
      BY <3>1, <3>2, <3>3, <3>4
  <2>2. QED
    BY <2>1 DEF OncePerPerson
<1>7. NobodyBetter(g)
  <2>1. ASSUME NEW s \in DOMAIN g, NEW p \in Suited[s] \ AssignedBy(g)
        PROVE  NoBetter(g, s, g[s].requirement, p)
    <3>1. CASE s \in DOMAIN m
      <4>1. NoBetter(m, s, m[s].requirement, p)
        BY <1>2, <3>1 DEF IsFill
      <4>2. QED
        BY <1>1, <3>1, <4>1 DEF NoBetter
    <3>2. CASE s \in DOMAIN f
      <4>1. NoBetter(f, s, f[s].requirement, p)
        BY <1>2, <3>2 DEF Placed, NobodyBetter
      <4>2. QED
        BY <1>1, <3>2, <4>1 DEF NoBetter
    <3>3. QED
      BY <1>1, <3>1, <3>2
  <2>2. QED
    BY <2>1 DEF NobodyBetter
<1>8. GeneralTogether(g)
  <2>1. ASSUME NEW i \in 1..3
        PROVE  GeneralOf[i] \subseteq DOMAIN g \/ GeneralOf[i] \cap DOMAIN g = {}
    <3>1. GeneralOf[i] \subseteq DOMAIN f \/ GeneralOf[i] \cap DOMAIN f = {}
      BY DEF Placed, GeneralTogether
    <3>2. GeneralOf[i] \subseteq DOMAIN m \/ GeneralOf[i] \cap DOMAIN m = {}
      <4>1. CASE \E j \in 1..3 : DOMAIN m = GeneralOf[j]
        BY <4>1, GeneralsAre
      <4>2. CASE \E s \in Slots : DOMAIN m = {s} /\ ~IsGeneral(s)
        BY <4>2, GeneralsAre
      <4>3. QED
        BY <4>1, <4>2 DEF IsFill
    <3>3. QED
      BY <1>1, <3>1, <3>2
  <2>2. QED
    BY <2>1 DEF GeneralTogether
<1>9. HeadsAreBest(g)
  <2>1. ASSUME NEW h \in DOMAIN g, NEW s \in DOMAIN g, h.job \in HeadJobs,
               s.job = DepartmentOf(h.job), g[s].uid # Vacant
        PROVE  NoBetter(g, h, Role(h.job), g[s].uid)
    <3>1. /\ s.job \in Departments /\ s.job # h.job /\ DepartmentOf(s.job) = s.job
          /\ s.job # "coaches" /\ h.job # "coaches"
      BY <2>1, DepartmentsOfHeads
    <3>2. h \in Slots /\ s \in Slots /\ ~IsGeneral(h) /\ ~IsGeneral(s)
      BY <1>1, <1>3, <3>1 DEF IsGeneral
    <3>3. CASE h \in DOMAIN m
      <4>1. ~\E i \in 1..3 : DOMAIN m = GeneralOf[i]
        BY <3>2, <3>3, GeneralsAre
      <4>2. PICK z \in Slots : /\ DOMAIN m = {z}
                               /\ z.job \in HeadJobs => \A y \in DOMAIN f : y.job \notin Departments
        BY <4>1 DEF IsFill
      <4>3. h = z /\ s # z /\ s \in DOMAIN f
        BY <1>1, <3>1, <3>3, <4>2
      <4>4. QED
        BY <2>1, <3>1, <4>2, <4>3
    <3>4. CASE h \in DOMAIN f /\ s \in DOMAIN f
      <4>1. NoBetter(f, h, Role(h.job), f[s].uid)
        BY <1>1, <2>1, <3>4 DEF Placed, HeadsAreBest
      <4>2. QED
        BY <1>1, <3>4, <4>1 DEF NoBetter
    <3>5. CASE h \in DOMAIN f /\ s \in DOMAIN m
      <4> DEFINE p == m[s].uid
      <4>1. p = g[s].uid /\ p \in AssignedBy(m) /\ p \notin AssignedBy(f) /\ p \in Suited[s]
        BY <1>1, <2>1, <3>5 DEF AssignedBy, IsFill, WellFilled
      <4>2. p \in Eligible(s) /\ p \in DOMAIN staff
        BY <3>2, <4>1, TablesAre
      <4>3. staff[p].job = DepartmentOf(h.job)
        BY <2>1, <3>1, <4>2 DEF Eligible, Group
      <4>4. RoleOf(h) = Role(h.job) /\ Role(h.job) \in Roles
        BY <3>1, <3>2, RolesAreScored DEF Asked
      <4>5. Scored[h][Role(h.job)][p] = ScoreIn(p, Role(h.job), h.scope)
        BY <3>2, <4>2, <4>4, TablesAre
      <4>6. f[h].requirement = Role(h.job) /\ f[h] = g[h]
        BY <1>1, <3>2, <3>5, <4>4 DEF Placed, WellFilled
      <4>7. Scored[h][Role(h.job)][p] # NoScore => p \in Suited[h]
        <5>1. ScoreIn(p, Role(h.job), h.scope) # NoScore => p \in Eligible(h)
          BY <3>1, <4>2, <4>3 DEF Eligible, Group
        <5>2. QED
          BY <3>2, <4>5, <5>1, TablesAre
      <4>8. Scored[h][Role(h.job)][p] # NoScore => NoBetter(f, h, Role(h.job), p)
        BY <3>5, <4>1, <4>6, <4>7 DEF Placed, NobodyBetter
      <4>9. NoBetter(f, h, Role(h.job), p)
        BY <4>8 DEF NoBetter
      <4>10. QED
        BY <4>1, <4>6, <4>9 DEF NoBetter
    <3>6. QED
      BY <1>1, <3>3, <3>4, <3>5
  <2>2. QED
    BY <2>1 DEF HeadsAreBest
<1>10. MostAreUsed(g)
  <2>1. ASSUME NEW i \in 1..3, GeneralOf[i] # {}, GeneralOf[i] \subseteq DOMAIN g,
               NEW n \in Usable[i][Mine(g, GeneralOf[i]) \cup (Coaches \ AssignedBy(g))]
        PROVE  n <= Cardinality(Mine(g, GeneralOf[i]))
    <3>1. CASE DOMAIN m = GeneralOf[i]
      <4>1. Mine(g, GeneralOf[i]) = AssignedBy(m)
        BY <1>1, <3>1 DEF Mine, AssignedBy
      <4>2. AssignedBy(m) \subseteq Coaches \ AssignedBy(f)
        <5>1. \A s \in DOMAIN m : Suited[s] = Coaches
          BY <1>3, <3>1, GeneralsAre, TablesAre
        <5>2. \A s \in DOMAIN m : m[s].uid \in Suited[s] \cup {Vacant}
          BY DEF IsFill, WellFilled
        <5>3. QED
          BY <5>1, <5>2 DEF AssignedBy, IsFill
      <4>3. Mine(g, GeneralOf[i]) \cup (Coaches \ AssignedBy(g)) \in SUBSET (Coaches \ AssignedBy(f))
        BY <1>2, <4>1, <4>2
      <4>4. PICK j \in 1..3 :
              /\ DOMAIN m = GeneralOf[j]
              /\ \A C \in SUBSET (Coaches \ AssignedBy(f)) : \A k \in Usable[j][C] :
                    k <= Cardinality(AssignedBy(m))
        <5>1. ~\E s \in Slots : DOMAIN m = {s} /\ ~IsGeneral(s)
          BY <3>1, GeneralsAre
        <5>2. QED
          BY <5>1 DEF IsFill
      <4>5. i = j
        BY <2>1, <3>1, <4>4, GeneralsAre
      <4>6. QED
        BY <2>1, <4>1, <4>3, <4>4, <4>5
    <3>2. CASE DOMAIN m # GeneralOf[i]
      <4>1. GeneralOf[i] \subseteq DOMAIN f
        <5>1. GeneralOf[i] \cap DOMAIN m = {}
          <6>1. CASE \E j \in 1..3 : DOMAIN m = GeneralOf[j]
            BY <3>2, <6>1, GeneralsAre
          <6>2. CASE \E s \in Slots : DOMAIN m = {s} /\ ~IsGeneral(s)
            BY <6>2, GeneralsAre
          <6>3. QED
            BY <6>1, <6>2 DEF IsFill
        <5>2. QED
          BY <1>1, <2>1, <5>1
      <4>2. Mine(g, GeneralOf[i]) = Mine(f, GeneralOf[i])
        BY <1>1, <4>1 DEF Mine
      <4> DEFINE C == Mine(f, GeneralOf[i]) \cup (Coaches \ AssignedBy(f))
                 D == Mine(f, GeneralOf[i]) \cup (Coaches \ AssignedBy(g))
      <4>3. D \in SUBSET C
        BY <1>2
      <4>4. C \in SUBSET Coaches
        <5>1. \A s \in GeneralOf[i] : Suited[s] = Coaches /\ f[s].uid \in Suited[s] \cup {Vacant}
          BY <1>3, <4>1, GeneralsAre, TablesAre DEF Placed, WellFilled
        <5>2. QED
          BY <5>1 DEF Mine
      <4>5. n \in Usable[i][D]
        BY <2>1, <4>2
      <4>6. \A k \in Usable[i][C] : k <= Cardinality(Mine(f, GeneralOf[i]))
        BY <2>1, <4>1 DEF Placed, MostAreUsed
      <4> HIDE DEF C, D
      <4>7. n \in Usable[i][C]
        BY <4>3, <4>4, <4>5, MoreAreUsable
      <4>8. QED
        BY <4>2, <4>6, <4>7
    <3>3. QED
      BY <3>1, <3>2
  <2>2. QED
    BY <2>1 DEF MostAreUsed
<1>11. QED
  BY <1>5, <1>6, <1>7, <1>8, <1>9, <1>10 DEF Placed

-----------------------------------------------------------------------------
(* What each pass fills.                                                    *)
LEMMA MatchedIsAFill ==
    ASSUME Asked, Placed(filled), NEW i \in 1..3, Pending(GeneralSlots(Scopes[i])) # {},
           NEW m, m = MatchGeneral(Scopes[i])
    PROVE  IsFill(filled, m)
<1> DEFINE scope == Scopes[i]
<1>1. GeneralOf[i] = GeneralSlots(scope) /\ GeneralOf[i] \subseteq Slots
  BY GeneralsAre DEF GeneralOf
<1>2. GeneralOf[i] \cap DOMAIN filled = {}
  BY <1>1 DEF Pending, Placed, GeneralTogether
<1>3. AssignedBy(filled) = Assigned /\ UidsIn(m) = AssignedBy(m)
  BY DEF AssignedBy, Assigned, UidsIn
<1>4. /\ DOMAIN m = GeneralOf[i]
      /\ \A s \in DOMAIN m :
            /\ m[s].requirement \in Requirements
            /\ m[s].uid \in (Coaches \ Assigned) \cup {Vacant}
            /\ m[s].uid # Vacant => /\ m[s].score \in Nat
                                    /\ m[s].score = ScoreIn(m[s].uid, m[s].requirement, scope)
      /\ OncePerPerson(m)
      /\ \A s \in DOMAIN m : \A p \in Coaches \ Assigned :
            p \notin UidsIn(m) /\ ScoreIn(p, m[s].requirement, scope) # NoScore =>
                m[s].uid # Vacant /\ m[s].score >= ScoreIn(p, m[s].requirement, scope)
  BY <1>1, WhoIsMatched DEF Asked, OncePerPerson
<1>5. \A C \in SUBSET (Coaches \ Assigned) : \A n \in Usable[i][C] : n <= Cardinality(AssignedBy(m))
  <2> SUFFICES ASSUME NEW C \in SUBSET (Coaches \ Assigned), NEW n \in Usable[i][C]
               PROVE  n <= Cardinality(AssignedBy(m))
    OBVIOUS
  <2>1. Usable[i][C] = {Cardinality(HasPlace(v)) :
                           v \in Ways(QuestionFor(Cardinality(DOMAIN m), C, scope), Cardinality(DOMAIN m))}
    BY <1>1, <1>4 DEF Usable
  <2>2. \A v \in Ways(QuestionFor(Cardinality(DOMAIN m), C, scope), Cardinality(DOMAIN m)) :
            Cardinality(HasPlace(v)) <= Cardinality(UidsIn(m))
    BY WhoIsMatched DEF Asked
  <2>3. QED
    BY <1>3, <2>1, <2>2
<1>6. ASSUME NEW s \in DOMAIN m
      PROVE  /\ s \in Slots /\ IsGeneral(s) /\ s.scope = scope /\ Suited[s] = Coaches
             /\ Coaches \subseteq DOMAIN staff /\ Vacant \notin Coaches
             /\ \A p \in Coaches : Scored[s][m[s].requirement][p] = ScoreIn(p, m[s].requirement, scope)
  <2>1. s \in Slots /\ IsGeneral(s) /\ s.scope = scope
    BY <1>1, <1>4, GeneralsAre
  <2>2. Suited[s] = Coaches /\ Coaches \subseteq DOMAIN staff /\ Vacant \notin Coaches
    BY <2>1, TablesAre
  <2>3. \A p \in Coaches : Scored[s][m[s].requirement][p] = ScoreIn(p, m[s].requirement, scope)
    BY <1>4, <2>1, <2>2, TablesAre
  <2>4. QED
    BY <2>1, <2>2, <2>3
<1> HIDE DEF scope
<1>7. WellFilled(m)
  <2>1. DOMAIN m \subseteq Slots
    BY <1>6
  <2>2. QED
    BY <1>4, <1>6, <2>1 DEF WellFilled
<1>8. AssignedBy(m) \cap AssignedBy(filled) = {}
  BY <1>3, <1>4 DEF UidsIn
<1>9. \A s \in DOMAIN m : \A p \in Suited[s] \ (AssignedBy(filled) \cup AssignedBy(m)) :
          NoBetter(m, s, m[s].requirement, p)
  BY <1>3, <1>4, <1>6 DEF NoBetter
<1>10. QED
  BY <1>2, <1>3, <1>4, <1>5, <1>7, <1>8, <1>9 DEF IsFill

LEMMA AllocatedIsAFill ==
    ASSUME Asked, Placed(filled), NEW s \in Slots \ DOMAIN filled, ~IsGeneral(s),
           s.job \in HeadJobs => \A z \in DOMAIN filled : z.job \notin Departments,
           NEW m, m = [z \in {s} |-> Allocate(s)]
    PROVE  IsFill(filled, m)
<1>1. DOMAIN m = {s} /\ m[s] = Allocate(s)
  OBVIOUS
<1>2. AssignedBy(filled) = Assigned /\ AssignedBy(m) = {m[s].uid} \ {Vacant}
  BY <1>1 DEF AssignedBy, Assigned
<1>3. /\ m[s].requirement = RoleOf(s)
      /\ m[s].uid \in (Eligible(s) \ Assigned) \cup {Vacant}
      /\ m[s].uid # Vacant => /\ m[s].score \in Nat
                              /\ m[s].score = ScoreIn(m[s].uid, RoleOf(s), s.scope)
      /\ \A p \in Eligible(s) \ Assigned :
            m[s].uid # Vacant /\ m[s].score >= ScoreIn(p, RoleOf(s), s.scope)
  BY <1>1, WhoIsAllocated DEF Asked
<1>4. RoleOf(s) \in Roles
  BY RolesAreScored DEF Asked
<1>5. /\ Suited[s] = Eligible(s) /\ Eligible(s) \subseteq DOMAIN staff
      /\ \A p \in Eligible(s) : Scored[s][RoleOf(s)][p] = ScoreIn(p, RoleOf(s), s.scope)
  BY <1>4, TablesAre
<1>6. WellFilled(m)
  BY <1>1, <1>3, <1>5 DEF WellFilled
<1>7. OncePerPerson(m)
  BY <1>1 DEF OncePerPerson
<1>8. AssignedBy(m) \cap AssignedBy(filled) = {}
  BY <1>2, <1>3
<1>9. \A z \in DOMAIN m : \A p \in Suited[z] \ (AssignedBy(filled) \cup AssignedBy(m)) :
          NoBetter(m, z, m[z].requirement, p)
  BY <1>1, <1>2, <1>3, <1>5 DEF NoBetter
<1>10. QED
  BY <1>1, <1>6, <1>7, <1>8, <1>9 DEF IsFill

(* What the question alone decides, no step changes.                        *)
LEMMA TheQuestionStays ==
    ASSUME UNCHANGED <<staff, targets>>
    PROVE  /\ Slots' = Slots /\ Coaches' = Coaches /\ Suited' = Suited /\ Scored' = Scored
           /\ PassOf' = PassOf /\ GeneralOf' = GeneralOf /\ Usable' = Usable
<1>1. Slots' = Slots
  BY DEF Slots
<1>2. Coaches' = Coaches
  BY DEF Coaches
<1>3. Scored' = Scored
  BY <1>1 DEF Scored, ScoreIn, AssignmentScore
<1>4. Suited' = Suited
  BY <1>1, <1>2 DEF Suited, Eligible, Group, ScoreIn, AssignmentScore
<1>5. PassOf' = PassOf
  BY <1>1 DEF PassOf, SlotsOfPass, CoachSlots
<1>6. GeneralOf' = GeneralOf
  BY <1>1 DEF GeneralOf, GeneralSlots, CoachSlots
<1>7. Usable' = Usable
  BY <1>1, <1>2 DEF Usable, GeneralSlots, CoachSlots, QuestionFor, ScoreTable, ScoreIn, AssignmentScore
<1>8. QED
  BY <1>1, <1>2, <1>3, <1>4, <1>5, <1>6, <1>7

LEMMA PlacedStays ==
    ASSUME UNCHANGED <<staff, targets>>, Asked, Placed(filled')
    PROVE  Asked' /\ Placed(filled)'
<1>1. /\ Slots' = Slots /\ Coaches' = Coaches /\ Suited' = Suited /\ Scored' = Scored
      /\ GeneralOf' = GeneralOf /\ Usable' = Usable
  BY TheQuestionStays
<1>2. WellFilled(filled)'
  BY <1>1 DEF Placed, WellFilled
<1>3. OncePerPerson(filled)'
  BY DEF Placed, OncePerPerson
<1>4. NobodyBetter(filled)'
  BY <1>1 DEF Placed, NobodyBetter, NoBetter, AssignedBy
<1>5. GeneralTogether(filled)'
  BY <1>1 DEF Placed, GeneralTogether
<1>6. HeadsAreBest(filled)'
  BY <1>1 DEF Placed, HeadsAreBest, NoBetter
<1>7. MostAreUsed(filled)'
  BY <1>1 DEF Placed, MostAreUsed, Mine, AssignedBy
<1>8. QED
  BY <1>2, <1>3, <1>4, <1>5, <1>6, <1>7 DEF Placed, Asked

-----------------------------------------------------------------------------
(* The passes in turn.                                                      *)
LEMMA PassesStayDone ==
    ASSUME UNCHANGED <<staff, targets>>, Asked,
           stage' \in 1..(Passes + 1),
           \A k \in 1..Passes : k < stage' => PassOf[k] \subseteq DOMAIN filled',
           \A s \in DOMAIN filled' : s.job \in Departments => stage' >= 5
    PROVE  PassesAreDone'
<1>1. PassOf' = PassOf
  BY TheQuestionStays
<1>2. QED
  BY <1>1 DEF PassesAreDone

LEMMA StaffStart == StaffInit => StaffInv
<1> SUFFICES ASSUME StaffInit
             PROVE  StaffInv
  OBVIOUS
<1>1. staff \in Staffs /\ targets \in Wanteds /\ stage = 1 /\ DOMAIN filled = {}
  BY DEF StaffInit
<1>2. AssignedBy(filled) = {}
  BY <1>1 DEF AssignedBy
<1>3. WellFilled(filled) /\ OncePerPerson(filled) /\ NobodyBetter(filled) /\ HeadsAreBest(filled)
  BY <1>1 DEF WellFilled, OncePerPerson, NobodyBetter, HeadsAreBest
<1>4. GeneralTogether(filled) /\ MostAreUsed(filled)
  BY <1>1 DEF GeneralTogether, MostAreUsed
<1>5. PassesAreDone
  BY <1>1 DEF PassesAreDone, Passes
<1>6. QED
  BY <1>1, <1>3, <1>4, <1>5 DEF StaffInv, Asked, Placed

LEMMA FillGeneralKeeps == StaffInv /\ FillGeneral => StaffInv'
<1> SUFFICES ASSUME StaffInv, FillGeneral
             PROVE  StaffInv'
  OBVIOUS
<1> DEFINE i == stage - 6
           m == MatchGeneral(Scopes[i])
<1>1. /\ stage \in 7..Passes /\ Pending(GeneralSlots(Scopes[i])) # {}
      /\ filled' = Merged(filled, m) /\ UNCHANGED <<staff, targets, stage>>
  BY DEF FillGeneral, Merged
<1>2. i \in 1..3
  BY <1>1 DEF Passes
<1> HIDE DEF i
<1>3. IsFill(filled, m)
  BY <1>1, <1>2, MatchedIsAFill DEF StaffInv
<1> HIDE DEF m
<1>4. Placed(filled')
  BY <1>1, <1>3, FillsKeepOrder DEF StaffInv
<1>5. Asked' /\ Placed(filled)'
  BY <1>1, <1>4, PlacedStays DEF StaffInv
<1>6. PassesAreDone'
  <2>1. DOMAIN filled \subseteq DOMAIN filled'
    BY <1>1 DEF Merged
  <2>2. stage' \in 1..(Passes + 1) /\ stage' >= 5
    BY <1>1 DEF Passes
  <2>3. \A k \in 1..Passes : k < stage' => PassOf[k] \subseteq DOMAIN filled'
    BY <1>1, <2>1 DEF StaffInv, PassesAreDone
  <2>4. QED
    BY <1>1, <2>2, <2>3, PassesStayDone DEF StaffInv
<1>7. QED
  BY <1>5, <1>6 DEF StaffInv

LEMMA FillSlotKeeps == StaffInv /\ FillSlot => StaffInv'
<1> SUFFICES ASSUME StaffInv, FillSlot
             PROVE  StaffInv'
  OBVIOUS
<1> DEFINE slots == Pending(SlotsOfPass(stage))
           s == First(slots)
           m == [z \in {s} |-> Allocate(s)]
<1>1. /\ stage <= Passes /\ slots # {} /\ UNCHANGED <<staff, targets, stage>>
      /\ stage \in 7..Passes => Pending(GeneralSlots(Scopes[stage - 6])) = {}
      /\ filled' = [z \in DOMAIN filled \cup {s} |-> IF z = s THEN Allocate(s) ELSE filled[z]]
  BY DEF FillSlot, FillOne
<1>2. stage \in 1..Passes
  BY <1>1 DEF StaffInv, PassesAreDone, Passes
<1>3. slots \subseteq SlotsOfPass(stage) \ DOMAIN filled /\ slots \subseteq Slots
  <2>1. slots \subseteq SlotsOfPass(stage) \ DOMAIN filled
    BY DEF Pending
  <2>2. QED
    BY <1>2, <2>1, WhatIsPassed
<1>4. s \in slots
  <2> HIDE DEF slots
  <2>1. QED
    BY <1>1, <1>3, FirstIsOneOfThem DEF StaffInv, Asked
<1> HIDE DEF slots, s
<1>5. /\ s \in Slots \ DOMAIN filled
      /\ s.job \in HeadJobs => stage < 5
      /\ s.job \in Departments => stage = 5
      /\ stage < 7 => s.job # "coaches"
      /\ stage >= 7 => s.job = "coaches" /\ s.scope = Scopes[stage - 6]
  BY <1>2, <1>3, <1>4, WhatIsPassed
<1>6. ~IsGeneral(s)
  <2>1. CASE stage < 7
    BY <1>5, <2>1 DEF IsGeneral
  <2>2. CASE stage >= 7
    <3>1. Pending(GeneralSlots(Scopes[stage - 6])) = {}
      BY <1>1, <1>2, <2>2 DEF Passes
    <3>2. IsGeneral(s) => s \in GeneralSlots(Scopes[stage - 6])
      BY <1>5, <2>2 DEF IsGeneral, GeneralSlots, CoachSlots
    <3>3. QED
      BY <1>5, <3>1, <3>2 DEF Pending
  <2>3. QED
    BY <1>2, <2>1, <2>2 DEF Passes
<1>7. s.job \in HeadJobs => \A z \in DOMAIN filled : z.job \notin Departments
  BY <1>2, <1>5 DEF StaffInv, PassesAreDone, Passes
<1>8. IsFill(filled, m)
  BY <1>5, <1>6, <1>7, AllocatedIsAFill DEF StaffInv
<1>9. filled' = Merged(filled, m)
  BY <1>1 DEF Merged
<1> HIDE DEF m
<1>10. Placed(filled')
  BY <1>8, <1>9, FillsKeepOrder DEF StaffInv
<1>11. Asked' /\ Placed(filled)'
  BY <1>1, <1>10, PlacedStays DEF StaffInv
<1>12. PassesAreDone'
  <2>1. DOMAIN filled' = DOMAIN filled \cup {s}
    BY <1>1
  <2>2. \A z \in DOMAIN filled' : z.job \in Departments => stage' >= 5
    BY <1>1, <1>2, <1>5, <2>1 DEF StaffInv, PassesAreDone, Passes
  <2>3. \A k \in 1..Passes : k < stage' => PassOf[k] \subseteq DOMAIN filled'
    BY <1>1, <2>1 DEF StaffInv, PassesAreDone
  <2>4. stage' \in 1..(Passes + 1)
    BY <1>1 DEF StaffInv, PassesAreDone
  <2>5. QED
    BY <1>1, <2>2, <2>3, <2>4, PassesStayDone DEF StaffInv
<1>13. QED
  BY <1>11, <1>12 DEF StaffInv

LEMMA NextPassKeeps == StaffInv /\ NextPass => StaffInv'
<1> SUFFICES ASSUME StaffInv, NextPass
             PROVE  StaffInv'
  OBVIOUS
<1>1. /\ stage <= Passes /\ Pending(SlotsOfPass(stage)) = {} /\ stage' = stage + 1
      /\ UNCHANGED <<staff, targets, filled>>
  BY DEF NextPass
<1>2. stage \in 1..Passes
  BY <1>1 DEF StaffInv, PassesAreDone, Passes
<1>3. Asked' /\ Placed(filled)'
  <2>1. Placed(filled')
    BY <1>1 DEF StaffInv
  <2>2. QED
    BY <1>1, <2>1, PlacedStays DEF StaffInv
<1>4. PassOf[stage] \subseteq DOMAIN filled
  BY <1>1, <1>2 DEF PassOf, Pending
<1>5. PassesAreDone'
  <2>1. stage' \in 1..(Passes + 1)
    BY <1>1, <1>2 DEF Passes
  <2>2. \A k \in 1..Passes : k < stage' => k < stage \/ k = stage
    BY <1>1, <1>2 DEF Passes
  <2>3. \A k \in 1..Passes : k < stage' => PassOf[k] \subseteq DOMAIN filled'
    BY <1>1, <1>4, <2>2 DEF StaffInv, PassesAreDone
  <2>4. \A z \in DOMAIN filled' : z.job \in Departments => stage' >= 5
    BY <1>1, <1>2 DEF StaffInv, PassesAreDone, Passes
  <2>5. QED
    BY <1>1, <2>1, <2>3, <2>4, PassesStayDone DEF StaffInv
<1>6. QED
  BY <1>3, <1>5 DEF StaffInv

LEMMA StaffInvIsKept == StaffInv /\ [StaffNext]_staffVars => StaffInv'
<1> SUFFICES ASSUME StaffInv, [StaffNext]_staffVars
             PROVE  StaffInv'
  OBVIOUS
<1>1. CASE UNCHANGED staffVars
  <2>1. UNCHANGED <<staff, targets, stage, filled>>
    BY <1>1 DEF staffVars
  <2>2. Asked' /\ Placed(filled)'
    <3>1. Placed(filled')
      BY <2>1 DEF StaffInv
    <3>2. QED
      BY <2>1, <3>1, PlacedStays DEF StaffInv
  <2>3. PassesAreDone'
    <3>1. /\ stage' \in 1..(Passes + 1)
          /\ \A k \in 1..Passes : k < stage' => PassOf[k] \subseteq DOMAIN filled'
          /\ \A s \in DOMAIN filled' : s.job \in Departments => stage' >= 5
      BY <2>1 DEF StaffInv, PassesAreDone
    <3>2. QED
      BY <2>1, <3>1, PassesStayDone DEF StaffInv
  <2>4. QED
    BY <2>2, <2>3 DEF StaffInv
<1>2. QED
  BY <1>1, FillGeneralKeeps, FillSlotKeeps, NextPassKeeps DEF StaffNext

(* When the last pass is done every slot is filled, and what the invariant  *)
(* says of the slots that are filled it says of all.                        *)
LEMMA InTheEndStaffAreWellPlaced == StaffInv => StaffAreWellPlaced
<1> SUFFICES ASSUME StaffInv
             PROVE  StaffAreWellPlaced
  OBVIOUS
<1>1. Asked /\ Placed(filled) /\ PassesAreDone
  BY DEF StaffInv
<1>2. AssignedBy(filled) = Assigned
  BY DEF AssignedBy, Assigned
<1>3. NobodyTwice
  BY <1>1 DEF Placed, OncePerPerson, NobodyTwice
<1>4. ASSUME Done
      PROVE  DOMAIN filled = Slots
  <2>1. stage = Passes + 1
    BY <1>1, <1>4 DEF Done, PassesAreDone, Passes
  <2>2. \A k \in 1..Passes : SlotsOfPass(k) \subseteq DOMAIN filled
    BY <1>1, <2>1 DEF PassesAreDone, PassOf, Passes
  <2>3. Slots \subseteq DOMAIN filled
    BY <1>1, <2>2, AllIsPassed DEF Asked
  <2>4. QED
    BY <1>1, <2>3 DEF Placed, WellFilled
<1>5. ASSUME NEW s \in DOMAIN filled
      PROVE  /\ s \in Slots
             /\ filled[s].requirement \in Roles \cup Requirements
             /\ Candidates(s) = Suited[s] /\ Suited[s] \subseteq DOMAIN staff
  <2>1. /\ s \in Slots
        /\ IsGeneral(s) => filled[s].requirement \in Requirements
        /\ ~IsGeneral(s) => filled[s].requirement = RoleOf(s)
    BY <1>1 DEF Placed, WellFilled
  <2>2. ~IsGeneral(s) => filled[s].requirement \in Roles
    BY <1>1, <2>1, RolesAreScored DEF Asked
  <2>3. Roles \cap Requirements = {}
    BY RequirementsAssumption DEF Requirements
  <2>4. Candidates(s) = IF filled[s].requirement \in Requirements THEN Coaches ELSE Eligible(s)
    BY DEF Candidates, Requirements, Coaches
  <2>5. QED
    BY <1>1, <2>1, <2>2, <2>3, <2>4, TablesAre
<1>6. NobodyBetterIsUnused
  <2>1. ASSUME Done, NEW s \in Slots, NEW p \in Candidates(s) \ Assigned,
               ScoreIn(p, filled[s].requirement, s.scope) # NoScore
        PROVE  filled[s].uid # Vacant /\ filled[s].score >= ScoreIn(p, filled[s].requirement, s.scope)
    <3>1. s \in DOMAIN filled
      BY <1>4, <2>1
    <3>2. NoBetter(filled, s, filled[s].requirement, p)
      BY <1>1, <1>2, <1>5, <3>1 DEF Placed, NobodyBetter
    <3>3. Scored[s][filled[s].requirement][p] = ScoreIn(p, filled[s].requirement, s.scope)
      BY <1>1, <1>5, <3>1, TablesAre
    <3>4. QED
      BY <2>1, <3>2, <3>3 DEF NoBetter
  <2>2. QED
    BY <2>1 DEF NobodyBetterIsUnused
<1>7. HeadsAreChosenFirst
  <2>1. ASSUME Done, NEW h \in Slots, NEW s \in Slots, h.job \in HeadJobs,
               s.job = DepartmentOf(h.job), filled[s].uid # Vacant,
               ScoreIn(filled[s].uid, Role(h.job), h.scope) # NoScore
        PROVE  /\ filled[h].uid # Vacant
               /\ filled[h].score >= ScoreIn(filled[s].uid, Role(h.job), h.scope)
    <3>1. h \in DOMAIN filled /\ s \in DOMAIN filled
      BY <1>4, <2>1
    <3>2. NoBetter(filled, h, Role(h.job), filled[s].uid)
      BY <1>1, <2>1, <3>1 DEF Placed, HeadsAreBest
    <3>3. filled[s].uid \in DOMAIN staff
      BY <1>1, <1>5, <2>1, <3>1 DEF Placed, WellFilled
    <3>4. Role(h.job) \in Roles
      BY <1>1, <2>1, DepartmentsOfHeads, RolesAreScored DEF Asked
    <3>5. Scored[h][Role(h.job)][filled[s].uid] = ScoreIn(filled[s].uid, Role(h.job), h.scope)
      BY <1>1, <3>3, <3>4, TablesAre
    <3>6. QED
      BY <2>1, <3>2, <3>5 DEF NoBetter
  <2>2. QED
    BY <2>1 DEF HeadsAreChosenFirst, HeadJobs
<1>8. MostCoachesAreUsed
  <2>1. ASSUME Done, NEW i \in 1..3
        PROVE  LET scope == Scopes[i]
                   slots == GeneralSlots(scope)
                   mine == {filled[s].uid : s \in slots} \ {Vacant}
                   unused == {p \in DOMAIN staff : staff[p].job = "coach"} \ Assigned
                   q == CoachQuestion(Cardinality(slots),
                            [k \in 1..Len(GeneralRequirements) |->
                                [p \in mine \cup unused |-> ScoreIn(p, GeneralRequirements[k], scope)]])
               IN  \A w \in Ways(q, Target(q)) :
                       Cardinality({k \in DOMAIN w : w[k] # Vacant}) <= Cardinality(mine)
    <3> DEFINE slots == GeneralSlots(Scopes[i])
               mine == Mine(filled, slots)
               C == mine \cup (Coaches \ Assigned)
               n == Cardinality(slots)
               q == QuestionFor(n, C, Scopes[i])
    <3>1. slots = GeneralOf[i] /\ slots \subseteq DOMAIN filled
      BY <1>4, <2>1, GeneralsAre DEF GeneralOf
    <3>2. C \in SUBSET Coaches /\ C \in SUBSET DOMAIN staff
      <4>1. \A s \in slots : Suited[s] = Coaches /\ filled[s].uid \in Suited[s] \cup {Vacant}
        BY <1>1, <1>5, <3>1, GeneralsAre, TablesAre DEF Placed, WellFilled
      <4>2. mine \subseteq Coaches
        BY <4>1 DEF Mine
      <4>3. QED
        BY <4>2 DEF Coaches
    <3>3. n \in Nat
      BY <1>1, GeneralSlotsAreNumbered DEF Asked
    <3>4. Usable[i][C] = {Cardinality(HasPlace(v)) : v \in Ways(q, n)}
      BY <3>2 DEF Usable
    <3>5. Target(q) = n
      <4> HIDE DEF n, C
      <4>1. QED
        BY <1>1, <3>2, <3>3, QuestionsAreQuestions DEF Asked
    <3>6. ASSUME NEW v \in Ways(q, n)
          PROVE  Cardinality(HasPlace(v)) <= Cardinality(mine)
      <4>1. CASE slots # {}
        <5>1. \A k \in Usable[i][C] : k <= Cardinality(mine)
          BY <1>1, <1>2, <3>1, <4>1 DEF Placed, MostAreUsed
        <5> HIDE DEF C, q, mine, n
        <5>2. QED
          BY <3>4, <5>1
      <4>2. CASE slots = {}
        <5> DEFINE m == MatchGeneral(Scopes[i])
        <5>1. mine = {} /\ C \in SUBSET (Coaches \ Assigned)
          BY <4>2 DEF Mine
        <5>2. DOMAIN m = slots
          BY <1>1, WhoIsMatched DEF Asked
        <5>3. UidsIn(m) = {}
          BY <4>2, <5>2 DEF UidsIn
        <5>4. \A D \in SUBSET (Coaches \ Assigned) :
                  \A w \in Ways(QuestionFor(Cardinality(DOMAIN m), D, Scopes[i]), Cardinality(DOMAIN m)) :
                      Cardinality(HasPlace(w)) <= Cardinality(UidsIn(m))
          BY <1>1, WhoIsMatched DEF Asked
        <5> HIDE DEF m, C, mine
        <5>5. QED
          BY <5>1, <5>2, <5>3, <5>4
      <4>3. QED
        BY <4>1, <4>2
    <3>7. \A w \in Ways(q, Target(q)) : Cardinality({k \in DOMAIN w : w[k] # Vacant}) <= Cardinality(mine)
      <4>1. \A w : HasPlace(w) = {k \in DOMAIN w : w[k] # Vacant}
        BY DEF HasPlace
      <4> HIDE DEF q, n, mine
      <4>2. QED
        BY <3>5, <3>6, <4>1
    <3>8. QED
      BY <3>7 DEF Mine, QuestionFor, ScoreTable, Coaches
  <2>2. QED
    BY <2>1 DEF MostCoachesAreUsed
<1>9. QED
  BY <1>3, <1>6, <1>7, <1>8 DEF StaffAreWellPlaced

(* When the recommendation is complete nobody has two slots, nobody without *)
(* a slot would be better in one, the heads are the best of their           *)
(* departments, and as many general coaches are used as could be            *)
(* (allocate_staff_assignments).                                            *)
THEOREM StaffIsWellPlaced == StaffSpec => []StaffAreWellPlaced
<1>1. StaffInit => StaffInv
  BY StaffStart
<1>2. StaffInv /\ [StaffNext]_staffVars => StaffInv'
  BY StaffInvIsKept
<1>3. StaffInv => StaffAreWellPlaced
  BY InTheEndStaffAreWellPlaced
<1>4. QED
  BY <1>1, <1>2, <1>3, PTL DEF StaffSpec

-----------------------------------------------------------------------------
(* Rows that a total order puts in sequence come in one sequence only.      *)

Sorted(s, S, before) ==
    /\ s \in SetToSeqs(S)
    /\ \A i, j \in DOMAIN s : i < j => <<s[j], s[i]>> \notin before

LEMMA SequencesOfASet ==
    ASSUME NEW S, IsFiniteSet(S), NEW s \in SetToSeqs(S)
    PROVE  /\ s \in Seq(S) /\ Len(s) = Cardinality(S) /\ DOMAIN s = 1..Cardinality(S)
           /\ \A i, j \in DOMAIN s : i # j => s[i] # s[j]
           /\ \A x \in S : \E i \in DOMAIN s : s[i] = x
<1>1. Cardinality(S) \in Nat
  BY FS_CardinalityType
<1>2. s \in [1..Cardinality(S) -> S] /\ \A i, j \in 1..Cardinality(S) : i # j => s[i] # s[j]
  BY DEF SetToSeqs
<1>3. s \in Seq(S) /\ Len(s) = Cardinality(S) /\ DOMAIN s = 1..Cardinality(S)
  BY <1>1, <1>2
<1>4. s \in Injection(1..Cardinality(S), S)
  BY <1>2 DEF Injection, IsInjective
<1>5. Cardinality(1..Cardinality(S)) = Cardinality(S)
  BY <1>1, FS_Interval
<1>6. s \in Surjection(1..Cardinality(S), S)
  BY <1>4, <1>5, FS_Injection
<1>7. QED
  BY <1>2, <1>3, <1>6 DEF Surjection

LEMMA SortedIsUnique ==
    ASSUME NEW S, IsFiniteSet(S), NEW before, NEW s, NEW t,
           Sorted(s, S, before), Sorted(t, S, before),
           \A x, y \in S : x # y => <<x, y>> \in before \/ <<y, x>> \in before
    PROVE  s = t
<1> DEFINE n == Cardinality(S)
           Differ == {i \in 1..n : s[i] # t[i]}
<1>1. /\ n \in Nat /\ s \in Seq(S) /\ Len(s) = n /\ t \in Seq(S) /\ Len(t) = n
      /\ DOMAIN s = 1..n /\ DOMAIN t = 1..n
  BY FS_CardinalityType, SequencesOfASet DEF Sorted
<1>2. /\ \A i, j \in 1..n : i # j => s[i] # s[j] /\ t[i] # t[j]
      /\ \A x \in S : (\E i \in 1..n : s[i] = x) /\ (\E i \in 1..n : t[i] = x)
  <2>1. s \in SetToSeqs(S) /\ t \in SetToSeqs(S)
    BY DEF Sorted
  <2>2. /\ \A i, j \in 1..n : i # j => s[i] # s[j]
        /\ \A x \in S : \E i \in 1..n : s[i] = x
    <3>1. /\ DOMAIN s = 1..Cardinality(S)
          /\ \A i, j \in DOMAIN s : i # j => s[i] # s[j]
      BY <2>1, SequencesOfASet
    <3>2. \A x \in S : \E i \in DOMAIN s : s[i] = x
      BY <2>1, SequencesOfASet
    <3>3. QED
      BY <3>1, <3>2
  <2>3. /\ \A i, j \in 1..n : i # j => t[i] # t[j]
        /\ \A x \in S : \E i \in 1..n : t[i] = x
    <3>1. /\ DOMAIN t = 1..Cardinality(S)
          /\ \A i, j \in DOMAIN t : i # j => t[i] # t[j]
      BY <2>1, SequencesOfASet
    <3>2. \A x \in S : \E i \in DOMAIN t : t[i] = x
      BY <2>1, SequencesOfASet
    <3>3. QED
      BY <3>1, <3>2
  <2>4. QED
    BY <2>2, <2>3
<1>3. \A i, j \in 1..n : i < j => <<s[j], s[i]>> \notin before /\ <<t[j], t[i]>> \notin before
  BY <1>1 DEF Sorted
<1> HIDE DEF n
<1>4. ASSUME Differ # {}
      PROVE  FALSE
  <2>1. PICK i \in Differ : \A j \in Differ : i <= j
    <3>1. Differ \subseteq Nat
      BY <1>1
    <3>2. QED
      BY <1>4, <3>1, LeastNumber
  <2>2. i \in 1..n /\ s[i] \in S /\ t[i] \in S /\ s[i] # t[i]
    BY <1>1
  <2>3. PICK j \in 1..n : s[j] = t[i]
    BY <1>2, <2>2
  <2>4. PICK k \in 1..n : t[k] = s[i]
    BY <1>2, <2>2
  <2>5. ~(j < i)
    BY <1>1, <1>2, <2>1, <2>2, <2>3
  <2>6. ~(k < i)
    BY <1>1, <1>2, <2>1, <2>2, <2>4
  <2>7. i < j /\ i < k
    BY <2>2, <2>3, <2>4, <2>5, <2>6
  <2>8. <<t[i], s[i]>> \notin before /\ <<s[i], t[i]>> \notin before
    BY <1>3, <2>2, <2>3, <2>4, <2>7
  <2>9. QED
    BY <2>2, <2>8
<1>5. \A i \in 1..n : s[i] = t[i]
  BY <1>4
<1>6. QED
  BY <1>1, <1>5

-----------------------------------------------------------------------------
(* Percentiles and role scores are values.                                  *)

LEMMA RoundedIsInt ==
    ASSUME NEW a \in Int, NEW b \in Nat \ {0}
    PROVE  Rounded(a, b) \in Int
BY DEF Rounded

LEMMA PercentileIsValue ==
    ASSUME NEW population, IsFiniteSet(population), NEW stats, NEW u, NEW key,
           \A p \in population : stats[p][key] \in SqlValues
    PROVE  Percentile(population, stats, u, key) \in SqlValues
<1> DEFINE among == {p \in population : stats[p][key] # NoValue}
           below == {p \in among : stats[p][key] < stats[u][key]}
           score == Rounded(100 * Cardinality(below), Cardinality(among) - 1)
<1>1. Percentile(population, stats, u, key) =
          IF stats[u][key] = NoValue THEN NoValue
          ELSE IF \A p, q \in among : stats[p][key] = stats[q][key] THEN 50
          ELSE IF key \in LowerIsBetter THEN 100 - score ELSE score
  BY DEF Percentile
<1>2. IsFiniteSet(among) /\ Cardinality(among) \in Nat
  BY FS_Subset, FS_CardinalityType
<1>3. Cardinality(below) \in Nat
  BY <1>2, FS_Subset, FS_CardinalityType
<1>4. ASSUME ~\A p, q \in among : stats[p][key] = stats[q][key]
      PROVE  score \in Int
  <2>1. Cardinality(among) # 0
    BY <1>2, <1>4, FS_EmptySet
  <2>2. Cardinality(among) # 1
    BY <1>2, <1>4, FS_Singleton
  <2>3. Cardinality(among) - 1 \in Nat \ {0} /\ 100 * Cardinality(below) \in Int
    BY <1>2, <1>3, <2>1, <2>2
  <2>4. QED
    BY <2>3, RoundedIsInt
<1> HIDE DEF among, score
<1>5. QED
  BY <1>1, <1>4 DEF SqlValues

LEMMA RoleScoreIsValue ==
    ASSUME NEW percentiles, \A k \in Statistics : percentiles[k] \in SqlValues
    PROVE  RoleScore(percentiles) \in SqlValues
<1>1. CASE \E k \in Statistics : percentiles[k] = NoValue
  BY <1>1 DEF RoleScore, SqlValues
<1>2. CASE \A k \in Statistics : percentiles[k] # NoValue
  <2>1. percentiles["tackles"] \in Int /\ percentiles["errors"] \in Int
    BY <1>2 DEF Statistics, SqlValues
  <2>2. RoleScore(percentiles) =
            Rounded(percentiles["tackles"] * 2 + percentiles["errors"] * 1, 2 + 1)
    BY <1>2 DEF RoleScore, Weights
  <2>3. QED
    BY <2>1, <2>2, RoundedIsInt DEF SqlValues
<1>3. QED
  BY <1>1, <1>2

-----------------------------------------------------------------------------
(* The split of the rules.                                                  *)

SearchTypes == world \in Worlds /\ request \in Requests

Allowed == ~(UsesRole /\ request.view = "general")

Matches(u, r) == Satisfies(ValueFor(u, r.field), r)

LEMMA RequestsAreKnown ==
    ASSUME SearchTypes
    PROVE  /\ request.view \in {"general", "moneyball"} /\ request.limit \in Int
           /\ request.sort \in {"plain", "role"} \cup Statistics
           /\ request.view = "general" => request.sort \in {"plain", "role"}
           /\ request.filter.combine \in {"and", "or"}
<1>1. /\ request.view \in DOMAIN ColumnsOf /\ request.limit \in Int
      /\ request.sort \in ColumnsOf[request.view] \cup {"role"}
      /\ request.filter.combine \in {"and", "or"}
  BY RequestsAssumption DEF SearchTypes
<1>2. QED
  BY <1>1 DEF ColumnsOf

LEMMA PeopleAreFinite ==
    ASSUME SearchTypes
    PROVE  /\ Joined \subseteq DOMAIN world.plain
           /\ IsFiniteSet(Joined) /\ IsFiniteSet(DOMAIN world.stats)
<1>1. IsFiniteSet(DOMAIN world.plain) /\ DOMAIN world.stats \subseteq DOMAIN world.plain
  BY WorldsAssumption DEF SearchTypes
<1>2. Joined \subseteq DOMAIN world.plain
  BY <1>1 DEF Joined
<1>3. QED
  BY <1>1, <1>2, FS_Subset

LEMMA RolesAreOfMoneyball ==
    ASSUME SearchTypes, Allowed, IsRole(request.sort) \/ RoleRules(request.filter) # {}
    PROVE  request.view = "moneyball"
BY RequestsAreKnown DEF Allowed, UsesRole

LEMMA ComparedIsCohort ==
    ASSUME SearchTypes, request.view = "moneyball"
    PROVE  /\ request.pool # "file" => Compared = Cohort
           /\ Compared \subseteq Cohort /\ Cohort \subseteq DOMAIN world.stats
           /\ PercentilesShown = PercentilesIn(Cohort)
<1>1. Joined = DOMAIN world.stats
  BY DEF Joined
<1>2. SqlFilter(Joined, request.filter, OtherRules(request.filter)) =
          {u \in DOMAIN world.stats :
             OtherRules(request.filter) = {} \/
             Combined(request.filter.combine, OtherRules(request.filter),
                      LAMBDA r : Satisfies(Column(u, r.field), r))}
  BY <1>1 DEF SqlFilter
<1>3. CASE MixedOr
  BY <1>1, <1>3 DEF Compared, Cohort, PercentilesShown
<1>4. CASE ~MixedOr
  <2>1. Compared \subseteq DOMAIN world.stats
    BY <1>1, <1>4, <1>2 DEF Compared
  <2>2. CASE request.pool = "file"
    BY <2>1, <2>2 DEF Cohort, PercentilesShown
  <2>3. CASE request.pool # "file"
    <3>1. Compared = Cohort
      BY <1>2, <1>4, <2>3 DEF Compared, Cohort
    <3>2. QED
      BY <2>1, <2>3, <3>1 DEF PercentilesShown
  <2>4. QED
    BY <2>2, <2>3
<1>5. QED
  BY <1>3, <1>4

LEMMA ScoresAgree ==
    ASSUME SearchTypes, request.view = "moneyball", NEW u \in Cohort
    PROVE  RoleScoreOf(u) = ValueFor(u, "role")
BY ComparedIsCohort DEF RoleScoreOf, ValueFor, IsRole

LEMMA ColumnsAgree ==
    ASSUME NEW u, NEW field, ~IsRole(field)
    PROVE  ValueFor(u, field) = Column(u, field)
BY DEF ValueFor

LEMMA OnlyEmptyHasNone ==
    ASSUME NEW S, NEW s \in Seq(S)
    PROVE  s = <<>> <=> DOMAIN s = {}
<1>1. Len(s) \in Nat /\ DOMAIN s = 1..Len(s)
  OBVIOUS
<1>2. ASSUME DOMAIN s = {}
      PROVE  s = <<>>
  <2>1. Len(s) = 0
    BY <1>1, <1>2
  <2>2. QED
    BY <2>1
<1>3. QED
  BY <1>2

LEMMA RulesAreSplit ==
    ASSUME SearchTypes
    PROVE  /\ RulesOf(request.filter) = RoleRules(request.filter) \cup OtherRules(request.filter)
           /\ \A r \in RoleRules(request.filter) : r.field = "role"
           /\ \A r \in OtherRules(request.filter) : ~IsRole(r.field)
           /\ request.filter.rules = <<>> <=> RulesOf(request.filter) = {}
<1>1. request.filter.rules = <<>> <=> RulesOf(request.filter) = {}
  <2>1. request.filter.rules \in Seq([field : ColumnsOf[request.view] \cup {"role"},
                                   op : {"gt", "lt", "eq", "neq"}, target : Int])
    BY RequestsAssumption DEF SearchTypes
  <2>2. request.filter.rules = <<>> <=> DOMAIN request.filter.rules = {}
    BY <2>1, OnlyEmptyHasNone
  <2>3. QED
    BY <2>2 DEF RulesOf
<1>2. QED
  BY <1>1 DEF RoleRules, OtherRules, IsRole

LEMMA SqlFilterKeeps ==
    ASSUME SearchTypes, NEW people, NEW u
    PROVE  u \in SqlFilter(people, request.filter, OtherRules(request.filter)) <=>
               /\ u \in people
               /\ \/ OtherRules(request.filter) = {}
                  \/ IF request.filter.combine = "and"
                     THEN \A r \in OtherRules(request.filter) : Matches(u, r)
                     ELSE \E r \in OtherRules(request.filter) : Matches(u, r)
<1>1. \A r \in OtherRules(request.filter) : Satisfies(Column(u, r.field), r) <=> Matches(u, r)
  BY RulesAreSplit, ColumnsAgree DEF Matches
<1>2. u \in SqlFilter(people, request.filter, OtherRules(request.filter)) <=>
               /\ u \in people
               /\ \/ OtherRules(request.filter) = {}
                  \/ IF request.filter.combine = "and"
                     THEN \A r \in OtherRules(request.filter) : Satisfies(Column(u, r.field), r)
                     ELSE \E r \in OtherRules(request.filter) : Satisfies(Column(u, r.field), r)
  BY DEF SqlFilter, Combined
<1>3. QED
  BY <1>1, <1>2

LEMMA RoleMatchKeeps ==
    ASSUME SearchTypes, Allowed, RoleRules(request.filter) # {}, NEW u \in Compared
    PROVE  RoleMatch(u) <=>
               IF request.filter.combine = "and"
               THEN \A r \in RoleRules(request.filter) : Matches(u, r)
               ELSE \E r \in RoleRules(request.filter) : Matches(u, r)
<1>1. u \in Cohort /\ request.view = "moneyball"
  BY RolesAreOfMoneyball, ComparedIsCohort
<1>2. RoleScoreOf(u) = ValueFor(u, "role")
  BY <1>1, ScoresAgree
<1>3. \A r \in RoleRules(request.filter) : Satisfies(RoleScoreOf(u), r) <=> Matches(u, r)
  BY <1>2, RulesAreSplit DEF Matches
<1>4. RoleMatch(u) <=>
               IF request.filter.combine = "and"
               THEN \A r \in RoleRules(request.filter) : Satisfies(RoleScoreOf(u), r)
               ELSE \E r \in RoleRules(request.filter) : Satisfies(RoleScoreOf(u), r)
  BY DEF RoleMatch, Combined
<1>5. QED
  BY <1>3, <1>4

(* What SQL and Rust keep between them is what the filter lets through.     *)
LEMMA KeptIsLetThrough ==
    ASSUME SearchTypes, Allowed
    PROVE  KeptRows = {u \in Joined : LetThrough(u)}
<1> DEFINE rules == RulesOf(request.filter)
           roles == RoleRules(request.filter)
           others == OtherRules(request.filter)
           and == request.filter.combine = "and"
<1>1. \A u : LetThrough(u) <=>
          \/ rules = {}
          \/ IF and THEN \A r \in rules : Matches(u, r) ELSE \E r \in rules : Matches(u, r)
  BY RulesAreSplit DEF LetThrough, Combined, Matches
<1>2. rules = roles \cup others
  BY RulesAreSplit
<1>3. \A u : u \in SqlFilter(Joined, request.filter, others) <=>
          /\ u \in Joined
          /\ \/ others = {}
             \/ IF and THEN \A r \in others : Matches(u, r) ELSE \E r \in others : Matches(u, r)
  BY SqlFilterKeeps
<1>4. \A u \in Compared : roles # {} =>
          (RoleMatch(u) <=>
              IF and THEN \A r \in roles : Matches(u, r) ELSE \E r \in roles : Matches(u, r))
  BY RoleMatchKeeps
<1>5. MixedOr <=> roles # {} /\ ~and
  BY RequestsAreKnown DEF MixedOr
<1>6. Compared = IF MixedOr THEN Joined ELSE SqlFilter(Joined, request.filter, others)
  BY DEF Compared
<1>7. ByOtherRules =
          IF MixedOr /\ others # {} THEN SqlFilter(Joined, request.filter, others) ELSE {}
  BY DEF ByOtherRules
<1>8. KeptRows = IF roles = {} THEN Compared
             ELSE {u \in Compared : RoleMatch(u)} \cup ByOtherRules
  BY DEF KeptRows
<1> HIDE DEF rules, roles, others, and
<1>9. CASE roles = {}
  BY <1>1, <1>2, <1>3, <1>5, <1>6, <1>8, <1>9
<1>10. CASE roles # {} /\ and
  BY <1>1, <1>2, <1>3, <1>4, <1>5, <1>6, <1>7, <1>8, <1>10
<1>11. CASE roles # {} /\ ~and
  BY <1>1, <1>2, <1>3, <1>4, <1>5, <1>6, <1>7, <1>8, <1>11
<1>12. QED
  BY <1>9, <1>10, <1>11

-----------------------------------------------------------------------------
(* The order.                                                               *)

LEMMA KeptIsCompared ==
    ASSUME SearchTypes
    PROVE  KeptRows \subseteq Compared
<1>1. CASE RoleRules(request.filter) = {}
  BY <1>1 DEF KeptRows
<1>2. CASE RoleRules(request.filter) # {}
  <2>1. ByOtherRules \subseteq Compared
    <3>1. CASE MixedOr
      BY <3>1 DEF ByOtherRules, Compared, SqlFilter
    <3>2. CASE ~MixedOr
      BY <3>2 DEF ByOtherRules
    <3>3. QED
      BY <3>1, <3>2
  <2>2. QED
    BY <1>2, <2>1 DEF KeptRows
<1>3. QED
  BY <1>1, <1>2

LEMMA KeptIsFinite ==
    ASSUME SearchTypes, Allowed
    PROVE  IsFiniteSet(KeptRows) /\ KeptRows \subseteq Joined /\ KeptRows \subseteq Int
<1>1. KeptRows \subseteq Joined
  BY KeptIsLetThrough
<1>2. DOMAIN world.plain \subseteq Int
  BY WorldsAssumption DEF SearchTypes
<1>3. QED
  BY <1>1, <1>2, PeopleAreFinite, FS_Subset

(* What the rows are ordered by is what the reader sees in that column.     *)
LEMMA KeysAreShown ==
    ASSUME SearchTypes, Allowed, NEW u \in KeptRows
    PROVE  Key(u) = ValueFor(u, request.sort)
<1>1. CASE IsRole(request.sort)
  <2>1. u \in Cohort /\ request.view = "moneyball"
    BY <1>1, RolesAreOfMoneyball, ComparedIsCohort, KeptIsCompared
  <2>2. QED
    BY <1>1, <2>1, ScoresAgree DEF Key, IsRole
<1>2. CASE ~IsRole(request.sort)
  BY <1>2, ColumnsAgree DEF Key
<1>3. QED
  BY <1>1, <1>2

LEMMA KeysAreValues ==
    ASSUME SearchTypes, Allowed, NEW u \in KeptRows
    PROVE  Key(u) \in SqlValues
<1>1. CASE IsRole(request.sort)
  <2>1. u \in Cohort /\ Cohort \subseteq DOMAIN world.stats /\ request.view = "moneyball"
        /\ PercentilesShown = PercentilesIn(Cohort)
    BY <1>1, RolesAreOfMoneyball, ComparedIsCohort, KeptIsCompared
  <2>2. IsFiniteSet(Cohort)
    BY <2>1, PeopleAreFinite, FS_Subset
  <2>3. \A p \in Cohort, k \in Statistics : world.stats[p][k] \in SqlValues
    BY <2>1, WorldsAssumption DEF SearchTypes
  <2>4. \A k \in Statistics : PercentilesIn(Cohort)[u][k] \in SqlValues
    <3>1. TAKE k \in Statistics
    <3>2. PercentilesIn(Cohort)[u][k] = Percentile(Cohort, world.stats, u, k)
      BY <2>1 DEF PercentilesIn
    <3>3. QED
      BY <2>2, <2>3, <3>2, PercentileIsValue
  <2>5. Key(u) = RoleScore(PercentilesIn(Cohort)[u])
    BY <1>1, <2>1 DEF Key, RoleScoreOf
  <2>6. QED
    BY <2>4, <2>5, RoleScoreIsValue
<1>2. CASE ~IsRole(request.sort)
  <2>1. Key(u) = Column(u, request.sort) /\ u \in Joined /\ u \in DOMAIN world.plain
    BY <1>2, KeptIsFinite, PeopleAreFinite DEF Key
  <2>2. CASE request.sort = "plain"
    BY <2>1, <2>2, WorldsAssumption DEF SearchTypes, Column
  <2>3. CASE request.sort # "plain"
    <3>1. request.sort \in Statistics /\ request.view = "moneyball"
      BY <1>2, <2>3, RequestsAreKnown DEF IsRole
    <3>2. u \in DOMAIN world.stats
      BY <2>1, <3>1 DEF Joined
    <3>3. QED
      BY <2>1, <2>3, <3>1, <3>2, WorldsAssumption DEF SearchTypes, Column
  <2>4. QED
    BY <2>2, <2>3
<1>3. QED
  BY <1>1, <1>2

LEMMA KeysCompare ==
    ASSUME NEW a \in SqlValues, NEW b \in SqlValues, a # b
    PROVE  KeyBefore(a, b) \/ KeyBefore(b, a)
<1>1. NoValue \notin Int
  BY ValuesAssumption
<1>2. CASE a = NoValue \/ b = NoValue
  BY <1>1, <1>2 DEF KeyBefore, SqlValues
<1>3. CASE a \in Int /\ b \in Int
  BY <1>1, <1>3 DEF KeyBefore
<1>4. QED
  BY <1>2, <1>3 DEF SqlValues

RowsBefore(found) == {pair \in found \X found : Before(pair[1], pair[2])}

LEMMA OrdersAreSorted ==
    ASSUME NEW found, NEW s
    PROVE  s \in Orders(found) <=> Sorted(s, found, RowsBefore(found))
BY DEF Orders, Sorted, RowsBefore

LEMMA OrderIsOne ==
    ASSUME SearchTypes, Allowed, NEW s \in Orders(KeptRows), NEW t \in Orders(KeptRows)
    PROVE  s = t
<1>1. ASSUME NEW x \in KeptRows, NEW y \in KeptRows, x # y
      PROVE  <<x, y>> \in RowsBefore(KeptRows) \/ <<y, x>> \in RowsBefore(KeptRows)
  <2>1. Key(x) \in SqlValues /\ Key(y) \in SqlValues
    BY KeysAreValues
  <2>2. x \in Int /\ y \in Int
    BY KeptIsFinite
  <2>3. Before(x, y) \/ Before(y, x)
    <3>1. CASE Key(x) = Key(y)
      BY <1>1, <2>2, <3>1 DEF Before
    <3>2. CASE Key(x) # Key(y)
      BY <2>1, <3>2, KeysCompare DEF Before
    <3>3. QED
      BY <3>1, <3>2
  <2>4. QED
    BY <2>3 DEF RowsBefore
<1>2. IsFiniteSet(KeptRows)
  BY KeptIsFinite
<1>3. Sorted(s, KeptRows, RowsBefore(KeptRows)) /\ Sorted(t, KeptRows, RowsBefore(KeptRows))
  BY OrdersAreSorted
<1>4. QED
  BY <1>1, <1>2, <1>3, SortedIsUnique

-----------------------------------------------------------------------------
(* The pages.                                                               *)

LEMMA PagesAreConcatenated ==
    ASSUME NEW S, NEW s \in Seq(S), NEW k \in 0..Len(s), NEW m \in k..Len(s)
    PROVE  /\ SubSeq(s, 1, k) \o SubSeq(s, k + 1, m) = SubSeq(s, 1, m)
           /\ Len(SubSeq(s, k + 1, m)) = m - k
<1>1. \A i \in 1..Len(s) : s[i] \in S
  OBVIOUS
<1>2. k \in Int /\ k + 1 \in Int /\ m \in Int /\ 1 \in Int /\ Len(s) \in Nat
      /\ 0 <= k /\ k <= m /\ m <= Len(s)
  OBVIOUS
<1>3. /\ SubSeq(s, 1, k) \in Seq(S) /\ Len(SubSeq(s, 1, k)) = k
      /\ \A i \in 1..k : SubSeq(s, 1, k)[i] = s[i]
  BY <1>1, <1>2, SubSeqProperties
<1>4. /\ SubSeq(s, k + 1, m) \in Seq(S) /\ Len(SubSeq(s, k + 1, m)) = m - k
      /\ \A i \in 1..(m - k) : SubSeq(s, k + 1, m)[i] = s[k + i]
  BY <1>1, <1>2, SubSeqProperties
<1>5. /\ SubSeq(s, 1, m) \in Seq(S) /\ Len(SubSeq(s, 1, m)) = m
      /\ \A i \in 1..m : SubSeq(s, 1, m)[i] = s[i]
  BY <1>1, <1>2, SubSeqProperties
<1> DEFINE both == SubSeq(s, 1, k) \o SubSeq(s, k + 1, m)
<1>6. /\ both \in Seq(S) /\ Len(both) = m
      /\ \A i \in 1..m : both[i] = IF i <= k THEN SubSeq(s, 1, k)[i] ELSE SubSeq(s, k + 1, m)[i - k]
  BY <1>2, <1>3, <1>4, ConcatProperties
<1>7. \A i \in 1..m : both[i] = s[i]
  BY <1>2, <1>3, <1>4, <1>6
<1>8. both = SubSeq(s, 1, m)
  <2> DEFINE all == SubSeq(s, 1, m)
  <2>1. /\ all \in Seq(S) /\ both \in Seq(S) /\ Len(both) = Len(all)
        /\ \A i \in 1..Len(both) : both[i] = all[i]
    BY <1>5, <1>6, <1>7
  <2> HIDE DEF all, both
  <2>2. both = all
    BY <2>1, SeqEqual
  <2>3. QED
    BY <2>2 DEF all
<1>9. QED
  BY <1>4, <1>8

(* The pages so far are the beginning of the one order there is.            *)
IsShown(order) ==
    /\ answer.total = Len(order)
    /\ offset \in 0..Len(order)
    /\ shown = SubSeq(order, 1, offset)

Failures == {"error", "noCurrentSnapshot", "noShortlist"}

SearchInv ==
    /\ SearchTypes
    /\ \/ answer = NoAnswer /\ offset = 0 /\ shown = <<>>
       \/ answer.state \in Failures
       \/ answer.state = "ready" /\ Allowed /\ \E order \in Orders(KeptRows) : IsShown(order)

LEMMA SearchAnswers ==
    ASSUME NEW reply \in SearchPlayers
    PROVE  \/ reply.state \in Failures
           \/ /\ Allowed
              /\ \E order \in Orders(KeptRows) : reply = Page(order, Clamped(request.limit))
<1>1. CASE UsesRole /\ request.view = "general"
  BY <1>1 DEF SearchPlayers, Nobody, Failures
<1>2. CASE ~(UsesRole /\ request.view = "general") /\ ~world.current
  BY <1>2 DEF SearchPlayers, Nobody, Failures
<1>3. CASE /\ ~UsesRole /\ world.current /\ world.shortlist = {}
           /\ request.view = "general" /\ request.shortlistOnly
  BY <1>3 DEF SearchPlayers, Nobody, Failures
<1>4. CASE /\ ~(UsesRole /\ request.view = "general") /\ world.current
           /\ ~(/\ ~UsesRole /\ world.current /\ world.shortlist = {}
                /\ request.view = "general" /\ request.shortlistOnly)
  <2>1. SearchPlayers = {Page(order, Clamped(request.limit)) : order \in Orders(KeptRows)}
    BY <1>4 DEF SearchPlayers
  <2>2. QED
    BY <1>4, <2>1 DEF Allowed
<1>5. QED
  BY <1>1, <1>2, <1>3, <1>4

LEMMA OrdersAreSequences ==
    ASSUME SearchTypes, Allowed, NEW order \in Orders(KeptRows)
    PROVE  /\ order \in Seq(KeptRows) /\ Len(order) = Cardinality(KeptRows) /\ DOMAIN order = 1..Len(order)
           /\ \A i, j \in DOMAIN order : i # j => order[i] # order[j]
           /\ \A u \in KeptRows : \E i \in DOMAIN order : order[i] = u
<1>1. order \in SetToSeqs(KeptRows) /\ IsFiniteSet(KeptRows)
  BY OrdersAreSorted, KeptIsFinite DEF Sorted
<1>2. QED
  BY <1>1, SequencesOfASet

(* A page goes on where the last one ended.                                 *)
LEMMA PageGoesOn ==
    ASSUME SearchTypes, Allowed, NEW order \in Orders(KeptRows),
           offset \in 0..Len(order), shown = SubSeq(order, 1, offset),
           answer' = Page(order, Clamped(request.limit)),
           shown' = shown \o answer'.uids, offset' = offset + Len(answer'.uids)
    PROVE  answer'.state = "ready" /\ IsShown(order)'
<1> DEFINE limit == Clamped(request.limit)
           m == IF offset + limit < Len(order) THEN offset + limit ELSE Len(order)
<1>1. order \in Seq(KeptRows) /\ Len(order) \in Nat
  BY OrdersAreSequences
<1>2. limit \in Nat \ {0}
  BY RequestsAreKnown, ValuesAssumption DEF Clamped
<1>3. answer'.state = "ready" /\ answer'.total = Len(order)
      /\ answer'.uids = SubSeq(order, offset + 1, m)
  BY DEF Page
<1> HIDE DEF limit
<1>4. m \in offset..Len(order)
  BY <1>1, <1>2
<1> HIDE DEF m
<1>5. /\ SubSeq(order, 1, offset) \o SubSeq(order, offset + 1, m) = SubSeq(order, 1, m)
      /\ Len(SubSeq(order, offset + 1, m)) = m - offset
  BY <1>1, <1>4, PagesAreConcatenated
<1>6. offset' = m /\ shown' = SubSeq(order, 1, m)
  <2>1. offset' = offset + (m - offset)
    BY <1>3, <1>5
  <2>2. offset \in Int /\ m \in Int
    BY <1>1, <1>4
  <2>3. offset' = m
    BY <2>1, <2>2
  <2>4. shown' = SubSeq(order, 1, offset) \o SubSeq(order, offset + 1, m)
    BY <1>3
  <2>5. QED
    BY <1>5, <2>3, <2>4
<1>7. m \in 0..Len(order)
  BY <1>1, <1>4
<1>8. QED
  BY <1>3, <1>6, <1>7 DEF IsShown

(* Nothing of an order is read but the database and what was asked.         *)
LEMMA OrdersStay ==
    ASSUME UNCHANGED <<world, request>>
    PROVE  (Allowed' <=> Allowed) /\ Orders(KeptRows)' = Orders(KeptRows)
<1>1. \A u, f : Column(u, f)' = Column(u, f)
  BY DEF Column
<1>2. \A u, r : Satisfies(Column(u, r.field), r)' <=> Satisfies(Column(u, r.field), r)
  BY <1>1 DEF Satisfies
<1>3. Joined' = Joined
  BY DEF Joined
<1>4. SqlFilter(Joined, request.filter, OtherRules(request.filter))' =
          SqlFilter(Joined, request.filter, OtherRules(request.filter))
  BY <1>2, <1>3 DEF SqlFilter, Combined, OtherRules, RoleRules, RulesOf
<1>5. (MixedOr' <=> MixedOr) /\ (UsesRole' <=> UsesRole)
  BY DEF MixedOr, UsesRole, RoleRules, RulesOf
<1>6. Compared' = Compared /\ ByOtherRules' = ByOtherRules
  BY <1>3, <1>4, <1>5 DEF Compared, ByOtherRules, OtherRules, RoleRules, RulesOf
<1>7. \A c : PercentilesIn(c)' = PercentilesIn(c)
  BY DEF PercentilesIn
<1>8. PercentilesShown' = PercentilesShown
  BY <1>6, <1>7 DEF PercentilesShown
<1>9. \A u : RoleScoreOf(u)' = RoleScoreOf(u)
  BY <1>8 DEF RoleScoreOf
<1>10. \A u : RoleMatch(u)' <=> RoleMatch(u)
  BY <1>9 DEF RoleMatch, Combined, RoleRules, RulesOf, Satisfies
<1>11. KeptRows' = KeptRows
  BY <1>6, <1>10 DEF KeptRows, RoleRules, RulesOf
<1>12. \A u : Key(u)' = Key(u)
  BY <1>1, <1>9 DEF Key
<1>13. \A u, v : Before(u, v)' <=> Before(u, v)
  BY <1>12 DEF Before, KeyBefore
<1>14. Orders(KeptRows)' = Orders(KeptRows)
  BY <1>11, <1>13 DEF Orders
<1>15. QED
  BY <1>5, <1>14 DEF Allowed

LEMMA PagesGoOn ==
    ASSUME SearchInv, AskNextPage
    PROVE  SearchInv'
<1>1. SearchTypes /\ UNCHANGED <<world, request>>
  BY DEF SearchInv, AskNextPage
<1>2. SearchTypes'
  BY <1>1 DEF SearchTypes
<1>3. /\ shown' = shown \o answer'.uids /\ offset' = offset + Len(answer'.uids)
      /\ answer' \in SearchPlayers
  BY DEF AskNextPage
<1>4. CASE answer'.state \in Failures
  BY <1>2, <1>4 DEF SearchInv, Failures
<1>5. CASE Allowed /\ \E order \in Orders(KeptRows) : answer' = Page(order, Clamped(request.limit))
  <2>1. PICK order \in Orders(KeptRows) : answer' = Page(order, Clamped(request.limit))
    BY <1>5
  <2>2. offset \in 0..Len(order) /\ shown = SubSeq(order, 1, offset)
    <3>1. CASE answer = NoAnswer
      <4>1. offset = 0 /\ shown = <<>>
        BY <3>1 DEF SearchInv, NoAnswer, Nobody, Failures
      <4>2. SubSeq(order, 1, 0) = <<>> /\ Len(order) \in Nat
        BY <1>1, <1>5, SubSeqEmpty, OrdersAreSequences
      <4>3. QED
        BY <4>1, <4>2
    <3>2. CASE answer # NoAnswer
      <4>1. answer.state = "ready"
        BY <3>2 DEF AskNextPage
      <4>2. PICK earlier \in Orders(KeptRows) : IsShown(earlier)
        BY <4>1, <3>2 DEF SearchInv, Failures
      <4>3. earlier = order
        BY <1>1, <1>5, OrderIsOne
      <4>4. QED
        BY <4>2, <4>3 DEF IsShown
    <3>3. QED
      BY <3>1, <3>2
  <2>3. answer'.state = "ready" /\ IsShown(order)'
    BY <1>1, <1>3, <1>5, <2>1, <2>2, PageGoesOn
  <2>4. Allowed' /\ order \in Orders(KeptRows)'
    BY <1>1, <1>5, OrdersStay
  <2>5. QED
    BY <1>2, <2>3, <2>4 DEF SearchInv
<1>6. QED
  BY <1>3, <1>4, <1>5, SearchAnswers

LEMMA PagesInOrder ==
    ASSUME SearchTypes, Allowed, NEW order \in Orders(KeptRows),
           NEW i \in DOMAIN order, NEW j \in DOMAIN order, i < j
    PROVE  LET a == ValueFor(order[i], request.sort)
               b == ValueFor(order[j], request.sort)
           IN  /\ a # NoValue /\ b # NoValue =>
                      IF request.dir = "asc" THEN a <= b ELSE a >= b
               /\ IsRole(request.sort) /\ a = NoValue => b = NoValue
<1> DEFINE a == ValueFor(order[i], request.sort)
           b == ValueFor(order[j], request.sort)
<1>1. order[i] \in KeptRows /\ order[j] \in KeptRows
  BY OrdersAreSequences
<1>2. ~Before(order[j], order[i])
  BY <1>1, OrdersAreSorted DEF Sorted, RowsBefore
<1>3. a = Key(order[i]) /\ b = Key(order[j]) /\ a \in SqlValues /\ b \in SqlValues
  BY <1>1, KeysAreShown, KeysAreValues
<1>4. ~KeyBefore(b, a)
  BY <1>2, <1>3 DEF Before
<1>5. NoValue \notin Int
  BY ValuesAssumption
<1> HIDE DEF a, b
<1>6. a # NoValue /\ b # NoValue => IF request.dir = "asc" THEN a <= b ELSE a >= b
  BY <1>3, <1>4, <1>5 DEF KeyBefore, SqlValues
<1>7. IsRole(request.sort) /\ a = NoValue => b = NoValue
  BY <1>3, <1>4, <1>5 DEF KeyBefore, SqlValues
<1>8. QED
  BY <1>6, <1>7 DEF a, b

LEMMA PagesAreAll ==
    ASSUME SearchInv, AllShown
    PROVE  /\ SearchTypes /\ Allowed /\ shown \in Orders(KeptRows)
           /\ answer.total = Len(shown)
<1>1. SearchTypes /\ answer.state = "ready" /\ offset >= answer.total
  BY DEF SearchInv, AllShown
<1>2. Allowed /\ \E order \in Orders(KeptRows) : IsShown(order)
  BY <1>1 DEF SearchInv, Failures, NoAnswer, Nobody
<1>3. PICK order \in Orders(KeptRows) : IsShown(order)
  BY <1>2
<1>4. order \in Seq(KeptRows) /\ Len(order) \in Nat
  BY <1>1, <1>2, OrdersAreSequences
<1>5. offset = Len(order)
  BY <1>1, <1>3, <1>4 DEF IsShown
<1>6. shown = order
  BY <1>3, <1>4, <1>5, SubSeqFull DEF IsShown
<1>7. QED
  BY <1>1, <1>2, <1>3, <1>6 DEF IsShown

LEMMA PagesTogether == SearchInv => PagesAreTheSearch
<1> SUFFICES ASSUME SearchInv, AllShown
             PROVE  PagesAreTheSearch
  BY DEF PagesAreTheSearch
<1>1. /\ SearchTypes /\ Allowed /\ shown \in Orders(KeptRows)
      /\ answer.total = Len(shown)
  BY PagesAreAll
<1>2. /\ shown \in Seq(KeptRows) /\ Len(shown) = Cardinality(KeptRows) /\ DOMAIN shown = 1..Len(shown)
      /\ \A u \in KeptRows : \E i \in DOMAIN shown : shown[i] = u
  BY <1>1, OrdersAreSequences
<1>3. ToSet(shown) = KeptRows
  BY <1>2 DEF ToSet
<1>4. KeptRows = {u \in Joined : LetThrough(u)}
  BY <1>1, KeptIsLetThrough
<1>5. \A i, j \in DOMAIN shown :
               LET a == ValueFor(shown[i], request.sort)
                   b == ValueFor(shown[j], request.sort)
               IN  i < j /\ a # NoValue /\ b # NoValue =>
                       IF request.dir = "asc" THEN a <= b ELSE a >= b
  BY <1>1, PagesInOrder
<1>6. IsRole(request.sort) =>
               \A i, j \in DOMAIN shown :
                   i < j /\ ValueFor(shown[i], "role") = NoValue =>
                       ValueFor(shown[j], "role") = NoValue
  <2>1. IsRole(request.sort) => request.sort = "role"
    BY DEF IsRole
  <2>2. QED
    BY <1>1, <2>1, PagesInOrder
<1>7. QED
  BY <1>1, <1>2, <1>3, <1>4, <1>5, <1>6 DEF PagesAreTheSearch

(* Whatever the database holds and whatever is asked, the pages together    *)
(* are the filter's players, each once and in order (search/query.rs).      *)
THEOREM PagesShowTheSearch == SearchSpec => []PagesAreTheSearch
<1>1. SearchInit => SearchInv
  BY DEF SearchInit, SearchInv, SearchTypes
<1>2. SearchInv /\ [SearchNext]_searchVars => SearchInv'
  <2>1. ASSUME SearchInv, UNCHANGED searchVars
        PROVE  SearchInv'
    <3>1. UNCHANGED <<world, request>> /\ UNCHANGED <<offset, shown, answer>>
      BY <2>1 DEF searchVars
    <3>2. (Allowed' <=> Allowed) /\ Orders(KeptRows)' = Orders(KeptRows)
      BY <3>1, OrdersStay
    <3>3. \A order : IsShown(order)' <=> IsShown(order)
      BY <3>1 DEF IsShown
    <3>4. QED
      BY <2>1, <3>1, <3>2, <3>3 DEF SearchInv, SearchTypes, NoAnswer, Nobody
  <2>2. QED
    BY <2>1, PagesGoOn DEF SearchNext
<1>3. QED
  BY <1>1, <1>2, PagesTogether, PTL DEF SearchSpec

-----------------------------------------------------------------------------
(* The tactic score.                                                       *)

FitTypes == player \in PlayerRecords /\ lane \in Lanes

(* The penalty of the expression counts the phases he is not at home in.    *)
LEMMA PenaltyIsCount ==
    SqlPenalty = Penalty("ip") + Penalty("oop") + (IF FootMismatch THEN 5 ELSE 0)
<1> DEFINE Strange == {p \in Phases : player.familiarity[p] < 16}
<1>1. SqlPenalty = 5 * Cardinality(Strange) + (IF FootMismatch THEN 5 ELSE 0)
  BY DEF SqlPenalty
<1>2. CASE "ip" \in Strange /\ "oop" \in Strange
  <2>1. Strange = {"ip"} \cup {"oop"}
    BY <1>2 DEF Phases
  <2>2. Cardinality(Strange) = 2
    <3>1. IsFiniteSet({"ip"}) /\ Cardinality({"ip"}) = 1 /\ "oop" \notin {"ip"}
      BY FS_Singleton
    <3>2. Cardinality({"ip"} \cup {"oop"}) = 2
      BY <3>1, FS_AddElement
    <3>3. QED
      BY <2>1, <3>2
  <2>3. Penalty("ip") = 5 /\ Penalty("oop") = 5
    BY <1>2 DEF Penalty
  <2>4. QED
    BY <1>1, <2>2, <2>3
<1>3. CASE "ip" \in Strange /\ "oop" \notin Strange
  <2>1. Strange = {"ip"}
    BY <1>3 DEF Phases
  <2>2. Cardinality(Strange) = 1
    BY <2>1, FS_Singleton
  <2>3. Penalty("ip") = 5 /\ Penalty("oop") = 0
    BY <1>3 DEF Penalty, Phases
  <2>4. QED
    BY <1>1, <2>2, <2>3
<1>4. CASE "ip" \notin Strange /\ "oop" \in Strange
  <2>1. Strange = {"oop"}
    BY <1>4 DEF Phases
  <2>2. Cardinality(Strange) = 1
    BY <2>1, FS_Singleton
  <2>3. Penalty("ip") = 0 /\ Penalty("oop") = 5
    BY <1>4 DEF Penalty, Phases
  <2>4. QED
    BY <1>1, <2>2, <2>3
<1>5. CASE "ip" \notin Strange /\ "oop" \notin Strange
  <2>1. Strange = {}
    BY <1>5 DEF Phases
  <2>2. Cardinality(Strange) = 0
    BY <2>1, FS_EmptySet
  <2>3. Penalty("ip") = 0 /\ Penalty("oop") = 0
    BY <1>5 DEF Penalty, Phases
  <2>4. QED
    BY <1>1, <2>2, <2>3
<1>6. QED
  BY <1>2, <1>3, <1>4, <1>5

LEMMA PenaltyIsNat ==
    FitTypes => Penalty("ip") \in {0, 5} /\ Penalty("oop") \in {0, 5}
BY DEF Penalty

(* A mean of two scores by percents is a score.                             *)
LEMMA BlendIsScore ==
    ASSUME NEW a \in Nat, NEW b \in Nat, NEW w \in {0, 25, 50}
    PROVE  Blend(a, b, w) \in Nat
BY SMT DEF Blend

LEMMA BasisIsKnown ==
    ASSUME FitTypes, NEW phase \in Phases, NEW group \in Groups
    PROVE  BasisScore(phase, group) \in Nat \cup {NoFit}
BY DEF FitTypes, PlayerRecords, OfPhases, BasisScore

(* Both ask for the same foot.                                              *)
LEMMA FeetAgree ==
    FitTypes => (FootMismatch <=> ~FootMatches) /\ (lane.foot = "any" => FootMatches)
BY DEF FitTypes, PlayerRecords, Lanes, FootMismatch, FootMatches

LEMMA BothFit == FitTypes => SearchShowsThePlannersScore
<1> SUFFICES ASSUME FitTypes, NEW group \in Groups
             PROVE  TacticExpression(group) = LaneFit(group)
  BY DEF SearchShowsThePlannersScore
<1> DEFINE fip == player.familiarity["ip"]
           foop == player.familiarity["oop"]
           ip == BasisScore("ip", group)
           oop == BasisScore("oop", group)
           none == \/ fip = NoFit \/ foop = NoFit \/ fip < 12 \/ foop < 12
                   \/ FootMismatch /\ lane.preference = "strict"
                   \/ ip = NoFit \/ oop = NoFit
           left == Blend(ip, oop, lane.weight) - SqlPenalty
<1>1. fip \in Nat \cup {NoFit} /\ foop \in Nat \cup {NoFit} /\ NoFit \notin Int
  BY PlayersAssumption DEF FitTypes, PlayerRecords, OfPhases, Phases
<1>2. ip \in Nat \cup {NoFit} /\ oop \in Nat \cup {NoFit} /\ lane.weight \in {0, 25, 50}
  BY BasisIsKnown DEF FitTypes, Lanes, Phases
<1>3. (FootMismatch <=> ~FootMatches) /\ (lane.foot = "any" => FootMatches)
  BY FeetAgree
<1>4. TacticExpression(group) =
          IF none THEN NoFit ELSE IF left < 0 THEN 0 ELSE left
  <2>1. TacticExpression(group) =
            CASE fip = NoFit \/ foop = NoFit -> NoFit
              [] (fip # NoFit /\ fip < 12) \/ (foop # NoFit /\ foop < 12) -> NoFit
              [] lane.foot # "any" /\ FootMismatch /\ lane.preference = "strict" -> NoFit
              [] ip = NoFit \/ oop = NoFit -> NoFit
              [] OTHER -> IF left < 0 THEN 0 ELSE left
    BY DEF TacticExpression, Phases
  <2> HIDE DEF ip, oop, left
  <2>2. QED
    BY <1>1, <1>2, <1>3, <2>1
<1>5. LaneFit(group) =
          IF none THEN NoFit
          ELSE Adjusted(Blend(ip, oop, lane.weight),
                        (IF FootMatches THEN 0 ELSE 5) + Penalty("ip") + Penalty("oop"))
  BY <1>1, <1>3 DEF LaneFit, Suitable
<1>6. CASE none
  BY <1>4, <1>5, <1>6
<1>7. CASE ~none
  <2>1. ip \in Nat /\ oop \in Nat
    BY <1>2, <1>7
  <2>2. Blend(ip, oop, lane.weight) \in Nat
    BY <1>2, <2>1, BlendIsScore
  <2>3. SqlPenalty = (IF FootMatches THEN 0 ELSE 5) + Penalty("ip") + Penalty("oop")
    BY <1>3, PenaltyIsCount, PenaltyIsNat
  <2> HIDE DEF ip, oop, none
  <2>4. QED
    BY <1>3, <1>4, <1>5, <1>7, <2>2, <2>3, PenaltyIsNat DEF Adjusted
<1>8. QED
  BY <1>6, <1>7

(* The search shows the planner's score of any player in any lane, whatever *)
(* his ages, scores and familiarities (query.rs:757, planner/fit.rs).       *)
THEOREM TacticScoresAgree == FitSpec => []SearchShowsThePlannersScore
<1>1. FitInit => FitTypes
  BY PlayersAssumption DEF FitInit, FitTypes
<1>2. FitTypes /\ [FitNext]_fitVars => FitTypes'
  BY DEF FitTypes, FitNext, OneYearOlder, fitVars, PlayerRecords
<1>3. QED
  BY <1>1, <1>2, BothFit, PTL DEF FitSpec

(* What a search shows is true: its pages and the tactic score in them.     *)
THEOREM SearchesAreTrue == SearchSpec /\ FitSpec => []SearchIsTrue
BY PagesShowTheSearch, TacticScoresAgree, PTL DEF SearchIsTrue
=============================================================================
