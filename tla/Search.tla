-------------------------------- MODULE Search --------------------------------
(***************************************************************************)
(* The player search (search_players_in_view and search_players_with_roles)*)
(* and a reader who goes through its pages.  A search without Moneyball    *)
(* roles is one SQL query; with them the rules are split: SQL picks the    *)
(* candidates, percentiles and role scores are computed from them, and the *)
(* rules on roles, the order and the page follow in Rust.                  *)
(***************************************************************************)
EXTENDS Integers, Sequences, SequencesExt, FiniteSetsExt

CONSTANTS Worlds,   \* what the database may hold
          Requests, \* what may be asked
          MaxPage,  \* MAX_PAGE_LIMIT
          NoValue   \* NULL

ASSUME ValuesAssumption == MaxPage \in Nat \ {0} /\ NoValue \notin Int

(* A world: whether there is a current snapshot, its players with a plain   *)
(* column each, the statistics of those who were imported, the shortlist.   *)
VARIABLES world, request,
          offset, \* where the next page begins
          shown,  \* uids of the pages so far
          answer  \* the last page

searchVars == <<world, request, offset, shown, answer>>

(* Statistics, those for which lower is better, and the role: the weights   *)
(* of its metrics.                                                          *)
Statistics == {"tackles", "errors"}
LowerIsBetter == {"errors"}
Weights == [tackles |-> 2, errors |-> 1]

SqlValues == Int \cup {NoValue}
ColumnsOf == [general |-> {"plain"}, moneyball |-> {"plain"} \cup Statistics]

(* Who was imported is in the snapshot (moneyball_stats joins the players). *)
ASSUME WorldsAssumption ==
    \A w \in Worlds :
        /\ IsFiniteSet(DOMAIN w.plain) /\ DOMAIN w.plain \subseteq Int
        /\ DOMAIN w.stats \subseteq DOMAIN w.plain
        /\ \A u \in DOMAIN w.plain : w.plain[u] \in SqlValues
        /\ \A u \in DOMAIN w.stats, k \in Statistics : w.stats[u][k] \in SqlValues

(* A view has its own columns to filter and sort by, besides the role.      *)
ASSUME RequestsAssumption ==
    \A r \in Requests :
        /\ r.view \in DOMAIN ColumnsOf /\ r.limit \in Int
        /\ r.sort \in ColumnsOf[r.view] \cup {"role"} /\ r.filter.combine \in {"and", "or"}
        /\ r.filter.rules \in Seq([field : ColumnsOf[r.view] \cup {"role"},
                                   op : {"gt", "lt", "eq", "neq"}, target : Int])

Rounded(a, b) == (2 * a + b) \div (2 * b)

(* percentile_score of a value in a population.                             *)
Percentile(population, stats, u, key) ==
    LET among == {p \in population : stats[p][key] # NoValue}
        below == Cardinality({p \in among : stats[p][key] < stats[u][key]})
        score == Rounded(100 * below, Cardinality(among) - 1)
    IN  IF stats[u][key] = NoValue THEN NoValue
        ELSE IF \A p, q \in among : stats[p][key] = stats[q][key] THEN 50
        ELSE IF key \in LowerIsBetter THEN 100 - score ELSE score

(* score_role: no score unless every metric has a percentile.               *)
RoleScore(percentiles) ==
    IF \E key \in Statistics : percentiles[key] = NoValue THEN NoValue
    ELSE Rounded(percentiles["tackles"] * Weights["tackles"]
                     + percentiles["errors"] * Weights["errors"],
                 Weights["tackles"] + Weights["errors"])

PercentilesIn(cohort) ==
    [u \in cohort |-> [k \in Statistics |-> Percentile(cohort, world.stats, u, k)]]

-----------------------------------------------------------------------------
(* Rules: a missing value satisfies none, not even "neq".                   *)

Satisfies(value, rule) ==
    /\ value # NoValue
    /\ CASE rule.op = "gt" -> value > rule.target
         [] rule.op = "lt" -> value < rule.target
         [] rule.op = "eq" -> value = rule.target
         [] rule.op = "neq" -> value # rule.target

IsRole(field) == field = "role"

(* What SQL reads in a column.                                              *)
Column(u, field) == IF field = "plain" THEN world.plain[u] ELSE world.stats[u][field]

Combined(combine, rules, Holds(_)) ==
    IF combine = "and" THEN \A r \in rules : Holds(r) ELSE \E r \in rules : Holds(r)

RulesOf(filter) == {filter.rules[i] : i \in DOMAIN filter.rules}
RoleRules(filter) == {r \in RulesOf(filter) : IsRole(r.field)}

(* compile_filters: a filter without rules lets everybody pass.             *)
SqlFilter(people, filter, rules) ==
    {u \in people : rules = {} \/ Combined(filter.combine, rules,
                                           LAMBDA r : Satisfies(Column(u, r.field), r))}

(* query.rs: imported players join their statistics, and a shortlist its    *)
(* players; what a shortlist has of other snapshots does not match.         *)
Joined == IF request.view = "moneyball" THEN DOMAIN world.stats
          ELSE IF request.shortlistOnly THEN world.shortlist \cap DOMAIN world.plain
          ELSE DOMAIN world.plain

UsesRole == \/ "role" \in request.columns
            \/ IsRole(request.sort)
            \/ RoleRules(request.filter) # {}

MixedOr == RoleRules(request.filter) # {} /\ request.filter.combine = "or"

OtherRules(filter) == RulesOf(filter) \ RoleRules(filter)

(* Mutant: a mixed filter is split as if all of its rules had to hold.      *)
ComparedByOtherRules == SqlFilter(Joined, request.filter, OtherRules(request.filter))

(* Who is scored, and with whom: a role may bring back anybody whom the     *)
(* other rules of an OR leave out.                                          *)
Compared ==
    IF MixedOr THEN Joined ELSE SqlFilter(Joined, request.filter, OtherRules(request.filter))

(* The percentiles of the whole file are stored, those of the people who    *)
(* are compared are computed.                                               *)
PercentilesShown ==
    PercentilesIn(IF request.pool = "file" THEN DOMAIN world.stats ELSE Compared)

RoleScoreOf(u) == RoleScore(PercentilesShown[u])

(* moneyball_role_rules_match, and the uids that the other rules match.     *)
RoleMatch(u) ==
    Combined(request.filter.combine, RoleRules(request.filter),
             LAMBDA r : Satisfies(RoleScoreOf(u), r))

ByOtherRules ==
    IF MixedOr /\ OtherRules(request.filter) # {}
    THEN SqlFilter(Joined, request.filter, OtherRules(request.filter)) ELSE {}

KeptRows == IF RoleRules(request.filter) = {} THEN Compared
        ELSE {u \in Compared : RoleMatch(u)} \cup ByOtherRules

-----------------------------------------------------------------------------
(* The order.  SQL sorts NULL before every value; a role is sorted in Rust, *)
(* which puts a missing score last in both directions.                      *)

KeyBefore(a, b) ==
    CASE a = b -> FALSE
      [] IsRole(request.sort) -> b = NoValue \/ (a # NoValue /\
             IF request.dir = "asc" THEN a < b ELSE a > b)
      [] ~IsRole(request.sort) /\ request.dir = "asc" ->
             a = NoValue \/ (b # NoValue /\ a < b)
      [] OTHER -> b = NoValue \/ (a # NoValue /\ a > b)

Key(u) == IF IsRole(request.sort) THEN RoleScoreOf(u) ELSE Column(u, request.sort)

(* Mutant: no uid in ORDER BY.                                              *)
BeforeByKey(u, v) == KeyBefore(Key(u), Key(v))

Before(u, v) == KeyBefore(Key(u), Key(v)) \/ (Key(u) = Key(v) /\ u < v)

(* The rows may come in any order that the comparison allows.               *)
Orders(found) ==
    LET before == {pair \in found \X found : Before(pair[1], pair[2])} IN
    {s \in SetToSeqs(found) : \A i, j \in DOMAIN s : i < j => <<s[j], s[i]>> \notin before}

Page(order, limit) ==
    [state |-> "ready", total |-> Len(order),
     uids |-> SubSeq(order, offset + 1,
                     IF offset + limit < Len(order) THEN offset + limit ELSE Len(order))]

Nobody(state) ==
    [state |-> state, total |-> 0, uids |-> <<>>]

Clamped(limit) == IF limit < 1 THEN 1 ELSE IF limit > MaxPage THEN MaxPage ELSE limit

(* search_players_in_view, which calls search_players_with_roles: roles are *)
(* refused outside the Moneyball view before anything is read.              *)
SearchPlayers ==
    CASE UsesRole /\ request.view = "general" -> {Nobody("error")}
      [] ~(UsesRole /\ request.view = "general") /\ ~world.current -> {Nobody("noCurrentSnapshot")}
      [] /\ ~UsesRole /\ world.current /\ world.shortlist = {}
         /\ request.view = "general" /\ request.shortlistOnly -> {Nobody("noShortlist")}
      [] OTHER -> {Page(order, Clamped(request.limit)) : order \in Orders(KeptRows)}

NoAnswer == Nobody("none")

SearchInit ==
    /\ world \in Worlds
    /\ request \in Requests
    /\ offset = 0
    /\ shown = <<>>
    /\ answer = NoAnswer

(* The reader asks for the next page while there is one.                    *)
AskNextPage ==
    /\ \/ answer = NoAnswer
       \/ answer.state = "ready" /\ offset < answer.total
    /\ answer' \in SearchPlayers
    /\ shown' = shown \o answer'.uids
    /\ offset' = offset + Len(answer'.uids)
    /\ UNCHANGED <<world, request>>

SearchNext == AskNextPage

SearchSpec == SearchInit /\ [][SearchNext]_searchVars

-----------------------------------------------------------------------------
AllShown == answer.state = "ready" /\ offset >= answer.total

(* The cohort that the documentation promises: the whole import for an OR  *)
(* with roles, and otherwise those whom the rules before the scores match.  *)
Cohort ==
    IF request.pool = "file" \/ MixedOr THEN DOMAIN world.stats
    ELSE {u \in DOMAIN world.stats :
             OtherRules(request.filter) = {} \/
             Combined(request.filter.combine, OtherRules(request.filter),
                      LAMBDA r : Satisfies(Column(u, r.field), r))}

ValueFor(u, field) ==
    IF ~IsRole(field) THEN Column(u, field)
    ELSE IF u \in Cohort THEN RoleScore(PercentilesIn(Cohort)[u]) ELSE NoValue

LetThrough(u) ==
    request.filter.rules = <<>> \/
    Combined(request.filter.combine, RulesOf(request.filter),
             LAMBDA r : Satisfies(ValueFor(u, r.field), r))

(* The pages together show exactly the players whom the filter, read as one *)
(* condition over columns and scores, lets pass, each once and in order,    *)
(* although its rules are split between SQL and Rust and every page is a    *)
(* query of its own (role filters run after scoring, an OR with roles uses  *)
(* the full import, a missing score is last, and totals and pages follow).  *)
PagesAreTheSearch ==
    AllShown =>
        /\ ToSet(shown) = {u \in Joined : LetThrough(u)}
        /\ Len(shown) = Cardinality(ToSet(shown))
        /\ answer.total = Len(shown)
        /\ \A i, j \in DOMAIN shown :
               LET a == ValueFor(shown[i], request.sort)
                   b == ValueFor(shown[j], request.sort)
               IN  i < j /\ a # NoValue /\ b # NoValue =>
                       IF request.dir = "asc" THEN a <= b ELSE a >= b
        /\ IsRole(request.sort) =>
               \A i, j \in DOMAIN shown :
                   i < j /\ ValueFor(shown[i], "role") = NoValue =>
                       ValueFor(shown[j], "role") = NoValue
=============================================================================
