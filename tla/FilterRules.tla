----------------------------- MODULE FilterRules -----------------------------
(***************************************************************************)
(* The filter rules of the player and staff searches, from the editor to   *)
(* the rows: a rule is typed in a view, kept in the address of the page    *)
(* without its type, read again by the field's kind, sent as JSON, checked *)
(* again and compiled to a clause with a numbered parameter, and evaluated *)
(* by SQLite.  The window and the program each have a list of fields and   *)
(* of what they take.                                                      *)
(***************************************************************************)
EXTENDS Integers, Sequences, SequencesExt, FiniteSetsExt

CONSTANTS Addresses, \* what the filters of an address may be
          Edited,    \* those that are worked on
          TypedIn,   \* what may be typed or chosen as a value
          People,    \* who there is to find, by uid
          Missing,   \* NULL
          MaxRules,  \* MAX_FILTER_RULES
          MaxEdits   \* bound of the model

(* The view whose page is open, the filters and the combination in its      *)
(* address, the rules in the editor, and those that were last applied.      *)
VARIABLES viewed, address, joinedBy, editor, appliedRules, edits

filterVars == <<viewed, address, joinedBy, editor, appliedRules, edits>>

Shut == [open |-> FALSE, rules |-> <<>>]
Working(list) == [open |-> TRUE, rules |-> list]
Untouched == [known |-> FALSE, rules |-> <<>>]
Refusal == [refused |-> TRUE, rows |-> {}]
Found(rows) == [refused |-> FALSE, rows |-> rows]

(* Numbers are counted in halves: an odd one has a fraction.  From Beyond on*)
(* they are outside of i64.                                                 *)
Beyond == 1000
IsWhole(n) == n % 2 = 0 /\ n < Beyond

TextOps == <<"contains", "not_contains", "is", "is_not">>
NumberOps == <<"gt", "lt", "eq", "neq">>
ChoiceOps == <<"is", "is_not">>

(* Texts are sequences of characters.                                       *)
PositionKeys == <<<<"m", "c">>, <<"a", "m", "c">>>>
Sides == <<<<"l">>, <<"r">>>>

StaffScopes == {"staff", "my-staff", "shortlist", "job"}

-----------------------------------------------------------------------------
(* The window's fields: their kinds, operators and options.                 *)

TextField == [kind |-> "string", ops |-> TextOps, options |-> <<>>]
IntegerField == [kind |-> "integer", ops |-> NumberOps, options |-> <<>>]
NumberField == [kind |-> "number", ops |-> NumberOps, options |-> <<>>]
YesNoField == [kind |-> "boolean", ops |-> ChoiceOps, options |-> <<>>]
ChoiceField(options) == [kind |-> "enum", ops |-> ChoiceOps, options |-> options]

GeneralFields ==
    [club |-> TextField, nationality |-> TextField, age |-> IntegerField, ca |-> IntegerField,
     transfer_listed |-> YesNoField, preferred_foot |-> ChoiceField(Sides),
     position |-> ChoiceField(PositionKeys), club_dna |-> IntegerField, role |-> IntegerField]
MoneyballFields ==
    [club |-> TextField, nationality |-> TextField, age |-> IntegerField,
     preferred_foot |-> ChoiceField(Sides), position |-> TextField, starts |-> IntegerField,
     shots |-> IntegerField, rating |-> NumberField, moneyball_role |-> IntegerField]
StaffFields ==
    [club |-> TextField, nationality |-> TextField, age |-> IntegerField,
     ca |-> IntegerField, role |-> IntegerField]

FieldsOf(view) ==
    CASE view = "general" -> GeneralFields
      [] view = "moneyball" -> MoneyballFields
      [] view \in StaffScopes -> StaffFields

TypeOf == [string |-> "text", enum |-> "text", integer |-> "integer",
           number |-> "number", boolean |-> "bool"]

DefaultValue(field) ==
    CASE field.kind = "string" -> <<>>
      [] field.kind \in {"integer", "number"} -> 0
      [] field.kind = "boolean" -> TRUE
      [] field.kind = "enum" -> Head(field.options)

RuleFor(view, id) ==
    LET field == FieldsOf(view)[id]
    IN  [field |-> id, op |-> Head(field.ops),
         value |-> [type |-> TypeOf[field.kind], value |-> DefaultValue(field)]]

DefaultFieldOf(view) == IF view = "moneyball" THEN "rating" ELSE "ca"

(* isFilterRuleComplete, isStaffFilterRuleComplete.                         *)
IsComplete(view, rule) ==
    /\ rule.field \in DOMAIN FieldsOf(view)
    /\ LET field == FieldsOf(view)[rule.field]
           text == rule.value.value
       IN  /\ rule.op \in ToSet(field.ops)
           /\ rule.value.type = TypeOf[field.kind]
           /\ field.kind = "string" => \E i \in DOMAIN text : text[i] # " "
           /\ field.kind = "enum" => text \in ToSet(field.options)

CompleteRules(view, list) == SelectSeq(list, LAMBDA rule : IsComplete(view, rule))

-----------------------------------------------------------------------------
(* The address.  It has the value as it is in JavaScript; an older address  *)
(* may still have it with its type.                                         *)

JsOf == [text |-> "string", integer |-> "number", number |-> "number", bool |-> "boolean"]
Raw(value) == [js |-> JsOf[value.type], type |-> "none", value |-> value.value]

(* Mutant: the last rule that fits is cut off.                              *)
RulesBelow(list) == SubSeq(list, 1, Min({Len(list), MaxRules - 1}))

FirstRules(list) == SubSeq(list, 1, Min({Len(list), MaxRules}))

(* searchFiltersForUrl.                                                     *)
ForAddress(list) ==
    LET kept == FirstRules(list)
    IN  [i \in DOMAIN kept |->
            [field |-> kept[i].field, op |-> kept[i].op, value |-> Raw(kept[i].value)]]

(* valueFromRaw: does a field of this kind take it?                         *)
ReadsAs(kind, raw) ==
    IF raw.js = "typed" THEN raw.type = TypeOf[kind] ELSE raw.js = JsOf[TypeOf[kind]]

(* parseSearchFilters, parseStaffFilters: what the view cannot read is left *)
(* out.  An option is not looked up here.                                   *)
ReadFrom(view, list) ==
    LET fields == FieldsOf(view)
        readable == SelectSeq(list, LAMBDA entry :
                        /\ entry.field \in DOMAIN fields
                        /\ entry.op \in ToSet(fields[entry.field].ops)
                        /\ ReadsAs(fields[entry.field].kind, entry.value))
        kept == FirstRules(readable)
    IN  [i \in DOMAIN kept |->
            [field |-> kept[i].field, op |-> kept[i].op,
             value |-> [type |-> TypeOf[fields[kept[i].field].kind],
                        value |-> kept[i].value.value]]]

(* validateSearch rewrites the filters, and the page reads what it wrote.   *)
RulesShown == ReadFrom(viewed, ForAddress(ReadFrom(viewed, address)))

-----------------------------------------------------------------------------
(* The rules as the program gets them, and its own fields.                  *)

(* filter_value_from_json.                                                  *)
FromJson(value) ==
    [is |-> CASE value.type = "text" -> "Text"
              [] value.type = "bool" -> "Bool"
              [] OTHER -> IF IsWhole(value.value) THEN "Integer" ELSE "Real",
     v |-> value.value]

(* resolve_field.                                                           *)
GeneralKinds ==
    [club |-> "string", nationality |-> "list", age |-> "integer", ca |-> "integer",
     transfer_listed |-> "boolean", preferred_foot |-> "enum", position |-> "presence",
     club_dna |-> "dna", role |-> "integer"]
MoneyballKinds ==
    [club |-> "string", nationality |-> "list", age |-> "integer", preferred_foot |-> "enum",
     position |-> "presence", starts |-> "integer", shots |-> "real", rating |-> "real",
     moneyball_role |-> "role"]
StaffKinds ==
    [club |-> "string", nationality |-> "list", age |-> "integer", ca |-> "integer",
     role |-> "integer"]

KindsOf(view) ==
    CASE view = "general" -> GeneralKinds
      [] view = "moneyball" -> MoneyballKinds
      [] view \in StaffScopes -> StaffKinds

OpsOfKind(kind) ==
    CASE kind \in {"string", "list", "presence"} -> ToSet(TextOps)
      [] kind \in {"boolean", "enum"} -> ToSet(ChoiceOps)
      [] OTHER -> ToSet(NumberOps)

(* COLLATE NOCASE, and eq_ignore_ascii_case.                                *)
Lower == "A" :> "a" @@ "B" :> "b" @@ "M" :> "m"
Folded(text) == [i \in DOMAIN text |-> IF text[i] \in DOMAIN Lower THEN Lower[text[i]] ELSE text[i]]

(* value_as_text, value_as_integer and so on: what a value is taken as, or  *)
(* nothing if it is not of the kind.  The staff search takes no text for a  *)
(* number.                                                                  *)
Numerals == (<<"2">> :> 4)
TakenAs(view, kind, value) ==
    LET text == IF value.is = "Text" THEN {value.v} ELSE {}
        spelt == IF view \in StaffScopes THEN {}
                 ELSE {Numerals[t] : t \in text \cap DOMAIN Numerals}
    IN  CASE kind \in {"string", "list"} -> text
          [] kind = "enum" -> text \cap ToSet(Sides)
          [] kind = "presence" ->
                {k \in ToSet(PositionKeys) : \E t \in text : Folded(k) = Folded(t)}
          [] kind = "boolean" -> IF value.is = "Bool" THEN {value.v} ELSE {}
          [] kind = "real" -> spelt \cup IF value.is \in {"Integer", "Real"} THEN {value.v} ELSE {}
          [] OTHER -> spelt \cup IF value.is = "Integer" THEN {value.v} ELSE {}

-----------------------------------------------------------------------------
(* The SQL: a clause names its parameter by number.                         *)

(* Mutant: what was typed goes into the pattern as it is.                   *)
Unescaped(text) == text

(* escape_like.                                                             *)
Escaped(text) ==
    FlattenSeq([i \in DOMAIN text |->
        IF text[i] \in {"\\", "%", "_"} THEN <<"\\", text[i]>> ELSE <<text[i]>>])

Bound(kind, op, operand) ==
    IF kind \in {"string", "list"} /\ op \in {"contains", "not_contains"}
    THEN <<"%">> \o Escaped(operand) \o <<"%">> ELSE operand

(* compile_filters: the rules are compiled one after the other, and the next*)
(* number goes along.  A position is written into its clause: the clause    *)
(* has no parameter.                                                        *)
CompileRule(view, compiled, rule) ==
    LET kind == KindsOf(view)[rule.field]
        operands == TakenAs(view, kind, FromJson(rule.value))
        operand == CHOOSE v \in operands : TRUE
        clause == [kind |-> kind, of |-> rule.field, op |-> rule.op]
    IN  IF operands = {} \/ rule.op \notin OpsOfKind(kind)
        THEN [compiled EXCEPT !.refused = TRUE]
        ELSE IF kind = "presence"
        THEN [compiled EXCEPT !.clauses = Append(@, clause @@ "key" :> operand)]
        ELSE [compiled EXCEPT
                !.clauses = Append(@, clause @@ "at" :> compiled.next),
                !.params = Append(@, Bound(kind, rule.op, operand)),
                !.next = @ + 1]

Compile(view, list, start) ==
    FoldLeft(LAMBDA compiled, rule : CompileRule(view, compiled, rule),
             [refused |-> FALSE, clauses |-> <<>>, params |-> <<>>, next |-> start], list)

AsksForDna(list) == \E i \in DOMAIN list : list[i].field = "club_dna"

(* The parameters before those of the rules: the snapshot, then the identity*)
(* of the Club DNA scores, or the save, twice on a shortlist of one's own.  *)
CurrentDna == <<7, 1>>
FirstBinds(view, list) ==
    CASE view = "general" /\ AsksForDna(list) -> <<1>> \o CurrentDna
      [] view \in {"my-staff", "shortlist"} -> <<1, 5>>
      [] view = "job" -> <<1, 5, <<"j">>>>
      [] OTHER -> <<1>>

(* The number the query gives the first of them.                            *)
StartOf(view, list) ==
    CASE view = "general" /\ AsksForDna(list) -> 4
      [] view = "my-staff" -> 3
      [] view \in StaffScopes \ {"my-staff"} ->
            2 + (IF view \in {"shortlist", "job"} THEN 1 ELSE 0) + (IF view = "job" THEN 1 ELSE 0)
      [] OTHER -> 2

(* SQLite's LIKE with an escape.                                            *)
RECURSIVE Like(_, _)
Like(pattern, text) ==
    CASE pattern = <<>> -> text = <<>>
      [] pattern # <<>> /\ Head(pattern) = "%" ->
            \E n \in 0..Len(text) : Like(Tail(pattern), SubSeq(text, n + 1, Len(text)))
      [] Len(pattern) > 1 /\ Head(pattern) = "\\" ->
            /\ text # <<>> /\ Folded(<<pattern[2]>>) = Folded(<<Head(text)>>)
            /\ Like(SubSeq(pattern, 3, Len(pattern)), Tail(text))
      [] OTHER ->
            /\ text # <<>>
            /\ Head(pattern) = "_" \/ Folded(<<Head(pattern)>>) = Folded(<<Head(text)>>)
            /\ Like(Tail(pattern), Tail(text))

Compares(a, op, b) ==
    CASE op = "gt" -> a > b [] op = "lt" -> a < b [] op = "eq" -> a = b [] op = "neq" -> a # b

TextHolds(text, op, bound) ==
    CASE op = "contains" -> Like(bound, text)
      [] op = "not_contains" -> ~Like(bound, text)
      [] op = "is" -> Folded(text) = Folded(bound)
      [] op = "is_not" -> Folded(text) # Folded(bound)

(* Mutant: json_type of a missing key is NULL, and so is its negation.      *)
PresenceOrNull(person, clause) ==
    LET known == person.position # Missing /\ clause.key \in DOMAIN person.position
    IN  known /\ ((person.position[clause.key] > 0) <=> clause.op \in {"is", "contains"})

(* COALESCE(... AND familiarity > 0, 0), or its negation.                   *)
PresenceHolds(person, clause) ==
    LET positive == /\ person.position # Missing
                    /\ clause.key \in DOMAIN person.position
                    /\ person.position[clause.key] > 0
    IN  positive <=> clause.op \in {"is", "contains"}

(* Whether a clause is true of a row.  NULL is as good as false: clauses are*)
(* only joined by AND and OR.                                               *)
ClauseHolds(person, clause, bound) ==
    LET value == person[clause.of]
        parameter == bound[clause.at]
        without == IF clause.op = "not_contains" THEN "contains" ELSE "is"
    IN  CASE clause.kind = "string" -> value # Missing /\ TextHolds(value, clause.op, parameter)
          [] clause.kind = "list" /\ clause.op \in {"contains", "is"} ->
                \E n \in value : TextHolds(n, clause.op, parameter)
          [] clause.kind = "list" /\ clause.op \in {"not_contains", "is_not"} ->
                ~\E n \in value : TextHolds(n, without, parameter)
          [] clause.kind \in {"boolean", "enum"} ->
                value # Missing /\ ((value = parameter) <=> clause.op = "is")
          [] clause.kind = "presence" -> PresenceHolds(person, clause)
          [] clause.kind = "dna" ->
                /\ value # Missing /\ value.of = <<bound[2], bound[3]>>
                /\ Compares(value.score, clause.op, parameter)
          [] OTHER -> value # Missing /\ Compares(value, clause.op, parameter)

Joins(combine, list, Holds(_)) ==
    IF combine = "and" THEN \A i \in DOMAIN list : Holds(list[i])
    ELSE \E i \in DOMAIN list : Holds(list[i])

(* An empty filter leaves nobody out.                                       *)
RowsOf(view, combine, list) ==
    LET compiled == Compile(view, list, StartOf(view, list))
        bound == FirstBinds(view, list) \o compiled.params
    IN  IF compiled.refused THEN Refusal
        ELSE Found({u \in DOMAIN People : list = <<>> \/
                       Joins(combine, compiled.clauses, LAMBDA c : ClauseHolds(People[u], c, bound))})

-----------------------------------------------------------------------------
(* Rules on Moneyball roles are left to the program: see Search.  One with a*)
(* number it does not take is met as soon as there is somebody to score.    *)

RoleRulesIn(list) == SelectSeq(list, LAMBDA rule : rule.field = "moneyball_role")
OtherRulesIn(list) == SelectSeq(list, LAMBDA rule : rule.field # "moneyball_role")

ScoreMatches(u, rule) ==
    /\ People[u].moneyball_role # Missing
    /\ Compares(People[u].moneyball_role, rule.op, rule.value.value)

SearchWithRoles(combine, list) ==
    LET by == RowsOf("moneyball", combine, OtherRulesIn(list))
        mixed == combine = "or"
        candidates == IF mixed THEN DOMAIN People ELSE by.rows
        matched == {u \in candidates :
                       Joins(combine, RoleRulesIn(list), LAMBDA r : ScoreMatches(u, r))}
        unreadable == \E i \in DOMAIN RoleRulesIn(list) :
                         FromJson(RoleRulesIn(list)[i].value).is # "Integer"
    IN  IF by.refused \/ (unreadable /\ candidates # {}) THEN Refusal
        ELSE Found(IF mixed /\ OtherRulesIn(list) # <<>> THEN by.rows \cup matched ELSE matched)

(* The staff search has the same clauses.  It takes no number that is not   *)
(* whole, whatever the field.                                               *)
StaffSearch(view, combine, list) ==
    IF \E i \in DOMAIN list : FromJson(list[i].value).is \notin {"Text", "Integer"}
    THEN Refusal ELSE RowsOf(view, combine, list)

(* The complete rules are sent.                                             *)
Reply ==
    LET sent == CompleteRules(viewed, RulesShown)
    IN  CASE viewed = "moneyball" /\ RoleRulesIn(sent) # <<>> -> SearchWithRoles(joinedBy, sent)
          [] viewed \in StaffScopes -> StaffSearch(viewed, joinedBy, sent)
          [] OTHER -> RowsOf(viewed, joinedBy, sent)

-----------------------------------------------------------------------------
FilterInit ==
    /\ viewed \in {"general", "moneyball"} \cup StaffScopes
    /\ address \in Addresses
    /\ joinedBy \in {"and", "or"}
    /\ editor = Shut
    /\ appliedRules = Untouched
    /\ edits = IF address \in Edited THEN 0 ELSE MaxEdits

Edit ==
    /\ edits < MaxEdits
    /\ edits' = edits + 1

OpenEditor ==
    /\ ~editor.open
    /\ Edit
    /\ editor' = Working(RulesShown)
    /\ UNCHANGED <<viewed, address, joinedBy, appliedRules>>

Drafted(list) ==
    /\ editor.open
    /\ Edit
    /\ editor' = Working(list)
    /\ UNCHANGED <<viewed, address, joinedBy, appliedRules>>

AddRule ==
    /\ editor.open
    /\ Len(editor.rules) < MaxRules
    /\ Drafted(Append(editor.rules, RuleFor(viewed, DefaultFieldOf(viewed))))

ChangeField ==
    /\ editor.open
    /\ \E i \in DOMAIN editor.rules, id \in DOMAIN FieldsOf(viewed) :
          Drafted([editor.rules EXCEPT ![i] = RuleFor(viewed, id)])

ChangeOperator ==
    /\ editor.open
    /\ \E i \in DOMAIN editor.rules : \E op \in ToSet(FieldsOf(viewed)[editor.rules[i].field].ops) :
          Drafted([editor.rules EXCEPT ![i].op = op])

(* An integer is read with parseInt: it has no fraction, but may be beyond  *)
(* i64.                                                                     *)
ChangeValue ==
    /\ editor.open
    /\ \E i \in DOMAIN editor.rules :
          LET field == FieldsOf(viewed)[editor.rules[i].field]
          IN  \E v \in IF field.kind = "enum" THEN ToSet(field.options) ELSE TypedIn[field.kind] :
                 Drafted([editor.rules EXCEPT ![i].value = [type |-> TypeOf[field.kind], value |-> v]])

RemoveRule ==
    /\ editor.open
    /\ \E i \in DOMAIN editor.rules : Drafted(RemoveAt(editor.rules, i))

(* The address the page is sent to, replacing the one it has.               *)
Navigate(list, combine) ==
    /\ address' = ForAddress(list)
    /\ joinedBy' = combine
    /\ appliedRules' = [known |-> TRUE, rules |-> list]
    /\ Edit
    /\ UNCHANGED viewed

(* Done, with every rule complete.                                          *)
ApplyRules ==
    /\ editor.open
    /\ \A i \in DOMAIN editor.rules : IsComplete(viewed, editor.rules[i])
    /\ \E combine \in {"and", "or"} : Navigate(editor.rules, combine)
    /\ editor' = Shut

(* The cross of a chip: only complete rules have one.                       *)
RemoveChip ==
    /\ ~editor.open
    /\ \E i \in DOMAIN RulesShown :
          /\ IsComplete(viewed, RulesShown[i])
          /\ Navigate(RemoveAt(RulesShown, i), joinedBy)
    /\ UNCHANGED editor

ClearRules ==
    /\ ~editor.open
    /\ CompleteRules(viewed, RulesShown) # <<>>
    /\ Navigate(<<>>, joinedBy)
    /\ UNCHANGED editor

(* The draft is thrown away.                                                *)
DismissEditor ==
    /\ editor.open
    /\ Edit
    /\ editor' = Shut
    /\ UNCHANGED <<viewed, address, joinedBy, appliedRules>>

(* The preferred view changes and the page is visited again: the address is *)
(* read in the other view.                                                  *)
ShowOtherView ==
    /\ viewed \in {"general", "moneyball"}
    /\ ~editor.open
    /\ Edit
    /\ viewed' = IF viewed = "general" THEN "moneyball" ELSE "general"
    /\ appliedRules' = Untouched
    /\ UNCHANGED <<address, joinedBy, editor>>

FilterNext ==
    \/ OpenEditor \/ AddRule \/ ChangeField \/ ChangeOperator \/ ChangeValue
    \/ RemoveRule \/ ApplyRules \/ DismissEditor \/ RemoveChip \/ ClearRules
    \/ ShowOtherView

-----------------------------------------------------------------------------
(* What the labels say.                                                     *)

Within(part, text) ==
    \E i \in 0..(Len(text) - Len(part)) : Folded(SubSeq(text, i + 1, i + Len(part))) = Folded(part)

(* A text that is not known is neither like another nor unlike it, but      *)
(* somebody without a nationality has none that contains it, and somebody   *)
(* whose positions are not known plays none.                                *)
Says(person, rule) ==
    LET known == person[rule.field]
        wanted == rule.value.value
        Matches(text) == IF rule.op \in {"contains", "not_contains"} THEN Within(wanted, text)
                         ELSE Folded(wanted) = Folded(text)
        denied == rule.op \in {"not_contains", "is_not"}
    IN  CASE rule.field = "club" -> known # Missing /\ (Matches(known) # denied)
          [] rule.field = "nationality" -> (\E n \in known : Matches(n)) # denied
          [] rule.field = "position" ->
                (known # Missing /\ \E key \in DOMAIN known :
                     Folded(key) = Folded(wanted) /\ known[key] > 0) # denied
          [] rule.field = "club_dna" ->
                /\ known # Missing /\ known.of = CurrentDna
                /\ Compares(known.score, rule.op, wanted)
          [] rule.field \in {"transfer_listed", "preferred_foot"} ->
                known # Missing /\ ((known = wanted) # denied)
          [] OTHER -> known # Missing /\ Compares(known, rule.op, wanted)

(* The two rules the window lets through and the program does not take: a   *)
(* number in a whole field that is none or too big, and a Moneyball position*)
(* that does not exist.                                                     *)
IsBeyondTheProgram(rule) ==
    \/ /\ rule.value.type \in {"integer", "number"}
       /\ rule.field \notin {"shots", "rating"}
       /\ ~IsWhole(rule.value.value)
    \/ /\ viewed = "moneyball" /\ rule.field = "position"
       /\ ~\E key \in ToSet(PositionKeys) : Folded(key) = Folded(rule.value.value)

(* The window and the program agree on every rule: what the window sends is *)
(* compiled, but for the two rules above, and lets through exactly whom the *)
(* labels of the rules name, whatever comes before it among the parameters, *)
(* whatever the text and whatever a person lacks (filter.rs:422,            *)
(* filter-registry.ts:79).                                                  *)
RulesSayWhomTheyFind ==
    LET sent == CompleteRules(viewed, RulesShown)
    IN  IF \E i \in DOMAIN sent : IsBeyondTheProgram(sent[i])
        THEN Reply = Refusal \/ Reply = Found({})
        ELSE Reply = Found({u \in DOMAIN People :
                        sent = <<>> \/ Joins(joinedBy, sent, LAMBDA r : Says(People[u], r))})

(* The address has the rules without their types, and the page reads them   *)
(* back as they were applied (search-url-search.ts:158).                    *)
AppliedRulesAreShown == appliedRules.known => RulesShown = appliedRules.rules

(* The rules find whom they name and stay as they were applied.             *)
RulesAreTrue == RulesSayWhomTheyFind /\ AppliedRulesAreShown
=============================================================================
