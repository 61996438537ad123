----------------------------- MODULE DumpFields -----------------------------
(***************************************************************************)
(* What a dump may say in each of its fields.  The plugin writes it, in    *)
(* one language; the app validates it, reads it a second time by rules of  *)
(* its own, computes scores from it, and stores it in tables with          *)
(* constraints of their own.  Four lists of the same fields in four files. *)
(*                                                                         *)
(* A value is its kind.  A document has the shape of its lists, and one    *)
(* field that is looked at; what the others say does not matter to it.     *)
(***************************************************************************)
EXTENDS Integers, Sequences

CONSTANT Shapes \* the shapes of documents

ASSUME ShapesAssumption ==
    \A s \in Shapes : s.players \in Seq(Nat) /\ s.staff \in Seq(Nat)

VARIABLES
    dumped,  \* a document: its shape, and the field that is looked at with its kind
    progress \* how far it is: read, valid, prepared, scored, stored, refused, failed

fieldVars == <<dumped, progress>>

-----------------------------------------------------------------------------
(* Kinds of values: "rating" is 1 to 20, "large" more than that, and "huge" *)
(* more than an i64 but not than a u64; a "word" is one of a closed list,   *)
(* a "date" a canonical one, "blank" a text of spaces.                      *)
Natural == {"zero", "rating", "large"}
Whole == Natural \cup {"negative"}
Numbers == Whole \cup {"huge", "fraction"}
Flags == {"true", "false"}
Words == {"text", "word", "date"}
Texts == Words \cup {"blank"}
Kinds == {"missing", "null", "list", "map"} \cup Numbers \cup Flags \cup Texts
Present == Kinds \ {"missing"}
OrNull(kinds) == kinds \cup {"null"}
OrAbsent(kinds) == kinds \cup {"null", "missing"}

(* The fields of one kind of record that are treated alike.                 *)
PlayerNumbers == {"age", "heightCm", "weeklyWageGbp", "contractExpiryYear",
                  "contractExpiryDayOfYear", "marketValueGbp", "clubReputation", "teamType",
                  "reputation.current", "reputation.world"}
PlayerFlags == {"transferListed", "loanListed", "notForSale", "setForRelease", "onLoan"}
PlayerTexts == {"currentClub", "parentClub", "division", "teamLevel"}
PlayerRatings == {"attributes", "hiddenAttributes", "personality"} \* any entry of the map
StaffNumbers == {"age", "birthYear", "birthDayOfYear", "jobId", "weeklyWageGbp",
                 "contractExpiryYear", "contractExpiryDayOfYear"}
DumpTexts == {"gameVersion", "supportedGameVersion", "bridgeVersion"}
DumpWords == {"gameDateSource", "gameDateBasis", "playerDatabaseScope"}

Fields ==
    [player |-> {"uid", "ca", "pa", "name", "preferredFoot", "birthYear", "birthDayOfYear",
                 "nationalities", "gender", "positions", "nationUid", "currentClubUid", "parentClubUid"}
                    \cup PlayerRatings \cup PlayerNumbers \cup PlayerFlags \cup PlayerTexts,
     staff |-> {"uid", "ca", "pa", "name", "nationalities", "gender", "attributes",
                "club", "division", "nationUid", "clubUid"} \cup StaffNumbers,
     manager |-> {"uid", "name", "club", "clubUid", "clubReputation"},
     dump |-> {"generatedAtUtc", "gameDate"} \cup DumpTexts \cup DumpWords]

-----------------------------------------------------------------------------
(* The plugin: what its readers let through, by record.                     *)
Ratings == OrNull({"rating"})
Identifiers == {"rating", "large"}
Amounts == OrNull(Natural)
Familiarity == OrNull({"zero", "rating"})

WrittenOfPlayer(f) ==
    CASE f = "uid" -> Identifiers
      [] f \in {"ca", "pa"} -> Natural
      [] f \in {"name", "preferredFoot"} -> Words
      [] f \in {"birthYear", "birthDayOfYear"} -> Identifiers
      [] f = "nationalities" -> {"list"}
      [] f = "gender" -> {"word"}
      [] f = "positions" -> Familiarity
      [] f \in PlayerRatings -> Ratings
      [] f \in PlayerNumbers -> Amounts
      [] f \in PlayerFlags -> OrNull(Flags)
      [] f \in PlayerTexts -> OrNull(Words)
      [] f \in {"nationUid", "currentClubUid", "parentClubUid"} -> OrNull(Identifiers)

WrittenOfStaff(f) ==
    CASE f = "uid" -> Identifiers
      [] f \in {"ca", "pa"} -> Natural
      [] f = "nationalities" -> {"list"}
      [] f = "gender" -> {"word"}
      [] f = "attributes" -> Ratings
      [] f \in StaffNumbers -> Amounts
      [] f \in {"name", "club", "division"} -> OrNull(Words)
      [] f \in {"nationUid", "clubUid"} -> OrNull(Identifiers)

WrittenOfManager(f) ==
    CASE f = "uid" -> Identifiers
      [] f = "name" -> Words
      [] f = "club" -> OrNull(Words)
      [] f = "clubUid" -> OrNull(Identifiers)
      [] f = "clubReputation" -> Amounts

WrittenOfDump(f) ==
    CASE f \in DumpTexts -> Words
      [] f \in DumpWords -> {"word"}
      [] f = "generatedAtUtc" -> {"text"}
      [] f = "gameDate" -> OrNull({"date"})

Written(entity, f) ==
    CASE entity = "player" -> WrittenOfPlayer(f) [] entity = "staff" -> WrittenOfStaff(f)
      [] entity = "manager" -> WrittenOfManager(f) [] entity = "dump" -> WrittenOfDump(f)

(* The shape of what is written: the pipeline has players, and no UID twice *)
(* (DumpIsAccepted); it counts its own lists, and cuts none of them.        *)
Injective(s) == \A i, j \in DOMAIN s : s[i] = s[j] => i = j
UidsOf(s) == {s[i] : i \in DOMAIN s}
NoManager == 0

WrittenShape(shape) ==
    /\ shape.ours /\ ~shape.truncated /\ ~shape.maxAccepted /\ ~shape.emptySave
    /\ shape.players # <<>> /\ Injective(shape.players \o shape.staff)
    /\ shape.playerCount = Len(shape.players) /\ shape.staffCount = Len(shape.staff)
    /\ shape.manager \in UidsOf(shape.staff) \cup {NoManager}

IsWritten(d) == WrittenShape(d.shape) /\ d.kind \in Written(d.entity, d.field)

PlainShape ==
    [ours |-> TRUE, truncated |-> FALSE, maxAccepted |-> FALSE, emptySave |-> FALSE,
     players |-> <<1>>, playerCount |-> 1, staff |-> <<2>>, staffCount |-> 1, manager |-> 2]

-----------------------------------------------------------------------------
(* dump_validation: a nullable number may be any number.                    *)
NullableNumber == OrNull(Numbers)

(* Mutant: every person has a nation.                                      *)
UnsignedRequired == Natural

NullableUnsigned == OrNull(Natural \cup {"huge"})
NullablePositive == NullableUnsigned \ {"zero"}

(* The entries of a map of positions, and of one of a coach's attributes.   *)
ValidFamiliarity == OrNull({"zero", "rating"})
ValidStaffRating == OrNull({"rating"})

ValidOfPlayer(f) ==
    CASE f = "uid" -> Natural
      [] f \in {"ca", "pa", "birthYear", "birthDayOfYear"} -> Whole
      [] f \in {"name", "preferredFoot"} -> Texts
      [] f = "nationalities" -> {"list"}
      [] f = "gender" -> {"word"}
      [] f = "positions" -> ValidFamiliarity
      [] f \in PlayerRatings -> OrAbsent(Numbers)
      [] f \in PlayerNumbers -> NullableNumber
      [] f \in PlayerFlags -> OrNull(Flags)
      [] f \in PlayerTexts -> OrNull(Texts)
      [] f = "nationUid" -> NullableUnsigned
      [] f \in {"currentClubUid", "parentClubUid"} -> NullablePositive

ValidOfStaff(f) ==
    CASE f = "uid" -> Natural
      [] f \in {"ca", "pa"} -> Whole
      [] f = "nationalities" -> {"list"}
      [] f = "gender" -> {"word"}
      [] f = "attributes" -> ValidStaffRating
      [] f \in StaffNumbers -> NullableNumber
      [] f \in {"name", "club", "division"} -> OrNull(Texts)
      [] f = "nationUid" -> NullableUnsigned
      [] f = "clubUid" -> NullablePositive

ValidOfManager(f) ==
    CASE f = "uid" -> Natural
      [] f = "name" -> Words
      [] f = "club" -> OrNull(Texts)
      [] f = "clubUid" -> NullablePositive
      [] f = "clubReputation" -> NullableNumber

ValidOfDump(f) ==
    CASE f = "generatedAtUtc" -> Words
      [] f \in DumpTexts -> Texts
      [] f \in DumpWords -> {"word"}
      [] f = "gameDate" -> OrAbsent({"date"})

Valid(entity, f) ==
    CASE entity = "player" -> ValidOfPlayer(f) [] entity = "staff" -> ValidOfStaff(f)
      [] entity = "manager" -> ValidOfManager(f) [] entity = "dump" -> ValidOfDump(f)

(* The lists agree with their counts, the UIDs with one another, and there  *)
(* are players, unless the save is said to be empty.                        *)
ValidShape(shape) ==
    /\ shape.ours
    /\ shape.truncated => shape.maxAccepted
    /\ shape.playerCount = Len(shape.players) /\ shape.staffCount = Len(shape.staff)
    /\ \/ /\ shape.players = <<>>
          /\ shape.emptySave /\ shape.staff = <<>> /\ shape.manager = NoManager
       \/ /\ shape.players # <<>>
          /\ Injective(shape.players) /\ Injective(shape.staff)
          /\ UidsOf(shape.players) \cap UidsOf(shape.staff) = {}
          /\ shape.manager \in UidsOf(shape.staff) \cup {NoManager}

-----------------------------------------------------------------------------
(* ingest: prepare_dump_json_raw takes the number for an i64 or not at all. *)
OptionalWhole == OrAbsent(Whole)
OptionalPositive == OrAbsent(Identifiers)
ByteOrNull == OrAbsent(Natural)

ReadOfPlayer(f) ==
    CASE f = "uid" -> Natural
      [] f \in {"ca", "pa", "birthYear", "birthDayOfYear"} -> Whole
      [] f \in {"name", "preferredFoot", "gender"} -> Texts
      [] f \in {"nationalities", "positions"} -> Present
      [] f \in PlayerRatings -> Kinds
      [] f \in PlayerNumbers \cup {"nationUid"} -> OptionalWhole
      [] f \in PlayerFlags -> OrAbsent(Flags)
      [] f \in PlayerTexts -> OrAbsent(Texts)
      [] f \in {"currentClubUid", "parentClubUid"} -> OptionalPositive

ReadOfStaff(f) ==
    CASE f = "uid" -> Natural
      [] f \in {"ca", "pa"} -> Whole
      [] f = "gender" -> Texts
      [] f = "nationalities" -> Present
      [] f = "attributes" -> ByteOrNull
      [] f \in StaffNumbers \cup {"nationUid"} -> OptionalWhole
      [] f \in {"name", "club", "division"} -> OrAbsent(Texts)
      [] f = "clubUid" -> OptionalPositive

ReadOfManager(f) ==
    CASE f \in {"uid", "clubReputation"} -> OptionalWhole
      [] f \in {"name", "club"} -> OrAbsent(Texts)
      [] f = "clubUid" -> OptionalPositive

ReadOfDump(f) ==
    CASE f \in DumpTexts \cup DumpWords \cup {"generatedAtUtc"} -> Texts
      [] f = "gameDate" -> OrAbsent(Texts)

ReadAs(entity, f) ==
    CASE entity = "player" -> ReadOfPlayer(f) [] entity = "staff" -> ReadOfStaff(f)
      [] entity = "manager" -> ReadOfManager(f) [] entity = "dump" -> ReadOfDump(f)

(* prepare_player_derived: the attributes and positions of players again.   *)
Scorable(entity, field) ==
    IF entity = "player" /\ field = "attributes" THEN OrAbsent({"rating"})
    ELSE IF entity = "player" /\ field = "positions" THEN OrAbsent(Whole)
    ELSE Kinds

-----------------------------------------------------------------------------
(* The tables: columns that are NOT NULL, columns with a CHECK.             *)
NeverNull ==
    [player  |-> {"uid", "ca", "pa", "name", "birthYear", "birthDayOfYear", "nationalities",
                  "gender", "preferredFoot"},
     staff   |-> {"uid", "ca", "pa", "nationalities", "gender"},
     manager |-> {},
     dump    |-> DumpTexts \cup {"generatedAtUtc", "gameDateSource"}]

Checked(entity, field) ==
    CASE field = "gender" -> {"word"}
      [] field = "playerDatabaseScope" -> OrNull({"word"})
      [] field \in {"currentClubUid", "parentClubUid", "clubUid"} -> OrNull(Identifiers)
      [] entity = "player" /\ field \in PlayerFlags -> OrNull(Flags)
      [] OTHER -> Kinds

Cell(kind) == IF kind = "missing" THEN "null" ELSE kind
Storable(entity, field, kind) ==
    /\ field \in NeverNull[entity] => Cell(kind) # "null"
    /\ Cell(kind) \in Checked(entity, field)
StorableShape(shape) ==
    /\ Injective(shape.players) /\ Injective(shape.staff)
    /\ shape.truncated => shape.maxAccepted

-----------------------------------------------------------------------------
Documents ==
    {[shape |-> s, entity |-> "player", field |-> "uid", kind |-> "large"] : s \in Shapes}
    \cup UNION {{[shape |-> PlainShape, entity |-> e, field |-> f, kind |-> k] :
                    f \in Fields[e], k \in Kinds} : e \in DOMAIN Fields}

FieldInit == dumped \in Documents /\ progress = "read"

Advance(from, to, holds, otherwise) ==
    /\ progress = from
    /\ progress' = IF holds THEN to ELSE otherwise
    /\ UNCHANGED dumped

Validate ==
    Advance("read", "valid",
         /\ ValidShape(dumped.shape)
         /\ dumped.kind \in Valid(dumped.entity, dumped.field),
         "refused")

Prepare ==
    Advance("valid", "prepared",
            dumped.kind \in ReadAs(dumped.entity, dumped.field), "failed")

Score ==
    Advance("prepared", "scored",
            dumped.kind \in Scorable(dumped.entity, dumped.field), "failed")

Store ==
    Advance("scored", "stored",
         /\ StorableShape(dumped.shape)
         /\ Storable(dumped.entity, dumped.field, dumped.kind),
         "failed")

FieldNext == Validate \/ Prepare \/ Score \/ Store

FieldSpec == FieldInit /\ [][FieldNext]_fieldVars

-----------------------------------------------------------------------------
(* The four lists agree: no dump of the plugin is refused or fails half-way *)
(* through; what the validation lets through fails only for a number that   *)
(* the plugin does not write, before anything is stored, and never on a     *)
(* constraint of the database; and a snapshot that is stored has players    *)
(* and staff apart, its manager among the staff, as many as it counts.      *)
FieldsAreAgreed ==
    /\ IsWritten(dumped) => progress \notin {"refused", "failed"}
    /\ progress = "failed" => dumped.kind \in Numbers
    /\ progress = "scored" =>
          /\ StorableShape(dumped.shape)
          /\ Storable(dumped.entity, dumped.field, dumped.kind)
    /\ progress = "stored" =>
          /\ UidsOf(dumped.shape.players) \cap UidsOf(dumped.shape.staff) = {}
          /\ dumped.shape.manager \in UidsOf(dumped.shape.staff) \cup {NoManager}
=============================================================================
