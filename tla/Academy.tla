------------------------------- MODULE Academy -------------------------------
(***************************************************************************)
(* The youth academy of a save (academy/service.rs): a class for each year,*)
(* its members, and what became of them.  The class of the first season is *)
(* made with the save; a year that the current snapshot shows makes a      *)
(* class, when the snapshot is loaded or promoted; the user makes others.  *)
(* Those that were made automatically cannot be deleted.  Who may become a *)
(* member depends on the managed club (managed_club/service.rs).  Here a   *)
(* game date is its year.                                                  *)
(***************************************************************************)
EXTENDS SnapshotStore, FiniteSetsExt

CONSTANTS Youngsters,  \* players
          Clubs,
          NoClub,      \* no club is managed, or a player has none
          BaselineYear, \* BASELINE_CLASS_YEAR
          MaxClass     \* bound: the largest id of a class

ASSUME AcademyAssumption == BaselineYear \in Nat \ {0} /\ MaxClass \in Nat

VARIABLES
    trusted, \* snapshots whose date FM or a fixture told (game_date_source)
    clubOf,  \* snapshot -> player -> club
    managed, \* managed_club_settings: save -> club
    classes, \* academy_classes: id -> save, year, automatic
    members, \* academy_memberships: save and player -> class id
    outcomes \* academy_member_outcomes: save and player -> sold or released

academyTables == <<trusted, clubOf, managed, classes, members, outcomes>>
academyVars == <<vars, academyTables>>

AcademyInit ==
    /\ Init
    /\ trusted = {}
    /\ clubOf = Empty
    /\ managed = Empty
    /\ classes = Empty
    /\ members = Empty
    /\ outcomes = Empty

ClassOf(t, save, year) == {c \in DOMAIN t : t[c].save = save /\ t[c].year = year}

NewClass(t, save, year, automatic) ==
    With(t, IF DOMAIN t = {} THEN 1 ELSE Max(DOMAIN t) + 1,
         [save |-> save, year |-> year, automatic |-> automatic])

(* ensure_automatic_class: a class the user made for that year is taken over.*)
Automatic(t, save, year) ==
    IF ClassOf(t, save, year) = {} THEN NewClass(t, save, year, TRUE)
    ELSE [c \in DOMAIN t |-> IF c \in ClassOf(t, save, year)
                             THEN [t[c] EXCEPT !.automatic = TRUE] ELSE t[c]]

(* ensure_class_for_game_date, observed_class_year.                         *)
Observed(t, save, date, isTrusted) ==
    IF isTrusted /\ date >= BaselineYear THEN Automatic(t, save, date) ELSE t

(* Mutant: a class is made for every snapshot that is loaded.               *)
ObservedNow(t, after, trustedAfter, save) ==
    LET changed == Of(after, save) \ DOMAIN snaps IN
    IF changed # {}
    THEN LET i == CHOOSE j \in changed : TRUE IN Observed(t, save, after[i].date, i \in trustedAfter)
    ELSE t

(* Publishing and deleting look at the snapshot that is current afterwards, *)
(* unless it was already.                                                   *)
ObservedIn(t, after, trustedAfter, save) ==
    LET now == CurrentOf(after, save)
        tokens == {snaps[i].token : i \in CurrentOf(snaps, save)}
        promoted == {i \in now : after[i].token \notin tokens}
    IN  IF promoted = {} THEN t
        ELSE LET i == CHOOSE j \in promoted : TRUE
             IN  Observed(t, save, after[i].date, i \in trustedAfter)

-----------------------------------------------------------------------------
(* The commands: each is about the active save.                             *)

ActiveSave == CHOOSE s \in DOMAIN saves : saves[s].active

CurrentSquad ==
    UNION {{<<p, clubOf[i][p]>> : p \in Youngsters} : i \in CurrentOf(snaps, ActiveSave)}

(* set_managed_club: a club that a player of the current snapshot plays for.*)
SetManagedClub ==
    /\ \E c \in Clubs :
          /\ \E p \in Youngsters : <<p, c>> \in CurrentSquad
          /\ managed' = [managed EXCEPT ![ActiveSave] = c]
    /\ UNCHANGED <<vars, trusted, clubOf, classes, members, outcomes>>

CreateClass ==
    /\ \E year \in Dates :
          /\ ClassOf(classes, ActiveSave, year) = {}
          /\ classes' = NewClass(classes, ActiveSave, year, FALSE)
    /\ DOMAIN classes' \subseteq 1..MaxClass
    /\ UNCHANGED <<vars, trusted, clubOf, managed, members, outcomes>>

(* Mutant: memberships are not deleted with their class.                    *)
DeleteClassAlone ==
    /\ \E c \in DOMAIN classes :
          /\ classes[c].save = ActiveSave
          /\ ~classes[c].automatic
          /\ classes' = Without(classes, {c})
    /\ UNCHANGED <<vars, trusted, clubOf, managed, members, outcomes>>

(* Memberships go with their class and outcomes with their membership.      *)
DeleteClass ==
    /\ \E c \in DOMAIN classes :
          /\ classes[c].save = ActiveSave
          /\ ~classes[c].automatic
          /\ classes' = Without(classes, {c})
          /\ members' = Without(members, {m \in DOMAIN members : members[m] = c})
    /\ outcomes' = [m \in DOMAIN outcomes \cap DOMAIN members' |-> outcomes[m]]
    /\ UNCHANGED <<vars, trusted, clubOf, managed>>

(* assign_member: a player of the managed club who is in no class.          *)
AssignMember ==
    /\ \E p \in Youngsters, c \in DOMAIN classes :
          /\ classes[c].save = ActiveSave
          /\ managed[ActiveSave] # NoClub
          /\ <<p, managed[ActiveSave]>> \in CurrentSquad
          /\ <<ActiveSave, p>> \notin DOMAIN members
          /\ members' = With(members, <<ActiveSave, p>>, c)
    /\ UNCHANGED <<vars, trusted, clubOf, managed, classes, outcomes>>

RemoveMember ==
    /\ \E m \in DOMAIN members :
          /\ m[1] = ActiveSave
          /\ members' = Without(members, {m})
          /\ outcomes' = Without(outcomes, {m})
    /\ UNCHANGED <<vars, trusted, clubOf, managed, classes>>

SetMemberOutcome ==
    /\ \E m \in DOMAIN members :
          /\ m[1] = ActiveSave
          /\ \/ \E o \in {"sold", "released"} : outcomes' = With(outcomes, m, o)
             \/ outcomes' = Without(outcomes, {m})
    /\ UNCHANGED <<vars, trusted, clubOf, managed, classes, members>>

AcademyCommand ==
    /\ DOMAIN saves # {}
    /\ \/ SetManagedClub \/ CreateClass \/ DeleteClass
       \/ AssignMember \/ RemoveMember \/ SetMemberOutcome

-----------------------------------------------------------------------------
(* What happens to saves and snapshots.                                     *)

(* A re-dated snapshot makes no class, also when it becomes the current one.*)
StoreAlone ==
    /\ List \/ SetActiveSave \/ StartLoad \/ FinishScan \/ EndLoad
       \/ UpdateSnapshotGameDate
    /\ UNCHANGED academyTables

NewSaves == {s \in DOMAIN saves' :
                s \notin DOMAIN saves \/ saves'[s].token # saves[s].token}
GoneSaves == {s \in DOMAIN saves :
                s \notin DOMAIN saves' \/ saves'[s].token # saves[s].token}

(* A save is deleted with everything of it; a new one has its first class.  *)
SavesChange ==
    /\ EnsureDefault \/ CreateSave \/ DeleteSave
    /\ LET rest == Without(classes, {c \in DOMAIN classes : classes[c].save \in GoneSaves}) IN
       classes' = IF NewSaves = {} THEN rest
                  ELSE Automatic(rest, CHOOSE s \in NewSaves : TRUE, BaselineYear)
    /\ DOMAIN classes' \subseteq 1..MaxClass
    /\ managed' = [s \in DOMAIN saves' |-> IF s \in NewSaves THEN NoClub ELSE managed[s]]
    /\ members' = Without(members, {m \in DOMAIN members : m[1] \in GoneSaves})
    /\ outcomes' = Without(outcomes, {m \in DOMAIN outcomes : m[1] \in GoneSaves})
    /\ trusted' = trusted \cap DOMAIN snaps'
    /\ clubOf' = [i \in DOMAIN snaps' |-> clubOf[i]]

PublishAndObserve ==
    /\ Publish
    /\ \E squad \in [Youngsters -> Clubs \cup {NoClub}], told \in BOOLEAN :
          LET new == DOMAIN snaps' \ DOMAIN snaps IN
          /\ trusted' = IF told THEN trusted \cup new ELSE trusted
          /\ clubOf' = [i \in DOMAIN snaps' |-> IF i \in new THEN squad ELSE clubOf[i]]
    /\ classes' = ObservedIn(classes, snaps', trusted', asked.id)
    /\ DOMAIN classes' \subseteq 1..MaxClass
    /\ UNCHANGED <<managed, members, outcomes>>

DeleteAndObserve ==
    /\ DeleteSnapshot
    /\ trusted' = trusted \ {seenSnap.id}
    /\ clubOf' = [i \in DOMAIN snaps' |-> clubOf[i]]
    /\ classes' = ObservedIn(classes, snaps', trusted', snaps[seenSnap.id].save)
    /\ DOMAIN classes' \subseteq 1..MaxClass
    /\ UNCHANGED <<managed, members, outcomes>>

AcademyNext ==
    AcademyCommand \/ StoreAlone \/ SavesChange \/ PublishAndObserve \/ DeleteAndObserve

AcademySpec == AcademyInit /\ [][AcademyNext]_academyVars

-----------------------------------------------------------------------------
AutomaticYears(t, save) ==
    {t[c].year : c \in {k \in DOMAIN t : t[k].save = save /\ t[k].automatic}}

(* Every save has the class of its first season and one class a year; who   *)
(* is in a class is so in his own save and his class is there, however ids  *)
(* are given again, and only members have outcomes.                         *)
AcademyIsConsistent ==
    /\ \A s \in DOMAIN managed : BaselineYear \in AutomaticYears(classes, s)
    /\ \A c, d \in DOMAIN classes :
          classes[c].save = classes[d].save /\ classes[c].year = classes[d].year => c = d
    /\ \A c \in DOMAIN classes : classes[c].save \in DOMAIN saves
    /\ \A m \in DOMAIN members :
          members[m] \in DOMAIN classes /\ classes[members[m]].save = m[1]
    /\ DOMAIN outcomes \subseteq DOMAIN members

(* As long as a save lives its automatic classes only become more, and one  *)
(* more only when a snapshot that shows its year becomes the current one by *)
(* being loaded or promoted, and then always: "Automatic Academy class      *)
(* creation follows the effective current snapshot"                         *)
(* (.wiki/features/completed/snapshot-history.md:44).                       *)
AutomaticFollowsCurrent ==
    [][\A s \in DOMAIN managed \cap DOMAIN managed' :
          LET same == saves[s].token = saves'[s].token
              shown == {snaps'[i].date : i \in
                           {j \in CurrentOf(snaps', s) \cap trusted' :
                               /\ snaps'[j].date >= BaselineYear
                               /\ \A k \in CurrentOf(snaps, s) :
                                     snaps[k].token # snaps'[j].token}}
              redated == \E i \in DOMAIN snaps \cap DOMAIN snaps' :
                            /\ snaps[i].token = snaps'[i].token
                            /\ snaps[i].date # snaps'[i].date
          IN  same => AutomaticYears(classes', s) =
                         AutomaticYears(classes, s) \cup (IF redated THEN {} ELSE shown)
      ]_academyVars

(* Both, whatever happens to the saves and the snapshots meanwhile.         *)
AcademyFollowsSnapshots == []AcademyIsConsistent /\ AutomaticFollowsCurrent
=============================================================================
