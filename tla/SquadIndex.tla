----------------------------- MODULE SquadIndex -----------------------------
(***************************************************************************)
(* Which club a player plays for, which manager is the user's, and what    *)
(* day it is in the game.  The plugin walks every club it found, its teams *)
(* and their squads; a player may be met several times, by his own club    *)
(* and by the one that has him on loan, and the last squad that names him  *)
(* must not simply win.                                                    *)
(*                                                                         *)
(* Clubs and teams are given by address, names by their order; a name that *)
(* is not plausible is no name.                                            *)
(***************************************************************************)
EXTENDS Integers, Sequences, FiniteSets, Functions

CONSTANTS Games,    \* what the memory shows of clubs, players and managers
          MaxTeams, \* teams of a club, more of which are not believed
          MaxSquad, \* players of a squad
          Unknown   \* unread, or nobody

(* The type of a team is a byte; a name stands for its place in the order   *)
(* of names, a manager for his UID.                                         *)
IsTeam(team) ==
    /\ team.type \in 0..255 \cup {Unknown} /\ team.at \in Nat
    /\ DOMAIN team.dates \subseteq Nat
    /\ \A i \in DOMAIN team.dates : team.dates[i] \in Nat \cup {Unknown}

ASSUME GamesAssumption ==
    /\ Unknown \notin Nat /\ MaxTeams \in Nat
    /\ \A game \in Games :
          /\ IsFiniteSet(game.found \cup game.contracts)
          /\ game.found \cup game.contracts \subseteq DOMAIN game.clubs \cap Nat
          /\ game.managers \subseteq Nat
          /\ \A c \in DOMAIN game.clubs :
                /\ game.clubs[c].name \in Nat \cup {Unknown}
                /\ Len(game.clubs[c].teams) \in Nat
                /\ \A i \in 1..Len(game.clubs[c].teams) : IsTeam(game.clubs[c].teams[i])

VARIABLES
    seen,     \* what the memory shows
    towalk,   \* the teams that are still to be walked: club and number
    squads,   \* the assignment of each player met so far
    managed,  \* the assignment of each manager met so far
    votes     \* for each date, the teams that play next on it

squadVars == <<seen, towalk, squads, managed, votes>>

-----------------------------------------------------------------------------
Plausible(club) == seen.clubs[club].name # Unknown
Walked(club) == Len(seen.clubs[club].teams) \in 1..MaxTeams
Clubs == {c \in seen.found \cup seen.contracts : Plausible(c) /\ Walked(c)}

(* The teams of all the clubs.                                              *)
AllTeams == UNION {{c} \X (1..Len(seen.clubs[c].teams)) : c \in Clubs}
ClubAt(place) == seen.clubs[place[1]].name
TeamAt(place) == seen.clubs[place[1]].teams[place[2]]

(* The order of words.                                                      *)
Earlier(s, t) ==
    \E i \in 1..Len(s) : s[i] < t[i] /\ \A j \in 1..(i - 1) : s[j] = t[j]

(* The clubs the scan found come first, then those of contracts that it did *)
(* not find; both by address.                                               *)
OrderOf(place) == <<IF place[1] \in seen.found THEN 0 ELSE 1, place[1], place[2]>>
NextPlace == CHOOSE p \in towalk : \A q \in towalk \ {p} : Earlier(OrderOf(p), OrderOf(q))

SquadStart ==
    /\ towalk = AllTeams
    /\ squads = [u \in {} |-> Unknown]
    /\ managed = [m \in {} |-> Unknown]
    /\ votes = [d \in {} |-> 0]

SquadInit == seen \in Games /\ SquadStart

(* The type of a team that is not known: the first team for its players, no *)
(* preference for its manager (int.MaxValue; it is above every type).       *)
NoType == 256
SquadType(team) == IF team.type = Unknown THEN 0 ELSE team.type
ManagerType(type) == IF type = Unknown THEN NoType ELSE type

(* Mutant: the lower type, whosever player he is.                           *)
ChooseTheFirstTeam(current, candidate, parent) ==
    IF candidate.type < current.type THEN candidate ELSE current

(* SquadPick: within a club the lower type; between two the one that is not *)
(* the player's own, where he is on loan.                                   *)
Choose(current, candidate, parent) ==
    IF /\ current.club # candidate.club
       /\ (parent # Unknown /\ current.club = parent)
             # (parent # Unknown /\ candidate.club = parent)
    THEN IF current.club = parent THEN candidate ELSE current
    ELSE IF candidate.type < current.type THEN candidate ELSE current

(* HumanManagerPick: the lower type, then the name, then the address.       *)
Outranks(candidate, current) ==
    \/ ManagerType(candidate.type) < ManagerType(current.type)
    \/ /\ ManagerType(candidate.type) = ManagerType(current.type)
       /\ \/ candidate.club < current.club
          \/ candidate.club = current.club /\ candidate.at < current.at

Members(team) == IF Len(team.squad) \in 1..MaxSquad THEN Range(team.squad) ELSE {}

(* The date of the schedule that counts: one that is not plausible is passed*)
(* over for the other one.                                                  *)
Dated(team) == {i \in DOMAIN team.dates : team.dates[i] # Unknown}
NextMatch(team) ==
    IF Dated(team) = {} THEN Unknown
    ELSE team.dates[CHOOSE i \in Dated(team) : \A j \in Dated(team) : i <= j]

Hit(place) == [club |-> ClubAt(place), type |-> SquadType(TeamAt(place))]
Post(place) == [club |-> ClubAt(place), type |-> TeamAt(place).type, at |-> TeamAt(place).at]

(* One team: its squad, its manager, its vote for the date.                 *)
WalkTeam ==
    /\ towalk # {}
    /\ LET place == NextPlace
           team == TeamAt(place)
           date == NextMatch(team)
       IN  /\ squads' =
                [u \in DOMAIN squads \cup (Members(team) \cap DOMAIN seen.parents) |->
                    IF u \notin Members(team) THEN squads[u]
                    ELSE IF u \notin DOMAIN squads THEN Hit(place)
                    ELSE Choose(squads[u], Hit(place), seen.parents[u])]
           /\ managed' =
                [m \in DOMAIN managed \cup ({team.manager} \cap seen.managers) |->
                    IF m # team.manager THEN managed[m]
                    ELSE IF m \notin DOMAIN managed \/ Outranks(Post(place), managed[m]) THEN Post(place)
                    ELSE managed[m]]
           /\ votes' =
                [d \in DOMAIN votes \cup ({date} \ {Unknown}) |->
                    (IF d \in DOMAIN votes THEN votes[d] ELSE 0) + IF d = date THEN 1 ELSE 0]
           /\ towalk' = towalk \ {place}
    /\ UNCHANGED seen

SquadNext == WalkTeam

SquadSpec == SquadInit /\ [][SquadNext]_squadVars

-----------------------------------------------------------------------------
(* What the dump says of a player's clubs.                                  *)
CurrentClub(u) == IF u \in DOMAIN squads THEN squads[u].club ELSE seen.parents[u]
OnLoan(u) ==
    IF CurrentClub(u) = Unknown \/ seen.parents[u] = Unknown THEN Unknown
    ELSE CurrentClub(u) # seen.parents[u]

(* HumanManagerSelector: whoever manages a first team, any team, or has the *)
(* contract of a club; between equals the lower type and the lower UID.     *)
SourceRank(m) ==
    CASE m \in DOMAIN managed -> IF managed[m].type = 0 THEN 0 ELSE 1
      [] m \notin DOMAIN managed /\ seen.contractOf[m] # Unknown -> 2
      [] OTHER -> 3
Grade(m) == <<SourceRank(m),
              IF m \in DOMAIN managed THEN ManagerType(managed[m].type) ELSE NoType, m>>
NamedManagers == seen.managers \cap seen.named
SelectedManager ==
    IF NamedManagers = {} THEN Unknown
    ELSE CHOOSE m \in NamedManagers : \A n \in NamedManagers \ {m} : Earlier(Grade(m), Grade(n))
ManagerClub ==
    IF SelectedManager \in DOMAIN managed THEN managed[SelectedManager].club
    ELSE IF SelectedManager = Unknown THEN Unknown ELSE seen.contractOf[SelectedManager]

(* GameDateResolver: the date with the most votes, the earliest of them.    *)
GameDate ==
    IF DOMAIN votes = {} THEN Unknown
    ELSE CHOOSE d \in DOMAIN votes :
            \A e \in DOMAIN votes \ {d} : votes[e] < votes[d] \/ (votes[e] = votes[d] /\ d < e)

-----------------------------------------------------------------------------
Listing(u) == {p \in AllTeams : u \in Members(TeamAt(p))}
ClubsOf(u) == {ClubAt(p) : p \in Listing(u)}

(* In whatever order the clubs lie in memory: a player is on loan if a club *)
(* that is not his own lists him, and is shown at such a club; else he is   *)
(* at his own.  Of the teams of the club that is shown no other has a lower *)
(* type.  The manager is one of a first team if there is such a one, and is *)
(* shown with the club whose first team he manages.  No other date has more *)
(* teams playing next on it.                                                *)
LoansAreSeen(u) ==
    LET others == ClubsOf(u) \ {seen.parents[u]} IN
    /\ others # {} => CurrentClub(u) \in others
    /\ others = {} => CurrentClub(u) = seen.parents[u]
    /\ seen.parents[u] # Unknown => OnLoan(u) = (others # {})
    /\ u \in DOMAIN squads =>
          \A p \in Listing(u) :
             ClubAt(p) = squads[u].club => squads[u].type <= SquadType(TeamAt(p))

FirstTeams(m) == {p \in AllTeams : TeamAt(p).manager = m /\ TeamAt(p).type = 0}
ManagerIsFound ==
    /\ (\E m \in NamedManagers : FirstTeams(m) # {}) =>
          /\ FirstTeams(SelectedManager) # {}
          /\ ManagerClub \in {ClubAt(p) : p \in FirstTeams(SelectedManager)}
    /\ NamedManagers # {} => SelectedManager \in NamedManagers

VotesFor(d) == Cardinality({p \in AllTeams : NextMatch(TeamAt(p)) = d})
DateIsAgreed ==
    \A d \in (UNION {Range(TeamAt(p).dates) : p \in AllTeams}) \ {Unknown} :
        VotesFor(d) > 0 => GameDate # Unknown /\ VotesFor(d) <= VotesFor(GameDate)

SquadsAreSettled ==
    towalk = {} =>
        (\A u \in DOMAIN seen.parents : LoansAreSeen(u)) /\ ManagerIsFound /\ DateIsAgreed
=============================================================================
