---------------------------- MODULE ResultContext ----------------------------
(***************************************************************************)
(* What the window shows of which snapshot.  The search page asks for the  *)
(* players of "the current snapshot" and keeps the answers under the save  *)
(* and snapshot that it believes to be current; the database may have      *)
(* moved on when it answers.  Before a save is switched or a current       *)
(* snapshot deleted the pages are cancelled and removed; after a Load Data *)
(* has published, the same, if the window still shows that save.           *)
(*                                                                         *)
(* A command reaches the database at some time and its answer the window   *)
(* at a later one; between two awaits of the window nothing is atomic.     *)
(***************************************************************************)
EXTENDS Integers, Sequences, SequencesExt, FiniteSets

CONSTANTS Saves,
          MaxToken,   \* bound: snapshots ever made
          MaxChanges, \* bound: switches and deletions
          NoSave      \* no save, no snapshot, no answer

ASSUME ChangesAssumption == MaxToken \in Nat /\ MaxChanges \in Nat

VARIABLES
    active,    \* the active save in the database
    stored,    \* the tokens of each save's snapshots; the last is current
    tokens,    \* tokens drawn
    savesQ,    \* the query of the saves: the active one
    currentQ,  \* the query of the current snapshot
    pages,     \* the pages of players by context
    change,    \* a switch or a deletion, and how far it is
    changes,   \* how many there were
    load,      \* a Load Data, and how far it is
    unseen     \* history: the last answer of a Load Data went unused

databaseVars == <<active, stored, tokens>>
queryVars == <<savesQ, currentQ, pages>>
resultVars == <<databaseVars, queryVars, change, changes, load, unseen>>

(* A snapshot: its save, its row id, which is given again after a deletion, *)
(* and its token, which is not.                                             *)
SnapshotAt(save, i) == [save |-> save, id |-> i, token |-> stored[save][i]]
Current == IF stored[active] = <<>> THEN NoSave
           ELSE SnapshotAt(active, Len(stored[active]))

(* A query has data, and may have sent its command, which may have read.    *)
Settled(x) == [data |-> x, sent |-> FALSE, read |-> FALSE, answer |-> NoSave]
Fetching(q) == q.sent \/ q.read
Refetch(q) == [q EXCEPT !.sent = TRUE, !.read = FALSE, !.answer = NoSave]
Read(q, x) == [q EXCEPT !.sent = FALSE, !.read = TRUE, !.answer = x]
Delivered(q) == Settled(q.answer)

(* The search page: nothing is shown, or asked for, while the context       *)
(* changes; the context is what both queries agree upon, without the token. *)
Mutating == change.pc # "idle"
Changing == Mutating \/ Fetching(savesQ) \/ Fetching(currentQ)
Context == IF currentQ.data # NoSave /\ currentQ.data.save = savesQ.data
           THEN [save |-> currentQ.data.save, id |-> currentQ.data.id] ELSE NoSave
Mounted == ~Changing /\ Context # NoSave

(* The pages of a context: the snapshots their rows are of, and whether one *)
(* more is on its way and has read its rows already.                        *)
NoPages == [rows |-> {}, sent |-> FALSE, read |-> FALSE, answer |-> NoSave]
Rows(context) == IF context \in DOMAIN pages THEN pages[context].rows ELSE {}

NoChange == [pc |-> "idle", kind |-> "none", target |-> NoSave, done |-> FALSE]
NoLoad == [pc |-> "idle", save |-> NoSave, answer |-> "none", live |-> FALSE]

ResultInit ==
    /\ active \in Saves
    /\ stored \in [Saves -> {<<1>>}]
    /\ tokens = 1
    /\ savesQ = Settled(active)
    /\ currentQ = Settled(Current)
    /\ pages = [c \in {} |-> NoPages]
    /\ change = NoChange
    /\ changes = 0
    /\ load = NoLoad
    /\ unseen = FALSE

-----------------------------------------------------------------------------
(* Queries.                                                                 *)

ReadSaves ==
    /\ savesQ.sent
    /\ savesQ' = Read(savesQ, active)
    /\ UNCHANGED <<databaseVars, currentQ, pages, change, changes, load, unseen>>

ReadCurrent ==
    /\ currentQ.sent
    /\ currentQ' = Read(currentQ, Current)
    /\ unseen' = FALSE
    /\ UNCHANGED <<databaseVars, savesQ, pages, change, changes, load>>

(* The hook sees another save: a Load Data that is being reconciled is not  *)
(* of this context any more (contextRevisionRef).                           *)
DeliverSaves ==
    /\ savesQ.read
    /\ savesQ' = Delivered(savesQ)
    /\ load' = [load EXCEPT !.live = @ /\ savesQ.answer = savesQ.data]
    /\ UNCHANGED <<databaseVars, currentQ, pages, change, changes, unseen>>

DeliverCurrent ==
    /\ currentQ.read
    /\ currentQ' = Delivered(currentQ)
    /\ UNCHANGED <<databaseVars, savesQ, pages, change, changes, load, unseen>>

(* A page, another sort or filter of it, is asked for where it is shown.    *)
AskPage ==
    /\ Mounted
    /\ ~Fetching(IF Context \in DOMAIN pages THEN pages[Context] ELSE NoPages)
    /\ pages' = [c \in DOMAIN pages \cup {Context} |->
                    IF c = Context
                    THEN [NoPages EXCEPT !.rows = Rows(Context), !.sent = TRUE] ELSE pages[c]]
    /\ UNCHANGED <<databaseVars, savesQ, currentQ, change, changes, load, unseen>>

(* search_players reads the current snapshot, whichever that is now.        *)
ReadPage ==
    /\ \E c \in DOMAIN pages :
          /\ pages[c].sent
          /\ pages' = [pages EXCEPT ![c] = Read(@, Current)]
    /\ UNCHANGED <<databaseVars, savesQ, currentQ, change, changes, load, unseen>>

DeliverPage ==
    /\ \E c \in DOMAIN pages :
          /\ pages[c].read
          /\ pages' = [pages EXCEPT ![c] = [NoPages EXCEPT
                 !.rows = pages[c].rows \cup ({pages[c].answer} \ {NoSave})]]
    /\ UNCHANGED <<databaseVars, savesQ, currentQ, change, changes, load, unseen>>

QueryStep == ReadSaves \/ ReadCurrent \/ DeliverSaves \/ DeliverCurrent
             \/ AskPage \/ ReadPage \/ DeliverPage

(* Mutant: what is shown stays, for the next snapshot of the same row.      *)
KeptForLater == pages

(* clearPlayerResultContext: what is on its way is dropped, and then what   *)
(* there is.                                                                *)
Cancelled == [c \in DOMAIN pages |-> [NoPages EXCEPT !.rows = pages[c].rows]]
Removed == [c \in {} |-> NoPages]

-----------------------------------------------------------------------------
(* Switching the save (active-save-select.tsx) and deleting the current     *)
(* snapshot (snapshot-history-panel.tsx).                                   *)

BeginChange(kind, target) ==
    /\ change = NoChange
    /\ changes < MaxChanges
    /\ changes' = changes + 1
    /\ change' = [NoChange EXCEPT !.pc = "cancel", !.kind = kind, !.target = target]
    /\ UNCHANGED <<databaseVars, queryVars, load, unseen>>

BeginSwitch == \E s \in Saves \ {savesQ.data} : BeginChange("switch", s)

BeginDelete == currentQ.data # NoSave /\ BeginChange("delete", currentQ.data)

ChangeCancels ==
    /\ change.pc = "cancel"
    /\ pages' = Cancelled
    /\ change' = [change EXCEPT !.pc = "remove"]
    /\ UNCHANGED <<databaseVars, savesQ, currentQ, changes, load, unseen>>

ChangeRemoves ==
    /\ change.pc = "remove"
    /\ pages' = Removed
    /\ change' = [change EXCEPT !.pc = "command"]
    /\ UNCHANGED <<databaseVars, savesQ, currentQ, changes, load, unseen>>

(* set_active_save, and delete_snapshot by id and token, which waits for no *)
(* Load Data: it is refused.                                                *)
CommandDone ==
    /\ change.pc = "command"
    /\ change' = [change EXCEPT !.pc = "answer", !.done = TRUE]
    /\ \/ /\ change.kind = "switch"
          /\ active' = change.target
          /\ UNCHANGED stored
       \/ /\ change.kind = "delete"
          /\ load.pc # "running"
          /\ LET mine == stored[change.target.save] IN
             /\ mine # <<>>
             /\ change.target = SnapshotAt(change.target.save, Len(mine))
             /\ stored' = [stored EXCEPT ![change.target.save] = Front(mine)]
          /\ UNCHANGED active
    /\ UNCHANGED <<tokens, queryVars, changes, load, unseen>>

CommandRefused ==
    /\ change.pc = "command"
    /\ change' = [change EXCEPT !.pc = "answer"]
    /\ UNCHANGED <<databaseVars, queryVars, changes, load, unseen>>

(* onSuccess invalidates the queries of the context.  A switch waits for    *)
(* them before it is over, and a deletion does not.                         *)
ChangeAnswered ==
    /\ change.pc = "answer"
    /\ IF change.done
       THEN /\ savesQ' = Refetch(savesQ)
            /\ currentQ' = Refetch(currentQ)
            /\ change' = IF change.kind = "switch" THEN [change EXCEPT !.pc = "await"]
                         ELSE NoChange
       ELSE change' = NoChange /\ UNCHANGED <<savesQ, currentQ>>
    /\ UNCHANGED <<databaseVars, pages, changes, load, unseen>>

ChangeSettled ==
    /\ change.pc = "await"
    /\ ~Fetching(savesQ) /\ ~Fetching(currentQ)
    /\ change' = NoChange
    /\ UNCHANGED <<databaseVars, queryVars, changes, load, unseen>>

ChangeStep == BeginSwitch \/ BeginDelete \/ ChangeCancels \/ ChangeRemoves
              \/ CommandDone \/ CommandRefused \/ ChangeAnswered \/ ChangeSettled

-----------------------------------------------------------------------------
(* Load Data (use-load-data.ts).                                            *)

(* The button is disabled while a Load Data or a change is pending.         *)
BeginLoad ==
    /\ load.pc = "idle"
    /\ ~Mutating
    /\ load' = [NoLoad EXCEPT !.pc = "running", !.save = savesQ.data]
    /\ UNCHANGED <<databaseVars, queryVars, change, changes, unseen>>

(* The scan is published to the save it was asked for, if that is active    *)
(* still, as its current snapshot or behind it, or fails.                   *)
Publish ==
    /\ load.pc = "running"
    /\ active = load.save
    /\ tokens < MaxToken
    /\ tokens' = tokens + 1
    /\ stored' = [stored EXCEPT ![load.save] = Append(@, tokens + 1)]
    /\ load' = [load EXCEPT !.pc = "answer", !.answer = "current"]
    /\ UNCHANGED <<active, queryVars, change, changes, unseen>>

PublishBehind ==
    /\ load.pc = "running"
    /\ load' = [load EXCEPT !.pc = "answer", !.answer = "behind"]
    /\ UNCHANGED <<databaseVars, queryVars, change, changes, unseen>>

LoadFails ==
    /\ load.pc = "running"
    /\ load' = [load EXCEPT !.pc = "answer", !.answer = "failed"]
    /\ UNCHANGED <<databaseVars, queryVars, change, changes, unseen>>

(* onSuccess and onError: only a snapshot that became current of the save   *)
(* that is shown changes what is shown.                                     *)
LoadAnswered ==
    /\ load.pc = "answer"
    /\ IF load.answer = "current" /\ load.save = savesQ.data
       THEN /\ load' = [load EXCEPT !.pc = "remove", !.live = TRUE]
            /\ pages' = Cancelled
            /\ UNCHANGED unseen
       ELSE /\ load' = NoLoad
            /\ unseen' = (unseen \/ load.answer = "current")
            /\ UNCHANGED pages
    /\ UNCHANGED <<databaseVars, savesQ, currentQ, change, changes>>

(* shouldContinue, before the pages are removed and again before the        *)
(* queries are invalidated.                                                 *)
LoadRemoves ==
    /\ load.pc = "remove"
    /\ IF load.live
       THEN pages' = Removed /\ load' = [load EXCEPT !.pc = "invalidate"] /\ UNCHANGED unseen
       ELSE load' = NoLoad /\ unseen' = TRUE /\ UNCHANGED pages
    /\ UNCHANGED <<databaseVars, savesQ, currentQ, change, changes>>

LoadInvalidates ==
    /\ load.pc = "invalidate"
    /\ IF load.live
       THEN savesQ' = Refetch(savesQ) /\ currentQ' = Refetch(currentQ) /\ UNCHANGED unseen
       ELSE unseen' = TRUE /\ UNCHANGED <<savesQ, currentQ>>
    /\ load' = NoLoad
    /\ UNCHANGED <<databaseVars, pages, change, changes>>

LoadStep == BeginLoad \/ Publish \/ PublishBehind \/ LoadFails \/ LoadAnswered
            \/ LoadRemoves \/ LoadInvalidates

ResultNext == QueryStep \/ ChangeStep \/ LoadStep

ResultSpec == ResultInit /\ [][ResultNext]_resultVars

-----------------------------------------------------------------------------
AtRest ==
    /\ ~Changing /\ load.pc = "idle"
    /\ \A c \in DOMAIN pages : ~Fetching(pages[c])

(* Whatever is shown under a save is of that save.                          *)
RowsAreOfTheSave ==
    \A c \in DOMAIN pages : \A r \in pages[c].rows : r.save = c.save

(* At rest the window shows the current snapshot of the active save, and of *)
(* no other snapshot a row.  The one exception the code leaves: a Load Data *)
(* that is answered while the window still shows the save it comes back     *)
(* from counts as history, and is seen with the next refetch.               *)
HeadIsCurrent ==
    AtRest /\ ~unseen => savesQ.data = active /\ currentQ.data = Current

RowsAreCurrent ==
    AtRest /\ ~unseen /\ Context # NoSave => Rows(Context) \subseteq {Current}

(* Switching saves, deleting the current snapshot and Load Data in any      *)
(* order, every answer late: the search never mixes saves or snapshots.     *)
ResultsAreOfTheContext == RowsAreOfTheSave /\ HeadIsCurrent /\ RowsAreCurrent
=============================================================================
