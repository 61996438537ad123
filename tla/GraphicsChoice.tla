--------------------------- MODULE GraphicsChoice --------------------------
(***************************************************************************)
(* What the graphics runtime promises of the folder with the pictures:     *)
(* the folder is stored first and adopted under a generation that was      *)
(* never used before; only the folder of the current generation is ever    *)
(* ready, and a restart begins with the folder that is stored.             *)
(***************************************************************************)
EXTENDS Integers

CONSTANTS Folders \* the folders, and that there is none

VARIABLES stored,     \* in the database
          chosen,     \* the folder in use
          generation, \* its number, which the images' addresses carry
          ready       \* its index can be consulted

choiceVars == <<stored, chosen, generation, ready>>

ChoiceInit ==
    /\ stored \in Folders
    /\ chosen = stored
    /\ generation = 0
    /\ ready = FALSE

Store ==
    /\ stored' \in Folders
    /\ UNCHANGED <<chosen, generation, ready>>

Adopt ==
    /\ chosen' = stored
    /\ generation' \in Int /\ generation' > generation
    /\ ready' = FALSE
    /\ UNCHANGED stored

BecomeReady ==
    /\ ready' = TRUE
    /\ UNCHANGED <<stored, chosen, generation>>

Reopen ==
    /\ chosen' = stored
    /\ generation' = 0
    /\ ready' = FALSE
    /\ UNCHANGED stored

ChoiceNext == Store \/ Adopt \/ BecomeReady \/ Reopen

ChoiceSpec == ChoiceInit /\ [][ChoiceNext]_choiceVars
=============================================================================
