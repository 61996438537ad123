------------------------- MODULE MCGraphicsRuntime --------------------------
EXTENDS GraphicsRuntime

CONSTANT r1

(* One folder has the picture, small enough to be kept; ChangePicture makes *)
(* it large, takes it away, or adds one to the other folder.                *)
MCDisk == [r \in Roots |-> [u \in Uids |->
              IF r = r1 THEN [dir |-> r1, bytes |-> 1] ELSE Nothing]]

MCInit == Init /\ disk = MCDisk

MCSpec == MCInit /\ [][Next]_vars /\ Fairness
=============================================================================
