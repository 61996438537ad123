--------------------------- MODULE MCScanPipeline ---------------------------
(* Three regions: of a block and a part, of less than a header, and of less *)
(* than a block.  Objects at the edges of blocks and of regions, of a UID   *)
(* that is a player's and of the staff, or twice a player's.                *)
EXTENDS ScanPipeline, TLC

MCRegions == <<[base |-> 0, size |-> 7], [base |-> 10, size |-> 1], [base |-> 20, size |-> 3]>>

Object(facet, uid, included) == [facet |-> facet, uid |-> uid, included |-> included]
Kinds == {Object("player", 1, TRUE), Object("player", 1, FALSE), Object("staff", 1, TRUE),
          Object("manager", 1, TRUE)}

MCHeaps ==
    {[objects |-> 0 :> Object("club", 3, TRUE) @@ 2 :> a @@ 3 :> Object("player", 1, TRUE)
                  @@ 5 :> Object("player", 2, TRUE) @@ 21 :> Object("manager", 1, TRUE),
      holes |-> {}] : a \in Kinds}
    \cup {[objects |-> 3 :> Object("player", 1, TRUE) @@ 6 :> Object("player", 4, TRUE)
                  @@ 20 :> Object("staff", 2, TRUE), holes |-> {2, 22}]}
=============================================================================
