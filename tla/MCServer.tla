------------------------------ MODULE MCServer ------------------------------
(***************************************************************************)
(* A small instance of Server: two entities, one to be created, a memory   *)
(* and a relationship, read in pages of one row.                           *)
(***************************************************************************)
EXTENDS Server, TLC

CONSTANTS e1, e2, e3, m1, r1

MCOwnerOf == [m \in MemoryID |-> e1]
MCEndsOf == [r \in RelationshipID |-> <<e1, e2>>]
MCInitialRows ==
    [kind \in Table |->
        IF kind = "entities" THEN {e1, e2} ELSE IF kind = "memories" THEN MemoryID ELSE RelationshipID]
MCInitialTimes == [id \in ID |-> (e1 :> -1 @@ e2 :> 0 @@ e3 :> -2 @@ m1 :> -3 @@ r1 :> -4)[id]]
=============================================================================
