---------------------------- MODULE MCGuidService ----------------------------
(* Small clients, ranges and indices for GuidService. *)
EXTENDS GuidService, TLC

CONSTANTS scene, charsys

Clients == {scene, charsys}

(* scene asks for more at once than charsys does. *)
DifferentNo == scene :> 3 @@ charsys :> 2

Saves == {TRUE}
SavesMayFail == BOOLEAN

=============================================================================
