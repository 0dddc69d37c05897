--------------------------- MODULE MCFileHarvester ----------------------------
(* Lengths of the lines: an overlong one between two that are ingested, the *)
(* last of them as long as a line may be: MCLength for a MaxLineBytes of 2, *)
(* MCLengthLive for one of 1.                                               *)
EXTENDS FileHarvester

MCLength == <<1, 3, 2>>
MCLengthLive == <<1, 2, 1>>

=============================================================================
