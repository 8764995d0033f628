--------------------------- MODULE MCMegaUploader ---------------------------
(* Small instances of MegaUploader for TLC.                                *)
EXTENDS MegaUploader, TLC

Symmetry == Permutations(Ids) \cup Permutations(Workers)
=============================================================================
