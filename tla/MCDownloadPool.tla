--------------------------- MODULE MCDownloadPool ---------------------------
(* Small instances of DownloadPool for TLC.                                *)
EXTENDS DownloadPool, TLC

Symmetry == Permutations(Ids)
=============================================================================
