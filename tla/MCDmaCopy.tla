----------------------------- MODULE MCDmaCopy -----------------------------
(* DmaCopy, and with it PixmapStorage, for TLC. *)
EXTENDS DmaCopy, TLC

Symmetry == Permutations(Pixmaps)
=============================================================================
