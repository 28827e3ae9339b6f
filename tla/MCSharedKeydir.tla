--------------------------- MODULE MCSharedKeydir ---------------------------
(***************************************************************************)
(* SharedKeydir for TLC.                                                   *)
(***************************************************************************)
EXTENDS SharedKeydir, TLC

\* Keys are interchangeable: no safety property tells them apart.
KeySymmetry == Permutations(Key)
=============================================================================
