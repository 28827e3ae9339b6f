------------------------------ MODULE MCRotator ------------------------------
(***************************************************************************)
(* Rotator for TLC.                                                        *)
(***************************************************************************)
EXTENDS Rotator, TLC

\* Keys are interchangeable: no safety property tells them apart.
KeySymmetry == Permutations(Key)
=============================================================================
