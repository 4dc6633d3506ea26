------------------------------ MODULE MCSecureFile ------------------------------
(* Three overlapping calls with contents of two bytes. *)
EXTENDS SecureFile, TLC

CONSTANTS first, second, third

ThreeCalls == {first, second, third}
Symmetry == Permutations(ThreeCalls)
================================================================================
