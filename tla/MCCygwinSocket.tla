---------------------------- MODULE MCCygwinSocket -----------------------------
(***************************************************************************)
(* CygwinSocket for TLC: up to three launches in a row or at once.         *)
(***************************************************************************)
EXTENDS CygwinSocket, TLC

CONSTANTS i1, i2, i3, p1, p2, p3, s1, s2

Interchangeable == Permutations(Instances) \cup Permutations(Pids)

================================================================================
