------------------------------ MODULE MCUpload ------------------------------
(***************************************************************************)
(* Finite instances of Upload.                                             *)
(***************************************************************************)
EXTENDS Upload, TLC

CONSTANTS m1, p1, f1, f2, r1, r2, none

Symmetry == Permutations({r1, r2}) \cup Permutations({f1, f2})
MCMissionOf == f1 :> m1 @@ f2 :> m1
=============================================================================
