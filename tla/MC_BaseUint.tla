----------------------------- MODULE MC_BaseUint -----------------------------
(***************************************************************************)
(* Model-checking instance of BaseUint: three limbs of three bits, so     *)
(* carries and borrows cross every limb boundary and the top one wraps.   *)
(* The operands are the edge values of each limb and of the whole width. *)
(***************************************************************************)
EXTENDS BaseUint

MC_Width == 3
MC_LimbBits == 3
MC_Operands == {0, 1, 2, 7, 8, 9, 63, 64, 100, 255, 256, 511}
=============================================================================
