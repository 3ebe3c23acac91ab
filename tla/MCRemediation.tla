--------------------------- MODULE MCRemediation ---------------------------
(***************************************************************************)
(* Instances of Remediation for TLC. The context hashes are                *)
(* interchangeable; the actions are not, as one of them is executable.     *)
(***************************************************************************)
EXTENDS Remediation, TLC

HashSymmetry == Permutations(Hashes)
=============================================================================
