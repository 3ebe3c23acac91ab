----------------------------- MODULE MCApprovals -----------------------------
(***************************************************************************)
(* Instances of Approvals for TLC. Decision requests are interchangeable,  *)
(* and so are the context hashes and the texts.                            *)
(***************************************************************************)
EXTENDS Approvals, TLC

Symmetry == 
    Permutations(Requests) \cup Permutations(Hashes) \cup Permutations(Actions)
=============================================================================
