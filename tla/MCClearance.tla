---------------------------- MODULE MCClearance -----------------------------
(* Small instances of Clearance for TLC.                                   *)
EXTENDS Clearance, TLC

MCSymmetric == Permutations(Tokens) \cup Permutations(Fingerprints)
=============================================================================
