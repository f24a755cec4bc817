----------------------------- MODULE MCRawStore -----------------------------
(* Instances of RawStore for TLC. *)
EXTENDS RawStore, TLC

CONSTANTS c1, c2

CaptureSymmetry == Permutations(Capture)
=============================================================================
