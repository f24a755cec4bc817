----------------------------- MODULE MCArchive -----------------------------
(* Instances of Archive for TLC. *)
EXTENDS Archive, TLC

CONSTANTS c1, c2, primary, mirror

OneConfig == {{primary}}
AnyConfig == {{primary}, {primary, mirror}}
MaybeConfig == {{}, {primary}}
EveryConfig == {{}, {primary}, {primary, mirror}}

CaptureSymmetry == Permutations(Capture)
=============================================================================
