----------------------------- MODULE CaptureLog -----------------------------
(***************************************************************************)
(* What storing a capture promises: a capture is stored at once or not at  *)
(* all, it stays stored, and the state database registers only captures    *)
(* that are stored.  RawStore implements this over files that are renamed  *)
(* and synced one by one.                                                  *)
(***************************************************************************)
CONSTANT Capture

VARIABLES stored, registered

Init == stored = {} /\ registered = {}

\* A power loss can make several captures durable together.
Store == stored \subseteq stored' /\ stored' \subseteq Capture /\ UNCHANGED registered

Register(c) == c \in stored /\ registered' = registered \cup {c} /\ UNCHANGED stored

Next == Store \/ \E c \in Capture : Register(c)

Spec == Init /\ [][Next]_<<stored, registered>>
=============================================================================
