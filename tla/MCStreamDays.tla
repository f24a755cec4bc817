---------------------------- MODULE MCStreamDays ----------------------------
(* Instances of StreamDays for TLC: four fractions make a second. *)
EXTENDS StreamDays

Daily == [s \in Stream |-> 8]
TwiceDaily == [s \in Stream |-> 4]
\* Ticks without a fraction of a second.
OnTheSecond == [s \in Stream |-> {0}]
AnyPhase == [s \in Stream |-> 0..(Interval[s] - 1)]
\* Where midnight is at 4: exact midnight, and phases outside the first second of the day.
LaterSeconds == [s \in Stream |-> {3, 4}]
\* Streams of which one may tick within the first second of a day, the other on it.
TwoPhases == [s \in Stream |-> IF s = 1 THEN {1, 4} ELSE {0, 2}]
\* On the second, or half a second after it.
ZeroOrHalf == [s \in Stream |-> {0, 2}]
\* The stream ticks within the first second of every day.
FirstSecond == [s \in Stream |-> {2}]
=============================================================================
