----------------------------- MODULE Timestamps -----------------------------
(***************************************************************************)
(* How the state database writes instants and compares them.  A column     *)
(* holds the text of time.RFC3339Nano in UTC, which drops the trailing     *)
(* zeros of the fraction and, for a whole second, the fraction itself; SQL *)
(* compares the texts.  An instant is counted here in fractions of a       *)
(* second, of which there are Base * Base: two digits stand for the nine.  *)
(***************************************************************************)
EXTENDS Integers, Sequences

CONSTANT Base   \* the digits of a fraction are 0..Base-1

ASSUME TimestampsAssumption == Base \in Nat /\ Base >= 2

Fractions == Base * Base
Second(t) == t \div Fractions
Fraction(t) == t % Fractions

\* The characters that follow the seconds, in the order of their codes.
Dot == 0
Digit(d) == 1 + d
Zulu == 1 + Base

FractionText(f) ==
    IF f = 0 THEN <<Zulu>>
    ELSE IF f % Base = 0 THEN <<Dot, Digit(f \div Base), Zulu>>
    ELSE <<Dot, Digit(f \div Base), Digit(f % Base), Zulu>>

\* No text is a prefix of another one, because Zulu only occurs at the end.
TextLess(x, y) ==
    \E i \in DOMAIN x \cap DOMAIN y :
        x[i] < y[i] /\ \A j \in 1..(i - 1) : x[j] = y[j]

\* a < b as SQL decides it: everything up to the seconds has a fixed width.
Before(a, b) ==
    \/ Second(a) < Second(b)
    \/ /\ Second(a) = Second(b)
       /\ TextLess(FractionText(Fraction(a)), FractionText(Fraction(b)))
=============================================================================
