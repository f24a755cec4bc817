------------------------------ MODULE DayProofs ------------------------------
(***************************************************************************)
(* What becomes of the ticks and captures of a day, for any number of      *)
(* streams, days and captures: StreamDays for the tables of the state      *)
(* store, DayFile for the file the compactor writes and the validator      *)
(* walks.  Both count with sums over finite sets, and DayFile flattens     *)
(* sequences, so the module starts with what those operators compute.      *)
(*                                                                         *)
(* In StreamDays a tick is counted by its row until the summary of its day *)
(* commits, and by the summary from then on; the rows go in the step that  *)
(* writes the counts, so the totals never differ from the journal of what  *)
(* was recorded (Counted).                                                 *)
(*                                                                         *)
(* In DayFile the validator does not compare the file with the rows: it    *)
(* walks it with a cursor over counts it took itself.  What the walk has   *)
(* seen, with the rows it is still owed, is the rows of the captures up to *)
(* the cursor (InStep); when the file ends and the totals agree nothing is *)
(* owed, and the included captures are the day but for the excluded ones.  *)
(***************************************************************************)
EXTENDS StreamDays, DayFile, FiniteSetTheorems, TLAPS

\* Of the subsets of a finite set, one of a family has no other below it.
LEMMA FiniteDescent ==
  ASSUME NEW S, IsFiniteSet(S), NEW F \in SUBSET SUBSET S, F # {}
  PROVE  \E T \in F : \A U \in F : ~(U \subseteq T /\ U # T)
<1>1. FiniteSubsetsOf(S) = SUBSET S
  BY FS_FiniteSubsetsOfFinite
<1>2. IsWellFoundedOn(StrictSubsetOrdering(S), SUBSET S)
  BY <1>1, FS_StrictSubsetOrderingWellFounded
<1>3. PICK T \in F : \A U \in F : ~(<<U, T>> \in StrictSubsetOrdering(S))
  BY <1>2, WFMin, Zenon
<1>4. ASSUME NEW U \in F PROVE ~(U \subseteq T /\ U # T)
  BY <1>3 DEF StrictSubsetOrdering
<1> QED
  BY <1>4

\* What holds of a subset of a finite set when it holds of every smaller one
\* holds of all of them.  (The induction theorems of the library take a predicate
\* as a parameter; here it is the set F of what has the property.)
LEMMA FiniteInduction ==
  ASSUME NEW S, IsFiniteSet(S), NEW F,
         \A T \in SUBSET S : (\A U \in SUBSET T : U # T => U \in F) => T \in F
  PROVE  \A T \in SUBSET S : T \in F
<1> DEFINE Missing == {T \in SUBSET S : T \notin F}
<1>1. Missing \in SUBSET SUBSET S
  OBVIOUS
<1>2. ASSUME Missing # {} PROVE FALSE
  <2>1. PICK T \in Missing : \A U \in Missing : ~(U \subseteq T /\ U # T)
    <3> HIDE DEF Missing
    <3> QED BY <1>1, <1>2, FiniteDescent
  <2>2. ASSUME NEW U \in SUBSET T, U # T PROVE U \in F
    BY <2>1, <2>2
  <2> QED
    BY <2>1, <2>2
<1> QED
  BY <1>2

-----------------------------------------------------------------------------
(* Sums over finite sets.  A fold of the library takes the elements in an   *)
(* order of its own; the sum does not depend on it.                        *)

\* The element a fold takes next.
Taken(T) == CHOOSE x \in T : TRUE

\* f is the function the fold computes: the sums of g over the subsets of S.
Sums(f, g, S) ==
    /\ f = [T \in SUBSET S |-> f[T]]
    /\ \A T \in SUBSET S : f[T] = IF T = {} THEN 0 ELSE g[Taken(T)] + f[T \ {Taken(T)}]

\* The sum of g over S.
SumOf(g, S) == (CHOOSE f : Sums(f, g, S))[S]

\* The element the fold takes is one of the set.
LEMMA TakenIn == ASSUME NEW T, T # {} PROVE Taken(T) \in T
BY DEF Taken

\* There is only one such function, on the subsets it is defined for.
LEMMA SumsUnique ==
  ASSUME NEW S, IsFiniteSet(S), NEW g, NEW A, NEW B, S \subseteq A, S \subseteq B,
         NEW f, NEW h, Sums(f, g, A), Sums(h, g, B)
  PROVE  f[S] = h[S]
<1> DEFINE F == {T \in SUBSET S : f[T] = h[T]}
<1>1. ASSUME NEW T \in SUBSET S, \A U \in SUBSET T : U # T => U \in F
      PROVE  f[T] = h[T]
  <2>1. CASE T = {}
    BY <2>1 DEF Sums
  <2>2. CASE T # {}
    <3>1. Taken(T) \in T
      BY <2>2, TakenIn
    <3>2. f[T \ {Taken(T)}] = h[T \ {Taken(T)}]
      BY <1>1, <3>1
    <3>3. f[T] = g[Taken(T)] + f[T \ {Taken(T)}] /\ h[T] = g[Taken(T)] + h[T \ {Taken(T)}]
      BY <2>2 DEF Sums
    <3> QED BY <3>2, <3>3
  <2> QED BY <2>1, <2>2
<1>2. \A T \in SUBSET S : (\A U \in SUBSET T : U # T => U \in F) => T \in F
  BY <1>1
<1>3. S \in F
  <2> HIDE DEF F
  <2> QED BY <1>2, FiniteInduction
<1> QED
  BY <1>3

\* There is one for every finite set.
LEMMA SumsExist ==
  ASSUME NEW S, IsFiniteSet(S), NEW g
  PROVE  \E f : Sums(f, g, S)
<1> DEFINE F == {T \in SUBSET S : \E f : Sums(f, g, T)}
<1>1. ASSUME NEW T \in SUBSET S, \A U \in SUBSET T : U # T => U \in F
      PROVE  \E f : Sums(f, g, T)
  <2> DEFINE Of(U) == (CHOOSE f : Sums(f, g, U))[U]
             f == [U \in SUBSET T |-> IF U = {} THEN 0 ELSE g[Taken(U)] + Of(U \ {Taken(U)})]
  <2>1. ASSUME NEW U \in SUBSET T, U # T PROVE Of(U) = f[U]
    <3>1. PICK h : Sums(h, g, U) /\ Of(U) = h[U]
      BY <1>1, <2>1
    <3>2. CASE U = {}
      <4> HIDE DEF Of
      <4> QED BY <3>1, <3>2 DEF Sums
    <3>3. CASE U # {}
      <4> DEFINE V == U \ {Taken(U)}
      <4>1. Taken(U) \in U
        BY <3>3, TakenIn
      <4>2. V \in SUBSET T /\ V # T /\ V \subseteq U /\ IsFiniteSet(V)
        BY <4>1, FS_Subset
      <4>3. PICK k : Sums(k, g, V) /\ Of(V) = k[V]
        BY <1>1, <4>2
      <4>4. h[V] = k[V]
        <5> HIDE DEF V, Of
        <5> QED BY <3>1, <4>2, <4>3, SumsUnique
      <4>5. h[U] = g[Taken(U)] + h[V]
        BY <3>1, <3>3 DEF Sums
      <4> HIDE DEF Of
      <4> QED BY <3>1, <3>3, <4>3, <4>4, <4>5
    <3> QED BY <3>2, <3>3
  <2>2. ASSUME NEW U \in SUBSET T, U # {}
        PROVE  Of(U \ {Taken(U)}) = f[U \ {Taken(U)}]
    <3>1. Taken(U) \in U
      BY <2>2, TakenIn
    <3> HIDE DEF f, Of
    <3> QED BY <2>1, <3>1
  <2>3. f = [U \in SUBSET T |-> IF U = {} THEN 0 ELSE g[Taken(U)] + f[U \ {Taken(U)}]]
    <3> HIDE DEF Of
    <3> QED BY <2>2
  <2> HIDE DEF f
  <2> QED BY <2>3 DEF Sums
<1>2. \A T \in SUBSET S : (\A U \in SUBSET T : U # T => U \in F) => T \in F
  BY <1>1
<1>3. S \in F
  <2> HIDE DEF F
  <2> QED BY <1>2, FiniteInduction
<1> QED
  BY <1>3

\* What the definition of a sum is replaced by from here on.
LEMMA SumsInt ==
  ASSUME NEW S, IsFiniteSet(S), NEW g, \A x \in S : g[x] \in Int,
         NEW f, Sums(f, g, S)
  PROVE  \A T \in SUBSET S : f[T] \in Int
<1> DEFINE F == {T \in SUBSET S : f[T] \in Int}
<1>1. ASSUME NEW T \in SUBSET S, \A U \in SUBSET T : U # T => U \in F
      PROVE  f[T] \in Int
  <2>1. CASE T = {}
    <3>1. f[T] = 0
      BY <2>1 DEF Sums
    <3> QED BY <3>1
  <2>2. CASE T # {}
    <3>1. Taken(T) \in T
      BY <2>2, TakenIn
    <3>2. f[T \ {Taken(T)}] \in Int
      BY <1>1, <3>1
    <3>3. f[T] = g[Taken(T)] + f[T \ {Taken(T)}]
      BY <2>2 DEF Sums
    <3> QED BY <3>1, <3>2, <3>3
  <2> QED BY <2>1, <2>2
<1>2. \A T \in SUBSET S : (\A U \in SUBSET T : U # T => U \in F) => T \in F
  BY <1>1
<1>3. \A T \in SUBSET S : T \in F
  <2> HIDE DEF F
  <2> QED BY <1>2, FiniteInduction
<1> QED
  BY <1>3

\* The sum does not depend on the element that is taken out first.
LEMMA SumsRemove ==
  ASSUME NEW S, IsFiniteSet(S), NEW g, \A x \in S : g[x] \in Int,
         NEW f, Sums(f, g, S), NEW x \in S
  PROVE  f[S] = g[x] + f[S \ {x}]
<1>0. \A T \in SUBSET S : f[T] \in Int
  BY SumsInt
<1> DEFINE F == {T \in SUBSET S : \A y \in T : f[T] = g[y] + f[T \ {y}]}
<1>1. ASSUME NEW T \in SUBSET S, \A U \in SUBSET T : U # T => U \in F, NEW y \in T
      PROVE  f[T] = g[y] + f[T \ {y}]
  <2> DEFINE a == Taken(T)
             V == T \ {y}
             W == T \ {a, y}
  <2>1. a \in T /\ f[T] = g[a] + f[T \ {a}]
    BY TakenIn DEF Sums
  <2>2. CASE y = a
    BY <2>1, <2>2
  <2>3. CASE y # a
    <3>1. f[T \ {a}] = g[y] + f[W]
      <4>1. T \ {a} \in F
        BY <1>1, <2>1
      <4>2. y \in T \ {a} /\ (T \ {a}) \ {y} = W
        BY <2>3
      <4> QED BY <4>1, <4>2
    <3>2. f[V] = g[a] + f[W]
      <4>1. V \in F
        BY <1>1
      <4>2. a \in V /\ V \ {a} = W
        BY <2>1, <2>3
      <4> QED BY <4>1, <4>2
    <3>3. g[a] \in Int /\ g[y] \in Int /\ f[W] \in Int
      BY <1>0, <2>1
    <3> HIDE DEF a, V, W
    <3>4. f[T] = g[a] + (g[y] + f[W])
      BY <2>1, <3>1
    <3>5. f[T] = g[y] + (g[a] + f[W])
      BY <3>3, <3>4
    <3>6. f[T] = g[y] + f[V]
      BY <3>2, <3>5
    <3> QED BY <3>6 DEF V
  <2> QED BY <2>2, <2>3
<1>2. \A T \in SUBSET S : (\A U \in SUBSET T : U # T => U \in F) => T \in F
  BY <1>1
<1>3. S \in F
  <2> HIDE DEF F
  <2> QED BY <1>2, FiniteInduction
<1> QED
  BY <1>3

\* SumOf is the value of any such function.
LEMMA SumIs ==
  ASSUME NEW S, IsFiniteSet(S), NEW g, NEW f, Sums(f, g, S)
  PROVE  SumOf(g, S) = f[S]
<1>1. Sums(CHOOSE h : Sums(h, g, S), g, S)
  OBVIOUS
<1> QED
  BY <1>1, SumsUnique DEF SumOf

\* The sums of g over the subsets of S, cut to those of a smaller set.
LEMMA SumsRestrict ==
  ASSUME NEW S, NEW T \in SUBSET S, NEW g, NEW h, \A x \in T : g[x] = h[x],
         NEW f, Sums(f, g, S), NEW r, r = [U \in SUBSET T |-> f[U]]
  PROVE  Sums(r, h, T)
<1>1. ASSUME NEW U \in SUBSET T
      PROVE  r[U] = IF U = {} THEN 0 ELSE h[Taken(U)] + r[U \ {Taken(U)}]
  <2>1. CASE U = {}
    BY <2>1 DEF Sums
  <2>2. CASE U # {}
    <3>1. Taken(U) \in U
      BY <2>2, TakenIn
    <3>2. f[U] = g[Taken(U)] + f[U \ {Taken(U)}]
      BY <2>2 DEF Sums
    <3> QED BY <2>2, <3>1, <3>2
  <2> QED BY <2>1, <2>2
<1> QED
  BY <1>1 DEF Sums

\* What the proofs use of a sum over a finite set.
LEMMA SumFacts ==
  ASSUME NEW S, IsFiniteSet(S), NEW g, \A x \in S : g[x] \in Int
  PROVE  /\ SumOf(g, S) \in Int
         /\ S = {} => SumOf(g, S) = 0
         /\ \A x \in S : SumOf(g, S) = g[x] + SumOf(g, S \ {x})
         /\ \A h : (\A x \in S : g[x] = h[x]) => SumOf(g, S) = SumOf(h, S)
<1>1. PICK f : Sums(f, g, S)
  BY SumsExist
<1>2. SumOf(g, S) = f[S]
  BY <1>1, SumIs
<1>3. SumOf(g, S) \in Int /\ (S = {} => SumOf(g, S) = 0)
  <2>1. S \in SUBSET S
    OBVIOUS
  <2>2. f[S] \in Int
    BY <1>1, <2>1, SumsInt
  <2> QED BY <1>1, <1>2, <2>1, <2>2 DEF Sums
<1>4. ASSUME NEW x \in S PROVE SumOf(g, S) = g[x] + SumOf(g, S \ {x})
  <2>1. PICK T : T = S \ {x}
    OBVIOUS
  <2>2. PICK r : r = [U \in SUBSET T |-> f[U]]
    OBVIOUS
  <2>3. IsFiniteSet(T) /\ T \in SUBSET S
    BY <2>1, FS_Subset
  <2>4. Sums(r, g, T)
    <3>1. PICK h : h = g
      OBVIOUS
    <3>2. Sums(r, h, T)
      BY <1>1, <2>2, <2>3, <3>1, SumsRestrict
    <3> QED BY <3>1, <3>2
  <2>5. SumOf(g, T) = f[T]
    BY <2>2, <2>3, <2>4, SumIs
  <2>6. f[S] = g[x] + f[T]
    BY <1>1, <2>1, SumsRemove
  <2> QED
    BY <1>2, <2>1, <2>5, <2>6
<1>5. ASSUME NEW h, \A x \in S : g[x] = h[x] PROVE SumOf(g, S) = SumOf(h, S)
  <2>1. PICK r : r = [U \in SUBSET S |-> f[U]]
    OBVIOUS
  <2>2. Sums(r, h, S)
    BY <1>1, <1>5, <2>1, SumsRestrict
  <2>3. SumOf(h, S) = f[S]
    BY <2>1, <2>2, SumIs
  <2> QED
    BY <1>2, <2>3
<1> QED
  BY <1>3, <1>4, <1>5

\* SumFunctionOnSet of the library is this sum.
LEMMA SumOnSetIs ==
  ASSUME NEW S, IsFiniteSet(S), NEW g
  PROVE  SumFunctionOnSet(g, S) = SumOf(g, S)
<1> DEFINE P(f) == f = [T \in SUBSET S |-> IF T = {} THEN 0
                            ELSE g[CHOOSE x \in T : TRUE] + f[T \ {CHOOSE x \in T : TRUE}]]
<1>1. SumFunctionOnSet(g, S) = (CHOOSE f : P(f))[S]
  BY DEF SumFunctionOnSet, FoldFunctionOnSet, MapThenFoldSet
<1>2. \E f : P(f)
  <2>1. PICK f : Sums(f, g, S)
    BY SumsExist
  <2>2. P(f)
    BY <2>1 DEF Sums, Taken
  <2> HIDE DEF P
  <2> QED BY <2>2
<1>3. P(CHOOSE f : P(f))
  <2> HIDE DEF P
  <2> QED BY <1>2
<1>4. Sums(CHOOSE f : P(f), g, S)
  <2>1. PICK f : f = CHOOSE h : P(h)
    OBVIOUS
  <2>2. P(f)
    BY <1>3, <2>1
  <2>3. Sums(f, g, S)
    BY <2>2 DEF Sums, Taken
  <2> QED BY <2>1, <2>3
<1> HIDE DEF P
<1> QED
  BY <1>1, <1>4, SumIs

\* SumFunction of the library, over a function with a finite domain.
LEMMA SumFunctionIs ==
  ASSUME NEW S, IsFiniteSet(S), NEW g, DOMAIN g = S
  PROVE  SumFunction(g) = SumOf(g, S)
BY SumOnSetIs DEF SumFunction

\* A sum of integers is an integer.
LEMMA SumFunctionInt ==
  ASSUME NEW S, IsFiniteSet(S), NEW g, DOMAIN g = S, \A x \in S : g[x] \in Int
  PROVE  SumFunction(g) \in Int
BY SumFunctionIs, SumFacts

\* One more argument adds its value: a summary that is written adds its counts.
LEMMA SumFunctionAdds ==
  ASSUME NEW S, IsFiniteSet(S), NEW d, d \notin S,
         NEW g, DOMAIN g = S, \A x \in S : g[x] \in Int,
         NEW h, DOMAIN h = S \cup {d}, h[d] \in Int, \A x \in S : h[x] = g[x]
  PROVE  SumFunction(h) = SumFunction(g) + h[d]
<1>1. PICK T : T = S \cup {d}
  OBVIOUS
<1>2. IsFiniteSet(T) /\ DOMAIN h = T /\ (\A x \in T : h[x] \in Int) /\ d \in T /\ T \ {d} = S
  BY <1>1, FS_AddElement
<1>3. SumFunction(h) = SumOf(h, T)
  BY <1>2, SumFunctionIs
<1>4. SumOf(h, T) = h[d] + SumOf(h, S)
  <2>1. \A x \in T : SumOf(h, T) = h[x] + SumOf(h, T \ {x})
    BY <1>2, SumFacts
  <2> QED BY <1>2, <2>1
<1>5. SumOf(g, S) = SumOf(h, S)
  <2>1. \A k : (\A x \in S : g[x] = k[x]) => SumOf(g, S) = SumOf(k, S)
    BY SumFacts
  <2> QED BY <2>1
<1>6. SumFunction(g) = SumOf(g, S) /\ SumOf(g, S) \in Int
  BY SumFunctionIs, SumFacts
<1> QED
  BY <1>3, <1>4, <1>5, <1>6

-----------------------------------------------------------------------------
(* Ticks, captures and summaries of several streams (StreamDays).          *)

\* What the tables hold: capture rows, ticks as the journal noted them, revisions
\* and summaries.
TableRow == [at : 0..Horizon, day : Day, url : URLs, live : BOOLEAN]
Noted == [at : 0..Horizon, day : Day, captured : BOOLEAN]
Manifest == [inputs : SUBSET (0..Horizon), ticks : Int, published : Int]
Counts == [ticks : Int, captures : Int]

\* TypeOK, and what is a function of the streams and the days.
Typed ==
    /\ now \in -1..Horizon
    /\ phase \in [Stream -> Nat] /\ zone \in Zones /\ url \in [Stream -> URLs] /\ edits \in 0..MaxEdits
    /\ ticks \in [Stream -> SUBSET (0..Horizon)]
    /\ captures \in [Stream -> SUBSET TableRow]
    /\ revision \in [Stream -> [Day -> Manifest]]
    /\ summary \in [Stream -> [Day -> Counts]]
    /\ todo \subseteq Stream \X Day
    /\ recorded \in [Stream -> SUBSET Noted]

\* The clock names the ticks: nothing is recorded for a later instant.
Past(s) ==
    /\ \A t \in ticks[s] : t <= now
    /\ \A r \in recorded[s] : r.at <= now

\* A capture belongs to one tick, and a tick has one capture.
Paired(s) ==
    /\ IsFiniteSet(captures[s]) /\ IsFiniteSet(recorded[s])
    /\ \A c \in captures[s] : c.at \in ticks[s]
    /\ \A b, c \in captures[s] : b.at = c.at => b = c

\* What was recorded is what the tables still hold and what the summaries hold.
Counted(s) ==
    /\ Cardinality(recorded[s]) = Cardinality(ticks[s]) + SummedTicks(s)
    /\ Cardinality({r \in recorded[s] : r.captured}) =
         Cardinality(captures[s]) + SummedCaptures(s)

\* What holds of each stream.
StreamInv(s) == Past(s) /\ Paired(s) /\ Counted(s)

\* A pass turns to no day that has its summary.
Unsummarized == \A job \in todo : summary[job[1]][job[2]] = NoSummary

\* The inductive invariant of StreamDays.
IInv == Typed /\ Unsummarized /\ \A s \in Stream : StreamInv(s)

-----------------------------------------------------------------------------
LEMMA Lengths ==
  Fractions \in Nat \ {0} /\ DayLength \in Nat \ {0}
<1>1. Fractions \in Nat \ {0}
  BY TimestampsAssumption DEF Fractions
<1>2. \A a, b \in Nat \ {0} : a * b \in Nat \ {0}
  OBVIOUS
<1> QED
  BY <1>1, <1>2, StreamDaysAssumption DEF DayLength

\* A tick within the bound falls on a day of the instance.
LEMMA DatesAreDays ==
  ASSUME zone \in Zones, NEW t \in Nat, t < (LastDay + 1) * DayLength
  PROVE  LocalDate(t) \in Day
<1> DEFINE x == t - zone * Fractions
           q == x \div DayLength
<1>1. zone \in 0..(DaySeconds - 1)
  BY StreamDaysAssumption
<1>2. zone * Fractions \in Nat /\ zone * Fractions < DayLength
  <2>1. \A a, b, c \in Nat : a < b /\ c > 0 => a * c \in Nat /\ a * c < b * c
    OBVIOUS
  <2> QED BY <1>1, <2>1, Lengths, StreamDaysAssumption DEF DayLength
<1>3. x \in Int /\ x > -DayLength /\ x < (LastDay + 1) * DayLength
  <2>1. (LastDay + 1) * DayLength \in Int
    BY Lengths, StreamDaysAssumption
  <2> QED BY <1>2, <2>1, Lengths
<1>4. \A a \in Int, b \in Nat \ {0} : a \div b \in Int /\ b * (a \div b) <= a /\ a < b * (a \div b) + b
  OBVIOUS
<1>5. q \in Int /\ DayLength * q <= x /\ x < DayLength * q + DayLength
  <2> HIDE DEF x
  <2> QED BY <1>3, <1>4, Lengths
<1>6. \A a, b \in Int, c \in Nat \ {0} : c * a < b * c => a < b
  OBVIOUS
<1>7. q < LastDay + 1
  <2> HIDE DEF x, q
  <2>1. DayLength * q < (LastDay + 1) * DayLength
    <3>1. (LastDay + 1) * DayLength \in Int /\ DayLength * q \in Int
      BY <1>5, Lengths, StreamDaysAssumption
    <3> QED BY <1>3, <1>5, <3>1
  <2> QED BY <1>5, <1>6, <2>1, Lengths, StreamDaysAssumption
<1>8. q >= -1
  <2> HIDE DEF x, q
  <2>1. \A a \in Int, c \in Nat \ {0} : c * a + c > -c => a >= -1
    OBVIOUS
  <2>2. DayLength * q + DayLength > -DayLength
    <3>1. DayLength * q \in Int
      BY <1>5, Lengths
    <3> QED BY <1>3, <1>5, <3>1, Lengths
  <2> QED BY <1>5, <2>1, <2>2, Lengths
<1>9. q \in -1..LastDay
  <2> HIDE DEF q
  <2> QED BY <1>5, <1>7, <1>8, StreamDaysAssumption
<1> QED
  BY <1>9 DEF LocalDate, Day

\* A stream has finitely many summarized days.
LEMMA FiniteDays ==
  ASSUME NEW s PROVE IsFiniteSet(SummarizedDays(s))
<1>1. IsFiniteSet(Day)
  BY FS_Interval, StreamDaysAssumption DEF Day
<1>2. SummarizedDays(s) \in SUBSET Day
  BY DEF SummarizedDays
<1> QED
  BY <1>1, <1>2, FS_Subset

\* A stream has finitely many tick rows.
LEMMA FiniteTicks ==
  ASSUME Typed, NEW s \in Stream PROVE IsFiniteSet(ticks[s])
<1>1. IsFiniteSet(0..Horizon)
  BY FS_Interval, StreamDaysAssumption
<1>2. ticks[s] \in SUBSET (0..Horizon)
  BY DEF Typed
<1> QED
  BY <1>1, <1>2, FS_Subset

\* The totals of the summaries are integers.
LEMMA SummedInt ==
  ASSUME Typed, NEW s \in Stream
  PROVE  SummedTicks(s) \in Int /\ SummedCaptures(s) \in Int
<1> DEFINE S == SummarizedDays(s)
<1>1. IsFiniteSet(S)
  BY FiniteDays
<1>2. \A d \in S : summary[s][d] \in Counts
  BY DEF Typed, SummarizedDays
<1>3. PICK g : g = [d \in S |-> summary[s][d].ticks]
  OBVIOUS
<1>4. PICK h : h = [d \in S |-> summary[s][d].captures]
  OBVIOUS
<1>5. (\A d \in S : g[d] \in Int /\ h[d] \in Int) /\ DOMAIN g = S /\ DOMAIN h = S
  BY <1>2, <1>3, <1>4 DEF Counts
<1> HIDE DEF S
<1>6. SumFunction(g) \in Int /\ SumFunction(h) \in Int
  BY <1>1, <1>5, SumFunctionInt
<1> QED
  BY <1>3, <1>4, <1>6 DEF SummedTicks, SummedCaptures, S

\* A new summary adds its counts to the sums.
LEMMA SummaryAdds ==
  ASSUME Typed, NEW s \in Stream, NEW d \in Day, summary[s][d] = NoSummary,
         NEW counts \in [ticks : Nat, captures : Nat],
         summary'[s] = [summary[s] EXCEPT ![d] = counts]
  PROVE  /\ SummedTicks(s)' = SummedTicks(s) + counts.ticks
         /\ SummedCaptures(s)' = SummedCaptures(s) + counts.captures
<1>1. PICK S : S = SummarizedDays(s)
  OBVIOUS
<1>2. counts # NoSummary
  BY DEF NoSummary
<1>3. summary[s] \in [Day -> Counts]
  BY DEF Typed
<1>4. d \notin S /\ SummarizedDays(s)' = S \cup {d}
  BY <1>1, <1>2, <1>3 DEF SummarizedDays
<1>5. IsFiniteSet(S) /\ d \notin S
  BY <1>1, <1>4, FiniteDays
<1>6. \A x \in S : summary[s][x] \in Counts /\ summary'[s][x] = summary[s][x]
  BY <1>1, <1>3, <1>4 DEF SummarizedDays
<1>7. summary'[s][d] = counts
  BY <1>3
<1>8. SummedTicks(s)' = SummedTicks(s) + counts.ticks
  <2>1. PICK g : g = [x \in S |-> summary[s][x].ticks]
    OBVIOUS
  <2>2. PICK h : h = [x \in S \cup {d} |-> summary'[s][x].ticks]
    OBVIOUS
  <2>3. /\ DOMAIN g = S /\ DOMAIN h = S \cup {d}
        /\ h[d] = counts.ticks /\ h[d] \in Int
        /\ \A x \in S : g[x] \in Int /\ h[x] = g[x]
    BY <1>6, <1>7, <2>1, <2>2 DEF Counts
  <2>4. SumFunction(h) = SumFunction(g) + h[d]
    BY <1>5, <2>3, SumFunctionAdds, SMTT(30)
  <2> QED
    BY <1>1, <1>4, <2>1, <2>2, <2>3, <2>4 DEF SummedTicks
<1>9. SummedCaptures(s)' = SummedCaptures(s) + counts.captures
  <2>1. PICK g : g = [x \in S |-> summary[s][x].captures]
    OBVIOUS
  <2>2. PICK h : h = [x \in S \cup {d} |-> summary'[s][x].captures]
    OBVIOUS
  <2>3. /\ DOMAIN g = S /\ DOMAIN h = S \cup {d}
        /\ h[d] = counts.captures /\ h[d] \in Int
        /\ \A x \in S : g[x] \in Int /\ h[x] = g[x]
    BY <1>6, <1>7, <2>1, <2>2 DEF Counts
  <2>4. SumFunction(h) = SumFunction(g) + h[d]
    BY <1>5, <2>3, SumFunctionAdds, SMTT(30)
  <2> QED
    BY <1>1, <1>4, <2>1, <2>2, <2>3, <2>4 DEF SummedCaptures
<1> QED
  BY <1>8, <1>9

\* The totals change only with the summaries.
LEMMA SameSummaries ==
  ASSUME NEW s, summary'[s] = summary[s]
  PROVE  /\ SummarizedDays(s)' = SummarizedDays(s)
         /\ SummedTicks(s)' = SummedTicks(s)
         /\ SummedCaptures(s)' = SummedCaptures(s)
BY DEF SummarizedDays, SummedTicks, SummedCaptures

\* The order in which a pass takes the days has a first one.
LEMMA FirstOfIsIn ==
  ASSUME NEW S \in SUBSET (Stream \X Day), S # {} PROVE FirstOf(S) \in S
<1> DEFINE All == Stream \X Day
           UpTo(x, y) == x[1] < y[1] \/ (x[1] = y[1] /\ x[2] <= y[2])
           Below(x) == {y \in All : UpTo(y, x)}
           F == {Below(x) : x \in S}
<1>1. \A x \in All : x[1] \in Int /\ x[2] \in Int /\ x = <<x[1], x[2]>>
  <2>1. Stream \subseteq Int /\ Day \subseteq Int
    BY StreamDaysAssumption DEF Day
  <2>2. \A x \in All : x[1] \in Stream /\ x[2] \in Day /\ x = <<x[1], x[2]>>
    OBVIOUS
  <2> QED BY <2>1, <2>2
<1>2. IsFiniteSet(All)
  <2>1. IsFiniteSet(Day) /\ IsFiniteSet(Stream)
    BY FS_Interval, StreamDaysAssumption DEF Day
  <2> QED BY <2>1, FS_Product
<1>3. F \in SUBSET SUBSET All /\ F # {}
  <2>1. \A x \in S : Below(x) \in SUBSET All
    <3> HIDE DEF All, UpTo
    <3> QED OBVIOUS
  <2> HIDE DEF Below, All
  <2> QED BY <2>1
<1>4. PICK T \in F : \A U \in F : ~(U \subseteq T /\ U # T)
  <2> HIDE DEF F, All
  <2> QED BY <1>2, <1>3, FiniteDescent
<1>5. PICK x \in S : T = Below(x)
  OBVIOUS
<1>6. ASSUME NEW y \in S PROVE UpTo(x, y)
  <2>1. x \in All /\ y \in All
    OBVIOUS
  <2>2. SUFFICES ASSUME ~UpTo(x, y) PROVE FALSE
    OBVIOUS
  <2>3. UpTo(y, x) /\ UpTo(x, x)
    <3> HIDE DEF All
    <3> QED BY <1>1, <2>1, <2>2
  <2>4. \A z \in All : UpTo(z, y) => UpTo(z, x)
    <3> HIDE DEF All
    <3> QED BY <1>1, <2>1, <2>3
  <2>5. Below(y) \subseteq Below(x) /\ x \in Below(x) /\ x \notin Below(y)
    <3> HIDE DEF All, UpTo
    <3> QED BY <2>1, <2>2, <2>3, <2>4
  <2>6. Below(y) \in F
    OBVIOUS
  <2> HIDE DEF Below, F
  <2> QED BY <1>4, <1>5, <2>5, <2>6
<1>7. \E z \in S : \A y \in S : z[1] < y[1] \/ (z[1] = y[1] /\ z[2] <= y[2])
  BY <1>6
<1> HIDE DEF All, F
<1> QED
  BY <1>7 DEF FirstOf

-----------------------------------------------------------------------------
(* Every step keeps the invariant.  A step that leaves the rows of a stream *)
(* alone keeps what is said of it, as the clock does not go back.           *)

\* A step that leaves the rows of a stream alone.
LEMMA SameStream ==
  ASSUME IInv, NEW s \in Stream, now' \in Int, now' >= now,
         ticks'[s] = ticks[s], captures'[s] = captures[s],
         recorded'[s] = recorded[s], summary'[s] = summary[s]
  PROVE  StreamInv(s)'
<1>1. StreamInv(s) /\ now \in Int /\ (\A t \in ticks[s] : t \in Int) /\ (\A r \in recorded[s] : r.at \in Int)
  BY StreamDaysAssumption DEF IInv, Typed, Noted
<1>2. Past(s)'
  BY <1>1 DEF StreamInv, Past
<1>3. Paired(s)'
  BY <1>1 DEF StreamInv, Paired
<1>4. Counted(s)'
  BY <1>1, SameSummaries DEF StreamInv, Counted
<1> QED
  BY <1>2, <1>3, <1>4 DEF StreamInv

\* The tables start empty.
LEMMA InitInv == Init => IInv
<1> SUFFICES ASSUME Init PROVE IInv
  OBVIOUS
<1>1. Typed
  <2>1. -1 \in -1..Horizon /\ 0 \in 0..MaxEdits
    BY StreamDaysAssumption
  <2>2. NoRevision \in Manifest /\ NoSummary \in Counts
    BY DEF NoRevision, NoSummary, Manifest, Counts, Unpublished
  <2>3. phase \in [Stream -> Nat]
    BY StreamDaysAssumption DEF Init
  <2> QED BY <2>1, <2>2, <2>3 DEF Init, Typed
<1>2. Unsummarized
  BY DEF Init, Unsummarized
<1>3. ASSUME NEW s \in Stream PROVE StreamInv(s)
  <2>1. ticks[s] = {} /\ captures[s] = {} /\ recorded[s] = {} /\ SummarizedDays(s) = {}
    BY DEF Init, SummarizedDays
  <2>2. SummedTicks(s) = 0 /\ SummedCaptures(s) = 0
    <3>1. PICK g : g = [d \in SummarizedDays(s) |-> summary[s][d].ticks]
      OBVIOUS
    <3>2. PICK h : h = [d \in SummarizedDays(s) |-> summary[s][d].captures]
      OBVIOUS
    <3>3. \A k : DOMAIN k = {} => SumFunction(k) = 0
      BY SumFunctionIs, SumFacts, FS_EmptySet
    <3> QED BY <2>1, <3>1, <3>2, <3>3 DEF SummedTicks, SummedCaptures
  <2>3. {r \in recorded[s] : r.captured} = {}
    BY <2>1
  <2>4. Counted(s)
    BY <2>1, <2>2, <2>3, FS_EmptySet DEF Counted
  <2> QED BY <2>1, <2>4, FS_EmptySet DEF StreamInv, Past, Paired
<1> QED
  BY <1>1, <1>2, <1>3 DEF IInv

\* A tick of a stream, at the instant the clock comes to (TimePasses).
LEMMA Tick ==
  ASSUME IInv, NEW s \in Stream, now' \in 0..Horizon, now < now',
         NEW note \in Noted, note.at = now',
         ticks'[s] = ticks[s] \cup {now'}, recorded'[s] = recorded[s] \cup {note},
         summary'[s] = summary[s],
         NEW row \in TableRow, row.at = now',
         captures'[s] = IF note.captured THEN captures[s] \cup {row} ELSE captures[s]
  PROVE  StreamInv(s)'
<1>1. StreamInv(s) /\ now \in Int /\ now' \in Int /\ IsFiniteSet(ticks[s])
  BY FiniteTicks, StreamDaysAssumption DEF IInv, Typed
<1>2. \A t \in ticks[s] : t \in Int
  BY StreamDaysAssumption DEF IInv, Typed
<1>3. \A r \in recorded[s] : r.at \in Int
  BY StreamDaysAssumption DEF IInv, Typed, Noted
<1>4. \A c \in captures[s] : c.at \in Int /\ c.at <= now
  BY <1>1, <1>2 DEF StreamInv, Paired, Past
<1>5. now' \notin ticks[s] /\ note \notin recorded[s] /\ row \notin captures[s]
  BY <1>1, <1>4 DEF StreamInv, Past
<1>6. Past(s)'
  BY <1>1, <1>2, <1>3 DEF StreamInv, Past
<1>7. Paired(s)'
  <2>0. IsFiniteSet(captures[s]) /\ IsFiniteSet(recorded[s])
    BY <1>1 DEF StreamInv, Paired
  <2>1. IsFiniteSet(captures'[s]) /\ IsFiniteSet(recorded'[s])
    <3>1. IsFiniteSet(captures[s] \cup {row}) /\ IsFiniteSet(recorded[s] \cup {note})
      BY <2>0, FS_AddElement
    <3> QED BY <2>0, <3>1
  <2>2. \A c \in captures'[s] : c = row \/ c \in captures[s]
    OBVIOUS
  <2>3. \A c \in captures'[s] : c.at \in ticks'[s]
    BY <1>1, <2>2 DEF StreamInv, Paired
  <2>4. \A b, c \in captures'[s] : b.at = c.at => b = c
    BY <1>1, <1>4, <2>2 DEF StreamInv, Paired
  <2> QED BY <2>1, <2>3, <2>4 DEF Paired
<1>8. Counted(s)'
  <2>1. Cardinality(ticks'[s]) = Cardinality(ticks[s]) + 1
    BY <1>1, <1>5, FS_AddElement
  <2>2. Cardinality(recorded'[s]) = Cardinality(recorded[s]) + 1
    BY <1>1, <1>5, FS_AddElement DEF StreamInv, Paired
  <2>3. PICK C : C = {r \in recorded[s] : r.captured}
    OBVIOUS
  <2>4. {r \in recorded'[s] : r.captured} = IF note.captured THEN C \cup {note} ELSE C
    BY <2>3
  <2>5. IsFiniteSet(C) /\ note \notin C
    BY <1>1, <1>5, <2>3, FS_Subset DEF StreamInv, Paired
  <2>6. Cardinality({r \in recorded'[s] : r.captured}) =
            IF note.captured THEN Cardinality(C) + 1 ELSE Cardinality(C)
    BY <2>4, <2>5, FS_AddElement
  <2>7. Cardinality(captures'[s]) =
            IF note.captured THEN Cardinality(captures[s]) + 1 ELSE Cardinality(captures[s])
    BY <1>1, <1>5, FS_AddElement DEF StreamInv, Paired
  <2>8. /\ Cardinality(ticks[s]) \in Int /\ Cardinality(captures[s]) \in Int
        /\ SummedTicks(s) \in Int /\ SummedCaptures(s) \in Int
    BY <1>1, FS_CardinalityType, SummedInt DEF StreamInv, Paired, IInv
  <2>9. SummedTicks(s)' = SummedTicks(s) /\ SummedCaptures(s)' = SummedCaptures(s)
    BY SameSummaries
  <2>10. /\ Cardinality(recorded[s]) = Cardinality(ticks[s]) + SummedTicks(s)
         /\ Cardinality(C) = Cardinality(captures[s]) + SummedCaptures(s)
    BY <1>1, <2>3 DEF StreamInv, Counted
  <2>11. Cardinality(recorded'[s]) = Cardinality(ticks'[s]) + SummedTicks(s)'
    BY <2>1, <2>2, <2>8, <2>9, <2>10
  <2>12. Cardinality({r \in recorded'[s] : r.captured}) = Cardinality(captures'[s]) + SummedCaptures(s)'
    BY <2>6, <2>7, <2>8, <2>9, <2>10
  <2> QED BY <2>11, <2>12 DEF Counted
<1> QED
  BY <1>6, <1>7, <1>8 DEF StreamInv

\* The clock moves on and may record a tick, with or without a capture.
LEMMA TimePassesInv == ASSUME IInv, TimePasses PROVE IInv'
<1>1. PICK outcome \in [Due(now') -> {"captured", "failed", "down"}] :
        LET Recorded(s) == s \in Due(now') /\ outcome[s] # "down"
            Captured(s) == s \in Due(now') /\ outcome[s] = "captured"
        IN /\ ticks' = [s \in Stream |-> IF Recorded(s) THEN ticks[s] \cup {now'} ELSE ticks[s]]
           /\ captures' = [s \in Stream |->
                IF Captured(s)
                THEN captures[s] \cup {[at |-> now', day |-> LocalDate(now'), url |-> url[s], live |-> TRUE]}
                ELSE captures[s]]
           /\ recorded' = [s \in Stream |->
                IF Recorded(s)
                THEN recorded[s] \cup {[at |-> now', day |-> LocalDate(now'), captured |-> Captured(s)]}
                ELSE recorded[s]]
  BY DEF TimePasses
<1> DEFINE Recorded(s) == s \in Due(now') /\ outcome[s] # "down"
           Captured(s) == s \in Due(now') /\ outcome[s] = "captured"
           row(s) == [at |-> now', day |-> LocalDate(now'), url |-> url[s], live |-> TRUE]
           note(s) == [at |-> now', day |-> LocalDate(now'), captured |-> Captured(s)]
<1>2. now' \in 0..Horizon /\ now < now' /\ now' >= now
  BY StreamDaysAssumption DEF TimePasses, IInv, Typed
<1>3. UNCHANGED <<config, edits, revision, summary, todo>>
  BY DEF TimePasses
<1>4. ASSUME NEW s \in Stream, s \in Due(now')
      PROVE  LocalDate(now') \in Day
  BY <1>2, <1>4, DatesAreDays DEF Due, IInv, Typed
<1>5. ASSUME NEW s \in Stream, s \in Due(now')
      PROVE  row(s) \in TableRow /\ note(s) \in Noted
  BY <1>2, <1>4, <1>5 DEF TableRow, Noted, IInv, Typed
<1>6. ASSUME NEW s \in Stream
      PROVE  /\ ticks'[s] = IF Recorded(s) THEN ticks[s] \cup {now'} ELSE ticks[s]
             /\ captures'[s] = IF Captured(s) THEN captures[s] \cup {row(s)} ELSE captures[s]
             /\ recorded'[s] = IF Recorded(s) THEN recorded[s] \cup {note(s)} ELSE recorded[s]
  BY <1>1, Zenon
<1>7. DOMAIN ticks' = Stream /\ DOMAIN captures' = Stream /\ DOMAIN recorded' = Stream
  BY <1>1
<1>8. ASSUME NEW s \in Stream PROVE Captured(s) => Recorded(s)
  OBVIOUS
<1> HIDE DEF row, note
<1>9. Typed'
  <2>1. ASSUME NEW s \in Stream
        PROVE  ticks'[s] \in SUBSET (0..Horizon) /\ captures'[s] \in SUBSET TableRow /\ recorded'[s] \in SUBSET Noted
    <3>1. ticks[s] \in SUBSET (0..Horizon) /\ captures[s] \in SUBSET TableRow /\ recorded[s] \in SUBSET Noted
      BY DEF IInv, Typed
    <3> QED BY <1>2, <1>5, <1>6, <3>1
  <2>2. /\ ticks' = [s \in Stream |-> ticks'[s]]
        /\ captures' = [s \in Stream |-> captures'[s]]
        /\ recorded' = [s \in Stream |-> recorded'[s]]
    BY <1>1
  <2>3. /\ ticks' \in [Stream -> SUBSET (0..Horizon)]
        /\ captures' \in [Stream -> SUBSET TableRow]
        /\ recorded' \in [Stream -> SUBSET Noted]
    BY <2>1, <2>2
  <2>4. now' \in -1..Horizon
    BY <1>2, StreamDaysAssumption
  <2> QED BY <1>3, <2>3, <2>4 DEF IInv, Typed, config
<1>10. Unsummarized'
  BY <1>3 DEF IInv, Unsummarized
<1>11. ASSUME NEW s \in Stream PROVE StreamInv(s)'
  <2>1. summary'[s] = summary[s] /\ now' \in Int
    BY <1>2, <1>3
  <2>2. CASE ~Recorded(s)
    BY <1>2, <1>6, <1>8, <2>1, <2>2, SameStream
  <2>3. CASE Recorded(s)
    <3>1. row(s).at = now' /\ note(s).at = now' /\ note(s).captured = Captured(s)
      BY DEF row, note
    <3>2. row(s) \in TableRow /\ note(s) \in Noted
      BY <1>5, <2>3
    <3>3. PICK r \in TableRow, n \in Noted : r = row(s) /\ n = note(s)
      BY <3>2
    <3> HIDE DEF Captured
    <3>4. /\ ticks'[s] = ticks[s] \cup {now'} /\ recorded'[s] = recorded[s] \cup {n}
          /\ captures'[s] = IF n.captured THEN captures[s] \cup {r} ELSE captures[s]
      BY <1>6, <2>3, <3>1, <3>3
    <3>5. r.at = now' /\ n.at = now'
      BY <3>1, <3>3
    <3> QED BY <1>2, <2>1, <3>4, <3>5, Tick
  <2> QED BY <2>2, <2>3
<1> QED
  BY <1>9, <1>10, <1>11 DEF IInv

\* Steps that leave the clock and the rows alone.
LEMMA SameRows ==
  ASSUME IInv, UNCHANGED <<now, ticks, captures, recorded, summary>>,
         todo' \subseteq todo, Typed'
  PROVE  IInv'
<1>1. now' \in Int /\ now' >= now
  BY StreamDaysAssumption DEF IInv, Typed
<1>2. \A s \in Stream : StreamInv(s)'
  BY <1>1, SameStream
<1>3. Unsummarized'
  BY DEF IInv, Unsummarized
<1> QED
  BY <1>2, <1>3 DEF IInv

\* The operator changes the day time zone.
LEMMA EditZoneInv == ASSUME IInv, EditZone PROVE IInv'
<1>1. edits' \in 0..MaxEdits
  BY StreamDaysAssumption DEF EditZone, IInv, Typed
<1>2. Typed'
  BY <1>1 DEF EditZone, IInv, Typed, tables
<1> QED
  BY <1>2, SameRows DEF EditZone, tables

\* The operator changes the URL of a stream.
LEMMA EditURLInv == ASSUME IInv, NEW s \in Stream, EditURL(s) PROVE IInv'
<1>1. edits' \in 0..MaxEdits
  BY StreamDaysAssumption DEF EditURL, IInv, Typed
<1>2. url' \in [Stream -> URLs]
  BY DEF EditURL, IInv, Typed
<1>3. Typed'
  BY <1>1, <1>2 DEF EditURL, IInv, Typed, tables
<1> QED
  BY <1>3, SameRows DEF EditURL, tables

\* The rows of one day.
LEMMA FiniteCapturesOf ==
  ASSUME IInv, NEW s \in Stream, NEW d
  PROVE  /\ IsFiniteSet(TicksOf(s, d)) /\ IsFiniteSet(CapturesOf(s, d))
         /\ Cardinality(TicksOf(s, d)) \in Nat /\ Cardinality(CapturesOf(s, d)) \in Nat
         /\ TicksOf(s, d) \subseteq ticks[s] /\ CapturesOf(s, d) \subseteq captures[s]
<1>1. IsFiniteSet(ticks[s]) /\ IsFiniteSet(captures[s])
  BY FiniteTicks DEF IInv, StreamInv, Paired
<1>2. TicksOf(s, d) \in SUBSET ticks[s] /\ CapturesOf(s, d) \in SUBSET captures[s]
  BY DEF TicksOf, CapturesOf
<1>3. IsFiniteSet(TicksOf(s, d)) /\ IsFiniteSet(CapturesOf(s, d))
  BY <1>1, <1>2, FS_Subset
<1> QED
  BY <1>2, <1>3, FS_CardinalityType

\* A day gets its revision.
LEMMA CompactDayInv ==
  ASSUME IInv, NEW s \in Stream, NEW d \in Day, CompactDay(s, d) PROVE IInv'
<1>1. PICK new : new = [inputs |-> {c.at : c \in CapturesOf(s, d)},
                        ticks |-> Cardinality(TicksOf(s, d)),
                        published |-> Unpublished]
  OBVIOUS
<1>2. new \in Manifest
  <2>1. Cardinality(TicksOf(s, d)) \in Int /\ CapturesOf(s, d) \subseteq captures[s]
    BY FiniteCapturesOf
  <2>2. {c.at : c \in CapturesOf(s, d)} \subseteq 0..Horizon
    BY <2>1 DEF IInv, Typed, TableRow
  <2> QED BY <1>1, <2>1, <2>2 DEF Manifest, Unpublished
<1>3. revision' = [revision EXCEPT ![s][d] = new]
  BY <1>1 DEF CompactDay
<1>4. revision' \in [Stream -> [Day -> Manifest]]
  BY <1>2, <1>3 DEF IInv, Typed
<1>5. Typed'
  BY <1>4 DEF CompactDay, IInv, Typed, config
<1> QED
  BY <1>5, SameRows DEF CompactDay

\* The revision is published.
LEMMA PublishDayInv ==
  ASSUME IInv, NEW s \in Stream, NEW d \in Day, PublishDay(s, d) PROVE IInv'
<1>1. now \in Int
  BY StreamDaysAssumption DEF IInv, Typed
<1>2. revision' = [revision EXCEPT ![s][d].published = now]
  BY DEF PublishDay
<1>3. revision' \in [Stream -> [Day -> Manifest]]
  <2>1. revision \in [Stream -> [Day -> Manifest]]
    BY DEF IInv, Typed
  <2>2. PICK new : new = [revision[s][d] EXCEPT !.published = now]
    OBVIOUS
  <2>5. PICK old \in Manifest : old = revision[s][d]
    BY <2>1
  <2>3. new \in Manifest
    BY <1>1, <2>2, <2>5 DEF Manifest
  <2>4. revision' = [revision EXCEPT ![s][d] = new]
    BY <1>2, <2>2
  <2> QED BY <2>1, <2>3, <2>4
<1>4. Typed'
  BY <1>3 DEF PublishDay, IInv, Typed, config
<1> QED
  BY <1>4, SameRows DEF PublishDay

\* A retention pass marks the rows whose raw file it has removed, and neither
\* adds a row nor drops one (Cleanup).
LEMMA CleanupInv == ASSUME IInv, Cleanup PROVE IInv'
<1> DEFINE marked(s, c) == [c EXCEPT !.live = @ /\ ~RawRetentionCandidate(s, c)]
<1>1. captures' = [s \in Stream |-> {marked(s, c) : c \in captures[s]}]
  BY DEF Cleanup
<1>2. ASSUME NEW s \in Stream, NEW c \in captures[s]
      PROVE  marked(s, c) \in TableRow /\ marked(s, c).at = c.at
  <2>1. c \in TableRow
    BY DEF IInv, Typed
  <2>2. (c.live /\ ~RawRetentionCandidate(s, c)) \in BOOLEAN
    BY DEF RawRetentionCandidate
  <2> QED BY <2>1, <2>2 DEF TableRow
<1> HIDE DEF marked
<1>3. UNCHANGED <<now, config, edits, ticks, revision, summary, recorded>>
  BY DEF Cleanup
<1>4. todo' \subseteq Stream \X Day /\ (\A job \in todo' : summary[job[1]][job[2]] = NoSummary)
  BY DEF Cleanup, SummaryCandidates
<1>5. Typed'
  <2>1. captures' \in [Stream -> SUBSET TableRow]
    BY <1>1, <1>2
  <2> QED BY <1>3, <1>4, <2>1 DEF IInv, Typed, config
<1>6. Unsummarized'
  BY <1>3, <1>4 DEF Unsummarized
<1>7. ASSUME NEW s \in Stream PROVE StreamInv(s)'
  <2>1. PICK old : old = captures[s]
    OBVIOUS
  <2>2. PICK new : new = captures'[s]
    OBVIOUS
  <2>3. PICK f : f = [c \in old |-> marked(s, c)]
    OBVIOUS
  <2>4. new = {marked(s, c) : c \in old}
    BY <1>1, <2>1, <2>2
  <2>5. \A c \in old : f[c] = marked(s, c) /\ f[c].at = c.at
    BY <1>2, <2>1, <2>3
  <2>6. \A b, c \in old : b.at = c.at => b = c
    BY <2>1 DEF IInv, StreamInv, Paired
  <2>7. f \in [old -> new] /\ (\A b, c \in old : f[b] = f[c] => b = c) /\ (\A x \in new : \E c \in old : f[c] = x)
    BY <2>3, <2>4, <2>5, <2>6
  <2>8. ExistsBijection(old, new)
    BY <2>7 DEF ExistsBijection, Bijection, Injection, Surjection, IsInjective
  <2>9. IsFiniteSet(old)
    BY <2>1 DEF IInv, StreamInv, Paired
  <2>10. IsFiniteSet(new) /\ Cardinality(new) = Cardinality(old)
    BY <2>8, <2>9, FS_Bijection
  <2>11. Past(s)'
    BY <1>3 DEF IInv, StreamInv, Past
  <2>12. Paired(s)'
    <3>1. \A x \in new : \E c \in old : x = f[c] /\ x.at = c.at
      BY <2>5, <2>7
    <3>2. \A x \in new : x.at \in ticks[s]
      BY <2>1, <3>1 DEF IInv, StreamInv, Paired
    <3>3. \A x, y \in new : x.at = y.at => x = y
      BY <2>6, <3>1
    <3> QED BY <1>3, <2>2, <2>10, <3>2, <3>3 DEF IInv, StreamInv, Paired
  <2>13. Counted(s)'
    BY <1>3, <2>1, <2>2, <2>10, SameSummaries DEF IInv, StreamInv, Counted
  <2> QED BY <2>11, <2>12, <2>13 DEF StreamInv
<1> QED
  BY <1>5, <1>6, <1>7 DEF IInv

\* What SummarizeDay deletes is what it counts, and the foreign key keeps the
\* ticks of the captures that stay.
LEMMA CommitSummaryInv ==
  ASSUME IInv, NEW s \in Stream, NEW d \in Day, <<s, d>> \in todo,
         CommitSummary(s, d), UNCHANGED <<now, config, edits>>
  PROVE  IInv'
<1>1. summary[s][d] = NoSummary
  <2>1. PICK job \in todo : job = <<s, d>>
    OBVIOUS
  <2> QED BY <2>1 DEF IInv, Unsummarized
<1>2. PICK counts : counts = DailySummary(s, d)
  OBVIOUS
<1>3. PICK T : T = TicksOf(s, d)
  OBVIOUS
<1>4. PICK C : C = CapturesOf(s, d)
  OBVIOUS
<1>5. /\ IsFiniteSet(T) /\ IsFiniteSet(C) /\ T \subseteq ticks[s] /\ C \subseteq captures[s]
      /\ Cardinality(T) \in Nat /\ Cardinality(C) \in Nat
  BY <1>3, <1>4, FiniteCapturesOf
<1>6. counts = [ticks |-> Cardinality(T), captures |-> Cardinality(C)]
  BY <1>2, <1>3, <1>4 DEF DailySummary
<1>7. counts \in [ticks : Nat, captures : Nat]
  BY <1>5, <1>6
<1>8. /\ summary' = [summary EXCEPT ![s][d] = counts]
      /\ captures' = [captures EXCEPT ![s] = @ \ C]
      /\ ticks' = [ticks EXCEPT ![s] = @ \ T]
      /\ todo' = todo \ {<<s, d>>}
      /\ UNCHANGED <<revision, recorded, now, config, edits>>
  BY <1>2, <1>3, <1>4 DEF CommitSummary
<1>9. Typed'
  <2>1. counts \in Counts
    BY <1>7 DEF Counts
  <2>2. summary' \in [Stream -> [Day -> Counts]]
    BY <1>8, <2>1 DEF IInv, Typed
  <2>3. captures' \in [Stream -> SUBSET TableRow] /\ ticks' \in [Stream -> SUBSET (0..Horizon)]
    BY <1>8 DEF IInv, Typed
  <2> QED BY <1>8, <2>2, <2>3 DEF IInv, Typed, config
<1>10. summary'[s] = [summary[s] EXCEPT ![d] = counts]
  BY <1>8 DEF IInv, Typed
<1>11. Unsummarized'
  <2> SUFFICES ASSUME NEW job \in todo' PROVE summary'[job[1]][job[2]] = NoSummary
    BY DEF Unsummarized
  <2>1. job \in todo /\ job # <<s, d>> /\ summary[job[1]][job[2]] = NoSummary
    BY <1>8 DEF IInv, Unsummarized
  <2>2. job[1] \in Stream /\ job[2] \in Day /\ job = <<job[1], job[2]>>
    BY <2>1 DEF IInv, Typed
  <2>3. job[1] # s \/ job[2] # d
    BY <2>1, <2>2
  <2> QED BY <1>8, <2>1, <2>2, <2>3 DEF IInv, Typed
<1>12. now \in Int /\ now' = now
  BY <1>8, StreamDaysAssumption DEF IInv, Typed
<1>13. ASSUME NEW x \in Stream PROVE StreamInv(x)'
  <2>1. CASE x # s
    <3>1. ticks'[x] = ticks[x] /\ captures'[x] = captures[x] /\ recorded'[x] = recorded[x] /\ summary'[x] = summary[x]
      BY <1>8, <2>1 DEF IInv, Typed
    <3>2. now' \in Int /\ now' >= now
      BY <1>12
    <3> QED BY <3>1, <3>2, SameStream
  <2>2. CASE x = s
    <3>1. ticks'[s] = ticks[s] \ T /\ captures'[s] = captures[s] \ C /\ recorded' = recorded
      BY <1>8 DEF IInv, Typed
    <3>2. StreamInv(s)
      BY DEF IInv
    <3>3. Past(s)'
      BY <1>12, <3>1, <3>2 DEF StreamInv, Past
    <3>4. Paired(s)'
      <4>1. \A c \in captures[s] \ C : c.at \notin T
        BY <1>3, <1>4 DEF CommitSummary, ForeignKeysHold
      <4>2. IsFiniteSet(captures[s] \ C)
        BY <3>2, FS_Difference DEF StreamInv, Paired
      <4> QED BY <3>1, <3>2, <4>1, <4>2 DEF StreamInv, Paired
    <3>5. Counted(s)'
      <4>1. IsFiniteSet(ticks[s]) /\ IsFiniteSet(captures[s])
        BY <3>2, FiniteTicks DEF StreamInv, Paired, IInv
      <4>2. ticks[s] \cap T = T /\ captures[s] \cap C = C
        BY <1>5
      <4>3. /\ Cardinality(ticks'[s]) = Cardinality(ticks[s]) - Cardinality(T)
            /\ Cardinality(captures'[s]) = Cardinality(captures[s]) - Cardinality(C)
        BY <3>1, <4>1, <4>2, FS_Difference
      <4>4. /\ SummedTicks(s)' = SummedTicks(s) + Cardinality(T)
            /\ SummedCaptures(s)' = SummedCaptures(s) + Cardinality(C)
        <5>1. /\ SummedTicks(s)' = SummedTicks(s) + counts.ticks
              /\ SummedCaptures(s)' = SummedCaptures(s) + counts.captures
          BY <1>1, <1>7, <1>10, SummaryAdds DEF IInv
        <5> QED BY <1>6, <5>1
      <4>5. /\ Cardinality(ticks[s]) \in Int /\ Cardinality(captures[s]) \in Int
            /\ SummedTicks(s) \in Int /\ SummedCaptures(s) \in Int
        BY <4>1, FS_CardinalityType, SummedInt DEF IInv
      <4>6. /\ Cardinality(recorded[s]) = Cardinality(ticks[s]) + SummedTicks(s)
            /\ Cardinality({r \in recorded[s] : r.captured}) = Cardinality(captures[s]) + SummedCaptures(s)
        BY <3>2 DEF StreamInv, Counted
      <4>7. /\ Cardinality(recorded[s]) = Cardinality(ticks'[s]) + SummedTicks(s)'
            /\ Cardinality({r \in recorded[s] : r.captured}) = Cardinality(captures'[s]) + SummedCaptures(s)'
        BY <1>5, <4>3, <4>4, <4>5, <4>6
      <4> QED BY <3>1, <4>7 DEF Counted
    <3> QED BY <2>2, <3>3, <3>4, <3>5 DEF StreamInv
  <2> QED BY <2>1, <2>2
<1> QED
  BY <1>9, <1>11, <1>13 DEF IInv

\* The pass over the candidates does the next of them.
LEMMA SummarizeDayInv == ASSUME IInv, SummarizeDay PROVE IInv'
<1>1. PICK s, d : /\ s = FirstOf(todo)[1] /\ d = FirstOf(todo)[2]
                  /\ SkipDay(s, d) \/ CommitSummary(s, d) \/ AbortSummaries(s, d)
                  /\ UNCHANGED <<now, config, edits>>
  BY DEF SummarizeDay
<1>2. s \in Stream /\ d \in Day /\ <<s, d>> \in todo
  <2>1. FirstOf(todo) \in todo /\ todo \subseteq Stream \X Day
    BY FirstOfIsIn DEF SummarizeDay, IInv, Typed
  <2>2. PICK job \in todo : job = FirstOf(todo)
    BY <2>1
  <2>3. job[1] \in Stream /\ job[2] \in Day /\ job = <<job[1], job[2]>>
    BY <2>1, <2>2
  <2> QED BY <1>1, <2>2, <2>3
<1>3. CASE SkipDay(s, d) \/ AbortSummaries(s, d)
  <2>1. UNCHANGED tables /\ todo' \subseteq todo
    BY <1>3 DEF SkipDay, AbortSummaries
  <2>2. Typed'
    BY <1>1, <2>1 DEF IInv, Typed, tables, config
  <2> QED BY <1>1, <2>1, <2>2, SameRows DEF tables
<1>4. CASE CommitSummary(s, d)
  BY <1>1, <1>2, <1>4, CommitSummaryInv
<1> QED
  BY <1>1, <1>3, <1>4

\* Every step of StreamDays keeps the invariant.
LEMMA NextInv == IInv /\ [Next]_vars => IInv'
<1> SUFFICES ASSUME IInv, [Next]_vars PROVE IInv'
  OBVIOUS
<1>1. CASE TimePasses
  BY <1>1, TimePassesInv
<1>2. CASE EditZone
  BY <1>2, EditZoneInv
<1>3. CASE \E s \in Stream : EditURL(s)
  BY <1>3, EditURLInv
<1>4. ASSUME NEW s \in Stream, NEW d \in Day, CompactDay(s, d) \/ PublishDay(s, d) PROVE IInv'
  BY <1>4, CompactDayInv, PublishDayInv
<1>5. CASE Cleanup
  BY <1>5, CleanupInv
<1>6. CASE SummarizeDay
  BY <1>6, SummarizeDayInv
<1>7. CASE UNCHANGED vars
  <2>1. Typed'
    BY <1>7 DEF IInv, Typed, vars, config, tables
  <2> QED BY <1>7, <2>1, SameRows DEF vars, config, tables
<1> QED
  BY <1>1, <1>2, <1>3, <1>4, <1>5, <1>6, <1>7 DEF Next

\* The invariant holds in every state StreamDays reaches.
THEOREM SpecIInv == Spec => []IInv
BY InitInv, NextInv, PTL DEF Spec

\* What is kept of the tables stays within the bounds of the instance (TypeOK).
THEOREM SpecTypeOK == Spec => []TypeOK
<1>1. IInv => TypeOK
  BY DEF IInv, Typed, TypeOK, TableRow, Noted, Manifest, Counts
<1> QED
  BY <1>1, SpecIInv, PTL

\* A capture row never outlives its tick row.
THEOREM SpecCapturesKeepTheirTick == Spec => []CapturesKeepTheirTick
<1>1. IInv => CapturesKeepTheirTick
  BY DEF IInv, StreamInv, Paired, CapturesKeepTheirTick
<1> QED
  BY <1>1, SpecIInv, PTL

\* Every tick and every capture is counted once.
THEOREM SpecEveryTickCountedOnce == Spec => []EveryTickCountedOnce
<1>1. IInv => EveryTickCountedOnce
  BY DEF IInv, StreamInv, Counted, EveryTickCountedOnce
<1> QED
  BY <1>1, SpecIInv, PTL

\* The row of a capture whose raw file is there is not deleted.
THEOREM SpecLiveRowsStay == Spec => LiveRowsStay
<1>1. ASSUME IInv, [Next]_vars
      PROVE  [\A s \in Stream : \A c \in captures[s] :
                c.live => \E e \in captures'[s] : e.at = c.at]_vars
  <2> SUFFICES ASSUME Next, NEW s \in Stream, NEW c \in captures[s], c.live
               PROVE  \E e \in captures'[s] : e.at = c.at
    BY <1>1
  <2>1. CASE captures'[s] = captures[s]
    BY <2>1
  <2>2. CASE TimePasses
    BY <2>2 DEF TimePasses
  <2>3. CASE Cleanup
    <3>1. [c EXCEPT !.live = @ /\ ~RawRetentionCandidate(s, c)] \in captures'[s]
      BY <2>3 DEF Cleanup
    <3>2. c \in TableRow
      BY <1>1 DEF IInv, Typed
    <3> QED BY <3>1, <3>2 DEF TableRow
  <2>4. ASSUME NEW x, NEW d, CommitSummary(x, d) PROVE c \in captures'[s]
    <3>1. captures' = [captures EXCEPT ![x] = @ \ CapturesOf(x, d)] /\ ~LiveRaw(x, d)
      BY <2>4 DEF CommitSummary
    <3>2. x = s => c \notin CapturesOf(x, d)
      BY <3>1 DEF LiveRaw
    <3> QED BY <1>1, <3>1, <3>2 DEF IInv, Typed
  <2> QED
    BY <2>1, <2>2, <2>3, <2>4
    DEF Next, EditZone, EditURL, CompactDay, PublishDay, SummarizeDay, SkipDay, AbortSummaries, tables
<1> QED
  BY <1>1, SpecIInv, PTL DEF Spec, LiveRowsStay

-----------------------------------------------------------------------------
(* Flattened sequences.                                                    *)

\* What holds of 0, and of i + 1 when it holds of i, holds up to n.
LEMMA IndexInduction ==
  ASSUME NEW n \in Nat, NEW F, 0 \in F, \A i \in 0..(n - 1) : i \in F => i + 1 \in F
  PROVE  \A i \in 0..n : i \in F
<1> DEFINE Missing == {i \in 0..n : i \notin F}
           G == {0..i : i \in Missing}
<1>1. IsFiniteSet(0..n)
  BY FS_Interval
<1>2. ASSUME Missing # {} PROVE FALSE
  <2>1. G \in SUBSET SUBSET (0..n) /\ G # {}
    <3>1. \A i \in Missing : 0..i \in SUBSET (0..n)
      OBVIOUS
    <3> HIDE DEF Missing
    <3> QED BY <1>2, <3>1
  <2>2. PICK T \in G : \A U \in G : ~(U \subseteq T /\ U # T)
    <3>1. PICK S : S = 0..n
      OBVIOUS
    <3> HIDE DEF G
    <3>2. IsFiniteSet(S) /\ G \in SUBSET SUBSET S /\ G # {}
      BY <1>1, <2>1, <3>1
    <3> QED BY <3>2, FiniteDescent
  <2>3. PICK i \in Missing : T = 0..i
    OBVIOUS
  <2>4. i \in 0..n /\ i # 0 /\ i \notin F
    BY <2>3
  <2>5. i - 1 \in 0..(n - 1) /\ i - 1 \in 0..n /\ (i - 1) + 1 = i
    BY <2>4
  <2>6. i - 1 \in Missing
    BY <2>4, <2>5
  <2>7. 0..(i - 1) \in G
    <3> HIDE DEF Missing
    <3> QED BY <2>6
  <2>8. 0..(i - 1) \subseteq T /\ 0..(i - 1) # T
    <3>1. i \in T /\ i \notin 0..(i - 1)
      BY <2>3, <2>4
    <3> QED BY <2>3, <2>4, <3>1
  <2> HIDE DEF G
  <2> QED BY <2>2, <2>7, <2>8
<1> QED
  BY <1>2

\* f[i] is the concatenation of the first i of the n members of s.
Concats(f, s, n) ==
    /\ DOMAIN f = 0..n /\ f[0] = <<>>
    /\ \A i \in 0..(n - 1) : f[i + 1] = f[i] \o s[i + 1]

\* A concatenation of sequences over X is a sequence over X.
LEMMA ConcatsType ==
  ASSUME NEW X, NEW n \in Nat, NEW s, \A i \in 1..n : s[i] \in Seq(X),
         NEW f, Concats(f, s, n)
  PROVE  \A i \in 0..n : f[i] \in Seq(X)
<1> DEFINE F == {i \in 0..n : f[i] \in Seq(X)}
<1>1. f[0] \in Seq(X)
  BY DEF Concats
<1>2. ASSUME NEW i \in 0..(n - 1), f[i] \in Seq(X) PROVE f[i + 1] \in Seq(X)
  <2>1. f[i + 1] = f[i] \o s[i + 1]
    BY DEF Concats
  <2>2. s[i + 1] \in Seq(X)
    OBVIOUS
  <2> QED BY <1>2, <2>1, <2>2
<1>3. 0 \in F /\ (\A i \in 0..(n - 1) : i \in F => i + 1 \in F)
  BY <1>1, <1>2
<1>4. \A i \in 0..n : i \in F
  <2> HIDE DEF F
  <2> QED BY <1>3, IndexInduction
<1> QED
  BY <1>4

\* There is a function of the concatenations.
LEMMA ConcatsExist ==
  ASSUME NEW n \in Nat, NEW s PROVE \E f : Concats(f, s, n)
<1> DEFINE F == {i \in 0..n : \E f : Concats(f, s, i)}
<1>1. \E f : Concats(f, s, 0)
  <2>1. PICK f : f = [i \in 0..0 |-> <<>>]
    OBVIOUS
  <2>2. Concats(f, s, 0)
    BY <2>1 DEF Concats
  <2> QED BY <2>2
<1>2. ASSUME NEW i \in 0..(n - 1), NEW f, Concats(f, s, i) PROVE \E h : Concats(h, s, i + 1)
  <2>1. PICK h : h = [k \in 0..(i + 1) |-> IF k = i + 1 THEN f[i] \o s[i + 1] ELSE f[k]]
    OBVIOUS
  <2>2. DOMAIN h = 0..(i + 1) /\ h[0] = <<>>
    BY <1>2, <2>1 DEF Concats
  <2>3. ASSUME NEW k \in 0..((i + 1) - 1) PROVE h[k + 1] = h[k] \o s[k + 1]
    <3>1. k \in 0..i /\ k # i + 1 /\ k + 1 \in 0..(i + 1) /\ k \in 0..(i + 1)
      OBVIOUS
    <3>2. h[k] = f[k]
      BY <2>1, <3>1
    <3>3. CASE k = i
      BY <2>1, <3>1, <3>2, <3>3
    <3>4. CASE k # i
      <4>1. k \in 0..(i - 1) /\ k + 1 # i + 1
        BY <3>1, <3>4
      <4>2. f[k + 1] = f[k] \o s[k + 1]
        BY <1>2, <4>1 DEF Concats
      <4> QED BY <2>1, <3>1, <3>2, <4>1, <4>2
    <3> QED BY <3>3, <3>4
  <2>4. Concats(h, s, i + 1)
    BY <2>2, <2>3 DEF Concats
  <2> QED BY <2>4
<1>3. 0 \in F /\ (\A i \in 0..(n - 1) : i \in F => i + 1 \in F)
  BY <1>1, <1>2
<1>4. \A i \in 0..n : i \in F
  <2> HIDE DEF F
  <2> QED BY <1>3, IndexInduction
<1> QED
  BY <1>4

\* FlattenSeq of the community modules is the last concatenation.
LEMMA FlattenIs ==
  ASSUME NEW X, NEW n \in Nat, NEW s, s = [i \in 1..n |-> s[i]],
         \A i \in 1..n : s[i] \in Seq(X),
         NEW f, Concats(f, s, n)
  PROVE  FlattenSeq(s) = f[n]
<1>1. Len(s) = n
  OBVIOUS
<1>2. CASE n = 0
  <2>1. s = <<>>
    BY <1>2
  <2> QED BY <1>1, <1>2, <2>1 DEF FlattenSeq, Concats
<1>3. CASE n # 0
  <2> DEFINE P(h) == h = [i \in 1..n |-> IF i = 1 THEN s[i] ELSE h[i - 1] \o s[i]]
             g == CHOOSE h : P(h)
  <2>1. FlattenSeq(s) = g[n]
    BY <1>1, <1>3 DEF FlattenSeq
  <2>2. \A x \in Seq(X) : <<>> \o x = x
    OBVIOUS
  <2>3. ASSUME NEW i \in 1..n
        PROVE  f[i] = IF i = 1 THEN s[i] ELSE f[i - 1] \o s[i]
    <3>1. i - 1 \in 0..(n - 1) /\ (i - 1) + 1 = i
      OBVIOUS
    <3>2. f[i] = f[i - 1] \o s[i]
      BY <3>1 DEF Concats
    <3>3. CASE i = 1
      <4>1. f[i - 1] = <<>>
        BY <3>3 DEF Concats
      <4> QED BY <2>2, <3>2, <3>3, <4>1
    <3> QED BY <3>2, <3>3
  <2>4. PICK h : h = [i \in 1..n |-> f[i]]
    OBVIOUS
  <2>5. P(h)
    <3>1. ASSUME NEW i \in 1..n PROVE f[i] = IF i = 1 THEN s[i] ELSE h[i - 1] \o s[i]
      <4>1. CASE i # 1
        <5>1. i - 1 \in 1..n
          BY <4>1
        <5> QED BY <2>3, <2>4, <4>1, <5>1
      <4> QED BY <2>3, <4>1
    <3> QED BY <2>4, <3>1
  <2>6. P(g)
    <3> HIDE DEF P
    <3> QED BY <2>5
  <2>7. PICK k : k = g /\ P(k)
    BY <2>6
  <2> HIDE DEF g
  <2>8. \A i \in 1..n : k[i] = IF i = 1 THEN s[i] ELSE k[i - 1] \o s[i]
    BY <2>7
  <2> HIDE DEF P
  <2> DEFINE F == {i \in 0..n : i > 0 => k[i] = f[i]}
  <2>9. ASSUME NEW i \in 0..(n - 1), i > 0 => k[i] = f[i] PROVE k[i + 1] = f[i + 1]
    <3>1. i + 1 \in 1..n /\ (i + 1) - 1 = i
      OBVIOUS
    <3>2. CASE i = 0
      BY <2>3, <2>8, <3>1, <3>2
    <3>3. CASE i # 0
      <4>0. PICK j \in 1..n : j = i + 1 /\ j - 1 = i /\ j # 1
        BY <3>1, <3>3
      <4>1. k[i + 1] = k[i] \o s[i + 1]
        BY <2>8, <4>0
      <4>2. f[i + 1] = f[i] \o s[i + 1]
        BY <2>3, <4>0
      <4>3. k[i] = f[i]
        BY <2>9, <3>3
      <4> QED BY <4>1, <4>2, <4>3
    <3> QED BY <3>2, <3>3
  <2>10. 0 \in F /\ (\A i \in 0..(n - 1) : i \in F => i + 1 \in F)
    BY <2>9
  <2>11. \A i \in 0..n : i \in F
    <3> HIDE DEF F
    <3> QED BY <2>10, IndexInduction
  <2>12. k[n] = f[n]
    BY <1>3, <2>11
  <2> QED BY <2>1, <2>7, <2>12
<1> QED
  BY <1>2, <1>3

\* A later concatenation extends an earlier one, so with the same length it is the same.
LEMMA ConcatsGrow ==
  ASSUME NEW X, NEW n \in Nat, NEW s, \A i \in 1..n : s[i] \in Seq(X),
         NEW f, Concats(f, s, n), NEW i \in 0..n, NEW j \in i..n
  PROVE  Len(f[i]) <= Len(f[j]) /\ (Len(f[i]) = Len(f[j]) => f[i] = f[j])
<1>1. PICK d \in Nat : d = j - i
  OBVIOUS
<1>0. \A k \in 0..n : f[k] \in Seq(X)
  BY ConcatsType
<1>2. PICK a \in Seq(X) : a = f[i]
  BY <1>0
<1> DEFINE Extends(k) == Len(a) <= Len(f[i + k]) /\ \A x \in 1..Len(a) : f[i + k][x] = a[x]
           F == {k \in 0..d : Extends(k)}
<1>4. Extends(0)
  BY <1>2
<1>5. ASSUME NEW k \in 0..(d - 1), Extends(k) PROVE Extends(k + 1)
  <2>1. PICK m \in 0..(n - 1) : m = i + k /\ m + 1 = i + (k + 1) /\ m + 1 \in 1..n
    BY <1>1
  <2>2. f[m + 1] = f[m] \o s[m + 1] /\ s[m + 1] \in Seq(X)
    BY <2>1 DEF Concats
  <2>3. PICK b \in Seq(X) : b = f[m]
    BY <1>0, <2>1
  <2>7. PICK u \in Seq(X) : u = s[m + 1]
    BY <2>2
  <2>4. Len(b \o u) = Len(b) + Len(u) /\ (\A x \in 1..Len(b) : (b \o u)[x] = b[x])
    OBVIOUS
  <2>5. Len(a) <= Len(b) /\ (\A x \in 1..Len(a) : b[x] = a[x])
    BY <1>5, <2>1, <2>3
  <2>6. Len(a) <= Len(b \o u) /\ (\A x \in 1..Len(a) : (b \o u)[x] = a[x])
    BY <2>4, <2>5
  <2> QED BY <2>1, <2>2, <2>3, <2>6, <2>7
<1>6. 0 \in F /\ (\A k \in 0..(d - 1) : k \in F => k + 1 \in F)
  <2>1. \A k \in 0..(d - 1) : k \in 0..d /\ k + 1 \in 0..d
    OBVIOUS
  <2> HIDE DEF Extends
  <2> QED BY <1>4, <1>5, <2>1
<1>7. \A k \in 0..d : k \in F
  <2> HIDE DEF F
  <2> QED BY <1>6, IndexInduction
<1>8. PICK e \in Seq(X) : e = f[j]
  <2>1. j \in 0..n
    OBVIOUS
  <2> QED BY <1>0, <2>1
<1>9. Len(a) <= Len(e) /\ (\A x \in 1..Len(a) : e[x] = a[x])
  <2>1. d \in 0..d /\ i + d = j
    BY <1>1
  <2> QED BY <1>7, <1>8, <2>1
<1>10. Len(a) = Len(e) => a = e
  BY <1>9
<1> QED
  BY <1>2, <1>8, <1>9, <1>10

\* The members of s after the i-th, up to the j-th, are empty.
Gap(s, i, j) == \A h \in (i + 1)..j : s[h] = <<>>

\* Empty members add nothing.
LEMMA ConcatsSkip ==
  ASSUME NEW X, NEW n \in Nat, NEW s, \A i \in 1..n : s[i] \in Seq(X),
         NEW f, Concats(f, s, n), NEW i \in 0..n, NEW j \in i..n, Gap(s, i, j)
  PROVE  f[j] = f[i]
<1> USE DEF Gap
<1>1. PICK d \in Nat : d = j - i
  OBVIOUS
<1> DEFINE F == {k \in 0..d : f[i + k] = f[i]}
<1>2. \A k \in 0..n : f[k] \in Seq(X)
  BY ConcatsType
<1>3. ASSUME NEW k \in 0..(d - 1), f[i + k] = f[i] PROVE f[i + (k + 1)] = f[i]
  <2>1. PICK m \in 0..(n - 1) : m = i + k /\ m + 1 = i + (k + 1) /\ m + 1 \in (i + 1)..j
    BY <1>1
  <2>2. f[m + 1] = f[m] \o s[m + 1] /\ s[m + 1] = <<>>
    BY <2>1 DEF Concats
  <2>3. f[m] \in Seq(X)
    BY <1>2
  <2>4. f[m] \o <<>> = f[m]
    BY <2>3
  <2> QED BY <1>3, <2>1, <2>2, <2>4
<1>4. 0 \in F /\ (\A k \in 0..(d - 1) : k \in F => k + 1 \in F)
  <2>1. \A k \in 0..(d - 1) : k \in 0..d /\ k + 1 \in 0..d
    OBVIOUS
  <2>2. i + 0 = i /\ 0 \in 0..d
    OBVIOUS
  <2>3. 0 \in F
    BY <2>2
  <2>4. ASSUME NEW k \in 0..(d - 1), k \in F PROVE k + 1 \in F
    BY <1>3, <2>1, <2>4
  <2> QED BY <2>3, <2>4
<1>5. \A k \in 0..d : k \in F
  <2> HIDE DEF F
  <2> QED BY <1>4, IndexInduction
<1>6. d \in 0..d /\ i + d = j
  BY <1>1
<1> QED
  BY <1>5, <1>6

\* The sum over one more number.
LEMMA SumNext ==
  ASSUME NEW i \in Nat, NEW g, \A k \in 1..(i + 1) : g[k] \in Int
  PROVE  /\ SumOf(g, 1..i) \in Int
         /\ SumOf(g, 1..(i + 1)) = SumOf(g, 1..i) + g[i + 1]
<1>1. PICK T : T = 1..(i + 1)
  OBVIOUS
<1>2. IsFiniteSet(T) /\ IsFiniteSet(1..i)
  BY <1>1, FS_Interval
<1>3. i + 1 \in T /\ T \ {i + 1} = 1..i
  BY <1>1
<1>4. \A x \in T : SumOf(g, T) = g[x] + SumOf(g, T \ {x})
  BY <1>1, <1>2, SumFacts
<1>5. SumOf(g, T) = g[i + 1] + SumOf(g, 1..i)
  BY <1>3, <1>4
<1>6. SumOf(g, 1..i) \in Int
  <2>1. PICK S : S = 1..i
    OBVIOUS
  <2>2. IsFiniteSet(S) /\ (\A k \in S : g[k] \in Int)
    BY <1>2, <2>1
  <2> QED BY <2>1, <2>2, SumFacts
<1>7. g[i + 1] \in Int
  OBVIOUS
<1> QED
  BY <1>1, <1>5, <1>6, <1>7

\* The sum over no number.
LEMMA SumNothing == ASSUME NEW g PROVE SumOf(g, 1..0) = 0
<1>1. PICK S : S = {}
  OBVIOUS
<1>2. SumOf(g, S) = 0
  BY <1>1, FS_EmptySet, SumFacts
<1> QED
  BY <1>1, <1>2

\* g gives the lengths of the members of s.
Measures(g, s, X, n) == \A i \in 1..n : s[i] \in Seq(X) /\ g[i] = Len(s[i])

\* The length of a concatenation is the sum of the lengths.
LEMMA ConcatsLength ==
  ASSUME NEW X, NEW n \in Nat, NEW s, NEW f, Concats(f, s, n), NEW g, Measures(g, s, X, n)
  PROVE  \A i \in 0..n : Len(f[i]) = SumOf(g, 1..i)
<1> USE DEF Measures
<1> DEFINE F == {i \in 0..n : Len(f[i]) = SumOf(g, 1..i)}
<1>1. \A i \in 0..n : f[i] \in Seq(X)
  BY ConcatsType
<1>2. Len(f[0]) = SumOf(g, 1..0)
  BY SumNothing DEF Concats
<1>3. ASSUME NEW i \in 0..(n - 1), Len(f[i]) = SumOf(g, 1..i)
      PROVE  Len(f[i + 1]) = SumOf(g, 1..(i + 1))
  <2>1. i \in Nat /\ i + 1 \in 1..n /\ (\A k \in 1..(i + 1) : k \in 1..n)
    OBVIOUS
  <2>2. \A k \in 1..(i + 1) : g[k] \in Int
    BY <2>1
  <2>3. SumOf(g, 1..(i + 1)) = SumOf(g, 1..i) + g[i + 1]
    BY <2>1, <2>2, SumNext
  <2>4. f[i + 1] = f[i] \o s[i + 1]
    BY DEF Concats
  <2>5. Len(f[i + 1]) = Len(f[i]) + Len(s[i + 1])
    BY <1>1, <2>1, <2>4
  <2> QED BY <1>3, <2>1, <2>3, <2>5
<1>4. 0 \in F /\ (\A i \in 0..(n - 1) : i \in F => i + 1 \in F)
  BY <1>2, <1>3
<1>5. \A i \in 0..n : i \in F
  <2> HIDE DEF F
  <2> QED BY <1>4, IndexInduction
<1> QED
  BY <1>5

\* A value repeated l times.
LEMMA TimesIs ==
  ASSUME NEW X, NEW x \in X, NEW l \in Nat
  PROVE  /\ Times(l, x) \in Seq(X) /\ Len(Times(l, x)) = l
         /\ \A i \in 1..l : Times(l, x)[i] = x
<1>1. PICK t : t = Times(l, x)
  OBVIOUS
<1>2. t \in [1..l -> X] /\ (\A i \in 1..l : t[i] = x)
  BY <1>1 DEF Times
<1>3. t \in Seq(X) /\ Len(t) = l
  BY <1>2
<1> QED
  BY <1>1, <1>2, <1>3

\* One repetition moves from the right to the left.
LEMMA TimesStep ==
  ASSUME NEW X, NEW a \in Seq(X), NEW x \in X, NEW l \in Nat \ {0}
  PROVE  Append(a, x) \o Times(l - 1, x) = a \o Times(l, x)
<1>1. PICK t \in Seq(X) : t = Times(l, x)
  BY TimesIs
<1>2. l - 1 \in Nat
  OBVIOUS
<1>3. PICK u \in Seq(X) : u = Times(l - 1, x)
  BY <1>2, TimesIs
<1>4. Len(t) = l /\ Len(u) = l - 1 /\ (\A i \in 1..l : t[i] = x) /\ (\A i \in 1..(l - 1) : u[i] = x)
  BY <1>1, <1>2, <1>3, TimesIs
<1>5. Append(a, x) \in Seq(X)
  OBVIOUS
<1>6. PICK b \in Seq(X) : b = Append(a, x)
  BY <1>5
<1>7. Len(b) = Len(a) + 1 /\ b[Len(a) + 1] = x /\ (\A i \in 1..Len(a) : b[i] = a[i])
  BY <1>6
<1>8. Len(b \o u) = Len(a \o t)
  BY <1>4, <1>7
<1>9. ASSUME NEW i \in 1..Len(a \o t) PROVE (b \o u)[i] = (a \o t)[i]
  BY <1>4, <1>7
<1>10. b \o u = a \o t
  <2>1. b \o u \in Seq(X) /\ a \o t \in Seq(X)
    OBVIOUS
  <2> QED BY <1>8, <1>9, <2>1
<1> QED
  BY <1>1, <1>3, <1>6, <1>10

\* The sum of g over the first i numbers, when g counts the members of Z as one
\* each and the others of T as what h has for them.
\* g counts what h has in T, and one more in Z.
Apart(g, h, T, Z, n) ==
    /\ Z \subseteq T
    /\ \A e \in 1..n : h[e] \in Int
    /\ \A e \in 1..n : g[e] = IF e \in T THEN h[e] + (IF e \in Z THEN 1 ELSE 0) ELSE 0

\* The sum of the rows is the stops and the base rows counted apart, as
\* CountProjectedTripUpdateRows counts them.
LEMMA CountedApart ==
  ASSUME NEW n \in Nat, NEW g, NEW h, NEW T, NEW Z, Apart(g, h, T, Z, n)
  PROVE  \A i \in 0..n : SumOf(g, 1..i) = SumOf(h, T \cap (1..i)) + Cardinality(Z \cap (1..i))
<1> DEFINE A(i) == SumOf(g, 1..i) = SumOf(h, T \cap (1..i)) + Cardinality(Z \cap (1..i))
           F == {i \in 0..n : A(i)}
<1> USE DEF Apart
<1>0. \A e \in 1..n : g[e] \in Int
  OBVIOUS
<1>1. A(0)
  <2>1. PICK U : U = {}
    OBVIOUS
  <2>2. SumOf(h, U) = 0 /\ Cardinality(U) = 0
    BY <2>1, FS_EmptySet, SumFacts
  <2>3. T \cap (1..0) = U /\ Z \cap (1..0) = U
    BY <2>1
  <2>4. SumOf(g, 1..0) = 0
    BY SumNothing
  <2> QED BY <2>2, <2>3, <2>4
<1>2. ASSUME NEW i \in 0..(n - 1), A(i) PROVE A(i + 1)
  <2>1. i \in Nat /\ i + 1 \in 1..n /\ (\A k \in 1..(i + 1) : k \in 1..n)
    OBVIOUS
  <2>2. \A k \in 1..(i + 1) : g[k] \in Int
    BY <1>0, <2>1
  <2>3. SumOf(g, 1..i) \in Int /\ SumOf(g, 1..(i + 1)) = SumOf(g, 1..i) + g[i + 1]
    BY <2>1, <2>2, SumNext
  <2>4. PICK U : U = T \cap (1..i)
    OBVIOUS
  <2>5. PICK V : V = T \cap (1..(i + 1))
    OBVIOUS
  <2>6. PICK Y : Y = Z \cap (1..i)
    OBVIOUS
  <2>7. PICK W : W = Z \cap (1..(i + 1))
    OBVIOUS
  <2>8. IsFiniteSet(U) /\ IsFiniteSet(V) /\ IsFiniteSet(Y) /\ IsFiniteSet(W)
    <3>1. IsFiniteSet(1..i) /\ IsFiniteSet(1..(i + 1))
      BY <2>1, FS_Interval
    <3> QED BY <3>1, <2>4, <2>5, <2>6, <2>7, FS_Subset
  <2>9. \A e \in V : h[e] \in Int
    BY <2>1, <2>5
  <2>10. \A e \in V : SumOf(h, V) = h[e] + SumOf(h, V \ {e})
    BY <2>8, <2>9, SumFacts
  <2>11. Cardinality(Y) \in Nat /\ Cardinality(W) \in Nat
    BY <2>8, FS_CardinalityType
  <2>12. SumOf(h, U) \in Int
    <3>1. \A e \in U : h[e] \in Int
      BY <2>1, <2>4
    <3> QED BY <2>8, <3>1, SumFacts
  <2>13. SumOf(h, V) = SumOf(h, U) + (IF i + 1 \in T THEN h[i + 1] ELSE 0)
    <3>1. CASE i + 1 \in T
      <4>1. i + 1 \in V /\ V \ {i + 1} = U
        BY <2>1, <2>4, <2>5, <3>1
      <4>2. SumOf(h, V) = h[i + 1] + SumOf(h, U)
        BY <2>10, <4>1
      <4>3. h[i + 1] \in Int
        BY <2>1
      <4> QED BY <2>12, <3>1, <4>2, <4>3
    <3>2. CASE i + 1 \notin T
      <4>1. V = U
        BY <2>1, <2>4, <2>5, <3>2
      <4> QED BY <2>12, <3>2, <4>1
    <3> QED BY <3>1, <3>2
  <2>14. Cardinality(W) = Cardinality(Y) + (IF i + 1 \in Z THEN 1 ELSE 0)
    <3>1. i + 1 \notin Y
      BY <2>1, <2>6
    <3>2. CASE i + 1 \in Z
      <4>1. W = Y \cup {i + 1}
        BY <2>1, <2>6, <2>7, <3>2
      <4>2. Cardinality(Y \cup {i + 1}) = IF i + 1 \in Y THEN Cardinality(Y) ELSE Cardinality(Y) + 1
        BY <2>8, FS_AddElement
      <4> QED BY <3>1, <3>2, <4>1, <4>2
    <3>3. CASE i + 1 \notin Z
      <4>1. W = Y
        BY <2>1, <2>6, <2>7, <3>3
      <4> QED BY <2>11, <3>3, <4>1
    <3> QED BY <3>2, <3>3
  <2>15. SumOf(g, 1..i) = SumOf(h, U) + Cardinality(Y)
    BY <1>2, <2>4, <2>6
  <2>16. g[i + 1] = IF i + 1 \in T THEN h[i + 1] + (IF i + 1 \in Z THEN 1 ELSE 0) ELSE 0
    BY <2>1
  <2>17. h[i + 1] \in Int /\ (i + 1 \in Z => i + 1 \in T)
    BY <2>1
  <2>18. PICK x \in Int, y \in Int, z \in Int : x = SumOf(h, U) /\ y = Cardinality(Y) /\ z = h[i + 1]
    BY <2>11, <2>12, <2>17
  <2>19. SumOf(g, 1..(i + 1)) = SumOf(h, V) + Cardinality(W)
    <3>1. CASE i + 1 \in T
      BY <2>3, <2>13, <2>14, <2>15, <2>16, <2>18, <3>1
    <3>2. CASE i + 1 \notin T
      BY <2>3, <2>13, <2>14, <2>15, <2>16, <2>17, <2>18, <3>2
    <3> QED BY <3>1, <3>2
  <2> QED BY <2>5, <2>7, <2>19
<1>3. 0 \in F /\ (\A i \in 0..(n - 1) : i \in F => i + 1 \in F)
  <2>1. \A k \in 0..(n - 1) : k \in 0..n /\ k + 1 \in 0..n
    OBVIOUS
  <2>2. 0 \in F
    BY <1>1
  <2>3. ASSUME NEW k \in 0..(n - 1), k \in F PROVE k + 1 \in F
    BY <1>2, <2>1, <2>3
  <2> QED BY <2>2, <2>3
<1>4. \A i \in 0..n : i \in F
  <2> HIDE DEF F
  <2> QED BY <1>3, IndexInduction
<1> QED
  BY <1>4

\* Rows of one capture.
RowsAt(c) == [capture : {c}, entity : Nat, stop : Nat]

\* An entity has a row per stop time update, and one when it has none.
LEMMA EntityRowsAre ==
  ASSUME NEW c, NEW e \in Nat, NEW m \in Nat
  PROVE  /\ EntityRows(c, e, m) \in Seq(RowsAt(c))
         /\ Len(EntityRows(c, e, m)) = IF m = 0 THEN 1 ELSE m
<1>1. \A k \in Nat : Row(c, e, k) \in RowsAt(c)
  BY DEF Row, RowsAt
<1>2. CASE m = 0
  <2>1. PICK r \in RowsAt(c) : r = Row(c, e, 0)
    BY <1>1
  <2>2. EntityRows(c, e, m) = <<r>>
    BY <1>2, <2>1 DEF EntityRows
  <2>3. <<r>> \in Seq(RowsAt(c)) /\ Len(<<r>>) = 1
    OBVIOUS
  <2> QED BY <1>2, <2>2, <2>3
<1>3. CASE m # 0
  <2>1. PICK t : t = [k \in 1..m |-> Row(c, e, k)]
    OBVIOUS
  <2>2. EntityRows(c, e, m) = t
    BY <1>3, <2>1 DEF EntityRows
  <2>3. t \in [1..m -> RowsAt(c)]
    BY <1>1, <2>1
  <2>4. t \in Seq(RowsAt(c)) /\ Len(t) = m
    BY <2>3
  <2> QED BY <1>3, <2>2, <2>4
<1> QED
  BY <1>2, <1>3

\* The validator counts the rows the writer writes.
LEMMA RowsAreCounted ==
  ASSUME NEW c, NEW b, b.entities \in Seq(Nat)
  PROVE  /\ ProjectTripUpdateStops(c, b) \in Seq(RowsAt(c))
         /\ Len(ProjectTripUpdateStops(c, b)) = CountProjectedTripUpdateRows(b)
<1>1. PICK E \in Seq(Nat) : E = b.entities
  OBVIOUS
<1>2. PICK n \in Nat : n = Len(E) /\ DOMAIN E = 1..n
  OBVIOUS
<1>3. PICK T : T = {e \in 1..n : E[e] # NoTripUpdate}
  OBVIOUS
<1>4. PICK Z : Z = {e \in T : E[e] = 0}
  OBVIOUS
<1>5. PICK s : s = [e \in 1..n |-> IF e \in T THEN EntityRows(c, e, E[e]) ELSE <<>>]
  OBVIOUS
<1>6. PICK g : g = [e \in 1..n |-> IF e \in T THEN E[e] + (IF e \in Z THEN 1 ELSE 0) ELSE 0]
  OBVIOUS
<1>7. TripUpdates(b) = T
  BY <1>1, <1>2, <1>3 DEF TripUpdates
<1>8. \A e \in 1..n : e \in Nat /\ E[e] \in Nat
  BY <1>2
<1>9. ASSUME NEW e \in 1..n
      PROVE  s[e] \in Seq(RowsAt(c)) /\ g[e] = Len(s[e])
  <2>1. CASE e \in T
    <3>1. EntityRows(c, e, E[e]) \in Seq(RowsAt(c))
          /\ Len(EntityRows(c, e, E[e])) = IF E[e] = 0 THEN 1 ELSE E[e]
      BY <1>8, EntityRowsAre
    <3>2. s[e] = EntityRows(c, e, E[e])
      BY <1>5, <2>1
    <3>3. g[e] = E[e] + (IF e \in Z THEN 1 ELSE 0)
      BY <1>6, <2>1
    <3>4. e \in Z <=> E[e] = 0
      BY <1>4, <2>1
    <3> QED BY <1>8, <3>1, <3>2, <3>3, <3>4
  <2>2. CASE e \notin T
    <3>1. s[e] = <<>> /\ g[e] = 0
      BY <1>5, <1>6, <2>2
    <3> QED BY <3>1
  <2> QED BY <2>1, <2>2
<1>10. PICK f : Concats(f, s, n)
  BY ConcatsExist
<1>11. \A e \in 1..n : s[e] \in Seq(RowsAt(c))
  BY <1>9
<1>12. s = [e \in 1..n |-> s[e]]
  BY <1>5
<1>13. FlattenSeq(s) = f[n]
  BY <1>10, <1>11, <1>12, FlattenIs
<1>14. ProjectTripUpdateStops(c, b) = f[n]
  <2>1. ProjectTripUpdateStops(c, b) = FlattenSeq(s)
    BY <1>1, <1>2, <1>5, <1>7 DEF ProjectTripUpdateStops
  <2> QED BY <1>13, <2>1
<1>15. n \in 0..n
  OBVIOUS
<1>16. f[n] \in Seq(RowsAt(c))
  <2>1. \A i \in 0..n : f[i] \in Seq(RowsAt(c))
    BY <1>10, <1>11, ConcatsType
  <2> QED BY <1>15, <2>1
<1>17. Len(f[n]) = SumOf(g, 1..n)
  <2>1. \A i \in 1..n : g[i] = Len(s[i])
    BY <1>9
  <2>4. Measures(g, s, RowsAt(c), n)
    BY <1>11, <2>1 DEF Measures
  <2>2. \A i \in 0..n : Len(f[i]) = SumOf(g, 1..i)
    BY <1>10, <2>4, ConcatsLength
  <2> QED BY <1>15, <2>2
<1>18. SumOf(g, 1..n) = SumOf(E, T) + Cardinality(Z)
  <2>1. \A e \in 1..n : E[e] \in Int
    BY <1>8
  <2>2. \A e \in 1..n : g[e] = IF e \in T THEN E[e] + (IF e \in Z THEN 1 ELSE 0) ELSE 0
    BY <1>6
  <2>3. Z \subseteq T
    BY <1>4
  <2>6. Apart(g, E, T, Z, n)
    BY <2>1, <2>2, <2>3 DEF Apart
  <2>4. \A i \in 0..n : SumOf(g, 1..i) = SumOf(E, T \cap (1..i)) + Cardinality(Z \cap (1..i))
    BY <2>6, CountedApart
  <2>5. T \cap (1..n) = T /\ Z \cap (1..n) = Z
    BY <1>3, <1>4
  <2> QED BY <1>15, <2>4, <2>5
<1>19. CountProjectedTripUpdateRows(b) = SumOf(E, T) + Cardinality(Z)
  <2>1. IsFiniteSet(T)
    <3>1. IsFiniteSet(1..n) /\ T \in SUBSET (1..n)
      BY <1>2, <1>3, FS_Interval
    <3> QED BY <3>1, FS_Subset
  <2>2. CountStopTimeUpdates(b) = SumOf(E, T)
    BY <1>1, <1>7, <2>1, SumOnSetIs DEF CountStopTimeUpdates
  <2>3. Cardinality({e \in TripUpdates(b) : b.entities[e] = 0}) = Cardinality(Z)
    BY <1>1, <1>4, <1>7
  <2> QED BY <2>2, <2>3 DEF CountProjectedTripUpdateRows
<1> QED
  BY <1>14, <1>16, <1>17, <1>18, <1>19

-----------------------------------------------------------------------------
(* The file of a day.                                                      *)

\* Rows of the captures of the day.
FileRow == [capture : Capture, entity : Nat, stop : Nat]

\* The captures of the first i rows of the file.
Walked(i) == [k \in 1..i |-> file[k].capture]
\* The captures the first g included captures should contribute.
RowsDue(g) == FlattenSeq([h \in 1..g |-> Times(expected[h], included[h])])

\* The writer has decided about the captures before next, in their order.
Written ==
    /\ Len(included) + Len(excluded) = next - 1
    /\ \A c \in 1..(next - 1) : c \in Excluded \/ \E i \in DOMAIN included : included[i] = c
    /\ \A i \in DOMAIN included : included[i] < next /\ included[i] \notin Excluded
    /\ \A i, j \in DOMAIN included : i < j => included[i] < included[j]
    /\ \A i \in DOMAIN excluded :
          excluded[i].id < next /\ raw[excluded[i].id] = excluded[i].reason
    /\ compaction \notin {"writing", "failed"} => next = Captures + 1

\* The validator expects what the writer should have written.
Recounted ==
    /\ \A h \in DOMAIN expected : expected[h] = ExpectedRows(included[h])
    /\ compaction = "writing" => expected = <<>>
    /\ compaction \in {"walking", "valid"} => Len(expected) = Len(included)

\* The rows walked and those still due of the capture the walk is in are all
\* the rows of the captures up to it.
InStep ==
    /\ compaction \in {"writing", "recounting"} => seen = 0 /\ group = 0 /\ left = 0
    /\ left > 0 => group > 0
    /\ compaction = "walking" =>
          Walked(seen) \o Times(left, included[group]) = RowsDue(group)

\* A valid file is not empty and holds the day.
Finished ==
    /\ compaction = "valid" => included # <<>>
    /\ ValidFileHoldsTheDay

\* The inductive invariant of DayFile.
FileInv ==
    /\ FileTypeOK /\ RowGroupsAreBounded
    /\ Written /\ Recounted /\ InStep /\ Finished

\* A sum of natural numbers is a natural number.
LEMMA SumNat ==
  ASSUME NEW S, IsFiniteSet(S), NEW g, \A x \in S : g[x] \in Nat
  PROVE  SumOf(g, S) \in Nat
<1> DEFINE F == {T \in SUBSET S : SumOf(g, T) \in Nat}
<1>1. ASSUME NEW T \in SUBSET S, \A U \in SUBSET T : U # T => U \in F PROVE T \in F
  <2>1. IsFiniteSet(T) /\ (\A x \in T : g[x] \in Int)
    BY FS_Subset
  <2>2. CASE T = {}
    BY <2>1, <2>2, SumFacts
  <2>3. ASSUME NEW x \in T PROVE SumOf(g, T) \in Nat
    <3>1. SumOf(g, T) = g[x] + SumOf(g, T \ {x})
      BY <2>1, SumFacts
    <3>2. T \ {x} \in F
      BY <1>1
    <3> QED BY <3>1, <3>2
  <2> QED BY <2>2, <2>3
<1>2. \A T \in SUBSET S : T \in F
  <2> HIDE DEF F
  <2> QED BY <1>1, FiniteInduction
<1> QED
  BY <1>2

\* Full groups of G rows, and fewer than G left over.
LEMMA GroupSizes ==
  ASSUME NEW x \in Nat, NEW G \in Nat \ {0}
  PROVE  x \div G \in Nat /\ x - (x \div G) * G \in 0..(G - 1)
<1>1. x \div G \in Nat
  OBVIOUS
<1>2. x - (x \div G) * G \in 0..(G - 1)
  OBVIOUS
<1> QED
  BY <1>1, <1>2

\* The body of a capture is a sequence of stop counts, empty when it does not decode.
LEMMA BodiesAre ==
  ASSUME FileTypeOK, NEW c \in Capture
  PROVE  body[c].entities \in Seq(Nat)
<1>1. body[c] \in Body
  BY DEF FileTypeOK
<1>2. CASE body[c] = Undecodable
  BY <1>2 DEF Undecodable
<1>3. ASSUME NEW m \in Messages, body[c] = [decodes |-> TRUE, entities |-> m]
      PROVE  body[c].entities \in Seq(Nat)
  BY <1>3, DayFileAssumption
<1> QED
  BY <1>1, <1>2, <1>3 DEF Body

\* The rows of a capture, in number what the validator expects of it.
LEMMA RowsOfIs ==
  ASSUME FileTypeOK, NEW c \in Capture
  PROVE  /\ RowsOf(c) \in Seq(FileRow)
         /\ Len(RowsOf(c)) \in Nat
         /\ Len(RowsOf(c)) = ExpectedRows(c)
         /\ CountStopTimeUpdates(body[c]) \in Nat
<1>1. PICK b : b = body[c] /\ b.entities \in Seq(Nat)
  BY BodiesAre
<1>2. PICK p : p = ProjectTripUpdateStops(c, b)
  OBVIOUS
<1>3. p \in Seq(RowsAt(c)) /\ Len(p) = CountProjectedTripUpdateRows(b)
  BY <1>1, <1>2, RowsAreCounted
<1>4. RowsAt(c) \subseteq FileRow
  BY DEF RowsAt, FileRow
<1>5. p \in Seq(FileRow) /\ Len(p) \in Nat
  BY <1>3, <1>4
<1>6. PICK r \in FileRow : r = Row(c, 0, 0)
  BY DEF FileRow, Row
<1>7. <<r>> \in Seq(FileRow) /\ Len(<<r>>) = 1
  OBVIOUS
<1>8. CountStopTimeUpdates(b) \in Nat
  <2>1. PICK E \in Seq(Nat) : E = b.entities
    BY <1>1
  <2>2. PICK n \in Nat : n = Len(E) /\ DOMAIN E = 1..n
    OBVIOUS
  <2>3. PICK T : T = TripUpdates(b)
    OBVIOUS
  <2>4. T \in SUBSET (1..n)
    BY <2>1, <2>2, <2>3 DEF TripUpdates
  <2>5. IsFiniteSet(T)
    <3>1. IsFiniteSet(1..n)
      BY FS_Interval
    <3> QED BY <2>4, <3>1, FS_Subset
  <2>6. \A x \in T : E[x] \in Nat
    BY <2>2, <2>4
  <2>7. CountStopTimeUpdates(b) = SumOf(E, T)
    BY <2>1, <2>3, <2>5, SumOnSetIs DEF CountStopTimeUpdates
  <2> QED BY <2>5, <2>6, <2>7, SumNat
<1>9. CASE layout = "flattened"
  BY <1>1, <1>2, <1>3, <1>5, <1>8, <1>9 DEF RowsOf, ExpectedRows
<1>10. CASE layout # "flattened"
  BY <1>1, <1>6, <1>7, <1>8, <1>10 DEF RowsOf, ExpectedRows
<1> QED
  BY <1>9, <1>10

\* Flattening the first members gives the concatenation up to there.
LEMMA FlattenUpto ==
  ASSUME NEW X, NEW n \in Nat, NEW s, \A i \in 1..n : s[i] \in Seq(X),
         NEW f, Concats(f, s, n), NEW i \in 0..n
  PROVE  FlattenSeq([h \in 1..i |-> s[h]]) = f[i]
<1>1. PICK r : r = [h \in 1..i |-> s[h]]
  OBVIOUS
<1>2. PICK g : g = [k \in 0..i |-> f[k]]
  OBVIOUS
<1>3. i \in Nat /\ (\A k \in 0..(i - 1) : k \in 0..(n - 1) /\ k \in 0..i /\ k + 1 \in 0..i /\ k + 1 \in 1..i)
  OBVIOUS
<1>4. Concats(g, r, i)
  <2>1. DOMAIN g = 0..i /\ g[0] = <<>>
    BY <1>2 DEF Concats
  <2>2. ASSUME NEW k \in 0..(i - 1) PROVE g[k + 1] = g[k] \o r[k + 1]
    <3>1. f[k + 1] = f[k] \o s[k + 1]
      BY <1>3 DEF Concats
    <3> QED BY <1>1, <1>2, <1>3, <3>1
  <2> QED BY <2>1, <2>2 DEF Concats
<1>5. r = [h \in 1..i |-> r[h]] /\ (\A h \in 1..i : r[h] \in Seq(X))
  BY <1>1
<1>6. FlattenSeq(r) = g[i]
  BY <1>3, <1>4, <1>5, FlattenIs
<1>7. g[i] = f[i]
  BY <1>2
<1> QED
  BY <1>1, <1>6, <1>7

\* What is due of each included capture, and of all up to it.
LEMMA DueIs ==
  ASSUME NEW n \in Nat, \A h \in 1..n : expected[h] \in Nat /\ included[h] \in Capture
  PROVE  \E s, f : /\ \A h \in 1..n : s[h] = Times(expected[h], included[h])
                   /\ \A h \in 1..n : s[h] \in Seq(Capture) /\ Len(s[h]) = expected[h]
                   /\ Concats(f, s, n)
                   /\ \A g \in 0..n : RowsDue(g) = f[g] /\ f[g] \in Seq(Capture)
<1>1. PICK s : s = [h \in 1..n |-> Times(expected[h], included[h])]
  OBVIOUS
<1>2. \A h \in 1..n : s[h] = Times(expected[h], included[h])
  BY <1>1
<1>3. ASSUME NEW h \in 1..n PROVE s[h] \in Seq(Capture) /\ Len(s[h]) = expected[h]
  <2>1. PICK l \in Nat, c \in Capture : l = expected[h] /\ c = included[h]
    OBVIOUS
  <2>2. s[h] = Times(l, c)
    BY <1>2, <2>1
  <2>3. PICK X : X = Capture
    OBVIOUS
  <2>4. Times(l, c) \in Seq(X) /\ Len(Times(l, c)) = l
    BY <2>3, TimesIs
  <2> QED BY <2>1, <2>2, <2>3, <2>4
<1>4. PICK f : Concats(f, s, n)
  BY ConcatsExist
<1>5. ASSUME NEW g \in 0..n PROVE RowsDue(g) = f[g]
  <2>1. FlattenSeq([h \in 1..g |-> s[h]]) = f[g]
    BY <1>3, <1>4, FlattenUpto
  <2>2. [h \in 1..g |-> s[h]] = [h \in 1..g |-> Times(expected[h], included[h])]
    BY <1>2
  <2> QED BY <2>1, <2>2 DEF RowsDue
<1>6. \A g \in 0..n : f[g] \in Seq(Capture)
  BY <1>3, <1>4, ConcatsType
<1>7. \A g \in 0..n : RowsDue(g) = f[g] /\ f[g] \in Seq(Capture)
  BY <1>5, <1>6
<1> QED
  BY <1>2, <1>3, <1>4, <1>7

\* A compaction starts with nothing written.
LEMMA InitFileInv == ASSUME FileInit PROVE FileInv
<1> USE DEF FileInit
<1>1. FileTypeOK
  <2>1. raw \in [Capture -> {"intact"} \cup Reason]
    OBVIOUS
  <2>2. layout \in Layouts /\ body \in [Capture -> Body]
    OBVIOUS
  <2>3. next \in 1..(Captures + 1) /\ open \in 0..(GroupRows - 1) /\ rowsInGroup \in 0..(GroupRows - 1)
    BY DayFileAssumption
  <2>4. included \in Seq(Capture) /\ excluded \in Seq([id : Capture, reason : Reason])
        /\ file \in Seq([capture : Capture, entity : Nat, stop : Nat])
        /\ groups \in Seq(Nat \ {0}) /\ expected \in Seq(Nat)
    OBVIOUS
  <2>5. Len(expected) <= Len(included) /\ seen \in 0..Len(file) /\ group \in 0..Len(included)
        /\ stops \in Nat /\ left \in Nat
    OBVIOUS
  <2>6. faults \in 0..MaxFaults
    BY DayFileAssumption
  <2> QED BY <2>1, <2>2, <2>3, <2>4, <2>5, <2>6 DEF FileTypeOK
<1>2. RowGroupsAreBounded
  BY DEF RowGroupsAreBounded
<1>3. Written
  BY DEF Written, Excluded
<1>4. Recounted /\ InStep /\ Finished
  BY DEF Recounted, InStep, Finished, ValidFileHoldsTheDay
<1> QED
  BY <1>1, <1>2, <1>3, <1>4 DEF FileInv

\* Steps that leave the writer's decisions alone.
LEMMA SameWritten ==
  ASSUME Written, UNCHANGED <<next, included, excluded, raw>>,
         compaction' \notin {"writing", "failed"} => next = Captures + 1
  PROVE  Written'
BY DEF Written, Excluded

\* Steps that leave the validator's counts alone, and what they are of.
LEMMA SameExpected ==
  ASSUME Recounted, UNCHANGED <<layout, body, included, expected>>,
         compaction' = "writing" => expected = <<>>,
         compaction' \in {"walking", "valid"} => Len(expected) = Len(included)
  PROVE  Recounted'
<1>1. \A h \in DOMAIN expected' : expected'[h] = ExpectedRows(included[h])'
  BY DEF Recounted, ExpectedRows, CountProjectedTripUpdateRows, CountStopTimeUpdates,
         TripUpdates
<1> QED
  BY <1>1 DEF Recounted

\* Nothing is promised of a file that is not valid.
LEMMA NotValid ==
  ASSUME compaction' # "valid" PROVE Finished'
BY DEF Finished, ValidFileHoldsTheDay

\* What is in the writer's lists.
LEMMA Elements ==
  ASSUME FileTypeOK
  PROVE  /\ DOMAIN included = 1..Len(included) /\ Len(included) \in Nat
         /\ DOMAIN excluded = 1..Len(excluded) /\ Len(excluded) \in Nat
         /\ DOMAIN expected = 1..Len(expected) /\ Len(expected) \in Nat
         /\ \A i \in DOMAIN included : included[i] \in Capture /\ included[i] \in Nat
         /\ \A i \in DOMAIN excluded :
               /\ excluded[i].id \in Capture /\ excluded[i].id \in Nat
               /\ excluded[i].reason \in Reason
         /\ \A i \in DOMAIN expected : expected[i] \in Nat
<1>1. \A c \in Capture : c \in Nat
  BY DEF Capture
<1>2. included \in Seq(Capture) /\ excluded \in Seq([id : Capture, reason : Reason])
      /\ expected \in Seq(Nat)
  BY DEF FileTypeOK
<1>3. PICK E : E = [id : Capture, reason : Reason]
  OBVIOUS
<1>4. excluded \in Seq(E) /\ (\A e \in E : e.id \in Capture /\ e.reason \in Reason)
  BY <1>2, <1>3
<1>5. \A i \in DOMAIN excluded : excluded[i] \in E
  BY <1>4
<1>6. \A i \in DOMAIN included : included[i] \in Capture
  BY <1>2
<1> QED
  BY <1>1, <1>2, <1>4, <1>5, <1>6

\* The types of what a step of the writer leaves alone.
LEMMA FramedTypes ==
  ASSUME FileTypeOK,
         UNCHANGED <<layout, body, raw, compaction, included, file, groups, open, rowsInGroup, stops,
                     expected, seen, group, left, faults>>,
         next' \in 1..(Captures + 1),
         excluded' \in Seq([id : Capture, reason : Reason])
  PROVE  FileTypeOK'
BY DEF FileTypeOK

\* The writer leaves a capture out.
LEMMA ExcludeInv ==
  ASSUME FileInv, WriteCapture, Exclude PROVE FileInv'
<1> USE DEF WriteCapture, Exclude, day, cursor, FileInv
<1>1. PICK x : x = [id |-> next, reason |-> raw[next]]
  OBVIOUS
<1>2. x \in [id : Capture, reason : Reason] /\ x.id = next /\ x.reason = raw[next]
  BY <1>1 DEF FileTypeOK
<1>3. PICK n \in Nat : n = Len(excluded) /\ DOMAIN excluded = 1..n
  BY DEF FileTypeOK
<1>4. /\ DOMAIN excluded' = 1..(n + 1) /\ Len(excluded') = n + 1
      /\ excluded'[n + 1] = x /\ (\A i \in 1..n : excluded'[i] = excluded[i])
      /\ excluded' \in Seq([id : Capture, reason : Reason])
  BY <1>1, <1>2, <1>3 DEF FileTypeOK
<1>5. next \in 1..Captures /\ next' = next + 1
  BY DEF Capture
<1>6. Excluded' = Excluded \cup {next}
  <2>1. Excluded' = {excluded'[i].id : i \in 1..(n + 1)}
    BY <1>4 DEF Excluded
  <2>2. Excluded = {excluded[i].id : i \in 1..n}
    BY <1>3 DEF Excluded
  <2>3. ASSUME NEW c PROVE c \in Excluded' <=> c \in Excluded \/ c = next
    <3>1. ASSUME c \in Excluded' PROVE c \in Excluded \/ c = next
      <4>1. PICK i \in 1..(n + 1) : c = excluded'[i].id
        BY <2>1, <3>1
      <4>2. CASE i = n + 1
        BY <1>2, <1>4, <4>1, <4>2
      <4>3. CASE i # n + 1
        <5>1. i \in 1..n
          BY <4>3
        <5> QED BY <1>4, <2>2, <4>1, <5>1
      <4> QED BY <4>2, <4>3
    <3>2. ASSUME c \in Excluded PROVE c \in Excluded'
      <4>1. PICK i \in 1..n : c = excluded[i].id
        BY <2>2, <3>2
      <4>2. i \in 1..(n + 1)
        OBVIOUS
      <4> QED BY <1>4, <2>1, <4>1, <4>2
    <3>3. next \in Excluded'
      <4>1. n + 1 \in 1..(n + 1)
        OBVIOUS
      <4> QED BY <1>2, <1>4, <2>1, <4>1
    <3> QED BY <3>1, <3>2, <3>3
  <2> QED BY <2>3
<1>7. FileTypeOK'
  <2>1. UNCHANGED <<layout, body, raw, compaction, included, file, groups, open, rowsInGroup, stops,
                    expected, seen, group, left, faults>>
    OBVIOUS
  <2>2. next' \in 1..(Captures + 1)
    BY <1>5, DayFileAssumption
  <2> QED BY <1>4, <2>1, <2>2, FramedTypes
<1>8. RowGroupsAreBounded'
  BY DEF RowGroupsAreBounded
<1>9. Written'
  <2>1. Len(included) \in Nat
    BY DEF FileTypeOK
  <2>2. Len(included') + Len(excluded') = next' - 1
    BY <1>3, <1>4, <1>5, <2>1 DEF Written
  <2>3. \A c \in 1..(next' - 1) : c \in Excluded' \/ \E i \in DOMAIN included' : included'[i] = c
    <3>1. ASSUME NEW c \in 1..(next' - 1) PROVE c = next \/ c \in 1..(next - 1)
      BY <1>5
    <3> QED BY <1>6, <3>1 DEF Written
  <2>4. \A i \in DOMAIN included' : included'[i] < next' /\ included'[i] \notin Excluded'
    <3>1. ASSUME NEW i \in DOMAIN included
          PROVE  included[i] < next + 1 /\ included[i] # next /\ included[i] \notin Excluded
      <4>1. included[i] \in Nat
        BY Elements
      <4>2. included[i] < next /\ included[i] \notin Excluded
        BY DEF Written
      <4> QED BY <1>5, <4>1, <4>2
    <3> QED BY <1>5, <1>6, <3>1
  <2>5. \A i, j \in DOMAIN included' : i < j => included'[i] < included'[j]
    BY DEF Written
  <2>6. ASSUME NEW i \in DOMAIN excluded'
        PROVE  excluded'[i].id < next' /\ raw'[excluded'[i].id] = excluded'[i].reason
    <3>1. CASE i = n + 1
      BY <1>2, <1>4, <1>5, <3>1
    <3>2. CASE i # n + 1
      <4>1. i \in 1..n
        BY <1>4, <3>2
      <4>2. excluded[i].id < next /\ raw[excluded[i].id] = excluded[i].reason
        BY <1>3, <4>1 DEF Written
      <4>3. excluded[i].id \in Nat
        BY <1>3, <4>1, Elements
      <4> QED BY <1>4, <1>5, <4>1, <4>2, <4>3
    <3> QED BY <3>1, <3>2
  <2> QED BY <2>2, <2>3, <2>4, <2>5, <2>6 DEF Written
<1>10. Recounted'
  BY SameExpected DEF Recounted
<1>11. InStep' /\ Finished'
  BY NotValid DEF InStep
<1> QED
  BY <1>7, <1>8, <1>9, <1>10, <1>11

\* The sizes of the finished row groups.
LEMMA GroupsAre ==
  ASSUME FileTypeOK, RowGroupsAreBounded PROVE groups \in Seq(1..GroupRows)
<1>1. groups \in Seq(Nat \ {0}) /\ (\A i \in DOMAIN groups : groups[i] <= GroupRows)
  BY DEF FileTypeOK, RowGroupsAreBounded
<1>2. PICK n \in Nat : n = Len(groups) /\ DOMAIN groups = 1..n
  BY <1>1
<1>3. \A i \in 1..n : groups[i] \in Nat \ {0} /\ groups[i] <= GroupRows
  BY <1>1, <1>2
<1>4. PICK B : B = 1..GroupRows
  OBVIOUS
<1>5. \A i \in 1..n : groups[i] \in B
  BY <1>3, <1>4
<1>6. groups \in [1..n -> B]
  BY <1>1, <1>2, <1>5
<1>7. groups \in Seq(B)
  BY <1>6
<1> QED
  BY <1>4, <1>7

\* Row groups within the limit.
LEMMA GroupsBounded ==
  ASSUME groups' \in Seq(1..GroupRows)
  PROVE  groups' \in Seq(Nat \ {0}) /\ RowGroupsAreBounded'
<1>1. \A k \in 1..GroupRows : k \in Nat \ {0} /\ k <= GroupRows
  BY DayFileAssumption
<1>2. PICK B : B = 1..GroupRows
  OBVIOUS
<1>3. PICK g \in Seq(B) : g = groups'
  BY <1>2
<1>4. PICK N : N = Nat \ {0}
  OBVIOUS
<1>5. B \subseteq N
  BY <1>1, <1>2, <1>4
<1>6. g \in Seq(N) /\ (\A i \in DOMAIN g : g[i] \in B)
  BY <1>5
<1> QED
  BY <1>1, <1>2, <1>3, <1>4, <1>6 DEF RowGroupsAreBounded

\* One more group, unless it would be empty.
LEMMA GroupIs ==
  ASSUME NEW n \in 0..GroupRows
  PROVE  Group(n) \in Seq(1..GroupRows)
<1>1. CASE n = 0
  BY <1>1 DEF Group
<1>2. CASE n # 0
  <2>1. n \in 1..GroupRows
    BY <1>2, DayFileAssumption
  <2> QED BY <1>2, <2>1 DEF Group
<1> QED
  BY <1>1, <1>2

\* The row groups after the rows of a capture.
LEMMA IncludedGroups ==
  ASSUME FileTypeOK, RowGroupsAreBounded, NEW n \in Nat, NEW flush \in BOOLEAN,
         groups' = groups \o FullGroups(n) \o Group(IF flush THEN Unfinished(n) ELSE 0),
         open' = IF flush THEN 0 ELSE Unfinished(n)
  PROVE  groups' \in Seq(1..GroupRows) /\ open' \in 0..(GroupRows - 1)
<1>1. PICK G \in Nat \ {0} : G = GroupRows
  BY DayFileAssumption
<1>2. PICK x \in Nat : x = open + n
  BY DEF FileTypeOK
<1>3. PICK q \in Nat, u \in 0..(G - 1) : q = x \div G /\ u = x - (x \div G) * G
  BY GroupSizes
<1>4. Closed(n) = q /\ Unfinished(n) = u
  <2>1. Closed(n) = x \div G
    BY <1>1, <1>2, Zenon DEF Closed
  <2>2. Unfinished(n) = x - Closed(n) * G
    <3>1. Unfinished(n) = open + (n - q * G)
      BY <1>1, <1>3, <2>1, Zenon DEF Unfinished
    <3>2. PICK p \in Int : p = q * G
      OBVIOUS
    <3>3. open \in Nat
      BY DEF FileTypeOK
    <3>4. open + (n - p) = x - p
      BY <1>2, <3>2, <3>3
    <3> QED BY <1>3, <2>1, <3>1, <3>2, <3>4, Zenon
  <2> QED BY <1>3, <2>1, <2>2, Zenon
<1>5. FullGroups(n) \in Seq(1..GroupRows)
  <2>1. G \in 1..GroupRows
    BY <1>1
  <2>2. FullGroups(n) = Times(q, G)
    BY <1>1, <1>4 DEF FullGroups
  <2>3. PICK B : B = 1..GroupRows
    OBVIOUS
  <2>4. G \in B
    BY <2>1, <2>3
  <2>5. Times(q, G) \in Seq(B)
    BY <2>4, TimesIs
  <2> QED BY <2>2, <2>3, <2>5
<1>6. PICK m \in 0..(G - 1) : m = IF flush THEN u ELSE 0
  BY <1>1
<1>7. Group(m) \in Seq(1..GroupRows)
  <2>1. m \in 0..GroupRows
    BY <1>1
  <2> QED BY <2>1, GroupIs
<1>8. groups \in Seq(1..GroupRows)
  BY GroupsAre
<1>9. groups' = groups \o FullGroups(n) \o Group(m)
  BY <1>4, <1>6
<1>10. groups' \in Seq(1..GroupRows)
  <2>1. PICK B : B = 1..GroupRows
    OBVIOUS
  <2>2. PICK a \in Seq(B), b \in Seq(B), c \in Seq(B) :
          a = groups /\ b = FullGroups(n) /\ c = Group(m)
    BY <1>5, <1>7, <1>8, <2>1
  <2>3. a \o b \o c \in Seq(B)
    OBVIOUS
  <2> QED BY <1>9, <2>1, <2>2, <2>3
<1>11. open' \in 0..(GroupRows - 1)
  BY <1>1, <1>4
<1> QED
  BY <1>10, <1>11

\* The writer appends the rows of a capture.
LEMMA IncludeInv ==
  ASSUME FileInv, WriteCapture, Include PROVE FileInv'
<1> USE DEF WriteCapture, Include, day, cursor, FileInv
<1>1. next \in 1..Captures /\ next \in Capture /\ next' = next + 1 /\ next \in Nat
  BY DEF Capture
<1>2. PICK m \in Nat : m = Len(included) /\ DOMAIN included = 1..m
  BY Elements
<1>3. /\ DOMAIN included' = 1..(m + 1) /\ Len(included') = m + 1
      /\ included'[m + 1] = next /\ (\A i \in 1..m : included'[i] = included[i])
      /\ included' \in Seq(Capture)
  <2>1. included \in Seq(Capture) /\ included' = Append(included, next)
    BY DEF FileTypeOK
  <2> QED BY <1>1, <1>2, <2>1
<1>4. PICK n \in Nat : n = Len(RowsOf(next))
  BY <1>1, RowsOfIs
<1>5. Excluded' = Excluded
  BY DEF Excluded
<1>6. PICK flush \in Flushes(n) :
        /\ groups' = groups \o FullGroups(n) \o Group(IF flush THEN Unfinished(n) ELSE 0)
        /\ open' = IF flush THEN 0 ELSE Unfinished(n)
        /\ rowsInGroup' = IF flush \/ layout = "nested" THEN 0 ELSE rowsInGroup + n
  BY <1>4
<1>14. flush \in BOOLEAN
  <2>1. CASE layout = "flattened"
    <3>1. flush = (rowsInGroup + n >= GroupRows)
      BY <2>1 DEF Flushes
    <3>2. rowsInGroup \in Int /\ GroupRows \in Int
      BY DayFileAssumption DEF FileTypeOK
    <3> QED BY <3>1, <3>2
  <2>2. CASE layout # "flattened"
    BY <2>2 DEF Flushes
  <2> QED BY <2>1, <2>2
<1>7. groups' \in Seq(1..GroupRows) /\ open' \in 0..(GroupRows - 1)
  BY <1>6, <1>14, IncludedGroups
<1>8. rowsInGroup' \in 0..(GroupRows - 1)
  <2>1. rowsInGroup \in Nat /\ GroupRows \in Nat \ {0} /\ layout \in {"flattened", "nested"}
    BY DayFileAssumption DEF FileTypeOK
  <2>2. CASE flush \/ layout = "nested"
    BY <1>6, <2>1, <2>2
  <2>3. CASE ~flush /\ layout = "flattened"
    <3>1. ~(rowsInGroup + n >= GroupRows)
      BY <1>6, <2>3 DEF Flushes
    <3> QED BY <1>6, <2>1, <2>3, <3>1
  <2> QED BY <2>1, <2>2, <2>3
<1>9. FileTypeOK'
  <2>1. file' \in Seq([capture : Capture, entity : Nat, stop : Nat])
    <3>1. file \in Seq(FileRow) /\ RowsOf(next) \in Seq(FileRow)
      BY <1>1, RowsOfIs DEF FileTypeOK, FileRow
    <3> QED BY <3>1 DEF FileRow
  <2>2. stops' \in Nat
    <3>1. stops \in Nat
      BY DEF FileTypeOK
    <3> QED BY <1>1, <3>1, RowsOfIs
  <2>3. groups' \in Seq(Nat \ {0})
    BY <1>7, GroupsBounded
  <2>4. UNCHANGED <<layout, body, raw, compaction, excluded, expected, seen, group, left, faults>>
    OBVIOUS
  <2>5. next' \in 1..(Captures + 1)
    BY <1>1, DayFileAssumption
  <2>6. Len(expected) <= Len(included') /\ group \in 0..Len(included')
    <3>1. group = 0 /\ Len(expected) = 0
      BY DEF InStep, Recounted
    <3> QED BY <1>3, <3>1
  <2>7. seen \in 0..Len(file')
    <3>1. seen = 0
      BY DEF InStep
    <3>2. Len(file') \in Nat
      BY <2>1
    <3> QED BY <3>1, <3>2
  <2>8. expected \in Seq(Nat) /\ layout \in Layouts /\ body \in [Capture -> Body]
        /\ raw \in [Capture -> {"intact"} \cup Reason] /\ left \in Nat /\ faults \in 0..MaxFaults
        /\ excluded \in Seq([id : Capture, reason : Reason])
        /\ compaction \in {"writing", "recounting", "walking", "valid", "failed"}
    BY DEF FileTypeOK
  <2> QED BY <1>3, <1>7, <1>8, <2>1, <2>2, <2>3, <2>4, <2>5, <2>6, <2>7, <2>8 DEF FileTypeOK
<1>10. RowGroupsAreBounded'
  BY <1>7, GroupsBounded
<1>11. Written'
  <2>1. Len(excluded) \in Nat /\ UNCHANGED <<excluded, raw>> /\ compaction' = "writing"
    BY Elements
  <2>2. Len(included') + Len(excluded') = next' - 1
    BY <1>1, <1>2, <1>3, <2>1 DEF Written
  <2>3. ASSUME NEW c \in 1..(next' - 1)
        PROVE  c \in Excluded' \/ \E i \in DOMAIN included' : included'[i] = c
    <3>1. CASE c = next
      <4>1. m + 1 \in 1..(m + 1)
        OBVIOUS
      <4> QED BY <1>3, <3>1, <4>1
    <3>2. CASE c # next
      <4>1. c \in 1..(next - 1)
        BY <1>1, <3>2
      <4>2. CASE c \in Excluded
        BY <1>5, <4>2
      <4>3. ASSUME NEW i \in DOMAIN included, included[i] = c
            PROVE  \E j \in DOMAIN included' : included'[j] = c
        <5>1. i \in 1..(m + 1)
          BY <1>2
        <5> QED BY <1>2, <1>3, <4>3, <5>1
      <4> QED BY <4>1, <4>2, <4>3 DEF Written
    <3> QED BY <3>1, <3>2
  <2>4. ASSUME NEW i \in 1..m
        PROVE  included[i] \in Nat /\ included[i] < next /\ included[i] \notin Excluded
    BY <1>2, Elements DEF Written
  <2>5. next \notin Excluded
    <3>1. ASSUME NEW i \in DOMAIN excluded PROVE excluded[i].id # next
      <4>1. excluded[i].id < next /\ excluded[i].id \in Nat
        BY Elements DEF Written
      <4> QED BY <1>1, <4>1
    <3> QED BY <3>1 DEF Excluded
  <2>6. ASSUME NEW i \in DOMAIN included'
        PROVE  included'[i] < next' /\ included'[i] \notin Excluded'
    <3>1. CASE i = m + 1
      BY <1>1, <1>3, <1>5, <2>5, <3>1
    <3>2. CASE i # m + 1
      <4>1. i \in 1..m
        BY <1>3, <3>2
      <4> QED BY <1>1, <1>3, <1>5, <2>4, <4>1
    <3> QED BY <3>1, <3>2
  <2>7. ASSUME NEW i \in DOMAIN included', NEW j \in DOMAIN included', i < j
        PROVE  included'[i] < included'[j]
    <3>1. i \in 1..m
      BY <1>3, <2>7
    <3>2. CASE j = m + 1
      BY <1>3, <2>4, <3>1, <3>2
    <3>3. CASE j # m + 1
      <4>1. j \in 1..m
        BY <1>3, <3>3
      <4>2. included[i] < included[j]
        BY <1>2, <2>7, <3>1, <4>1 DEF Written
      <4> QED BY <1>3, <3>1, <4>1, <4>2
    <3> QED BY <3>2, <3>3
  <2>8. ASSUME NEW i \in DOMAIN excluded'
        PROVE  excluded'[i].id < next' /\ raw'[excluded'[i].id] = excluded'[i].reason
    <3>1. excluded[i].id < next /\ raw[excluded[i].id] = excluded[i].reason /\ excluded[i].id \in Nat
      BY <2>1, Elements DEF Written
    <3> QED BY <1>1, <2>1, <3>1
  <2> QED BY <2>1, <2>2, <2>3, <2>6, <2>7, <2>8 DEF Written
<1>12. Recounted'
  <2>1. expected' = <<>> /\ compaction' = "writing"
    BY DEF Recounted
  <2> QED BY <2>1 DEF Recounted
<1>13. InStep' /\ Finished'
  BY NotValid DEF InStep
<1> QED
  BY <1>9, <1>10, <1>11, <1>12, <1>13

\* What is read back of the file is a sequence of rows of the day.
LEMMA DamagedRows ==
  ASSUME NEW R, NEW rows \in Seq(R), NEW t \in Damaged(rows) PROVE t \in Seq(R)
<1>1. PICK n \in Nat : n = Len(rows) /\ DOMAIN rows = 1..n /\ (\A i \in 1..n : rows[i] \in R)
  OBVIOUS
<1>2. \A i \in 1..n : i - 1 \in Int /\ i - 1 <= n /\ i + 1 \in Int /\ i \in Int
  OBVIOUS
<1>3. ASSUME NEW a \in Int, NEW b \in Int, a >= 1, b <= n PROVE SubSeq(rows, a, b) \in Seq(R)
  BY <1>1, <1>3
<1>4. ASSUME NEW i \in 1..n, t = RemoveAt(rows, i) PROVE t \in Seq(R)
  <2>1. PICK a \in Seq(R), b \in Seq(R) : a = SubSeq(rows, 1, i - 1) /\ b = SubSeq(rows, i + 1, n)
    <3>1. SubSeq(rows, 1, i - 1) \in Seq(R)
      BY <1>2, <1>3
    <3>2. SubSeq(rows, i + 1, n) \in Seq(R)
      BY <1>2, <1>3
    <3> QED BY <3>1, <3>2
  <2>2. t = a \o b
    BY <1>1, <1>4, <2>1 DEF RemoveAt
  <2> QED BY <2>2
<1>5. ASSUME NEW i \in 1..n, t = InsertAt(rows, i, rows[i]) PROVE t \in Seq(R)
  <2>1. PICK a \in Seq(R), b \in Seq(R) : a = SubSeq(rows, 1, i - 1) /\ b = SubSeq(rows, i, n)
    <3>1. SubSeq(rows, 1, i - 1) \in Seq(R)
      BY <1>2, <1>3
    <3>2. SubSeq(rows, i, n) \in Seq(R)
      BY <1>2, <1>3
    <3> QED BY <3>1, <3>2
  <2>2. t = a \o <<rows[i]>> \o b
    BY <1>1, <1>5, <2>1 DEF InsertAt
  <2>3. PICK x \in R : x = rows[i]
    BY <1>1
  <2>5. <<x>> \in Seq(R)
    OBVIOUS
  <2>4. PICK c \in Seq(R) : c = <<x>>
    BY <2>5
  <2> QED BY <2>2, <2>3, <2>4
<1>6. ASSUME NEW i \in 1..(n - 1), t = [rows EXCEPT ![i] = rows[i + 1], ![i + 1] = rows[i]]
      PROVE  t \in Seq(R)
  <2>1. i \in 1..n /\ i + 1 \in 1..n
    OBVIOUS
  <2>2. t \in [1..n -> R]
    BY <1>1, <1>6, <2>1
  <2> QED BY <2>2
<1> QED
  BY <1>1, <1>4, <1>5, <1>6 DEF Damaged

\* The writer closes the file, and something else may be read back.
LEMMA CloseFileInv ==
  ASSUME FileInv, CloseFile PROVE FileInv'
<1> USE DEF CloseFile, day, cursor, FileInv
<1>1. file' \in Seq(FileRow)
  <2>1. file \in Seq(FileRow)
    BY DEF FileTypeOK, FileRow
  <2>2. CASE file' = file
    BY <2>1, <2>2
  <2>3. CASE file' \in Damaged(file)
    BY <2>1, <2>3, DamagedRows
  <2> QED BY <2>2, <2>3
<1>2. groups' \in Seq(1..GroupRows) /\ open' = 0
  <2>1. PICK B : B = 1..GroupRows
    OBVIOUS
  <2>2. open \in 0..GroupRows
    BY DayFileAssumption DEF FileTypeOK
  <2>3. PICK a \in Seq(B), b \in Seq(B) : a = groups /\ b = Group(open)
    BY <2>1, <2>2, GroupsAre, GroupIs
  <2>4. a \o b \in Seq(B)
    OBVIOUS
  <2> QED BY <2>1, <2>3, <2>4
<1>3. seen = 0 /\ group = 0 /\ left = 0 /\ expected = <<>>
  BY DEF InStep, Recounted
<1>4. FileTypeOK'
  <2>1. faults' \in 0..MaxFaults
    BY DayFileAssumption DEF FileTypeOK, Faulty
  <2>2. groups' \in Seq(Nat \ {0})
    BY <1>2, GroupsBounded
  <2>3. seen' \in 0..Len(file')
    <3>1. Len(file') \in Nat
      BY <1>1
    <3> QED BY <1>3, <3>1
  <2>4. UNCHANGED <<layout, body, raw, next, included, excluded, rowsInGroup, stops, expected, seen, group, left>>
    OBVIOUS
  <2>5. open' \in 0..(GroupRows - 1) /\ compaction' = "recounting"
    BY <1>2, DayFileAssumption
  <2>6. file' \in Seq([capture : Capture, entity : Nat, stop : Nat])
    BY <1>1 DEF FileRow
  <2> QED BY <2>1, <2>2, <2>3, <2>4, <2>5, <2>6 DEF FileTypeOK
<1>5. RowGroupsAreBounded'
  BY <1>2, GroupsBounded
<1>6. Written'
  <2>1. next = Captures + 1
    BY DayFileAssumption DEF FileTypeOK, Capture
  <2> QED BY <2>1, SameWritten
<1>7. Recounted'
  BY SameExpected
<1>8. InStep' /\ Finished'
  BY <1>3, NotValid DEF InStep
<1> QED
  BY <1>4, <1>5, <1>6, <1>7, <1>8

\* The types of what the validator and the failures leave alone.
LEMMA SameFileTypes ==
  ASSUME FileTypeOK, UNCHANGED <<layout, body, next, included, excluded, file, groups, open, rowsInGroup, stops>>,
         raw' \in [Capture -> {"intact"} \cup Reason],
         compaction' \in {"writing", "recounting", "walking", "valid", "failed"},
         expected' \in Seq(Nat), Len(expected') <= Len(included),
         seen' \in 0..Len(file), group' \in 0..Len(included), left' \in Nat, faults' \in 0..MaxFaults
  PROVE  FileTypeOK'
BY DEF FileTypeOK

\* The validator counts the rows of the next included capture again.
LEMMA RecountInv ==
  ASSUME FileInv, Recount PROVE FileInv'
<1> USE DEF Recount, day, output, FileInv
<1>1. PICK n \in Nat : n = Len(expected) /\ DOMAIN expected = 1..n
  BY Elements
<1>2. PICK c \in Capture : c = included[n + 1]
  <2>1. n + 1 \in DOMAIN included
    BY <1>1, Elements
  <2> QED BY <2>1, Elements
<1>3. PICK x \in Nat : x = ExpectedRows(c)
  BY RowsOfIs
<1>4. expected \in Seq(Nat) /\ n < Len(included)
  BY <1>1 DEF FileTypeOK
<1>5. CASE compaction' = "failed" /\ expected' = expected
  <2>1. FileTypeOK'
    BY <1>5, SameFileTypes DEF FileTypeOK
  <2>2. Written'
    BY <1>5, SameWritten
  <2>3. Recounted'
    BY <1>5, SameExpected
  <2> QED BY <1>5, <2>1, <2>2, <2>3, NotValid DEF InStep, RowGroupsAreBounded
<1>6. CASE compaction' = "recounting" /\ expected' = Append(expected, x)
  <2>1. /\ expected' \in Seq(Nat) /\ Len(expected') = n + 1 /\ DOMAIN expected' = 1..(n + 1)
        /\ expected'[n + 1] = x /\ \A h \in 1..n : expected'[h] = expected[h]
    BY <1>1, <1>4, <1>6
  <2>2. Len(expected') <= Len(included)
    BY <1>4, <2>1, Elements
  <2>3. FileTypeOK'
    <3>1. UNCHANGED <<layout, body, raw, next, included, excluded, file, groups, open, rowsInGroup, stops,
                      seen, group, left, faults>>
      OBVIOUS
    <3> QED BY <1>6, <2>1, <2>2, <3>1, SameFileTypes DEF FileTypeOK
  <2>4. Written'
    BY <1>6, SameWritten DEF Written
  <2>5. Recounted'
    <3>1. ASSUME NEW h \in DOMAIN expected' PROVE expected'[h] = ExpectedRows(included[h])'
      <4>0. UNCHANGED <<layout, body, included>>
        OBVIOUS
      <4>1. ExpectedRows(included[h])' = ExpectedRows(included[h])
        BY <4>0 DEF ExpectedRows, CountProjectedTripUpdateRows, CountStopTimeUpdates,
                    TripUpdates
      <4>2. CASE h = n + 1
        BY <1>2, <1>3, <2>1, <4>1, <4>2
      <4>3. CASE h # n + 1
        <5>1. h \in 1..n
          BY <2>1, <4>3
        <5>2. expected[h] = ExpectedRows(included[h])
          BY <1>1, <5>1 DEF Recounted
        <5> QED BY <2>1, <4>1, <5>1, <5>2
      <4> QED BY <4>2, <4>3
    <3> QED BY <1>6, <3>1 DEF Recounted
  <2> QED BY <1>6, <2>3, <2>4, <2>5, NotValid DEF InStep, RowGroupsAreBounded
<1> QED
  BY <1>1, <1>2, <1>3, <1>5, <1>6

\* The captures of the rows walked.
LEMMA WalkedIs ==
  ASSUME NEW i \in 0..Len(file), Len(file) \in Nat,
         \A k \in 1..i : file[k].capture \in Capture
  PROVE  /\ Walked(i) \in Seq(Capture) /\ Len(Walked(i)) = i
         /\ \A k \in 1..i : Walked(i)[k] = file[k].capture
<1>1. PICK w : w = Walked(i)
  OBVIOUS
<1>2. w \in [1..i -> Capture] /\ (\A k \in 1..i : w[k] = file[k].capture)
  BY <1>1 DEF Walked
<1>3. w \in Seq(Capture) /\ Len(w) = i
  BY <1>2
<1> QED
  BY <1>1, <1>2, <1>3

\* The rows of the file belong to captures of the day.
LEMMA FileIs ==
  ASSUME FileTypeOK
  PROVE  /\ Len(file) \in Nat /\ DOMAIN file = 1..Len(file)
         /\ \A k \in 1..Len(file) : file[k].capture \in Capture
<1>1. PICK R : R = [capture : Capture, entity : Nat, stop : Nat]
  OBVIOUS
<1>2. file \in Seq(R) /\ (\A r \in R : r.capture \in Capture)
  BY <1>1 DEF FileTypeOK
<1> QED
  BY <1>2

\* The walk takes one more row.
LEMMA WalkedNext ==
  ASSUME FileTypeOK, NEW i \in Nat, i < Len(file)
  PROVE  Walked(i + 1) = Append(Walked(i), file[i + 1].capture)
<1>1. i + 1 \in 0..Len(file) /\ i \in 0..Len(file) /\ i + 1 \in 1..Len(file)
  BY FileIs
<1>2. (\A k \in 1..(i + 1) : k \in 1..Len(file)) /\ (\A k \in 1..i : k \in 1..Len(file))
  BY <1>1, FileIs
<1>3. PICK w \in Seq(Capture) : /\ w = Walked(i) /\ Len(w) = i
                                     /\ \A k \in 1..i : w[k] = file[k].capture
  BY <1>1, <1>2, FileIs, WalkedIs
<1>4. PICK v \in Seq(Capture) : /\ v = Walked(i + 1) /\ Len(v) = i + 1
                                     /\ \A k \in 1..(i + 1) : v[k] = file[k].capture
  BY <1>1, <1>2, FileIs, WalkedIs
<1>5. PICK c \in Capture : c = file[i + 1].capture
  BY <1>1, FileIs
<1>6. PICK a \in Seq(Capture) : /\ a = Append(w, c) /\ Len(a) = i + 1 /\ a[i + 1] = c
                                     /\ \A k \in 1..i : a[k] = w[k]
  <2>1. Append(w, c) \in Seq(Capture)
    OBVIOUS
  <2>2. PICK a \in Seq(Capture) : a = Append(w, c)
    BY <2>1
  <2>3. Len(a) = i + 1 /\ a[i + 1] = c
    BY <1>3, <2>2
  <2>4. \A k \in 1..i : a[k] = w[k]
    BY <1>3, <2>2
  <2> QED BY <2>2, <2>3, <2>4
<1>7. ASSUME NEW k \in 1..(i + 1) PROVE v[k] = a[k]
  <2>1. CASE k = i + 1
    BY <1>4, <1>5, <1>6, <2>1
  <2>2. CASE k # i + 1
    <3>1. k \in 1..i
      BY <2>2
    <3> QED BY <1>3, <1>4, <1>6, <3>1
  <2> QED BY <2>1, <2>2
<1>8. v = a
  BY <1>4, <1>6, <1>7
<1> QED
  BY <1>3, <1>4, <1>5, <1>6, <1>8

\* The walk starts before the first row and the first capture.
LEMMA StartWalkInv ==
  ASSUME FileInv, StartWalk PROVE FileInv'
<1> USE DEF StartWalk, day, output, cursor, FileInv
<1>1. FileTypeOK'
  BY SameFileTypes DEF FileTypeOK
<1>2. Written' /\ Recounted' /\ Finished' /\ RowGroupsAreBounded'
  BY SameWritten, SameExpected, NotValid DEF RowGroupsAreBounded, Written
<1>3. seen = 0 /\ group = 0 /\ left = 0
  BY DEF InStep
<1>4. Walked(0) \o Times(0, included[0]) = RowsDue(0)
  <2>1. Walked(0) = <<>> /\ Times(0, included[0]) = <<>>
    BY DEF Walked, Times
  <2>2. RowsDue(0) = <<>>
    <3>1. \A h \in 1..0 : expected[h] \in Nat /\ included[h] \in Capture
      OBVIOUS
    <3>2. PICK s, f : Concats(f, s, 0) /\ \A g \in 0..0 : RowsDue(g) = f[g]
      BY <3>1, DueIs
    <3> QED BY <3>2 DEF Concats
  <2>3. <<>> \o <<>> = <<>>
    OBVIOUS
  <2> QED BY <2>1, <2>2, <2>3, Zenon
<1>5. InStep'
  <2>1. Walked(seen)' = Walked(0) /\ RowsDue(group)' = RowsDue(0) /\ Times(left, included[group])' = Times(0, included[0])
    BY <1>3 DEF Walked, RowsDue, Times
  <2> QED BY <1>3, <1>4, <2>1 DEF InStep
<1> QED
  BY <1>1, <1>2, <1>5

\* The row belongs to the capture the walk is in or turns to.
LEMMA WalkOn ==
  ASSUME FileInv, compaction = "walking", seen < Len(file),
         NEW g \in 1..Len(included), NEW l \in Nat \ {0},
         RowBelongs(g), Walked(seen) \o Times(l, included[g]) = RowsDue(g),
         seen' = seen + 1, group' = g, left' = l - 1,
         UNCHANGED <<layout, body, raw, compaction, next, included, excluded, file, groups, open,
                     rowsInGroup, stops, expected, faults>>
  PROVE  FileInv'
<1> USE DEF FileInv
<1>1. seen \in Nat /\ seen + 1 \in 0..Len(file)
  BY FileIs DEF FileTypeOK
<1>2. FileTypeOK'
  <2>1. left' \in Nat /\ group' \in 0..Len(included) /\ seen' \in 0..Len(file)
    BY <1>1, Elements
  <2> QED BY <2>1, SameFileTypes DEF FileTypeOK
<1>3. Written' /\ Recounted' /\ Finished' /\ RowGroupsAreBounded'
  BY SameWritten, SameExpected, NotValid DEF RowGroupsAreBounded, Written, Recounted
<1>4. PICK c \in Capture : c = included[g] /\ c = file[seen + 1].capture
  BY Elements DEF RowBelongs
<1>5. PICK w \in Seq(Capture) : w = Walked(seen)
  <2>1. \A k \in 1..seen : k \in 1..Len(file)
    BY <1>1, FileIs
  <2> QED BY <1>1, <2>1, FileIs, WalkedIs
<1>6. Walked(seen + 1) \o Times(l - 1, c) = RowsDue(g)
  <2>1. Walked(seen + 1) = Append(w, c)
    BY <1>1, <1>4, <1>5, WalkedNext
  <2>2. Append(w, c) \o Times(l - 1, c) = w \o Times(l, c)
    BY TimesStep
  <2> QED BY <1>4, <1>5, <2>1, <2>2
<1>7. InStep'
  <2>1. Walked(seen)' = Walked(seen + 1) /\ RowsDue(group)' = RowsDue(g)
        /\ Times(left, included[group])' = Times(l - 1, c)
    BY <1>4 DEF Walked, RowsDue, Times
  <2> QED BY <1>6, <2>1 DEF InStep
<1> QED
  BY <1>2, <1>3, <1>7

\* The walk takes a row of the capture it is in, turns to the next capture that
\* has rows, or fails.
LEMMA WalkRowInv ==
  ASSUME FileInv, WalkRow PROVE FileInv'
<1> USE DEF WalkRow, day, output, FileInv
<1>0. group \in 0..Len(included) /\ left \in Nat /\ Len(expected) = Len(included)
  BY DEF FileTypeOK, Recounted
<1>1. CASE left > 0 /\ RowBelongs(group) /\ left' = left - 1 /\ seen' = seen + 1
           /\ UNCHANGED <<group, compaction>>
  <2>1. group \in 1..Len(included)
    BY <1>0, <1>1, Elements DEF InStep
  <2>2. Walked(seen) \o Times(left, included[group]) = RowsDue(group)
    BY DEF InStep
  <2> QED BY <1>0, <1>1, <2>1, <2>2, WalkOn
<1>2. ASSUME NEW g \in Following, left = 0, RowBelongs(g), group' = g,
             left' = expected[g] - 1, seen' = seen + 1, UNCHANGED compaction
      PROVE  FileInv'
  <2>1. PICK n \in Nat : n = Len(included) /\ DOMAIN expected = 1..n /\ DOMAIN included = 1..n
    BY <1>0, Elements
  <2>2. g \in 1..n /\ g > group /\ expected[g] > 0 /\ (\A h \in (group + 1)..(g - 1) : expected[h] = 0)
    BY <1>2, <2>1 DEF Following
  <2>3. \A h \in 1..n : expected[h] \in Nat /\ included[h] \in Capture
    BY <2>1, Elements
  <2>4. PICK s, f : /\ \A h \in 1..n : s[h] = Times(expected[h], included[h])
                    /\ \A h \in 1..n : s[h] \in Seq(Capture) /\ Len(s[h]) = expected[h]
                    /\ Concats(f, s, n)
                    /\ \A i \in 0..n : RowsDue(i) = f[i] /\ f[i] \in Seq(Capture)
    BY <2>3, DueIs
  <2>5. f[g - 1] = f[group]
    <3>4. PICK i \in 0..n : i = group
      BY <1>0, <2>1
    <3>1. PICK j \in i..n : i = group /\ j = g - 1
      BY <2>2, <3>4
    <3>2. ASSUME NEW h \in (i + 1)..j PROVE s[h] = <<>>
      <4>1. h \in 1..n /\ h \in (group + 1)..(g - 1)
        BY <3>1
      <4>2. s[h] \in Seq(Capture) /\ Len(s[h]) = 0
        BY <2>2, <2>4, <4>1
      <4> QED BY <4>2
    <3>5. PICK X : X = Capture
      OBVIOUS
    <3>6. (\A h \in 1..n : s[h] \in Seq(X)) /\ Concats(f, s, n)
      BY <2>4, <3>5
    <3>7. Gap(s, i, j)
      BY <3>2 DEF Gap
    <3>3. f[j] = f[i]
      BY <3>6, <3>7, ConcatsSkip
    <3> QED BY <3>1, <3>3
  <2>6. f[g] = f[g - 1] \o s[g]
    <3>1. g - 1 \in 0..(n - 1) /\ (g - 1) + 1 = g
      BY <2>2
    <3> QED BY <2>4, <3>1 DEF Concats
  <2>7. Walked(seen) = f[group]
    <3>1. PICK w \in Seq(Capture) : w = Walked(seen)
      <4>1. seen \in 0..Len(file) /\ (\A k \in 1..seen : k \in 1..Len(file))
        BY FileIs DEF FileTypeOK
      <4> QED BY <4>1, FileIs, WalkedIs
    <3>2. Times(left, included[group]) = <<>>
      BY <1>2 DEF Times
    <3>3. w \o <<>> = w
      OBVIOUS
    <3>4. Walked(seen) \o Times(left, included[group]) = RowsDue(group)
      BY DEF InStep
    <3> QED BY <1>0, <2>1, <2>4, <3>1, <3>2, <3>3, <3>4
  <2>8. PICK l \in Nat \ {0} : l = expected[g]
    BY <2>2, <2>3
  <2>9. Walked(seen) \o Times(l, included[g]) = RowsDue(g)
    <3>1. g \in 0..n
      BY <2>2
    <3> QED BY <2>2, <2>4, <2>5, <2>6, <2>7, <2>8, <3>1
  <2> QED BY <1>2, <2>1, <2>2, <2>8, <2>9, WalkOn
<1>3. CASE compaction' = "failed" /\ UNCHANGED <<seen, group, left>>
  <2>1. FileTypeOK'
    BY <1>3, SameFileTypes DEF FileTypeOK
  <2>2. Written' /\ Recounted' /\ Finished' /\ RowGroupsAreBounded'
    BY <1>3, SameWritten, SameExpected, NotValid DEF RowGroupsAreBounded
  <2> QED BY <1>3, <2>1, <2>2 DEF InStep
<1> QED
  BY <1>1, <1>2, <1>3

\* The i-th included capture, 0 before the first.
IncludedAt(i) == IF i = 0 THEN 0 ELSE included[i]

\* A capture between two included ones that follow each other is excluded.
LEMMA GapsAreExcluded ==
  ASSUME FileInv, compaction = "walking", NEW i \in 0..Len(included),
         NEW c \in 1..Captures,
         IncludedAt(i) < c, i = Len(included) \/ c < included[i + 1]
  PROVE  c \in Excluded
<1>1. next = Captures + 1 /\ (\A x, y \in DOMAIN included : x < y => included[x] < included[y])
  BY DEF FileInv, Written
<1>2. PICK n \in Nat : n = Len(included) /\ DOMAIN included = 1..n
  BY Elements DEF FileInv
<1>3. \A x \in 1..n : included[x] \in Nat
  BY <1>2, Elements DEF FileInv
<1>4. i \in 0..n /\ c \in Nat
  BY <1>2, DayFileAssumption
<1>5. ASSUME NEW k \in 1..n, included[k] = c PROVE FALSE
  <2>1. CASE k <= i
    <3>1. i \in 1..n /\ i # 0
      BY <1>4, <2>1
    <3>2. IncludedAt(i) = included[i]
      BY <3>1 DEF IncludedAt
    <3>3. included[i] < c
      BY <3>2
    <3>4. k = i \/ included[k] < included[i]
      BY <1>1, <1>2, <1>4, <2>1, <3>1
    <3> QED BY <1>3, <1>5, <3>1, <3>3, <3>4
  <2>2. CASE k > i
    <3>1. i + 1 \in 1..n /\ i # n
      BY <1>4, <2>2
    <3>2. c < included[i + 1]
      BY <1>2, <3>1
    <3>3. k = i + 1 \/ included[i + 1] < included[k]
      BY <1>1, <1>2, <1>4, <2>2, <3>1
    <3> QED BY <1>3, <1>5, <3>1, <3>2, <3>3
  <2> QED BY <1>4, <2>1, <2>2
<1>6. c \in 1..(next - 1)
  BY <1>1, DayFileAssumption
<1> QED
  BY <1>2, <1>5, <1>6 DEF FileInv, Written

\* Captures that are excluded contribute nothing, so what is due of the included
\* ones is what the day should hold.
DayOf(c) == IF c \in Excluded THEN <<>> ELSE Times(Len(RowsOf(c)), c)

LEMMA DueIsTheDay ==
  ASSUME FileInv, compaction = "walking"
  PROVE  RowsDue(Len(included)) = FlattenSeq([c \in Capture |-> DayOf(c)])
<1> USE DEF FileInv
<1>1. PICK n \in Nat : n = Len(included) /\ DOMAIN expected = 1..n /\ DOMAIN included = 1..n
  BY Elements DEF Recounted
<1>2. \A h \in 1..n : expected[h] \in Nat /\ included[h] \in Capture
  BY <1>1, Elements
<1>3. PICK s, f : /\ \A h \in 1..n : s[h] = Times(expected[h], included[h])
                  /\ \A h \in 1..n : s[h] \in Seq(Capture) /\ Len(s[h]) = expected[h]
                  /\ Concats(f, s, n)
                  /\ \A i \in 0..n : RowsDue(i) = f[i] /\ f[i] \in Seq(Capture)
  BY <1>2, DueIs
<1>4. PICK N \in Nat \ {0} : N = Captures /\ Capture = 1..N
  BY DayFileAssumption DEF Capture
<1>5. PICK q : q = [c \in 1..N |-> DayOf(c)]
  OBVIOUS
<1>6. ASSUME NEW c \in 1..N PROVE q[c] \in Seq(Capture)
  <2>1. CASE c \in Excluded
    BY <1>5, <2>1 DEF DayOf
  <2>2. CASE c \notin Excluded
    <3>1. PICK l \in Nat : l = Len(RowsOf(c))
      BY <1>4, RowsOfIs
    <3>2. c \in Capture
      BY <1>4
    <3>3. Times(l, c) \in Seq(Capture)
      BY <3>2, TimesIs
    <3> QED BY <1>5, <2>2, <3>1, <3>3 DEF DayOf
  <2> QED BY <2>1, <2>2
<1>7. PICK Q : Concats(Q, q, N)
  BY ConcatsExist
<1>8. FlattenSeq(q) = Q[N]
  <2>1. q = [c \in 1..N |-> q[c]]
    BY <1>5
  <2>2. PICK X : X = Capture
    OBVIOUS
  <2>3. \A c \in 1..N : q[c] \in Seq(X)
    BY <1>6, <2>2
  <2> QED BY <1>7, <2>1, <2>3, FlattenIs
<1>9. \A i \in 0..n : IncludedAt(i) \in 0..N /\ (i > 0 => IncludedAt(i) = included[i] /\ IncludedAt(i) \in 1..N)
  BY <1>2, <1>4 DEF IncludedAt
<1>10. ASSUME NEW a \in 0..N, NEW b \in a..N, \A c \in (a + 1)..b : c \in Excluded
       PROVE  Q[b] = Q[a]
  <2>1. PICK X : X = Capture
    OBVIOUS
  <2>2. \A c \in 1..N : q[c] \in Seq(X)
    BY <1>6, <2>1
  <2>3. Gap(q, a, b)
    <3>1. \A c \in (a + 1)..b : c \in 1..N
      OBVIOUS
    <3> QED BY <1>5, <1>10, <3>1 DEF Gap, DayOf
  <2> QED BY <1>7, <2>2, <2>3, ConcatsSkip
<1> DEFINE F == {i \in 0..n : f[i] = Q[IncludedAt(i)]}
<1>11. f[0] = Q[IncludedAt(0)]
  BY <1>3, <1>7 DEF Concats, IncludedAt
<1>12. ASSUME NEW i \in 0..(n - 1), f[i] = Q[IncludedAt(i)]
       PROVE  f[i + 1] = Q[IncludedAt(i + 1)]
  <2>1. i \in 0..n /\ i + 1 \in 1..n /\ i + 1 \in 0..n /\ i + 1 > 0
    OBVIOUS
  <2>2. PICK a \in 0..N : a = IncludedAt(i)
    BY <1>9, <2>1
  <2>3. PICK b \in 1..N : b = included[i + 1] /\ b = IncludedAt(i + 1)
    BY <1>9, <2>1
  <2>4. a < b
    <3>1. CASE i = 0
      BY <2>2, <3>1 DEF IncludedAt
    <3>2. CASE i # 0
      <4>1. i \in 1..n /\ i < i + 1 /\ a = included[i]
        BY <2>2, <3>2 DEF IncludedAt
      <4>2. i \in DOMAIN included /\ i + 1 \in DOMAIN included
        BY <1>1, <2>1, <4>1
      <4>3. included[i] < included[i + 1]
        BY <4>1, <4>2 DEF Written
      <4> QED BY <2>3, <4>1, <4>3
    <3> QED BY <3>1, <3>2
  <2>5. ASSUME NEW c \in (a + 1)..(b - 1) PROVE c \in Excluded
    <3>1. c \in 1..Captures /\ IncludedAt(i) < c /\ c < included[i + 1]
      BY <1>4, <2>2, <2>3
    <3> QED BY <1>1, <2>1, <3>1, GapsAreExcluded
  <2>6. Q[b - 1] = Q[a]
    <3>1. b - 1 \in a..N
      BY <2>4
    <3> QED BY <1>10, <2>5, <3>1
  <2>7. Q[b] = Q[b - 1] \o q[b]
    <3>1. b - 1 \in 0..(N - 1) /\ (b - 1) + 1 = b
      OBVIOUS
    <3> QED BY <1>7, <3>1 DEF Concats
  <2>8. q[b] = s[i + 1]
    <3>1. b \notin Excluded
      BY <1>1, <2>1, <2>3 DEF Written
    <3>2. expected[i + 1] = ExpectedRows(b)
      BY <1>1, <2>1, <2>3 DEF Recounted
    <3>3. Len(RowsOf(b)) = ExpectedRows(b)
      BY <1>4, RowsOfIs
    <3> QED BY <1>3, <1>5, <2>1, <2>3, <3>1, <3>2, <3>3 DEF DayOf
  <2>9. f[i + 1] = f[i] \o s[i + 1]
    BY <1>3 DEF Concats
  <2> QED BY <1>12, <2>2, <2>3, <2>6, <2>7, <2>8, <2>9
<1>13. 0 \in F /\ (\A i \in 0..(n - 1) : i \in F => i + 1 \in F)
  <2>1. \A k \in 0..(n - 1) : k \in 0..n /\ k + 1 \in 0..n
    OBVIOUS
  <2>2. 0 \in F
    BY <1>11
  <2>3. ASSUME NEW k \in 0..(n - 1), k \in F PROVE k + 1 \in F
    BY <1>12, <2>1, <2>3
  <2> QED BY <2>2, <2>3
<1>14. \A i \in 0..n : i \in F
  <2> HIDE DEF F
  <2> QED BY <1>13, IndexInduction
<1>15. n \in 0..n
  OBVIOUS
<1>16. f[n] = Q[IncludedAt(n)]
  BY <1>14, <1>15
<1>17. Q[N] = Q[IncludedAt(n)]
  <2>1. PICK a \in 0..N : a = IncludedAt(n)
    BY <1>9, <1>15
  <2>2. ASSUME NEW c \in (a + 1)..N PROVE c \in Excluded
    <3>1. c \in 1..Captures /\ IncludedAt(n) < c
      BY <1>4, <2>1
    <3> QED BY <1>1, <1>15, <3>1, GapsAreExcluded
  <2>3. N \in a..N
    OBVIOUS
  <2> QED BY <1>10, <2>1, <2>2, <2>3
<1>18. RowsDue(n) = f[n]
  BY <1>3, <1>15
<1> QED
  BY <1>1, <1>4, <1>5, <1>8, <1>16, <1>17, <1>18

\* When every expected row is seen none is due, and the rows are all there are.
LEMMA AllIsWalked ==
  ASSUME FileInv, compaction = "walking", seen = Len(file), EveryRowSeen
  PROVE  Walked(Len(file)) = RowsDue(Len(included))
<1> USE DEF FileInv
<1>1. PICK n \in Nat : n = Len(included) /\ DOMAIN expected = 1..n /\ DOMAIN included = 1..n
  BY Elements DEF Recounted
<1>2. \A h \in 1..n : expected[h] \in Nat /\ included[h] \in Capture
  BY <1>1, Elements
<1>3. PICK s, f : /\ \A h \in 1..n : s[h] = Times(expected[h], included[h])
                  /\ \A h \in 1..n : s[h] \in Seq(Capture) /\ Len(s[h]) = expected[h]
                  /\ Concats(f, s, n)
                  /\ \A i \in 0..n : RowsDue(i) = f[i] /\ f[i] \in Seq(Capture)
  BY <1>2, DueIs
<1>4. n \in 0..n
  OBVIOUS
<1>5. Len(f[n]) = seen
  <2>1. Measures(expected, s, Capture, n)
    BY <1>3 DEF Measures
  <2>2. \A i \in 0..n : Len(f[i]) = SumOf(expected, 1..i)
    BY <1>3, <2>1, ConcatsLength
  <2>3. PICK S : S = 1..n
    OBVIOUS
  <2>4. IsFiniteSet(S)
    BY <2>3, FS_Interval
  <2>5. SumFunctionOnSet(expected, S) = SumOf(expected, S)
    BY <2>4, SumOnSetIs
  <2>6. SumFunction(expected) = SumFunctionOnSet(expected, S)
    BY <1>1, <2>3 DEF SumFunction
  <2> QED BY <1>4, <2>2, <2>3, <2>5, <2>6 DEF EveryRowSeen
<1>6. PICK g \in 0..n : g = group
  BY <1>1 DEF FileTypeOK
<1>7. PICK w \in Seq(Capture) : w = Walked(seen) /\ Len(w) = seen
  <2>1. seen \in 0..Len(file) /\ (\A k \in 1..seen : k \in 1..Len(file))
    BY FileIs DEF FileTypeOK
  <2> QED BY <2>1, FileIs, WalkedIs
<1>8. PICK t \in Seq(Capture) : t = Times(left, included[group]) /\ Len(t) = left
  <2>1. CASE left = 0
    <3>1. Times(left, included[group]) = <<>>
      BY <2>1 DEF Times
    <3>2. <<>> \in Seq(Capture) /\ Len(<<>>) = 0
      OBVIOUS
    <3> QED BY <2>1, <3>1, <3>2
  <2>2. CASE left # 0
    <3>1. PICK l \in Nat : l = left
      BY DEF FileTypeOK
    <3>2. PICK c \in Capture : c = included[group]
      <4>1. group \in 1..n
        BY <1>6, <2>2, <3>1 DEF InStep
      <4> QED BY <1>2, <4>1
    <3> QED BY <3>1, <3>2, TimesIs
  <2> QED BY <2>1, <2>2
<1>9. w \o t = f[g]
  BY <1>3, <1>6, <1>7, <1>8 DEF InStep
<1>10. Len(f[g]) = seen + left /\ seen \in Nat /\ left \in Nat
  <2>1. Len(w \o t) = Len(w) + Len(t)
    OBVIOUS
  <2> QED BY <1>7, <1>8, <1>9, <2>1, FileIs DEF FileTypeOK
<1>11. Len(f[g]) <= Len(f[n]) /\ (Len(f[g]) = Len(f[n]) => f[g] = f[n])
  <2>1. PICK X : X = Capture
    OBVIOUS
  <2>2. (\A h \in 1..n : s[h] \in Seq(X)) /\ Concats(f, s, n)
    BY <1>3, <2>1
  <2>3. n \in g..n
    OBVIOUS
  <2> QED BY <2>2, <2>3, ConcatsGrow
<1>12. left = 0 /\ f[g] = f[n]
  BY <1>5, <1>10, <1>11
<1>13. w \o t = w
  <2>1. t = <<>>
    BY <1>8, <1>12
  <2> QED BY <2>1
<1> QED
  BY <1>1, <1>3, <1>4, <1>7, <1>9, <1>12, <1>13

\* The file ends, and is valid when every expected row was seen.
LEMMA EndOfFileInv ==
  ASSUME FileInv, EndOfFile PROVE FileInv'
<1> USE DEF EndOfFile, day, output, cursor, FileInv
<1>1. FileTypeOK'
  BY SameFileTypes DEF FileTypeOK
<1>2. RowGroupsAreBounded' /\ Written' /\ Recounted' /\ InStep'
  <2>1. compaction' \in {"valid", "failed"}
    OBVIOUS
  <2> QED BY <2>1, SameWritten, SameExpected DEF RowGroupsAreBounded, InStep, Written, Recounted
<1>3. CASE compaction' = "failed"
  BY <1>1, <1>2, <1>3, NotValid
<1>4. CASE EveryRowSeen /\ included # <<>>
  <2>1. Walked(Len(file)) = FlattenSeq([c \in Capture |-> DayOf(c)])
    BY <1>4, AllIsWalked, DueIsTheDay
  <2>2. [i \in DOMAIN file |-> file[i].capture] = Walked(Len(file))
    BY FileIs DEF Walked
  <2>3. ValidFileHoldsTheDay'
    <3>1. UNCHANGED <<layout, body, excluded, file>>
      OBVIOUS
    <3>2. [i \in DOMAIN file |-> file[i].capture] = FlattenSeq([c \in Capture |->
             IF c \in Excluded THEN <<>> ELSE Times(Len(RowsOf(c)), c)])
      BY <2>1, <2>2 DEF DayOf
    <3> QED BY <3>1, <3>2 DEF ValidFileHoldsTheDay, Excluded, RowsOf,
                              ProjectTripUpdateStops, TripUpdates
  <2> QED BY <1>1, <1>2, <1>4, <2>3 DEF Finished
<1> QED
  BY <1>3, <1>4

\* A raw file is damaged: those of the excluded captures were before.
LEMMA DamageRawInv ==
  ASSUME FileInv, DamageRaw PROVE FileInv'
<1> USE DEF DamageRaw, day, output, cursor, FileInv
<1>1. PICK c \in Capture, r \in Reason : raw[c] = "intact" /\ raw' = [raw EXCEPT ![c] = r]
  OBVIOUS
<1>2. FileTypeOK'
  <2>1. raw' \in [Capture -> {"intact"} \cup Reason]
    BY <1>1 DEF FileTypeOK
  <2>2. faults' \in 0..MaxFaults
    BY DayFileAssumption DEF FileTypeOK, Faulty
  <2> QED BY <2>1, <2>2, SameFileTypes DEF FileTypeOK
<1>3. Written'
  <2>1. ASSUME NEW i \in DOMAIN excluded PROVE raw'[excluded[i].id] = excluded[i].reason
    <3>1. raw[excluded[i].id] = excluded[i].reason /\ excluded[i].reason \in Reason
      BY Elements DEF Written
    <3>2. excluded[i].id # c
      BY <1>1, <3>1 DEF Reason
    <3> QED BY <1>1, <3>1, <3>2, Elements DEF FileTypeOK
  <2> QED BY <2>1 DEF Written, Excluded
<1>4. Recounted' /\ InStep' /\ Finished' /\ RowGroupsAreBounded'
  <2>1. Recounted'
    BY SameExpected DEF Recounted
  <2>2. InStep'
    BY DEF InStep, Walked, RowsDue
  <2> QED BY <2>1, <2>2, NotValid DEF RowGroupsAreBounded
<1> QED
  BY <1>2, <1>3, <1>4

\* The compaction is interrupted.
LEMMA InterruptInv ==
  ASSUME FileInv, Interrupt PROVE FileInv'
<1> USE DEF Interrupt, day, output, cursor, FileInv
<1>1. FileTypeOK'
  <2>1. faults' \in 0..MaxFaults
    BY DayFileAssumption DEF FileTypeOK, Faulty
  <2> QED BY <2>1, SameFileTypes DEF FileTypeOK
<1> QED
  BY <1>1, SameWritten, SameExpected, NotValid DEF InStep, RowGroupsAreBounded

\* The next attempt starts over.
LEMMA RetryInv ==
  ASSUME FileInv, Retry PROVE FileInv'
<1> USE DEF Retry, day, FileInv
<1>1. FileTypeOK'
  <2>1. next' \in 1..(Captures + 1) /\ open' \in 0..(GroupRows - 1) /\ rowsInGroup' \in 0..(GroupRows - 1)
    BY DayFileAssumption
  <2>2. included' \in Seq(Capture) /\ excluded' \in Seq([id : Capture, reason : Reason])
        /\ file' \in Seq([capture : Capture, entity : Nat, stop : Nat])
        /\ groups' \in Seq(Nat \ {0}) /\ expected' \in Seq(Nat)
    OBVIOUS
  <2>3. Len(expected') <= Len(included') /\ seen' \in 0..Len(file') /\ group' \in 0..Len(included')
        /\ stops' \in Nat /\ left' \in Nat /\ compaction' = "writing"
    OBVIOUS
  <2>4. UNCHANGED <<layout, body, raw, faults>>
    OBVIOUS
  <2> QED BY <2>1, <2>2, <2>3, <2>4 DEF FileTypeOK
<1>2. Written'
  BY DEF Written, Excluded
<1> QED
  BY <1>1, <1>2, NotValid DEF Recounted, InStep, RowGroupsAreBounded

\* Every step of DayFile keeps the invariant.
LEMMA NextFileInv ==
  FileInv /\ [FileNext]_(fileVars) => FileInv'
<1> SUFFICES ASSUME FileInv, [FileNext]_(fileVars) PROVE FileInv'
  OBVIOUS
<1>1. CASE WriteCapture
  BY <1>1, ExcludeInv, IncludeInv DEF WriteCapture
<1>2. CASE CloseFile
  BY <1>2, CloseFileInv
<1>3. CASE Recount
  BY <1>3, RecountInv
<1>4. CASE StartWalk
  BY <1>4, StartWalkInv
<1>5. CASE WalkRow
  BY <1>5, WalkRowInv
<1>6. CASE EndOfFile
  BY <1>6, EndOfFileInv
<1>7. CASE DamageRaw
  BY <1>7, DamageRawInv
<1>8. CASE Interrupt
  BY <1>8, InterruptInv
<1>9. CASE Retry
  BY <1>9, RetryInv
<1>10. CASE UNCHANGED fileVars
  <2> USE <1>10 DEF fileVars, day, output, cursor, FileInv
  <2>1. FileTypeOK'
    BY SameFileTypes DEF FileTypeOK
  <2>2. Written' /\ Recounted'
    BY SameWritten, SameExpected DEF Written, Recounted
  <2>3. InStep' /\ RowGroupsAreBounded'
    BY DEF InStep, Walked, RowsDue, RowGroupsAreBounded
  <2>4. Finished'
    BY DEF Finished, ValidFileHoldsTheDay, Excluded, RowsOf,
           ProjectTripUpdateStops, TripUpdates
  <2> QED BY <2>1, <2>2, <2>3, <2>4
<1> QED
  BY <1>1, <1>2, <1>3, <1>4, <1>5, <1>6, <1>7, <1>8, <1>9, <1>10 DEF FileNext

\* The invariant holds in every state DayFile reaches.
THEOREM SpecFileInv == FileSpec => []FileInv
<1>1. FileInit => FileInv
  BY InitFileInv
<1>2. FileInv /\ [FileNext]_(fileVars) => FileInv'
  BY NextFileInv
<1> QED
  BY <1>1, <1>2, PTL DEF FileSpec

-----------------------------------------------------------------------------
(* The theorems about DayFile.                                              *)

\* The writer's and the validator's counts stay in range, and a row that is read
\* back belongs to a capture of the day (TypeOK of DayFile; Compact,
\* validateTripUpdateParquet).
THEOREM SpecFileTypeOK == FileSpec => []FileTypeOK
<1>1. FileInv => FileTypeOK
  BY DEF FileInv
<1> QED
  BY <1>1, SpecFileInv, PTL

\* A file that passes the validator holds the rows of every capture of the day
\* that is not declared excluded, as many as the capture has, captures in order
\* and none of them divided (validateTripUpdateParquet, validateParquet).
THEOREM SpecValidFileHoldsTheDay == FileSpec => []ValidFileHoldsTheDay
<1>1. FileInv => ValidFileHoldsTheDay
  BY DEF FileInv, Finished
<1> QED
  BY <1>1, SpecFileInv, PTL

\* Every capture of a valid file is either included or declared excluded for a
\* reason its raw file has, and the file is not that of an empty day (Compact,
\* exclusionReason).
THEOREM SpecExclusionsAreDeclared == FileSpec => []ExclusionsAreDeclared
<1>1. ASSUME FileInv, compaction = "valid"
      PROVE  Capture = {included[i] : i \in DOMAIN included} \cup Excluded
  <2>1. next = Captures + 1 /\ Captures \in Nat
    BY <1>1, DayFileAssumption DEF FileInv, Written
  <2>2. \A c \in 1..Captures : c \in Excluded \/ \E i \in DOMAIN included : included[i] = c
    BY <1>1, <2>1 DEF FileInv, Written
  <2>3. \A i \in DOMAIN included : included[i] \in Capture
    BY <1>1, Elements DEF FileInv
  <2>4. \A i \in DOMAIN excluded : excluded[i].id \in Capture
    BY <1>1, Elements DEF FileInv
  <2> QED BY <2>2, <2>3, <2>4 DEF Capture, Excluded
<1>2. ASSUME FileInv, compaction = "valid"
      PROVE  Len(included) + Len(excluded) = Captures
  BY <1>2, DayFileAssumption DEF FileInv, Written
<1>3. FileInv => ExclusionsAreDeclared
  BY <1>1, <1>2 DEF FileInv, Finished, Written, ExclusionsAreDeclared
<1> QED
  BY <1>3, SpecFileInv, PTL

\* No row group is larger than the limit, whatever the compactor and the library
\* count apart (tripUpdateRowGroupRows).
THEOREM SpecRowGroupsAreBounded == FileSpec => []RowGroupsAreBounded
<1>1. FileInv => RowGroupsAreBounded
  BY DEF FileInv
<1> QED
  BY <1>1, SpecFileInv, PTL
=============================================================================
