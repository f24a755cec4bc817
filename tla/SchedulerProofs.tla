-------------------------- MODULE SchedulerProofs --------------------------
(***************************************************************************)
(* The slots of the scheduler's semaphores, and the arithmetic of ticks,   *)
(* for any streams, hosts, limits, intervals and phases.                   *)
(***************************************************************************)
EXTENDS Scheduler, FiniteSetTheorems, TLAPS

\* Streams with a slot of the global semaphore, and with one of their host's.
GlobalHolders == {s \in Stream : pc[s] \in {"host", "acquired", "fetching"}}
HostHolders(h) == {s \in Stream : HostOf[s] = h /\ pc[s] \in {"acquired", "fetching"}}

PcType == pc \in [Stream -> {"loop", "waiting", "global", "host", "acquired", "fetching", "stopped"}]

\* The semaphores count their holders and never exceed their size.
SlotsInv ==
    /\ PcType
    /\ global \in 0..FetchSlots /\ perHost \in [Host -> 0..HostSlots]
    /\ global = Cardinality(GlobalHolders)
    /\ \A h \in Host : perHost[h] = Cardinality(HostHolders(h))

\* No stream holds a slot when the scheduler starts, and both counts are zero.
LEMMA SlotsInit == Init => SlotsInv
  <1> SUFFICES ASSUME Init PROVE SlotsInv
    OBVIOUS
  <1>1. GlobalHolders = {} /\ \A h \in Host : HostHolders(h) = {}
    BY DEF Init, GlobalHolders, HostHolders
  <1>2. PcType
    BY DEF Init, PcType
  <1>3. global = 0 /\ perHost = [h \in Host |-> 0]
    BY DEF Init
  <1>4. 0 \in 0..FetchSlots /\ 0 \in 0..HostSlots
    BY SchedulerAssumption
  <1>5. Cardinality(GlobalHolders) = 0 /\ \A h \in Host : Cardinality(HostHolders(h)) = 0
    BY <1>1, FS_EmptySet
  <1> QED
    BY <1>2, <1>3, <1>4, <1>5 DEF SlotsInv

\* The holders are finitely many.
LEMMA HoldersFinite ==
  IsFiniteSet(GlobalHolders) /\ \A h \in Host : IsFiniteSet(HostHolders(h))
  BY FS_Subset, SchedulerAssumption DEF GlobalHolders, HostHolders

\* A stream that moves between places with the same slots changes no count.
LEMMA SameHolders ==
  ASSUME SlotsInv, NEW s \in Stream, NEW to, Goes(s, to), PcType', UNCHANGED slots,
         (to \in {"host", "acquired", "fetching"}) <=> (pc[s] \in {"host", "acquired", "fetching"}),
         (to \in {"acquired", "fetching"}) <=> (pc[s] \in {"acquired", "fetching"})
  PROVE  SlotsInv'
  <1>1. GlobalHolders' = GlobalHolders
    BY DEF SlotsInv, PcType, Goes, GlobalHolders
  <1>2. \A h \in Host : HostHolders(h)' = HostHolders(h)
    BY DEF SlotsInv, PcType, Goes, HostHolders
  <1> QED
    BY <1>1, <1>2 DEF SlotsInv, slots

\* AcquireGlobal takes one slot and adds one holder.
LEMMA GlobalTaken ==
  ASSUME SlotsInv, NEW s \in Stream, AcquireGlobal(s)
  PROVE  SlotsInv'
  <1>1. s \notin GlobalHolders /\ GlobalHolders' = GlobalHolders \cup {s}
    BY DEF SlotsInv, PcType, AcquireGlobal, Goes, GlobalHolders
  <1>2. \A h \in Host : HostHolders(h)' = HostHolders(h)
    BY DEF SlotsInv, PcType, AcquireGlobal, Goes, HostHolders
  <1>3. Cardinality(GlobalHolders') = Cardinality(GlobalHolders) + 1
    BY <1>1, HoldersFinite, FS_AddElement
  <1>4. PcType' /\ global' \in 0..FetchSlots
    BY SchedulerAssumption DEF SlotsInv, PcType, AcquireGlobal, Goes
  <1> QED
    BY <1>2, <1>3, <1>4 DEF SlotsInv, AcquireGlobal

\* AcquireHost takes one slot of the stream's own host.
LEMMA HostTaken ==
  ASSUME SlotsInv, NEW s \in Stream, AcquireHost(s)
  PROVE  SlotsInv'
  <1>1. GlobalHolders' = GlobalHolders
    BY DEF SlotsInv, PcType, AcquireHost, Goes, GlobalHolders
  <1>2. HostOf[s] \in Host /\ PcType'
    BY SchedulerAssumption DEF SlotsInv, PcType, AcquireHost, Goes
  <1>3. s \notin HostHolders(HostOf[s]) /\ HostHolders(HostOf[s])' = HostHolders(HostOf[s]) \cup {s}
    BY DEF SlotsInv, PcType, AcquireHost, Goes, HostHolders
  <1>4. \A h \in Host : h # HostOf[s] => HostHolders(h)' = HostHolders(h)
    BY DEF SlotsInv, PcType, AcquireHost, Goes, HostHolders
  <1>5. Cardinality(HostHolders(HostOf[s])') = Cardinality(HostHolders(HostOf[s])) + 1
    BY <1>2, <1>3, HoldersFinite, FS_AddElement
  <1>6. perHost' \in [Host -> 0..HostSlots]
    BY <1>2, SchedulerAssumption DEF SlotsInv, AcquireHost, TakeHost
  <1>7. \A h \in Host : perHost'[h] = Cardinality(HostHolders(h)')
    BY <1>2, <1>4, <1>5 DEF SlotsInv, AcquireHost, TakeHost
  <1> QED
    BY <1>1, <1>2, <1>6, <1>7 DEF SlotsInv, AcquireHost

\* A stream that returns its global slot was counted, so the count stays natural.
LEMMA GlobalReturned ==
  ASSUME SlotsInv, NEW s \in Stream, pc[s] \in {"host", "acquired", "fetching"},
         NEW to \in {"loop", "stopped"}, Goes(s, to), ReturnGlobal
  PROVE  global' \in 0..FetchSlots /\ global' = Cardinality(GlobalHolders')
  <1>1. s \in GlobalHolders /\ GlobalHolders' = GlobalHolders \ {s}
    BY DEF SlotsInv, PcType, Goes, GlobalHolders
  <1>2. Cardinality(GlobalHolders') = Cardinality(GlobalHolders) - 1
    BY <1>1, HoldersFinite, FS_RemoveElement
  <1>3. IsFiniteSet(GlobalHolders') /\ Cardinality(GlobalHolders') \in Nat
    BY <1>1, HoldersFinite, FS_RemoveElement, FS_CardinalityType
  <1> QED
    BY <1>2, <1>3, SchedulerAssumption DEF SlotsInv, ReturnGlobal

\* The same for the slot of its host; the other hosts keep theirs.
LEMMA HostReturned ==
  ASSUME SlotsInv, NEW s \in Stream, pc[s] \in {"acquired", "fetching"},
         NEW to \in {"loop", "stopped"}, Goes(s, to), ReturnHost(s)
  PROVE  /\ perHost' \in [Host -> 0..HostSlots]
         /\ \A h \in Host : perHost'[h] = Cardinality(HostHolders(h)')
  <1>1. HostOf[s] \in Host
    BY SchedulerAssumption
  <1>2. s \in HostHolders(HostOf[s]) /\ HostHolders(HostOf[s])' = HostHolders(HostOf[s]) \ {s}
    BY DEF SlotsInv, PcType, Goes, HostHolders
  <1>3. \A h \in Host : h # HostOf[s] => HostHolders(h)' = HostHolders(h)
    BY DEF SlotsInv, PcType, Goes, HostHolders
  <1>4. Cardinality(HostHolders(HostOf[s])') = Cardinality(HostHolders(HostOf[s])) - 1
    BY <1>1, <1>2, HoldersFinite, FS_RemoveElement
  <1>5. Cardinality(HostHolders(HostOf[s])') \in Nat
    BY <1>1, <1>2, HoldersFinite, FS_RemoveElement, FS_CardinalityType
  <1>6. perHost[HostOf[s]] - 1 \in 0..HostSlots
    BY <1>1, <1>4, <1>5, SchedulerAssumption DEF SlotsInv
  <1> QED
    BY <1>1, <1>3, <1>4, <1>6 DEF SlotsInv, ReturnHost

\* Every step of a stream, and of its environment, keeps the counts.
LEMMA SlotsStep == SlotsInv /\ [Next]_vars => SlotsInv'
  <1> SUFFICES ASSUME SlotsInv, [Next]_vars PROVE SlotsInv'
    OBVIOUS
  <1>0. ASSUME UNCHANGED <<pc, slots>> PROVE SlotsInv'
    BY <1>0 DEF SlotsInv, PcType, GlobalHolders, HostHolders, slots
  <1>1. ASSUME NEW s \in Stream, RunStream(s) PROVE SlotsInv'
    <2>1. CASE AcquireGlobal(s)
      BY <2>1, GlobalTaken
    <2>2. CASE AcquireHost(s)
      BY <2>2, HostTaken
    <2>3. CASE SkipHost(s)
      <3>1. PcType' /\ \A h \in Host : HostHolders(h)' = HostHolders(h)
        BY <2>3 DEF SlotsInv, PcType, SkipHost, Goes, HostHolders
      <3>2. global' \in 0..FetchSlots /\ global' = Cardinality(GlobalHolders')
        BY <2>3, GlobalReturned DEF SkipHost
      <3> QED
        BY <2>3, <3>1, <3>2 DEF SlotsInv, SkipHost, NoHostSlot
    <2>4. ASSUME NEW to \in {"loop", "stopped"}, pc[s] \in {"acquired", "fetching"},
                 Goes(s, to), ReturnHost(s), ReturnGlobal
          PROVE  SlotsInv'
      <3>1. PcType'
        BY <2>4 DEF SlotsInv, PcType, Goes
      <3>2. global' \in 0..FetchSlots /\ global' = Cardinality(GlobalHolders')
        BY <2>4, GlobalReturned
      <3>3. /\ perHost' \in [Host -> 0..HostSlots]
            /\ \A h \in Host : perHost'[h] = Cardinality(HostHolders(h)')
        BY <2>4, HostReturned
      <3> QED
        BY <3>1, <3>2, <3>3 DEF SlotsInv
    <2>5. CASE StopAcquired(s) \/ FetchEnds(s)
      BY <2>4, <2>5 DEF StopAcquired, FetchEnds
    <2>6. ASSUME NEW to \in {"loop", "waiting", "global", "stopped"}, Goes(s, to), UNCHANGED slots,
                 pc[s] \in {"loop", "waiting", "global"}
          PROVE  SlotsInv'
      <3>1. PcType'
        BY <2>6 DEF SlotsInv, PcType, Goes
      <3> QED
        BY <2>6, <3>1, SameHolders
    <2>7. CASE WaitUntil(s) \/ StopWaiting(s) \/ Skip(s) \/ Queue(s) \/ SkipGlobal(s)
      BY <2>6, <2>7 DEF WaitUntil, StopWaiting, Skip, Queue, SkipGlobal, Due
    <2>8. CASE StartFetch(s)
      <3>1. PcType' /\ Goes(s, "fetching") /\ UNCHANGED slots /\ pc[s] = "acquired"
        BY <2>8 DEF SlotsInv, PcType, StartFetch, Goes
      <3> QED
        BY <3>1, SameHolders
    <2> QED
      BY <1>1, <2>1, <2>2, <2>3, <2>5, <2>7, <2>8 DEF RunStream
  <1> QED
    BY <1>0, <1>1 DEF Next, DiskChanges, Check, Cancel, Tick, Stall, Done, vars, environment

\* The semaphores hold as many slots as streams have taken, and never more than
\* runtime.fetch_concurrency and runtime.per_host_concurrency.
THEOREM SlotsBounded == Spec => [](global \in 0..FetchSlots /\ perHost \in [Host -> 0..HostSlots])
  <1>1. SlotsInv => global \in 0..FetchSlots /\ perHost \in [Host -> 0..HostSlots]
    BY DEF SlotsInv
  <1> QED
    BY <1>1, SlotsInit, SlotsStep, PTL DEF Spec

\* No way out of runStream leaks a slot or returns one twice.
THEOREM SlotsAreKept == Spec => []SlotsAreHeld
  <1>1. SlotsInv => SlotsAreHeld
    BY DEF SlotsInv, SlotsAreHeld, GlobalHolders, HostHolders
  <1> QED
    BY <1>1, SlotsInit, SlotsStep, PTL DEF Spec

\* floorMod turns Go's signed remainder into one that is never negative and stays
\* below the divisor, for clock readings before the epoch too.
LEMMA FloorModRange ==
  ASSUME NEW value \in Int, NEW divisor \in Nat \ {0}
  PROVE  FloorMod(value, divisor) \in 0..divisor - 1
  BY DEF FloorMod, Rem

\* What floorMod takes off leaves a multiple of the divisor.
LEMMA FloorModMultiple ==
  ASSUME NEW value \in Int, NEW divisor \in Nat \ {0}
  PROVE  \E k \in Int : value - FloorMod(value, divisor) = k * divisor
  <1>1. \A v \in Nat : /\ v \div divisor \in Nat /\ v % divisor \in 0..divisor - 1
                       /\ v = divisor * (v \div divisor) + (v % divisor)
    OBVIOUS
  <1>2. CASE value >= 0
    <2>1. FloorMod(value, divisor) = value % divisor
      BY <1>1, <1>2 DEF FloorMod, Rem
    <2>2. value - FloorMod(value, divisor) = (value \div divisor) * divisor
      BY <1>1, <1>2, <2>1
    <2>3. value \div divisor \in Int
      BY <1>1, <1>2
    <2> QED
      BY <2>2, <2>3, Zenon
  <1>3. CASE value < 0
    <2> DEFINE q == (-value) \div divisor
               m == (-value) % divisor
    <2>1. q \in Nat /\ m \in 0..divisor - 1 /\ -value = divisor * q + m
      BY <1>1, <1>3
    <2>2. Rem(value, divisor) = -m
      BY <1>3 DEF Rem
    <2>3. FloorMod(value, divisor) = IF m = 0 THEN 0 ELSE divisor - m
      BY <2>1, <2>2 DEF FloorMod
    <2> HIDE DEF q, m
    <2>4. CASE m = 0
      <3>1. value - FloorMod(value, divisor) = (-q) * divisor
        BY <2>1, <2>3, <2>4
      <3>2. -q \in Int
        BY <2>1
      <3> QED
        BY <3>1, <3>2, Zenon
    <2>5. CASE m # 0
      <3>1. value - FloorMod(value, divisor) = (-q - 1) * divisor
        BY <2>1, <2>3, <2>5
      <3>2. -q - 1 \in Int
        BY <2>1
      <3> QED
        BY <3>1, <3>2, Zenon
    <2> QED
      BY <2>4, <2>5
  <1> QED
    BY <1>2, <1>3

\* NextTick is a tick of the stream, phase plus a multiple of the interval, and the
\* first one after now: it lies at most one interval away.
THEOREM NextTickIsNext ==
  ASSUME NEW now \in Int, NEW interval \in Nat \ {0}, NEW phase \in Int
  PROVE  /\ now < NextTick(now, interval, phase)
         /\ NextTick(now, interval, phase) <= now + interval
         /\ \E k \in Int : NextTick(now, interval, phase) = phase + k * interval
  <1> DEFINE f == FloorMod(now - phase, interval)
  <1>1. f \in 0..interval - 1
    BY FloorModRange
  <1>2. PICK k \in Int : now - phase - f = k * interval
    <2>1. now - phase \in Int
      OBVIOUS
    <2> QED
      BY <2>1, FloorModMultiple, Zenon
  <1>3. NextTick(now, interval, phase) = now - f + interval
    BY <1>1 DEF NextTick
  <1> HIDE DEF f
  <1>4. NextTick(now, interval, phase) = phase + (k + 1) * interval
    BY <1>1, <1>2, <1>3
  <1>5. k + 1 \in Int
    OBVIOUS
  <1>6. \E n \in Int : NextTick(now, interval, phase) = phase + n * interval
    BY <1>4, <1>5, Zenon
  <1> QED
    BY <1>1, <1>3, <1>6
-----------------------------------------------------------------------------
(* How late a stream can get *)

\* The largest lag at which a tick is still worked on: a fetch ends, a wait for a slot
\* is given up.
Ends == {MaxFetch} \cup {Lateness(s) : s \in Stream}
LongestWait == CHOOSE m \in Ends : \A x \in Ends : x <= m

\* An effective lateness is a number of time units.
LEMMA LatenessNat == \A s \in Stream : Lateness(s) \in Nat
  <1> SUFFICES ASSUME NEW s \in Stream PROVE Lateness(s) \in Nat
    OBVIOUS
  <1>1. PICK i \in Nat : i = Interval[s]
    BY SchedulerAssumption
  <1>2. PICK c \in Nat : c = Configured[s]
    BY SchedulerAssumption
  <1>3. i \div 2 \in Nat
    OBVIOUS
  <1> QED
    BY <1>1, <1>2, <1>3 DEF Lateness, EffectiveLateness

\* A finite set of numbers has a largest one: the fewest numbers lie above it.
LEMMA FiniteMaximum ==
  ASSUME NEW S, IsFiniteSet(S), S \subseteq Int, S # {}
  PROVE  \E m \in S : \A x \in S : x <= m
  <1> DEFINE Up(x) == {y \in S : y >= x}
             F == {Up(x) : x \in S}
  <1>1. FiniteSubsetsOf(S) = SUBSET S
    BY FS_FiniteSubsetsOfFinite
  <1>2. IsWellFoundedOn(StrictSubsetOrdering(S), SUBSET S)
    BY <1>1, FS_StrictSubsetOrderingWellFounded
  <1>3. F \subseteq SUBSET S /\ F # {}
    OBVIOUS
  <1>4. PICK T \in F : \A U \in F : ~(<<U, T>> \in StrictSubsetOrdering(S))
    <2> HIDE DEF F
    <2> QED
      BY <1>2, <1>3, WFMin, Zenon
  <1>5. PICK m \in S : T = Up(m)
    OBVIOUS
  <1>6. ASSUME NEW x \in S, x > m PROVE FALSE
    <2>1. Up(x) \in F /\ Up(x) \subseteq S /\ T \subseteq S
      BY <1>5
    <2>2. Up(x) \subseteq T /\ Up(x) # T
      <3>1. (\A y \in S : y >= x => y >= m) /\ m >= m /\ ~(m >= x)
        BY <1>6
      <3> QED
        BY <1>5, <3>1
    <2>3. <<Up(x), T>> \in StrictSubsetOrdering(S)
      BY <2>1, <2>2 DEF StrictSubsetOrdering
    <2> QED
      BY <1>4, <2>1, <2>3
  <1> QED
    BY <1>6

\* Products of naturals are natural and grow with their factors.
LEMMA NatProduct ==
  ASSUME NEW a \in Nat, NEW b \in Nat, NEW c \in Nat, b <= c
  PROVE  a * b \in Nat /\ a * b <= a * c /\ a * (b + 1) = a * b + a
  OBVIOUS

\* There is a longest wait, since there are finitely many streams.
LEMMA LongestWaitIsLongest ==
  /\ LongestWait \in Nat /\ MaxFetch <= LongestWait
  /\ \A s \in Stream : Lateness(s) <= LongestWait
  /\ MaxLag = LongestWait + MaxStall * MaxStalls
  <1>1. IsFiniteSet(Ends)
    <2>1. IsFiniteSet({Lateness(s) : s \in Stream})
      <3> DEFINE f == [s \in Stream |-> Lateness(s)]
                 T == {Lateness(s) : s \in Stream}
      <3>1. f \in Surjection(Stream, T)
        BY DEF Surjection
      <3> QED
        BY <3>1, SchedulerAssumption, FS_Surjection
    <2> QED
      BY <2>1, FS_Singleton, FS_Union DEF Ends
  <1>2. Ends \subseteq Nat /\ MaxFetch \in Ends /\ \A s \in Stream : Lateness(s) \in Ends
    BY LatenessNat, SchedulerAssumption DEF Ends
  <1>3. PICK m \in Ends : \A x \in Ends : x <= m
    <2>1. Ends \subseteq Int /\ Ends # {}
      BY <1>2
    <2> QED
      BY <1>1, <2>1, FiniteMaximum
  <1>4. LongestWait \in Ends /\ \A x \in Ends : x <= LongestWait
    BY <1>3 DEF LongestWait
  <1>5. MaxLag = LongestWait + MaxStall * MaxStalls
    BY DEF MaxLag, LongestWait, Ends
  <1> QED
    BY <1>2, <1>4, <1>5

\* A stream that works on a tick works on one that is due, and only stalls take its lag
\* beyond the longest wait.
LagInv ==
    /\ lag \in [Stream -> Int]
    /\ stalls \in 0..MaxStalls
    /\ \A s \in Stream :
         /\ -Interval[s] <= lag[s] /\ lag[s] <= LongestWait + MaxStall * stalls
         /\ pc[s] \in {"global", "host", "acquired", "fetching"} => lag[s] >= 0

\* A stream that waits for its slots is late by no more than its lateness and the stalls
\* it met while it waited.
WaitInv ==
    /\ stalled \in [Stream -> Nat]
    /\ \A s \in Stream :
         /\ stalled[s] <= MaxStall * stalls
         /\ pc[s] \in {"global", "host"} => lag[s] <= Lateness(s) + stalled[s]

\* NextTick lies after the clock, at most an interval away.
LEMMA LagInit == Init => LagInv
  <1> SUFFICES ASSUME Init PROVE LagInv
    OBVIOUS
  <1>1. PICK now \in -1..1, phase \in [Stream -> 0..1] :
          lag = [s \in Stream |-> now - NextTick(now, Interval[s], phase[s])]
    BY DEF Init
  <1>2. ASSUME NEW s \in Stream
        PROVE  lag[s] \in Int /\ -Interval[s] <= lag[s] /\ lag[s] <= 0
    <2>1. PICK i \in Nat \ {0} : i = Interval[s]
      BY SchedulerAssumption
    <2>2. PICK p \in Int : p = phase[s]
      BY <1>1
    <2>3. /\ now < NextTick(now, i, p) /\ NextTick(now, i, p) <= now + i
          /\ \E k \in Int : NextTick(now, i, p) = p + k * i
      <3>1. now \in Int
        OBVIOUS
      <3> QED
        BY <3>1, NextTickIsNext, Zenon
    <2>4. NextTick(now, i, p) \in Int
      <3>1. PICK k \in Int : NextTick(now, i, p) = p + k * i
        BY <2>3, Zenon
      <3>2. k * i \in Int
        OBVIOUS
      <3> QED
        BY <3>1, <3>2
    <2>5. lag[s] = now - NextTick(now, i, p)
      BY <1>1, <2>1, <2>2
    <2> QED
      BY <2>1, <2>3, <2>4, <2>5
  <1>3. stalls = 0 /\ MaxStall * 0 = 0 /\ 0 \in 0..MaxStalls
    BY SchedulerAssumption DEF Init
  <1>4. lag \in [Stream -> Int]
    BY <1>1, <1>2
  <1> QED
    BY <1>2, <1>3, <1>4, LongestWaitIsLongest, SchedulerAssumption DEF LagInv, Init

\* A step of a stream keeps its lag, or moves on to the next tick from one that was due.
LEMMA LagOfStream ==
  ASSUME SlotsInv, LagInv, NEW s \in Stream, NEW to, Goes(s, to), UNCHANGED stalls,
         \/ UNCHANGED lag /\ (to \in {"global", "host", "acquired", "fetching"} => lag[s] >= 0)
         \/ NextInterval(s) /\ lag[s] >= 0 /\ to \in {"loop", "waiting", "stopped"}
  PROVE  LagInv'
  <1>1. \A x \in Stream : pc'[x] = IF x = s THEN to ELSE pc[x]
    BY DEF SlotsInv, PcType, Goes
  <1>2. CASE UNCHANGED lag /\ (to \in {"global", "host", "acquired", "fetching"} => lag[s] >= 0)
    BY <1>1, <1>2 DEF LagInv
  <1>3. CASE NextInterval(s) /\ lag[s] >= 0 /\ to \in {"loop", "waiting", "stopped"}
    <2>1. lag' = [lag EXCEPT ![s] = lag[s] - Interval[s]]
      BY <1>3 DEF NextInterval
    <2>2. Interval[s] \in Nat /\ lag[s] \in Int
      BY SchedulerAssumption DEF LagInv
    <2>3. lag' \in [Stream -> Int] /\ \A x \in Stream : lag'[x] = IF x = s THEN lag[s] - Interval[s] ELSE lag[x]
      BY <2>1, <2>2 DEF LagInv
    <2>4. PICK b \in Int : b = LongestWait + MaxStall * stalls
      BY LongestWaitIsLongest, SchedulerAssumption DEF LagInv
    <2>5. ASSUME NEW x \in Stream
          PROVE  /\ -Interval[x] <= lag'[x] /\ lag'[x] <= b
                 /\ pc'[x] \in {"global", "host", "acquired", "fetching"} => lag'[x] >= 0
      BY <1>1, <1>3, <2>2, <2>3, <2>4 DEF LagInv
    <2> QED
      BY <2>3, <2>4, <2>5 DEF LagInv
  <1> QED
    BY <1>2, <1>3

\* Time that passes makes no stream later than the longest wait and the stalls so far.
LEMMA LagOfTime ==
  ASSUME SlotsInv, LagInv, NEW d \in Nat, NEW n \in 0..MaxStalls, Later(d), UNCHANGED pc, stalls' = n,
         \A s \in Stream : pc[s] # "stopped" => lag[s] + d <= LongestWait + MaxStall * n,
         LongestWait + MaxStall * stalls <= LongestWait + MaxStall * n
  PROVE  LagInv'
  <1>1. PICK b \in Int : b = LongestWait + MaxStall * n
    BY LongestWaitIsLongest, SchedulerAssumption
  <1>2. PICK a \in Int : a = LongestWait + MaxStall * stalls
    BY LongestWaitIsLongest, SchedulerAssumption DEF LagInv
  <1>3. ASSUME NEW s \in Stream
        PROVE  /\ lag'[s] = IF pc[s] = "stopped" THEN lag[s] ELSE lag[s] + d
               /\ lag'[s] \in Int /\ -Interval[s] <= lag'[s] /\ lag'[s] <= b
               /\ pc'[s] \in {"global", "host", "acquired", "fetching"} => lag'[s] >= 0
    <2>1. lag'[s] = IF pc[s] = "stopped" THEN lag[s] ELSE lag[s] + d
      BY DEF Later
    <2>2. lag[s] \in Int /\ -Interval[s] <= lag[s] /\ lag[s] <= a /\ Interval[s] \in Int
      BY <1>2, SchedulerAssumption DEF LagInv
    <2> QED
      BY <1>1, <1>2, <2>1, <2>2 DEF LagInv
  <1>4. lag' \in [Stream -> Int]
    BY <1>3 DEF Later
  <1> QED
    BY <1>1, <1>3, <1>4 DEF LagInv

\* A tick is given up or fetched before the lag passes the bound; a stall raises it.
LEMMA LagStep == SlotsInv /\ LagInv /\ WaitInv /\ [Next]_vars => LagInv'
  <1> SUFFICES ASSUME SlotsInv, LagInv, WaitInv, [Next]_vars PROVE LagInv'
    OBVIOUS
  <1>0. ASSUME UNCHANGED <<pc, lag, stalls>> PROVE LagInv'
    BY <1>0 DEF LagInv
  <1>1. ASSUME NEW s \in Stream, RunStream(s) PROVE LagInv'
    <2>1. ASSUME UNCHANGED lag, UNCHANGED stalls, NEW to, Goes(s, to),
                 to \in {"global", "host", "acquired", "fetching"} => lag[s] >= 0
          PROVE  LagInv'
      BY <2>1, LagOfStream
    <2>2. ASSUME NextInterval(s), lag[s] >= 0, UNCHANGED stalls, Goes(s, "loop")
          PROVE  LagInv'
      BY <2>2, LagOfStream
    <2>3. CASE WaitUntil(s) \/ StopWaiting(s) \/ Queue(s) \/ StopAcquired(s)
      BY <2>1, <2>3 DEF WaitUntil, StopWaiting, Queue, Due, StopAcquired, environment
    <2>4. CASE AcquireGlobal(s) \/ AcquireHost(s) \/ StartFetch(s)
      <3>1. lag[s] >= 0
        BY <2>4 DEF LagInv, AcquireGlobal, AcquireHost, StartFetch
      <3> QED
        BY <2>1, <2>4, <3>1 DEF AcquireGlobal, AcquireHost, StartFetch, environment
    <2>5. CASE Skip(s) \/ SkipGlobal(s) \/ SkipHost(s) \/ FetchEnds(s)
      <3>1. lag[s] >= 0
        BY <2>5 DEF LagInv, Skip, Due, SkipGlobal, SkipHost, FetchEnds
      <3> QED
        BY <2>2, <2>5, <3>1 DEF Skip, SkipGlobal, SkipHost, FetchEnds, environment
    <2> QED
      BY <1>1, <2>3, <2>4, <2>5 DEF RunStream
  <1>2. CASE Tick
    <2>1. Later(1) /\ UNCHANGED pc /\ stalls' = stalls /\ stalls \in 0..MaxStalls
      BY <1>2 DEF Tick, environment, LagInv
    <2>2. PICK e \in Nat : e = MaxStall * stalls
      BY <2>1, SchedulerAssumption, NatProduct
    <2>3. ASSUME NEW s \in Stream, pc[s] # "stopped" PROVE lag[s] + 1 <= LongestWait + e
      <3>1. Waits(s) /\ lag[s] \in Int
        BY <1>2 DEF Tick, LagInv
      <3>2. stalled[s] \in Nat /\ stalled[s] <= e /\ Lateness(s) \in Nat
        BY <2>2, LatenessNat DEF WaitInv
      <3>3. lag[s] < 0 \/ lag[s] < Lateness(s) + stalled[s] \/ lag[s] < MaxFetch
        BY <2>3, <3>1, <3>2 DEF Waits, HasFired, Deadline
      <3> QED
        BY <2>2, <3>1, <3>2, <3>3, LongestWaitIsLongest, SchedulerAssumption
    <2>4. LongestWait + MaxStall * stalls <= LongestWait + MaxStall * stalls
      BY <2>2, LongestWaitIsLongest
    <2> QED
      BY <2>1, <2>2, <2>3, <2>4, LagOfTime
  <1>3. CASE Stall
    <2>1. PICK d \in 1..MaxStall : Later(d)
      BY <1>3 DEF Stall
    <2>2. UNCHANGED pc /\ stalls' = stalls + 1 /\ stalls + 1 \in 0..MaxStalls /\ stalls \in Nat /\ d \in Nat
      BY <1>3, <2>1, SchedulerAssumption DEF Stall, LagInv
    <2>3. MaxStall * (stalls + 1) = MaxStall * stalls + MaxStall
      BY <2>2, SchedulerAssumption, NatProduct
    <2>4. PICK e \in Nat : e = MaxStall * stalls
      BY <2>2, SchedulerAssumption, NatProduct
    <2>5. \A s \in Stream : lag[s] + d <= LongestWait + MaxStall * (stalls + 1)
      <3>1. \A s \in Stream : lag[s] \in Int /\ lag[s] <= LongestWait + e
        BY <2>4 DEF LagInv
      <3> QED
        BY <2>1, <2>3, <2>4, <3>1, LongestWaitIsLongest, SchedulerAssumption
    <2>6. LongestWait + MaxStall * stalls <= LongestWait + MaxStall * (stalls + 1)
      BY <2>3, <2>4, LongestWaitIsLongest, SchedulerAssumption
    <2> QED
      BY <2>1, <2>2, <2>5, <2>6, LagOfTime
  <1> QED
    BY <1>0, <1>1, <1>2, <1>3 DEF Next, DiskChanges, Check, Cancel, Done, vars, environment

\* Nobody waits for a slot, and nothing has stalled.
LEMMA WaitInit == Init => WaitInv
  <1> SUFFICES ASSUME Init PROVE WaitInv
    OBVIOUS
  <1>1. MaxStall * stalls = 0
    BY SchedulerAssumption DEF Init
  <1> QED
    BY <1>1 DEF Init, WaitInv

\* A stream begins to wait for a slot, or goes on to wait for the next, before its
\* deadline; when it no longer waits its stalls are forgotten.
LEMMA WaitOfStream ==
  ASSUME SlotsInv, LagInv, WaitInv, NEW s \in Stream, NEW to, Goes(s, to), UNCHANGED stalls,
         UNCHANGED stalled \/ (EndsWait(s) /\ to \notin {"global", "host"}),
         to \in {"global", "host"} => lag[s] <= Lateness(s),
         UNCHANGED lag \/ NextInterval(s)
  PROVE  WaitInv'
  <1>1. stalled' \in [Stream -> Nat]
    BY DEF WaitInv, EndsWait
  <1>2. ASSUME NEW x \in Stream
        PROVE  /\ stalled'[x] <= MaxStall * stalls
               /\ pc'[x] \in {"global", "host"} => lag'[x] <= Lateness(x) + stalled'[x]
    <2>1. MaxStall * stalls \in Nat
      BY SchedulerAssumption, NatProduct DEF LagInv
    <2>2. stalled'[x] = stalled[x] \/ (stalled'[x] = 0 /\ x = s /\ to \notin {"global", "host"})
      BY DEF EndsWait, WaitInv
    <2>3. pc'[x] = IF x = s THEN to ELSE pc[x]
      BY DEF SlotsInv, PcType, Goes
    <2>4. lag'[x] \in Int /\ lag'[x] <= lag[x]
      BY SchedulerAssumption DEF LagInv, NextInterval
    <2>5. lag[x] \in Int /\ stalled[x] \in Nat /\ stalled'[x] \in Nat /\ Lateness(x) \in Nat
      BY <1>1, LatenessNat DEF LagInv, WaitInv
    <2> QED
      BY <2>1, <2>2, <2>3, <2>4, <2>5 DEF WaitInv
  <1> QED
    BY <1>1, <1>2 DEF WaitInv

\* Time passes for a stream in a semaphore's queue until its timer has fired; a stall
\* counts for every stream that waits while it lasts.
LEMMA WaitStep == SlotsInv /\ LagInv /\ WaitInv /\ [Next]_vars => WaitInv'
  <1> SUFFICES ASSUME SlotsInv, LagInv, WaitInv, [Next]_vars PROVE WaitInv'
    OBVIOUS
  <1>0. ASSUME UNCHANGED <<pc, lag, stalls, stalled>> PROVE WaitInv'
    BY <1>0 DEF WaitInv
  <1>1. ASSUME NEW s \in Stream, RunStream(s) PROVE WaitInv'
    <2>1. CASE WaitUntil(s) \/ StopWaiting(s) \/ StartFetch(s) \/ StopAcquired(s)
      BY <2>1, WaitOfStream DEF WaitUntil, StopWaiting, StartFetch, StopAcquired, environment
    <2>2. CASE Queue(s) \/ AcquireGlobal(s)
      <3>1. \E to : /\ Goes(s, to) /\ UNCHANGED <<stalls, stalled, lag>>
                    /\ lag[s] \in Int /\ lag[s] < Lateness(s)
        BY <2>2 DEF Queue, AcquireGlobal, Deadline, environment, LagInv
      <3> QED
        BY <3>1, WaitOfStream, LatenessNat
    <2>3. CASE Skip(s) \/ SkipGlobal(s) \/ AcquireHost(s) \/ SkipHost(s) \/ FetchEnds(s)
      BY <2>3, WaitOfStream DEF Skip, SkipGlobal, AcquireHost, SkipHost, FetchEnds, environment
    <2> QED
      BY <1>1, <2>1, <2>2, <2>3 DEF RunStream
  <1>2. CASE Tick
    <2>1. UNCHANGED <<pc, stalls, stalled>>
      BY <1>2 DEF Tick, environment
    <2>2. ASSUME NEW s \in Stream, pc[s] \in {"global", "host"}
          PROVE  lag'[s] <= Lateness(s) + stalled[s]
      <3>1. lag'[s] = lag[s] + 1 /\ lag[s] \in Int
        BY <1>2, <2>2 DEF Tick, Later, LagInv
      <3>2. Waits(s)
        BY <1>2 DEF Tick
      <3>3. ~(lag[s] >= Lateness(s) + stalled[s])
        BY <2>2, <3>2 DEF Waits, HasFired, Deadline
      <3> QED
        BY <3>1, <3>3, LatenessNat DEF WaitInv
    <2> QED
      BY <2>1, <2>2 DEF WaitInv
  <1>3. CASE Stall
    <2>1. PICK d \in 1..MaxStall :
            /\ Later(d)
            /\ stalled' = [s \in Stream |-> IF Waiting(s) THEN stalled[s] + d ELSE stalled[s]]
      BY <1>3 DEF Stall
    <2>2. UNCHANGED pc /\ stalls' = stalls + 1 /\ stalls \in Nat /\ d \in Nat /\ MaxStall \in Nat
      BY <1>3, <2>1, SchedulerAssumption DEF Stall, LagInv
    <2>3. PICK e \in Nat : e = MaxStall * stalls
      BY <2>2, NatProduct
    <2>4. MaxStall * stalls' = e + MaxStall
      BY <2>2, <2>3, NatProduct
    <2>5. ASSUME NEW s \in Stream
          PROVE  /\ stalled'[s] \in Nat /\ stalled'[s] <= e + MaxStall
                 /\ pc'[s] \in {"global", "host"} => lag'[s] <= Lateness(s) + stalled'[s]
      <3>1. stalled[s] \in Nat /\ stalled[s] <= e /\ lag[s] \in Int /\ Lateness(s) \in Nat
        BY <2>3, LatenessNat DEF WaitInv, LagInv
      <3>2. stalled'[s] = IF Waiting(s) THEN stalled[s] + d ELSE stalled[s]
        BY <2>1
      <3>3. CASE Waiting(s)
        <4>1. lag'[s] = lag[s] + d /\ lag[s] <= Lateness(s) + stalled[s]
          BY <2>1, <3>3 DEF Later, Waiting, WaitInv
        <4> QED
          BY <2>1, <2>2, <3>1, <3>2, <3>3, <4>1
      <3>4. CASE ~Waiting(s)
        BY <2>2, <3>1, <3>2, <3>4 DEF Waiting
      <3> QED
        BY <3>3, <3>4
    <2>6. stalled' \in [Stream -> Nat]
      BY <2>1, <2>5
    <2> QED
      BY <2>4, <2>5, <2>6 DEF WaitInv
  <1> QED
    BY <1>0, <1>1, <1>2, <1>3 DEF Next, DiskChanges, Check, Cancel, Done, vars, environment

\* The types of the environment's variables.
EnvironmentType ==
    cancelled \in BOOLEAN /\ paused \in BOOLEAN /\ disk \in {"low", "between", "high"}

\* The monitor and the shutdown keep them.
LEMMA EnvironmentStep == EnvironmentType /\ [Next]_vars => EnvironmentType'
  <1> SUFFICES ASSUME EnvironmentType, [Next]_vars PROVE EnvironmentType'
    OBVIOUS
  <1>0. ASSUME UNCHANGED <<cancelled, paused, disk>> PROVE EnvironmentType'
    BY <1>0 DEF EnvironmentType
  <1>1. ASSUME NEW s \in Stream, RunStream(s) PROVE EnvironmentType'
    BY <1>0, <1>1 DEF RunStream, WaitUntil, StopWaiting, Skip, Queue, AcquireGlobal, SkipGlobal,
      AcquireHost, SkipHost, StartFetch, StopAcquired, FetchEnds, environment
  <1>2. CASE DiskChanges
    BY <1>2 DEF DiskChanges, EnvironmentType
  <1>3. CASE Check
    <2>1. UNCHANGED <<cancelled, disk>>
      BY <1>3 DEF Check
    <2>2. paused' \in BOOLEAN
      BY <1>3, Zenon DEF Check, EnvironmentType
    <2> QED
      BY <2>1, <2>2 DEF EnvironmentType
  <1>4. CASE Cancel
    BY <1>4 DEF Cancel, EnvironmentType
  <1>5. CASE Tick \/ Stall \/ Done
    BY <1>0, <1>5 DEF Tick, Stall, Done, vars, environment
  <1> QED
    BY <1>0, <1>1, <1>2, <1>3, <1>4, <1>5 DEF Next, vars, environment

\* Every variable keeps its type; among it, a stream is never later than the longest
\* wait for a slot or fetch and the stalls there were.
THEOREM SpecTypeOK == Spec => []TypeOK
  <1>1. Init => EnvironmentType
    BY DEF Init, EnvironmentType
  <1>2. SlotsInv /\ LagInv /\ WaitInv /\ EnvironmentType => TypeOK
    <2> SUFFICES ASSUME SlotsInv, LagInv, WaitInv, EnvironmentType PROVE TypeOK
      OBVIOUS
    <2>1. /\ MaxStall * stalls \in Nat /\ MaxStall * stalls <= MaxStall * MaxStalls
          /\ MaxStall * MaxStalls \in Nat
      BY SchedulerAssumption, NatProduct DEF LagInv
    <2>2. ASSUME NEW s \in Stream PROVE lag[s] \in -Interval[s]..MaxLag
      <3>1. lag[s] \in Int /\ -Interval[s] <= lag[s] /\ lag[s] <= LongestWait + MaxStall * stalls
        BY DEF LagInv
      <3> QED
        BY <2>1, <3>1, LongestWaitIsLongest, SchedulerAssumption
    <2>3. stalled \in [Stream -> 0..MaxStall * MaxStalls]
      BY <2>1 DEF WaitInv
    <2> QED
      BY <2>2, <2>3 DEF TypeOK, SlotsInv, PcType, LagInv, EnvironmentType
  <1> QED
    BY <1>1, <1>2, SlotsInit, SlotsStep, LagInit, LagStep, WaitInit, WaitStep, EnvironmentStep, PTL DEF Spec

\* Both semaphores together are waited for no longer than the one lateness of the stream
\* and the stalls it met in their queues: runStream's deadline, up to the choice that
\* acquireUntil's select has when a timer fires late.
THEOREM SlotsComeInTime == Spec => SlotsInTime
  <1> DEFINE A == \A s \in Stream :
                    pc[s] = "host" /\ pc'[s] = "acquired" => lag[s] <= Lateness(s) + stalled[s]
  <1>1. WaitInv => A
    BY DEF WaitInv
  <1>2. WaitInv => [A]_vars
    BY <1>1
  <1> QED
    BY <1>2, SlotsInit, SlotsStep, LagInit, LagStep, WaitInit, WaitStep, PTL DEF Spec, SlotsInTime
=============================================================================
