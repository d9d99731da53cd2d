--------------------------- MODULE TimeoutsProofs ---------------------------
(***************************************************************************)
(* The timers are sound for any set of them, any periods and any size of   *)
(* the clock: the list of timeouts keeps the order of time across the wrap *)
(* of the clock, no handler runs early, and every timer that was started   *)
(* is armed exactly once.                                                  *)
(***************************************************************************)
EXTENDS Timeouts, FiniteSetTheorems, WellFoundedInduction, TLAPS

\* A period and the time the thread may fall behind make up less than half of the
\* clock: 2^31 milliseconds, where the longest period is one minute.
Half == Clock \div 2
TimerConstants ==
  /\ Clock \in Nat \ {0} /\ MaxLate \in Nat
  /\ Interval \in [Timers -> Nat]
  /\ \A h \in Timers : Interval[h] + MaxLate < Half
  /\ Tcp \notin Cyclic /\ "none" \notin Cyclic

Times == 0 .. (Clock - 1)
Entry == [h : Timers, time : Times]

\* Left and the age of a reading as functions of the clock n.
Far(n, t) ==
  LET d == ((t - n) + Clock) % Clock IN IF d < Half THEN d ELSE d - Clock
Age(n, t) == ((n - t) + Clock) % Clock

\* The furthest a timeout is ahead.
Ahead == Half - 1 - MaxLate

\* What the constants say of the clock: lateness and periods fit in half of it.
LEMMA ClockFacts ==
  ASSUME TimerConstants
  PROVE  /\ Clock \in Nat /\ MaxLate \in Nat /\ Half \in Nat /\ 2 * Half <= Clock
         /\ Ahead \in Nat /\ MaxLate + Ahead = Half - 1
         /\ \A h \in Timers : Interval[h] \in 0 .. Ahead
         /\ Tcp \in Timers
<1>1. Clock \in Nat /\ MaxLate \in Nat /\ Half \in Nat /\ 2 * Half <= Clock
  BY DEF TimerConstants, Half
<1>2. \A h \in Timers : Interval[h] \in Nat /\ Interval[h] + MaxLate < Half
  BY Zenon DEF TimerConstants
<1>3. Tcp \in Timers
  BY Zenon DEF Timers
<1>4. Interval[Tcp] \in Nat /\ Interval[Tcp] + MaxLate < Half
  BY Zenon, <1>2, <1>3
<1> HIDE DEF Half
<1>5. Ahead \in Nat /\ MaxLate + Ahead = Half - 1
  BY <1>1, <1>4 DEF Ahead
<1> QED BY <1>1, <1>2, <1>3, <1>5 DEF Ahead

\* The remainder needs no division within two turns of the clock.
Wrapped(x) == x % Clock

\* Wrapping a sum of two times needs no division.
LEMMA ModValue ==
  ASSUME TimerConstants
  PROVE  \A x \in 0 .. (2 * Clock - 1) : Wrapped(x) = IF x < Clock THEN x ELSE x - Clock
<1> SUFFICES ASSUME NEW x \in 0 .. (2 * Clock - 1)
             PROVE  x % Clock = IF x < Clock THEN x ELSE x - Clock
  BY Zenon DEF Wrapped
<1>0. Clock \in Nat \ {0}
  BY Zenon DEF TimerConstants
<1>1. CASE x < Clock
  BY <1>0, <1>1
<1>2. CASE ~(x < Clock)
  <2>1. x % Clock = x - Clock
    BY <1>0, <1>2
  <2> QED BY Zenon, <1>2, <2>1
<1> QED BY Zenon, <1>1, <1>2

\* What Far, Age and TIME_LESS_THAN are, case by case.
LEMMA FarValue ==
  ASSUME TimerConstants, NEW n \in Times, NEW t \in Times
  PROVE  /\ Far(n, t) = IF t >= n THEN IF t - n < Half THEN t - n ELSE t - n - Clock
                        ELSE IF t - n + Clock < Half THEN t - n + Clock ELSE t - n
         /\ Far(n, t) \in Int
         /\ Age(n, t) = IF n >= t THEN n - t ELSE n - t + Clock
         /\ Age(n, t) \in Times
<1>0. Clock \in Nat \ {0} /\ Half \in Nat
  BY Zenon, ClockFacts DEF TimerConstants
<1>1. ((t - n) + Clock) \in 0 .. (2 * Clock - 1) /\ ((n - t) + Clock) \in 0 .. (2 * Clock - 1)
  BY <1>0 DEF Times
<1> DEFINE d == Wrapped((t - n) + Clock)
           a == Wrapped((n - t) + Clock)
<1>3. Far(n, t) = IF d < Half THEN d ELSE d - Clock
  BY Zenon DEF Far, Wrapped
<1>4. Age(n, t) = a
  BY Zenon DEF Age, Wrapped
<1>5. /\ d = IF (t - n) + Clock < Clock THEN (t - n) + Clock ELSE (t - n) + Clock - Clock
      /\ a = IF (n - t) + Clock < Clock THEN (n - t) + Clock ELSE (n - t) + Clock - Clock
  BY <1>0, <1>1, ModValue DEF Times
<1> HIDE DEF d, a, Half
<1> QED BY <1>0, <1>3, <1>4, <1>5 DEF Times

\* Two times that lie within half a clock are compared as they should be.
LEMMA LessValue ==
  ASSUME TimerConstants, NEW n \in Times, NEW s \in Times, NEW t \in Times,
         Far(n, s) - Far(n, t) < Half, Far(n, t) - Far(n, s) < Half
  PROVE  TIME_LESS_THAN(s, t) <=> Far(n, s) < Far(n, t)
<1>0. Clock \in Nat \ {0} /\ Half \in Nat /\ 2 * Half <= Clock
  BY Zenon, ClockFacts DEF TimerConstants
<1> DEFINE d == Wrapped((s - t) + Clock)
<1>1. ((s - t) + Clock) \in 0 .. (2 * Clock - 1)
  BY <1>0 DEF Times
<1>2. d = IF (s - t) + Clock < Clock THEN (s - t) + Clock ELSE (s - t) + Clock - Clock
  BY <1>0, <1>1, ModValue DEF Times
<1>3. TIME_LESS_THAN(s, t) <=> d >= Half
  BY Zenon DEF TIME_LESS_THAN, Half, Wrapped
<1>4. /\ Far(n, s) = IF s >= n THEN IF s - n < Half THEN s - n ELSE s - n - Clock
                     ELSE IF s - n + Clock < Half THEN s - n + Clock ELSE s - n
      /\ Far(n, t) = IF t >= n THEN IF t - n < Half THEN t - n ELSE t - n - Clock
                     ELSE IF t - n + Clock < Half THEN t - n + Clock ELSE t - n
  BY Zenon, FarValue
<1> HIDE DEF d, Half
<1>5. d >= Half <=> Far(n, s) < Far(n, t)
  BY <1>0, <1>2, <1>4 DEF Times
<1> QED BY Zenon, <1>3, <1>5

\* The same for the reading sys_check_timeouts took some time ago.
LEMMA SeenValue ==
  ASSUME TimerConstants, NEW n \in Times, NEW s \in Times, NEW t \in Times,
         Age(n, s) + Far(n, t) < Half, -Half < Age(n, s) + Far(n, t)
  PROVE  TIME_LESS_THAN(s, t) <=> Age(n, s) + Far(n, t) > 0
<1>0. Clock \in Nat \ {0} /\ Half \in Nat /\ 2 * Half <= Clock
  BY Zenon, ClockFacts DEF TimerConstants
<1> DEFINE d == Wrapped((s - t) + Clock)
<1>1. ((s - t) + Clock) \in 0 .. (2 * Clock - 1)
  BY <1>0 DEF Times
<1>2. d = IF (s - t) + Clock < Clock THEN (s - t) + Clock ELSE (s - t) + Clock - Clock
  BY <1>0, <1>1, ModValue DEF Times
<1>3. TIME_LESS_THAN(s, t) <=> d >= Half
  BY Zenon DEF TIME_LESS_THAN, Half, Wrapped
<1>4. /\ Age(n, s) = IF n >= s THEN n - s ELSE n - s + Clock
      /\ Far(n, t) = IF t >= n THEN IF t - n < Half THEN t - n ELSE t - n - Clock
                     ELSE IF t - n + Clock < Half THEN t - n + Clock ELSE t - n
  BY Zenon, FarValue
<1> HIDE DEF d, Half
<1>5. d >= Half <=> Age(n, s) + Far(n, t) > 0
  BY <1>0, <1>2, <1>4 DEF Times
<1> QED BY Zenon, <1>3, <1>5

\* A tick brings every timeout nearer and makes every reading older.
LEMMA TickValue ==
  ASSUME TimerConstants, NEW n \in Times, NEW t \in Times
  PROVE  LET m == (n + 1) % Clock
         IN  /\ m \in Times
             /\ -MaxLate < Far(n, t) => Far(m, t) = Far(n, t) - 1
             /\ Age(n, t) + 1 < Clock => Age(m, t) = Age(n, t) + 1
<1> DEFINE m == Wrapped(n + 1)
<1>0. /\ Clock \in Nat \ {0} /\ Half \in Nat /\ 2 * Half <= Clock /\ MaxLate \in Nat
      /\ MaxLate < Half
  BY ClockFacts DEF TimerConstants
<1>1. m = IF n + 1 < Clock THEN n + 1 ELSE n + 1 - Clock
  <2>1. n + 1 \in 0 .. (2 * Clock - 1)
    BY <1>0 DEF Times
  <2> QED BY <1>0, <2>1, ModValue DEF Times
<1> HIDE DEF m
<1>2. m \in Times
  BY <1>0, <1>1 DEF Times
<1>3. /\ Far(n, t) = IF t >= n THEN IF t - n < Half THEN t - n ELSE t - n - Clock
                     ELSE IF t - n + Clock < Half THEN t - n + Clock ELSE t - n
      /\ Age(n, t) = IF n >= t THEN n - t ELSE n - t + Clock
  BY Zenon, FarValue
<1>4. /\ Far(m, t) = IF t >= m THEN IF t - m < Half THEN t - m ELSE t - m - Clock
                     ELSE IF t - m + Clock < Half THEN t - m + Clock ELSE t - m
      /\ Age(m, t) = IF m >= t THEN m - t ELSE m - t + Clock
  BY Zenon, <1>2, FarValue
<1> HIDE DEF Half
<1>5. -MaxLate < Far(n, t) => Far(m, t) = Far(n, t) - 1
  BY <1>0, <1>1, <1>3, <1>4 DEF Times
<1>6. Age(n, t) + 1 < Clock => Age(m, t) = Age(n, t) + 1
  BY <1>0, <1>1, <1>3, <1>4 DEF Times
<1> QED BY Zenon, <1>2, <1>5, <1>6 DEF m, Wrapped

\* A time that lies k ahead of one that has just passed, or of now.
LEMMA AddValue ==
  ASSUME TimerConstants, NEW n \in Times, NEW t \in Times, NEW k \in 0 .. Ahead,
         -MaxLate <= Far(n, t), Far(n, t) <= 0
  PROVE  /\ (t + k) % Clock \in Times
         /\ Far(n, (t + k) % Clock) = Far(n, t) + k
<1> DEFINE u == Wrapped(t + k)
<1>0. /\ Clock \in Nat \ {0} /\ Half \in Nat /\ 2 * Half <= Clock /\ MaxLate \in Nat
      /\ Ahead \in Nat /\ MaxLate + Ahead = Half - 1
  BY Zenon, ClockFacts DEF TimerConstants
<1>1. u = IF t + k < Clock THEN t + k ELSE t + k - Clock
  <2>1. t + k \in 0 .. (2 * Clock - 1)
    BY <1>0 DEF Times
  <2> QED BY <1>0, <2>1, ModValue DEF Times
<1> HIDE DEF u, Ahead
<1>2. u \in Times
  BY <1>0, <1>1 DEF Times
<1>3. Far(n, t) = IF t >= n THEN IF t - n < Half THEN t - n ELSE t - n - Clock
                  ELSE IF t - n + Clock < Half THEN t - n + Clock ELSE t - n
  BY Zenon, FarValue
<1>4. Far(n, u) = IF u >= n THEN IF u - n < Half THEN u - n ELSE u - n - Clock
                  ELSE IF u - n + Clock < Half THEN u - n + Clock ELSE u - n
  BY Zenon, <1>2, FarValue
<1> HIDE DEF Half
<1>5. Far(n, u) = Far(n, t) + k
  BY <1>0, <1>1, <1>3, <1>4 DEF Times
<1> QED BY Zenon, <1>2, <1>5 DEF u, Wrapped

Linked(list, k, e) ==
  [i \in 1 .. (Len(list) + 1) |-> IF i < k THEN list[i] ELSE IF i = k THEN e ELSE list[i - 1]]

\* Where sys_timeout_abs links the new timeout: before the first later one.
LEMMA InsertPlace ==
  ASSUME NEW list, Len(list) \in Nat, DOMAIN list = 1 .. Len(list), NEW t, NEW h
  PROVE  \E k \in 1 .. (Len(list) + 1) :
           /\ k \in DOMAIN list => TIME_LESS_THAN(t, list[k].time)
           /\ \A j \in 1 .. (k - 1) : ~TIME_LESS_THAN(t, list[j].time)
           /\ sys_timeout_abs(list, t, h) = Linked(list, k, [h |-> h, time |-> t])
<1> DEFINE P(k) == /\ k \in DOMAIN list => TIME_LESS_THAN(t, list[k].time)
                   /\ \A j \in 1 .. (k - 1) : ~TIME_LESS_THAN(t, list[j].time)
           S == {k \in 1 .. (Len(list) + 1) :
                   k \in DOMAIN list => TIME_LESS_THAN(t, list[k].time)}
<1>1. S \subseteq Nat /\ S # {}
  <2>1. Len(list) + 1 \in S
    OBVIOUS
  <2> QED BY <2>1
<1>2. PICK k \in S : \A j \in S : ~(<<j, k>> \in OpToRel(<, Nat))
  BY <1>1, NatLessThanWellFounded, WFMin, Zenon
<1>3. \A j \in S : ~(j < k)
  BY Zenon, <1>1, <1>2 DEF OpToRel
<1>4. k \in 1 .. (Len(list) + 1) /\ P(k)
  <2>1. ASSUME NEW j \in 1 .. (k - 1) PROVE ~TIME_LESS_THAN(t, list[j].time)
    <3>1. k \in 1 .. (Len(list) + 1) /\ j \in 1 .. (Len(list) + 1) /\ j \in DOMAIN list /\ j < k
      OBVIOUS
    <3> QED BY Zenon, <1>3, <3>1
  <2> QED BY Zenon, <2>1
<1> HIDE DEF P
<1> DEFINE at == CHOOSE x \in 1 .. (Len(list) + 1) : P(x)
<1>5. at \in 1 .. (Len(list) + 1) /\ P(at)
  BY Zenon, <1>4
<1>6. sys_timeout_abs(list, t, h) = Linked(list, at, [h |-> h, time |-> t])
  BY Zenon DEF sys_timeout_abs, P, Linked
<1> HIDE DEF at
<1> QED BY Zenon, <1>5, <1>6 DEF P

InRange(n, list) == \A i \in DOMAIN list : Far(n, list[i].time) \in -MaxLate .. Ahead
Sorted(n, list) ==
  \A i, j \in DOMAIN list : i < j => Far(n, list[i].time) <= Far(n, list[j].time)
Distinct(list) == \A i, j \in DOMAIN list : list[i].h = list[j].h => i = j
Lists(list, h) == \E i \in DOMAIN list : list[i].h = h

\* Linking a timeout that is not due yet keeps the list sorted and its handlers
\* distinct; every timeout of the new list is the new one or an old one.
LEMMA Insert ==
  ASSUME TimerConstants, NEW n \in Times, NEW list \in Seq(Entry), InRange(n, list), Sorted(n, list),
         NEW h \in Timers, NEW t \in Times, Far(n, t) \in 0 .. Ahead
  PROVE  LET new == sys_timeout_abs(list, t, h)
         IN  /\ new \in Seq(Entry) /\ InRange(n, new) /\ Sorted(n, new)
             /\ Distinct(list) /\ ~Lists(list, h) => Distinct(new)
             /\ \A g : Lists(new, g) <=> Lists(list, g) \/ g = h
             /\ \A i \in DOMAIN new : new[i].time = t \/ \E j \in DOMAIN list : new[i] = list[j]
<1> DEFINE new == sys_timeout_abs(list, t, h)
           e == [h |-> h, time |-> t]
           len == Len(list)
<1>0. /\ len \in Nat /\ DOMAIN list = 1 .. len /\ \A i \in 1 .. len : list[i] \in Entry
      /\ e \in Entry /\ e.h = h /\ e.time = t
  <2>1. len \in Nat /\ DOMAIN list = 1 .. len /\ \A i \in 1 .. len : list[i] \in Entry
    OBVIOUS
  <2>2. e \in Entry /\ e.h = h /\ e.time = t
    BY Zenon DEF Entry
  <2> QED BY Zenon, <2>1, <2>2
<1>a. Len(list) \in Nat /\ DOMAIN list = 1 .. Len(list)
  OBVIOUS
<1>b. \E k \in 1 .. (Len(list) + 1) :
        /\ k \in DOMAIN list => TIME_LESS_THAN(t, list[k].time)
        /\ \A j \in 1 .. (k - 1) : ~TIME_LESS_THAN(t, list[j].time)
        /\ sys_timeout_abs(list, t, h) = Linked(list, k, [h |-> h, time |-> t])
  BY SMTT(40), <1>a, InsertPlace
<1>1. PICK k \in 1 .. (len + 1) :
        /\ k \in DOMAIN list => TIME_LESS_THAN(t, list[k].time)
        /\ \A j \in 1 .. (k - 1) : ~TIME_LESS_THAN(t, list[j].time)
        /\ new = [i \in 1 .. (len + 1) |->
                    IF i < k THEN list[i] ELSE IF i = k THEN e ELSE list[i - 1]]
  BY Zenon, <1>b DEF Linked
<1> HIDE DEF new, e, len
<1>2. DOMAIN new = 1 .. (len + 1) /\ len + 1 \in Nat
  BY <1>0, <1>1
<1>3. \A i \in 1 .. (len + 1) :
        /\ i < k => i \in 1 .. len /\ new[i] = list[i]
        /\ i = k => new[i] = e
        /\ i > k => i - 1 \in 1 .. len /\ new[i] = list[i - 1]
  BY <1>0, <1>1
<1>4. new \in Seq(Entry)
  <2>1. \A i \in 1 .. (len + 1) : new[i] \in Entry
    BY <1>0, <1>1, <1>3
  <2>2. new \in [1 .. (len + 1) -> Entry]
    BY Zenon, <1>1, <2>1
  <2> QED BY <1>2, <2>2
<1>5. \A i \in DOMAIN new : new[i] = e \/ \E j \in DOMAIN list : new[i] = list[j]
  <2> TAKE i \in DOMAIN new
  <2>1. CASE i < k
    BY Zenon, <1>0, <1>2, <1>3, <2>1
  <2>2. CASE i = k
    BY Zenon, <1>2, <1>3, <2>2
  <2>3. CASE i > k
    BY Zenon, <1>0, <1>2, <1>3, <2>3
  <2> QED BY <1>0, <1>1, <1>2, <2>1, <2>2, <2>3
<1>6. InRange(n, new)
  <2>1. 0 .. Ahead \subseteq -MaxLate .. Ahead
    BY SMTT(40), ClockFacts
  <2>2. \A i \in DOMAIN list : Far(n, list[i].time) \in -MaxLate .. Ahead
    BY Zenon DEF InRange
  <2> QED BY Zenon, <1>0, <1>5, <2>1, <2>2 DEF InRange
<1>7. Sorted(n, new)
  <2>1. /\ \A i \in 1 .. len : Far(n, list[i].time) \in -MaxLate .. Ahead /\ list[i].time \in Times
        /\ \A i, j \in 1 .. len : i < j => Far(n, list[i].time) <= Far(n, list[j].time)
    BY SMTT(40), <1>0 DEF InRange, Sorted, Entry
  <2>2. ASSUME NEW i \in 1 .. len
        PROVE  TIME_LESS_THAN(t, list[i].time) <=> Far(n, t) < Far(n, list[i].time)
    <3>1. MaxLate \in Nat /\ Ahead \in Nat /\ Half \in Nat /\ MaxLate + Ahead = Half - 1
      BY Zenon, ClockFacts
    <3>2. list[i].time \in Times /\ Far(n, list[i].time) \in -MaxLate .. Ahead
      BY Zenon, <2>1
    <3> HIDE DEF Ahead, Half
    <3>3. Far(n, t) - Far(n, list[i].time) < Half /\ Far(n, list[i].time) - Far(n, t) < Half
      BY <3>1, <3>2
    <3> QED BY Zenon, <3>2, <3>3, LessValue
  <2> DEFINE F(x) == Far(n, x.time)
  <2>3. F(e) \in Int /\ F(e) = Far(n, t) /\ \A i \in 1 .. len : F(list[i]) \in Int
    BY <1>0, <2>1, ClockFacts
  <2>4. /\ \A j \in 1 .. (k - 1) : F(list[j]) <= F(e)
        /\ k \in 1 .. len => F(e) < F(list[k])
    BY <1>0, <1>1, <2>2, <2>3
  <2>5. \A i, j \in 1 .. len : i < j => F(list[i]) <= F(list[j])
    BY Zenon, <2>1
  <2> SUFFICES ASSUME NEW i \in 1 .. (len + 1), NEW j \in 1 .. (len + 1), i < j
               PROVE  F(new[i]) <= F(new[j])
    BY Zenon, <1>2 DEF Sorted
  <2> HIDE DEF F
  <2>6. CASE j < k
    BY <1>0, <1>1, <1>3, <2>5, <2>6
  <2>7. CASE j = k
    <3>1. i \in 1 .. (k - 1) /\ i < k
      BY <1>0, <1>1, <2>7
    <3> QED BY Zenon, <1>3, <2>4, <2>7, <3>1
  <2>8. CASE j > k /\ i < k
    <3>1. i \in 1 .. len /\ j - 1 \in 1 .. len /\ i < j - 1
      BY <1>0, <1>1, <2>8
    <3> QED BY Zenon, <1>3, <2>5, <2>8, <3>1
  <2>9. CASE j > k /\ i = k
    <3>1. k \in 1 .. len /\ j - 1 \in 1 .. len /\ (k < j - 1 \/ k = j - 1)
      BY <1>0, <1>1, <2>9
    <3>2. F(list[k]) <= F(list[j - 1])
      BY <2>3, <2>5, <3>1
    <3>3. F(new[i]) = F(e) /\ F(new[j]) = F(list[j - 1])
      BY Zenon, <1>3, <2>9
    <3>4. F(e) < F(list[k]) /\ F(list[k]) \in Int /\ F(list[j - 1]) \in Int
      BY Zenon, <2>3, <2>4, <3>1
    <3> QED BY <2>3, <3>2, <3>3, <3>4
  <2>10. CASE i > k
    <3>1. i - 1 \in 1 .. len /\ j - 1 \in 1 .. len /\ i - 1 < j - 1
      BY <1>0, <1>1, <2>10
    <3>2. new[i] = list[i - 1] /\ new[j] = list[j - 1]
      BY <1>0, <1>1, <1>3, <2>10
    <3> QED BY Zenon, <2>5, <3>1, <3>2
  <2> QED BY <1>1, <1>0, <2>6, <2>7, <2>8, <2>9, <2>10
<1>8. \A g : Lists(new, g) <=> Lists(list, g) \/ g = h
  <2>1. ASSUME NEW g, Lists(list, g) PROVE Lists(new, g)
    <3>1. PICK i \in 1 .. len : list[i].h = g
      BY Zenon, <1>0, <2>1 DEF Lists
    <3>2. CASE i < k
      <4>1. i \in 1 .. (len + 1)
        BY <1>0
      <4> QED BY Zenon, <1>2, <1>3, <3>1, <3>2, <4>1 DEF Lists
    <3>3. CASE ~(i < k)
      <4>1. i + 1 \in 1 .. (len + 1) /\ i + 1 > k /\ (i + 1) - 1 = i
        BY <1>0, <1>1, <3>3
      <4> QED BY SMTT(40), <1>2, <1>3, <3>1, <4>1 DEF Lists
    <3> QED BY Zenon, <3>2, <3>3
  <2>2. Lists(new, h)
    BY Zenon, <1>0, <1>1, <1>2, <1>3 DEF Lists
  <2>3. ASSUME NEW g, Lists(new, g) PROVE Lists(list, g) \/ g = h
    BY Zenon, <1>0, <1>5, <2>3 DEF Lists
  <2> QED BY Zenon, <2>1, <2>2, <2>3
<1>9. ASSUME Distinct(list), ~Lists(list, h) PROVE Distinct(new)
  <2>1. /\ \A i, j \in 1 .. len : list[i].h = list[j].h => i = j
        /\ \A i \in 1 .. len : list[i].h # h
    BY Zenon, <1>0, <1>9 DEF Distinct, Lists
  <2>2. ASSUME NEW i \in 1 .. (len + 1), NEW j \in 1 .. (len + 1), new[i].h = new[j].h, i < j
        PROVE  FALSE
    <3>1. CASE j < k
      BY <1>0, <1>1, <1>3, <2>1, <2>2, <3>1
    <3>2. CASE j = k \/ (i = k /\ j > k)
      BY <1>0, <1>1, <1>3, <2>1, <2>2, <3>2
    <3>3. CASE j > k /\ i < k
      <4>1. i \in 1 .. len /\ j - 1 \in 1 .. len /\ i # j - 1
        BY <1>0, <1>1, <3>3
      <4> QED BY <1>3, <2>1, <2>2, <3>3, <4>1
    <3>4. CASE i > k
      <4>1. i - 1 \in 1 .. len /\ j - 1 \in 1 .. len /\ i - 1 # j - 1
        BY <1>0, <1>1, <2>2, <3>4
      <4>2. new[i] = list[i - 1] /\ new[j] = list[j - 1]
        BY <1>0, <1>1, <1>3, <2>2, <3>4
      <4> QED BY Zenon, <2>1, <2>2, <4>1, <4>2
    <3> QED BY <1>0, <1>1, <2>2, <3>1, <3>2, <3>3, <3>4
  <2>3. \A i, j \in 1 .. (len + 1) : i = j \/ i < j \/ j < i
    BY <1>0
  <2> QED BY Zenon, <1>2, <2>2, <2>3 DEF Distinct
<1>10. \A i \in DOMAIN new : new[i].time = t \/ \E j \in DOMAIN list : new[i] = list[j]
  BY Zenon, <1>0, <1>5
<1> QED BY Zenon, <1>4, <1>6, <1>7, <1>8, <1>9, <1>10 DEF new

\* Taking the head leaves a list that is as good, without the head's handler.
LEMMA TakeHead ==
  ASSUME NEW n, NEW list \in Seq(Entry), list # <<>>, InRange(n, list), Sorted(n, list), Distinct(list)
  PROVE  /\ Head(list) \in Entry /\ Far(n, Head(list).time) \in -MaxLate .. Ahead
         /\ Tail(list) \in Seq(Entry) /\ InRange(n, Tail(list)) /\ Sorted(n, Tail(list))
         /\ Distinct(Tail(list)) /\ ~Lists(Tail(list), Head(list).h)
         /\ \A g : Lists(list, g) <=> Lists(Tail(list), g) \/ g = Head(list).h
         /\ \A i \in DOMAIN Tail(list) : \E j \in DOMAIN list : Tail(list)[i] = list[j]
<1> DEFINE len == Len(list)
           rest == Tail(list)
<1>1. /\ len \in Nat /\ len > 0 /\ DOMAIN list = 1 .. len /\ \A i \in 1 .. len : list[i] \in Entry
      /\ Head(list) = list[1] /\ rest \in Seq(Entry) /\ DOMAIN rest = 1 .. (len - 1)
      /\ \A i \in 1 .. (len - 1) : rest[i] = list[i + 1]
  OBVIOUS
<1>2. \A i \in 1 .. (len - 1) : i + 1 \in 1 .. len
  BY <1>1
<1> HIDE DEF len, rest
<1>3. Head(list) \in Entry /\ Far(n, Head(list).time) \in -MaxLate .. Ahead
  BY <1>1 DEF InRange
<1>4. InRange(n, rest)
  BY Zenon, <1>1, <1>2 DEF InRange
<1>5. Sorted(n, rest)
  <2>1. \A i, j \in 1 .. (len - 1) : i < j => i + 1 < j + 1
    BY <1>1
  <2>2. \A i, j \in 1 .. len : i < j => Far(n, list[i].time) <= Far(n, list[j].time)
    BY SMTT(40), <1>1 DEF Sorted
  <2> QED BY Zenon, <1>1, <1>2, <2>1, <2>2 DEF Sorted
<1>6. Distinct(rest)
  <2>1. ASSUME NEW i \in 1 .. (len - 1), NEW j \in 1 .. (len - 1), rest[i].h = rest[j].h PROVE i = j
    <3>1. i + 1 \in DOMAIN list /\ j + 1 \in DOMAIN list /\ list[i + 1].h = list[j + 1].h
      BY Zenon, <1>1, <1>2, <2>1
    <3>2. i + 1 = j + 1
      BY Zenon, <3>1 DEF Distinct
    <3> QED BY <1>1, <3>2
  <2> QED BY SMTT(40), <1>1, <2>1 DEF Distinct
<1>7. ~Lists(rest, Head(list).h)
  <2>1. \A i \in 1 .. (len - 1) : i + 1 # 1
    BY <1>1
  <2> QED BY <1>1, <1>2, <2>1 DEF Lists, Distinct
<1>8. ASSUME NEW g PROVE Lists(list, g) <=> Lists(rest, g) \/ g = Head(list).h
  <2>1. ASSUME Lists(list, g) PROVE Lists(rest, g) \/ g = Head(list).h
    <3>1. PICK i \in 1 .. len : list[i].h = g
      BY Zenon, <1>1, <2>1 DEF Lists
    <3>2. CASE i = 1
      BY Zenon, <1>1, <3>1, <3>2
    <3>3. CASE i # 1
      <4>1. i - 1 \in 1 .. (len - 1) /\ (i - 1) + 1 = i
        BY <1>1, <3>3
      <4> QED BY Zenon, <1>1, <3>1, <4>1 DEF Lists
    <3> QED BY Zenon, <3>2, <3>3
  <2>2. ASSUME Lists(rest, g) \/ g = Head(list).h PROVE Lists(list, g)
    <3>1. CASE Lists(rest, g)
      <4>1. PICK i \in 1 .. (len - 1) : rest[i].h = g
        BY Zenon, <1>1, <3>1 DEF Lists
      <4>2. i + 1 \in DOMAIN list /\ list[i + 1].h = g
        BY Zenon, <1>1, <1>2, <4>1
      <4> QED BY Zenon, <4>2 DEF Lists
    <3>2. CASE g = Head(list).h
      <4>1. 1 \in DOMAIN list
        BY <1>1
      <4> QED BY Zenon, <1>1, <3>2, <4>1 DEF Lists
    <3> QED BY Zenon, <2>2, <3>1, <3>2
  <2> QED BY Zenon, <2>1, <2>2
<1>9. \A i \in DOMAIN rest : \E j \in DOMAIN list : rest[i] = list[j]
  BY SMTT(40), <1>1, <1>2
<1> QED BY Zenon, <1>1, <1>3, <1>4, <1>5, <1>6, <1>7, <1>8, <1>9 DEF rest

\* Everything that is armed lies within half a clock of now, and of the reading
\* sys_check_timeouts goes by; a timeout that runs was due at that reading.
TimersTyped ==
  /\ now \in Times /\ starting \subseteq Cyclic /\ timeouts \in Seq(Entry)
  /\ current \in Entry \cup {Nothing} /\ seen \in Times \cup {Asleep}
  /\ pcbs \in BOOLEAN /\ tcpip_tcp_timer_active \in BOOLEAN
  /\ starting # {} => seen = Asleep

TimersNear ==
  /\ InRange(now, timeouts) /\ Sorted(now, timeouts)
  /\ seen # Asleep =>
       \A i \in DOMAIN timeouts : Age(now, seen) + Far(now, timeouts[i].time) < Half
  /\ current # Nothing =>
       /\ seen # Asleep
       /\ Far(now, current.time) >= -MaxLate
       /\ Age(now, seen) + Far(now, current.time) <= 0

\* Who is armed: every timer in one place.
TimersPlaced ==
  /\ Distinct(timeouts)
  /\ current # Nothing => ~Lists(timeouts, current.h)
  /\ \A h \in Cyclic : h \in starting <=> ~(Lists(timeouts, h) \/ current.h = h)
  /\ tcpip_tcp_timer_active = (Lists(timeouts, Tcp) \/ current.h = Tcp)
  /\ pcbs => tcpip_tcp_timer_active

TimersInv == TimersTyped /\ TimersNear /\ TimersPlaced

\* Arming a timer that is not in the list.
LEMMA Arm ==
  ASSUME TimerConstants, TimersTyped, TimersNear, Distinct(timeouts),
         NEW h \in Timers, NEW t \in Times, Far(now, t) \in 0 .. Ahead, ~Lists(timeouts, h),
         seen = Asleep \/ Age(now, seen) <= MaxLate,
         timeouts' = sys_timeout_abs(timeouts, t, h), now' = now, seen' = seen
  PROVE  /\ timeouts' \in Seq(Entry) /\ InRange(now', timeouts') /\ Sorted(now', timeouts')
         /\ Distinct(timeouts')
         /\ \A g : Lists(timeouts', g) <=> Lists(timeouts, g) \/ g = h
         /\ seen' # Asleep =>
              \A i \in DOMAIN timeouts' : Age(now', seen') + Far(now', timeouts'[i].time) < Half
<1>1. /\ timeouts' \in Seq(Entry) /\ InRange(now, timeouts') /\ Sorted(now, timeouts')
      /\ Distinct(timeouts')
      /\ \A g : Lists(timeouts', g) <=> Lists(timeouts, g) \/ g = h
      /\ \A i \in DOMAIN timeouts' : timeouts'[i].time = t \/ \E j \in DOMAIN timeouts : timeouts'[i] = timeouts[j]
  BY Insert DEF TimersTyped, TimersNear
<1>2. ASSUME seen # Asleep, NEW i \in DOMAIN timeouts'
      PROVE  Age(now, seen) + Far(now, timeouts'[i].time) < Half
  <2>1. CASE timeouts'[i].time = t
    <3>1. Age(now, seen) \in Nat /\ Age(now, seen) <= MaxLate
      <4>1. now \in Times /\ seen \in Times
        BY Zenon, <1>2 DEF TimersTyped
      <4>2. Age(now, seen) \in Times
        BY Zenon, <4>1, FarValue
      <4> QED BY <1>2, <4>2, ClockFacts DEF Times
    <3>2. MaxLate \in Nat /\ Ahead \in Nat /\ Half \in Nat /\ MaxLate + Ahead = Half - 1
      BY Zenon, ClockFacts
    <3> HIDE DEF Ahead, Half
    <3> QED BY <2>1, <3>1, <3>2
  <2>2. CASE \E j \in DOMAIN timeouts : timeouts'[i] = timeouts[j]
    BY Zenon, <1>2, <2>2 DEF TimersNear
  <2> QED BY Zenon, <1>1, <2>1, <2>2
<1> QED BY SMTT(40), <1>1, <1>2

\* Before sys_timeouts_init nothing is listed.
LEMMA TimersInit ==
  ASSUME TimerConstants, TimeInit
  PROVE  TimersInv
<1>1. timeouts = <<>> /\ timeouts \in Seq(Entry) /\ DOMAIN timeouts = {}
  BY DEF TimeInit
<1>2. TimersTyped
  BY Zenon, <1>1 DEF TimersTyped, TimeInit, Times
<1>3. current = Nothing /\ seen = Asleep
  BY Zenon DEF TimeInit
<1>4. TimersNear
  BY Zenon, <1>1, <1>3 DEF TimersNear, InRange, Sorted
<1>5. \A h : ~Lists(timeouts, h)
  BY Zenon, <1>1 DEF Lists
<1>6. current.h \notin Timers
  BY Zenon, <1>3 DEF Nothing, Timers, Tcp, TimerConstants
<1>7. TimersPlaced
  BY Zenon, <1>1, <1>3, <1>5, <1>6 DEF TimersPlaced, Distinct, TimeInit, Timers
<1> QED BY Zenon, <1>2, <1>4, <1>7 DEF TimersInv

\* The running handler and Nothing.
LEMMA CurrentFacts ==
  ASSUME TimerConstants, TimersTyped
  PROVE  /\ current.h \in Timers => current # Nothing /\ current \in Entry
         /\ current # Nothing => current.h \in Timers
         /\ Nothing.h \notin Timers
<1>1. Nothing.h \notin Timers
  BY Zenon DEF Nothing, Timers, Tcp, TimerConstants
<1> QED BY Zenon, <1>1 DEF TimersTyped, Entry

\* A period from now.
LEMMA NowPlus ==
  ASSUME TimerConstants, now \in Times, NEW h \in Timers
  PROVE  LET t == (now + Interval[h]) % Clock IN t \in Times /\ Far(now, t) \in 0 .. Ahead
<1>1. Interval[h] \in 0 .. Ahead /\ MaxLate \in Nat /\ Ahead \in Nat /\ Half \in Nat /\ Half > 0 /\ Clock \in Nat
  <2>1. Interval[h] \in 0 .. Ahead /\ MaxLate \in Nat /\ Ahead \in Nat /\ Half \in Nat /\ Clock \in Nat
        /\ MaxLate + Ahead = Half - 1
    BY Zenon, ClockFacts
  <2> HIDE DEF Ahead, Half
  <2> QED BY <2>1
<1>2. Far(now, now) = 0
  <2>1. Far(now, now) = IF now >= now THEN IF now - now < Half THEN now - now ELSE now - now - Clock
                        ELSE IF now - now + Clock < Half THEN now - now + Clock ELSE now - now
    BY Zenon, FarValue
  <2> HIDE DEF Half
  <2> QED BY <1>1, <2>1 DEF Times
<1>3. -MaxLate <= Far(now, now) /\ Far(now, now) <= 0
  BY <1>1, <1>2
<1>4. /\ (now + Interval[h]) % Clock \in Times
      /\ Far(now, (now + Interval[h]) % Clock) = Far(now, now) + Interval[h]
  BY Zenon, <1>1, <1>3, AddValue
<1> HIDE DEF Ahead
<1>5. Far(now, now) + Interval[h] \in 0 .. Ahead
  BY <1>1, <1>2
<1> QED BY Zenon, <1>4, <1>5

\* sys_timeouts_init starts a timer; tcp_timer_needed starts the one of TCP.
LEMMA InitLoopInv ==
  ASSUME TimerConstants, TimersInv, sys_timeouts_init
  PROVE  TimersInv'
<1> USE DEF TimersInv
<1>1. PICK c \in starting :
        /\ starting' = starting \ {c}
        /\ timeouts' = sys_timeout_abs(timeouts, (now + Interval[c]) % Clock, c)
        /\ UNCHANGED <<now, current, seen, pcbs, tcpip_tcp_timer_active>>
  BY Zenon DEF sys_timeouts_init, sys_timeout
<1> DEFINE t == (now + Interval[c]) % Clock
<1>2. c \in Cyclic /\ c \in Timers /\ seen = Asleep /\ now \in Times /\ c # Tcp
  BY Zenon DEF TimersTyped, Timers, TimerConstants
<1>3. ~Lists(timeouts, c) /\ current.h # c
  BY Zenon, <1>2 DEF TimersPlaced
<1>4. t \in Times /\ Far(now, t) \in 0 .. Ahead
  BY SMTT(40), <1>2, NowPlus
<1> HIDE DEF t
<1>5. /\ timeouts' \in Seq(Entry) /\ InRange(now', timeouts') /\ Sorted(now', timeouts')
      /\ Distinct(timeouts')
      /\ \A g : Lists(timeouts', g) <=> Lists(timeouts, g) \/ g = c
  BY SMTT(40), <1>1, <1>2, <1>3, <1>4, Arm DEF TimersPlaced, t
<1>6. current = Nothing
  BY Zenon, <1>2 DEF TimersNear
<1>7. TimersTyped'
  BY SMTT(40), <1>1, <1>2, <1>5 DEF TimersTyped
<1>8. TimersNear'
  BY SMTT(40), <1>1, <1>2, <1>5, <1>6 DEF TimersNear
<1>9. TimersPlaced'
  BY Zenon, <1>1, <1>2, <1>3, <1>5, <1>6 DEF TimersPlaced
<1> QED BY Zenon, <1>7, <1>8, <1>9

\* tcp_timer_needed arms the TCP timer only when it is not armed.
LEMMA NeededInv ==
  ASSUME TimerConstants, TimersInv, tcp_timer_needed
  PROVE  TimersInv'
<1> USE DEF TimersInv
<1>1. /\ starting = {} /\ seen = Asleep /\ pcbs' = TRUE /\ tcpip_tcp_timer_active' = TRUE
      /\ UNCHANGED <<now, starting, current, seen>>
  BY SMTT(40) DEF tcp_timer_needed, Started
<1>2. CASE tcpip_tcp_timer_active
  <2>1. timeouts' = timeouts
    BY Zenon, <1>2 DEF tcp_timer_needed
  <2> QED BY Zenon, <1>1, <1>2, <2>1 DEF TimersTyped, TimersNear, TimersPlaced
<1>3. CASE ~tcpip_tcp_timer_active
  <2> DEFINE c == Tcp
             t == (now + Interval[c]) % Clock
  <2>1. timeouts' = sys_timeout_abs(timeouts, t, c)
    BY Zenon, <1>3 DEF tcp_timer_needed, sys_timeout
  <2>2. c \in Timers /\ c \notin Cyclic /\ now \in Times
    BY Zenon DEF TimersTyped, Timers, TimerConstants
  <2> HIDE DEF c
  <2>3. ~Lists(timeouts, c) /\ current.h # c
    BY Zenon, <1>3 DEF TimersPlaced, c
  <2>4. t \in Times /\ Far(now, t) \in 0 .. Ahead
    BY Zenon, <2>2, NowPlus
  <2> HIDE DEF t
  <2>5. /\ timeouts' \in Seq(Entry) /\ InRange(now', timeouts') /\ Sorted(now', timeouts')
        /\ Distinct(timeouts')
        /\ \A g : Lists(timeouts', g) <=> Lists(timeouts, g) \/ g = c
    BY Zenon, <1>1, <2>1, <2>2, <2>3, <2>4, Arm DEF TimersPlaced
  <2>6. current = Nothing
    BY Zenon, <1>1 DEF TimersNear
  <2>7. TimersTyped'
    BY SMTT(40), <1>1, <2>5 DEF TimersTyped
  <2>8. TimersNear'
    BY Zenon, <1>1, <2>5, <2>6 DEF TimersNear
  <2>9. TimersPlaced'
    BY Zenon, <1>1, <2>2, <2>3, <2>5, <2>6 DEF TimersPlaced, c
  <2> QED BY Zenon, <2>7, <2>8, <2>9
<1> QED BY Zenon, <1>2, <1>3

\* The call of sys_check_timeouts, the turns of its loop and its end.
LEMMA CheckInv ==
  ASSUME TimerConstants, TimersInv,
         sys_check_timeouts \/ Return \/ LastPcbGone
  PROVE  TimersInv'
<1> USE DEF TimersInv
<1>1. CASE sys_check_timeouts
  <2>1. /\ starting = {} /\ seen = Asleep /\ seen' = now
        /\ UNCHANGED <<now, starting, timeouts, current, pcbs, tcpip_tcp_timer_active>>
    BY Zenon, <1>1 DEF sys_check_timeouts, Started
  <2>2. now \in Times /\ current = Nothing
    BY Zenon, <2>1 DEF TimersTyped, TimersNear
  <2>3. Age(now, now) = 0
    BY <2>2, FarValue, ClockFacts DEF Times
  <2>4. ASSUME NEW i \in DOMAIN timeouts PROVE 0 + Far(now, timeouts[i].time) < Half
    <3>1. MaxLate \in Nat /\ Ahead \in Nat /\ Half \in Nat /\ MaxLate + Ahead = Half - 1
      BY Zenon, ClockFacts
    <3>2. Far(now, timeouts[i].time) \in -MaxLate .. Ahead
      BY Zenon DEF TimersNear, InRange
    <3> HIDE DEF Ahead, Half
    <3> QED BY <3>1, <3>2
  <2>5. TimersTyped'
    BY SMTT(40), <2>1 DEF TimersTyped
  <2>6. TimersNear'
    BY Zenon, <2>1, <2>2, <2>3, <2>4 DEF TimersNear
  <2>7. TimersPlaced'
    BY SMTT(40), <2>1 DEF TimersPlaced
  <2> QED BY Zenon, <2>5, <2>6, <2>7
<1>2. CASE Return
  <2>1. /\ current = Nothing /\ seen' = Asleep
        /\ UNCHANGED <<now, starting, timeouts, current, pcbs, tcpip_tcp_timer_active>>
    BY SMTT(40), <1>2 DEF Return
  <2> QED BY SMTT(40), <2>1 DEF TimersTyped, TimersNear, TimersPlaced
<1>3. CASE LastPcbGone
  <2>1. pcbs' = FALSE /\ UNCHANGED <<now, starting, timeouts, current, seen, tcpip_tcp_timer_active>>
    BY Zenon, <1>3 DEF LastPcbGone
  <2> QED BY Zenon, <2>1 DEF TimersTyped, TimersNear, TimersPlaced
<1> QED BY Zenon, <1>1, <1>2, <1>3

\* A timeout that is taken was due: the comparison with the reading is right.
LEMMA RunHeadInv ==
  ASSUME TimerConstants, TimersInv, RunHead
  PROVE  TimersInv'
<1> USE DEF TimersInv
<1>1. /\ seen # Asleep /\ current = Nothing /\ timeouts # <<>>
      /\ ~TIME_LESS_THAN(seen, Head(timeouts).time)
      /\ current' = Head(timeouts) /\ timeouts' = Tail(timeouts)
      /\ UNCHANGED <<now, starting, seen, pcbs, tcpip_tcp_timer_active>>
  BY Zenon DEF RunHead
<1>2. /\ now \in Times /\ seen \in Times /\ timeouts \in Seq(Entry) /\ InRange(now, timeouts)
      /\ Sorted(now, timeouts) /\ Distinct(timeouts)
  BY Zenon, <1>1 DEF TimersTyped, TimersNear, TimersPlaced
<1> DEFINE e == Head(timeouts)
<1>3. /\ e \in Entry /\ Far(now, e.time) \in -MaxLate .. Ahead
      /\ timeouts' \in Seq(Entry) /\ InRange(now, timeouts') /\ Sorted(now, timeouts')
      /\ Distinct(timeouts') /\ ~Lists(timeouts', e.h)
      /\ \A g : Lists(timeouts, g) <=> Lists(timeouts', g) \/ g = e.h
      /\ \A i \in DOMAIN timeouts' : \E j \in DOMAIN timeouts : timeouts'[i] = timeouts[j]
  BY SMTT(40), <1>1, <1>2, TakeHead
<1>4. 1 \in DOMAIN timeouts /\ e = timeouts[1]
  BY <1>1, <1>2
<1> HIDE DEF e
<1>5. Age(now, seen) + Far(now, e.time) <= 0
  <2>1. /\ MaxLate \in Nat /\ Ahead \in Nat /\ Half \in Nat /\ MaxLate + Ahead = Half - 1
        /\ Clock \in Nat
    BY Zenon, ClockFacts
  <2>2. Age(now, seen) \in Times /\ e.time \in Times
    BY Zenon, <1>2, <1>3, FarValue DEF Entry
  <2>3. Age(now, seen) + Far(now, e.time) < Half
    BY Zenon, <1>1, <1>4 DEF TimersNear
  <2> HIDE DEF Ahead, Half
  <2>4. -Half < Age(now, seen) + Far(now, e.time)
    BY <1>3, <2>1, <2>2 DEF Times
  <2>5. ~(Age(now, seen) + Far(now, e.time) > 0)
    BY SMTT(40), <1>1, <1>2, <2>2, <2>3, <2>4, SeenValue DEF e
  <2> QED BY <1>3, <2>1, <2>2, <2>5 DEF Times
<1>6. current' = e /\ e # Nothing
  <2>1. e.h \in Timers
    BY Zenon, <1>3 DEF Entry
  <2> QED BY Zenon, <1>1, <2>1, CurrentFacts DEF e
<1>7. TimersTyped'
  BY SMTT(40), <1>1, <1>3, <1>6 DEF TimersTyped
<1>8. TimersNear'
  <2>1. Far(now, e.time) >= -MaxLate
    BY <1>3, ClockFacts
  <2>2. \A i \in DOMAIN timeouts' : Age(now, seen) + Far(now, timeouts'[i].time) < Half
    BY SMTT(40), <1>1, <1>3 DEF TimersNear
  <2> QED BY SMTT(40), <1>1, <1>3, <1>5, <1>6, <2>1, <2>2 DEF TimersNear
<1>9. TimersPlaced'
  <2>1. \A g \in Timers : Lists(timeouts, g) \/ current.h = g <=> Lists(timeouts', g) \/ current'.h = g
    BY Zenon, <1>1, <1>3, <1>6, CurrentFacts
  <2>2. Cyclic \subseteq Timers /\ Tcp \in Timers
    BY Zenon DEF Timers
  <2> QED BY SMTT(40), <1>1, <1>3, <1>6, <2>1, <2>2 DEF TimersPlaced
<1> QED BY Zenon, <1>7, <1>8, <1>9

\* A tick moves now and the reading apart and every timeout nearer, alike.
LEMMA TickInv ==
  ASSUME TimerConstants, TimersInv, Tick
  PROVE  TimersInv'
<1> USE DEF TimersInv
<1>0. /\ MaxLate \in Nat /\ Ahead \in Nat /\ Half \in Nat /\ MaxLate + Ahead = Half - 1
      /\ Clock \in Nat /\ 2 * Half <= Clock
  BY SMTT(40), ClockFacts
<1>1. /\ now' = (now + 1) % Clock
      /\ UNCHANGED <<starting, timeouts, current, seen, pcbs, tcpip_tcp_timer_active>>
      /\ \A i \in DOMAIN timeouts : Far(now, timeouts[i].time) > -MaxLate
      /\ current # Nothing => Far(now, current.time) > -MaxLate
  BY Zenon DEF Tick, Left, Far, Half
<1>2. now \in Times /\ timeouts \in Seq(Entry)
  BY Zenon DEF TimersTyped
<1>3. ASSUME NEW t \in Times, Far(now, t) > -MaxLate
      PROVE  Far(now, t) \in Int /\ now' \in Times /\ Far(now', t) = Far(now, t) - 1
  <2>1. Far(now, t) \in Int
    BY Zenon, <1>2, FarValue
  <2> QED BY SMTT(40), <1>0, <1>1, <1>2, <1>3, <2>1, TickValue
<1>4. now' \in Times
  BY Zenon, <1>1, <1>2, TickValue
<1>5. \A i \in DOMAIN timeouts : timeouts[i] \in Entry /\ timeouts[i].time \in Times
  <2>1. \A i \in DOMAIN timeouts : timeouts[i] \in Entry
    BY <1>2
  <2> QED BY Zenon, <2>1 DEF Entry
<1>6. TimersTyped'
  BY SMTT(40), <1>1, <1>4 DEF TimersTyped
<1>7. \A i \in DOMAIN timeouts :
         /\ Far(now, timeouts[i].time) \in Int
         /\ Far(now', timeouts[i].time) = Far(now, timeouts[i].time) - 1
  BY Zenon, <1>1, <1>3, <1>5
<1> HIDE DEF Half, Ahead
<1>8. InRange(now', timeouts')
  <2>1. ASSUME NEW i \in DOMAIN timeouts PROVE Far(now', timeouts[i].time) \in -MaxLate .. Ahead
    <3>1. Far(now, timeouts[i].time) \in -MaxLate .. Ahead /\ Far(now, timeouts[i].time) > -MaxLate
      BY Zenon, <1>1 DEF TimersNear, InRange
    <3>2. Far(now', timeouts[i].time) = Far(now, timeouts[i].time) - 1
      BY SMTT(40), <1>7
    <3> QED BY SMTT(40), <1>0, <3>1, <3>2
  <2> QED BY Zenon, <1>1, <2>1 DEF InRange
<1>9. Sorted(now', timeouts')
  <2>1. ASSUME NEW i \in DOMAIN timeouts, NEW j \in DOMAIN timeouts, i < j
        PROVE  Far(now', timeouts[i].time) <= Far(now', timeouts[j].time)
    <3>1. Far(now, timeouts[i].time) <= Far(now, timeouts[j].time)
      BY Zenon, <2>1 DEF TimersNear, Sorted
    <3> QED BY SMTT(40), <1>7, <3>1
  <2> QED BY Zenon, <1>1, <2>1 DEF Sorted
<1>10. ASSUME seen # Asleep, NEW t \in Times, Far(now, t) > -MaxLate, Age(now, seen) + Far(now, t) < Half
       PROVE  Age(now', seen) + Far(now', t) = Age(now, seen) + Far(now, t)
  <2>1. seen \in Times
    BY Zenon, <1>10 DEF TimersTyped
  <2>2. Age(now, seen) \in Nat
    BY <1>2, <2>1, FarValue DEF Times
  <2>3. Far(now, t) \in Int /\ Far(now', t) = Far(now, t) - 1
    BY Zenon, <1>3, <1>10
  <2>4. Age(now, seen) + 1 < Clock
    BY <1>0, <1>10, <2>2, <2>3
  <2>5. Age(now', seen) = Age(now, seen) + 1
    BY SMTT(40), <1>1, <1>2, <2>1, <2>4, TickValue
  <2> QED BY <2>2, <2>3, <2>5
<1>11. ASSUME seen # Asleep, NEW i \in DOMAIN timeouts
       PROVE  Age(now', seen) + Far(now', timeouts[i].time) < Half
  <2>1. Age(now, seen) + Far(now, timeouts[i].time) < Half
    BY Zenon, <1>11 DEF TimersNear
  <2> QED BY SMTT(40), <1>1, <1>5, <1>10, <1>11, <2>1
<1>12. ASSUME current # Nothing
       PROVE  /\ seen # Asleep /\ Far(now', current.time) >= -MaxLate
              /\ Age(now', seen) + Far(now', current.time) <= 0
  <2>1. current.time \in Times /\ seen # Asleep /\ Far(now, current.time) > -MaxLate
    BY Zenon, <1>1, <1>12 DEF TimersTyped, TimersNear, Entry
  <2>2. Age(now, seen) + Far(now, current.time) <= 0
    BY Zenon, <1>12 DEF TimersNear
  <2>3. Far(now, current.time) \in Int /\ Far(now', current.time) = Far(now, current.time) - 1
    BY Zenon, <1>3, <2>1
  <2>4. Age(now, seen) \in Nat
    <3>1. seen \in Times
      BY Zenon, <2>1 DEF TimersTyped
    <3> QED BY <1>2, <3>1, FarValue DEF Times
  <2>5. Age(now, seen) + Far(now, current.time) < Half
    BY <1>0, <2>2, <2>3, <2>4
  <2>6. Age(now', seen) + Far(now', current.time) = Age(now, seen) + Far(now, current.time)
    BY SMTT(40), <1>10, <2>1, <2>5
  <2> QED BY SMTT(40), <1>0, <2>1, <2>2, <2>3, <2>6
<1>13. TimersNear'
  BY SMTT(40), <1>1, <1>8, <1>9, <1>11, <1>12 DEF TimersNear
<1>14. TimersPlaced'
  BY Zenon, <1>1 DEF TimersPlaced
<1> QED BY Zenon, <1>6, <1>13, <1>14

\* What holds while a handler runs.
LEMMA Running ==
  ASSUME TimerConstants, TimersInv, current # Nothing
  PROVE  /\ now \in Times /\ current \in Entry /\ current.h \in Timers /\ current.time \in Times
         /\ starting = {} /\ ~Lists(timeouts, current.h) /\ Distinct(timeouts)
         /\ -MaxLate <= Far(now, current.time) /\ Far(now, current.time) <= 0
         /\ seen = Asleep \/ Age(now, seen) <= MaxLate
<1> USE DEF TimersInv
<1>0. MaxLate \in Nat
  BY SMTT(40), ClockFacts
<1>1. now \in Times /\ current \in Entry /\ seen # Asleep
  BY Zenon DEF TimersTyped, TimersNear
<1>2. seen \in Times /\ starting = {}
  BY Zenon, <1>1 DEF TimersTyped
<1>3. current.time \in Times /\ current.h \in Timers
  BY Zenon, <1>1 DEF Entry
<1>4. Age(now, seen) \in Nat /\ Far(now, current.time) \in Int
  <2>1. Far(now, current.time) \in Int
    BY Zenon, <1>1, <1>3, FarValue
  <2>2. Age(now, seen) \in Times
    BY SMTT(40), <1>1, <1>2, FarValue
  <2> QED BY <2>1, <2>2 DEF Times
<1>5. Age(now, seen) + Far(now, current.time) <= 0 /\ Far(now, current.time) >= -MaxLate
  BY Zenon DEF TimersNear
<1>6. /\ -MaxLate <= Far(now, current.time) /\ Far(now, current.time) <= 0
      /\ Age(now, seen) <= MaxLate
  BY <1>0, <1>4, <1>5
<1> QED BY Zenon, <1>1, <1>2, <1>3, <1>6 DEF TimersPlaced

\* The next run of a cyclic timer is not yet due and less than a period ahead.
LEMMA RearmedAhead ==
  ASSUME TimerConstants, now \in Times, NEW h \in Timers, NEW due \in Times,
         -MaxLate <= Far(now, due), Far(now, due) <= 0
  PROVE  /\ Rearmed(due, Interval[h]) \in Times
         /\ Far(now, Rearmed(due, Interval[h])) \in 0 .. Ahead
<1> DEFINE next == (due + Interval[h]) % Clock
           later == (now + Interval[h]) % Clock
<1>0. /\ Interval[h] \in 0 .. Ahead /\ MaxLate \in Nat /\ Ahead \in Nat /\ Half \in Nat
      /\ MaxLate + Ahead = Half - 1 /\ Far(now, due) \in Int
  BY Zenon, ClockFacts, FarValue
<1>1. next \in Times /\ Far(now, next) = Far(now, due) + Interval[h]
  BY Zenon, <1>0, AddValue
<1>2. later \in Times /\ Far(now, later) \in 0 .. Ahead
  BY Zenon, NowPlus
<1>3. Rearmed(due, Interval[h]) = IF TIME_LESS_THAN(next, now) THEN later ELSE next
  BY Zenon DEF Rearmed
<1> HIDE DEF next, later
<1>4. Far(now, now) = 0
  <2>1. Far(now, now) = IF now >= now THEN IF now - now < Half THEN now - now ELSE now - now - Clock
                        ELSE IF now - now + Clock < Half THEN now - now + Clock ELSE now - now
    BY Zenon, FarValue
  <2> HIDE DEF Half, Ahead
  <2> QED BY <1>0, <2>1, ClockFacts DEF Times
<1> HIDE DEF Half, Ahead
<1>5. Far(now, next) - Far(now, now) < Half /\ Far(now, now) - Far(now, next) < Half
  BY <1>0, <1>1, <1>4
<1>6. TIME_LESS_THAN(next, now) <=> Far(now, next) < Far(now, now)
  BY Zenon, <1>1, <1>5, LessValue
<1>7. CASE TIME_LESS_THAN(next, now)
  BY Zenon, <1>2, <1>3, <1>7
<1>8. CASE ~TIME_LESS_THAN(next, now)
  <2>1. Far(now, next) \in 0 .. Ahead
    BY SMTT(40), <1>0, <1>1, <1>4, <1>6, <1>8
  <2> QED BY Zenon, <1>1, <1>3, <1>8, <2>1
<1> QED BY Zenon, <1>7, <1>8

\* The handlers arm their timer again, or for TCP stop it.
LEMMA CyclicInv ==
  ASSUME TimerConstants, TimersInv, lwip_cyclic_timer
  PROVE  TimersInv'
<1> USE DEF TimersInv
<1> DEFINE c == current.h
           t == Rearmed(current.time, Interval[c])
<1>1. /\ c \in Cyclic /\ c \in Timers /\ c # Tcp
      /\ timeouts' = sys_timeout_abs(timeouts, t, c) /\ current' = Nothing
      /\ UNCHANGED <<now, starting, seen, pcbs, tcpip_tcp_timer_active>>
  BY Zenon DEF lwip_cyclic_timer, Timers, TimerConstants
<1>2. current # Nothing /\ Nothing.h \notin Timers
  BY Zenon, <1>1, CurrentFacts
<1>3. /\ now \in Times /\ current.time \in Times /\ starting = {} /\ ~Lists(timeouts, c)
      /\ Distinct(timeouts) /\ -MaxLate <= Far(now, current.time) /\ Far(now, current.time) <= 0
      /\ seen = Asleep \/ Age(now, seen) <= MaxLate
  BY SMTT(40), <1>2, Running
<1>4. t \in Times /\ Far(now, t) \in 0 .. Ahead
  BY SMTT(40), <1>1, <1>3, RearmedAhead
<1> HIDE DEF t
<1>5. /\ timeouts' \in Seq(Entry) /\ InRange(now', timeouts') /\ Sorted(now', timeouts')
      /\ Distinct(timeouts')
      /\ \A g : Lists(timeouts', g) <=> Lists(timeouts, g) \/ g = c
      /\ seen' # Asleep =>
           \A i \in DOMAIN timeouts' : Age(now', seen') + Far(now', timeouts'[i].time) < Half
  BY SMTT(40), <1>1, <1>3, <1>4, Arm
<1>6. TimersTyped'
  BY SMTT(40), <1>1, <1>5 DEF TimersTyped
<1>7. TimersNear'
  BY SMTT(40), <1>1, <1>5 DEF TimersNear
<1>8. TimersPlaced'
  <2>1. \A g \in Timers : Lists(timeouts, g) \/ current.h = g <=> Lists(timeouts', g) \/ current'.h = g
    BY Zenon, <1>1, <1>2, <1>5
  <2>2. Cyclic \subseteq Timers /\ Tcp \in Timers
    BY Zenon DEF Timers
  <2> QED BY SMTT(40), <1>1, <1>5, <2>1, <2>2 DEF TimersPlaced
<1> QED BY Zenon, <1>6, <1>7, <1>8

\* tcpip_tcp_timer arms itself again exactly while there are connections.
LEMMA TcpTimerInv ==
  ASSUME TimerConstants, TimersInv, tcpip_tcp_timer
  PROVE  TimersInv'
<1> USE DEF TimersInv
<1> DEFINE c == Tcp
           t == (now + Interval[c]) % Clock
<1>1. /\ current.h = c /\ pcbs' \in {FALSE, pcbs} /\ tcpip_tcp_timer_active' = pcbs'
      /\ timeouts' = (IF pcbs' THEN sys_timeout_abs(timeouts, t, c) ELSE timeouts)
      /\ current' = Nothing /\ UNCHANGED <<now, starting, seen>>
  BY Zenon DEF tcpip_tcp_timer, sys_timeout
<1>2. c \in Timers /\ c \notin Cyclic /\ Cyclic \subseteq Timers
  BY Zenon DEF Timers, TimerConstants
<1>3. current # Nothing /\ Nothing.h \notin Timers
  BY Zenon, <1>1, <1>2, CurrentFacts
<1>4. /\ now \in Times /\ starting = {} /\ ~Lists(timeouts, c) /\ Distinct(timeouts)
      /\ seen = Asleep \/ Age(now, seen) <= MaxLate
  BY Zenon, <1>1, <1>3, Running
<1>5. t \in Times /\ Far(now, t) \in 0 .. Ahead
  BY Zenon, <1>2, <1>4, NowPlus
<1> HIDE DEF c, t
<1>6. pcbs \in BOOLEAN /\ pcbs' \in BOOLEAN
  BY Zenon, <1>1 DEF TimersTyped
<1>7. CASE pcbs'
  <2>1. timeouts' = sys_timeout_abs(timeouts, t, c)
    BY Zenon, <1>1, <1>7
  <2>2. /\ timeouts' \in Seq(Entry) /\ InRange(now', timeouts') /\ Sorted(now', timeouts')
        /\ Distinct(timeouts')
        /\ \A g : Lists(timeouts', g) <=> Lists(timeouts, g) \/ g = c
        /\ seen' # Asleep =>
             \A i \in DOMAIN timeouts' : Age(now', seen') + Far(now', timeouts'[i].time) < Half
    BY Zenon, <1>1, <1>2, <1>4, <1>5, <2>1, Arm
  <2>3. TimersTyped'
    BY Zenon, <1>1, <1>6, <2>2 DEF TimersTyped
  <2>4. TimersNear'
    BY Zenon, <1>1, <2>2 DEF TimersNear
  <2>5. TimersPlaced'
    <3>1. \A g \in Cyclic : Lists(timeouts, g) \/ current.h = g <=> Lists(timeouts', g) \/ current'.h = g
      BY Zenon, <1>1, <1>2, <1>3, <2>2
    <3>2. \A h \in Cyclic : h \in starting' <=> ~(Lists(timeouts', h) \/ current'.h = h)
      BY Zenon, <1>1, <3>1 DEF TimersPlaced
    <3>3. Lists(timeouts', c) /\ tcpip_tcp_timer_active' = TRUE
      BY Zenon, <1>1, <1>6, <1>7, <2>2
    <3> QED BY Zenon, <1>1, <2>2, <3>2, <3>3 DEF TimersPlaced, c
  <2> QED BY Zenon, <2>3, <2>4, <2>5
<1>8. CASE ~pcbs'
  <2>1. timeouts' = timeouts /\ tcpip_tcp_timer_active' = FALSE
    BY Zenon, <1>1, <1>6, <1>8
  <2>2. TimersTyped'
    BY Zenon, <1>1, <1>6, <2>1 DEF TimersTyped
  <2>3. TimersNear'
    BY Zenon, <1>1, <2>1 DEF TimersNear
  <2>4. TimersPlaced'
    <3>1. \A h \in Cyclic : h \in starting' <=> ~(Lists(timeouts', h) \/ current'.h = h)
      BY Zenon, <1>1, <1>2, <1>3, <2>1 DEF TimersPlaced
    <3>2. ~(Lists(timeouts', c) \/ current'.h = c)
      BY Zenon, <1>1, <1>2, <1>3, <1>4, <2>1
    <3> QED BY Zenon, <1>1, <1>4, <1>8, <2>1, <3>1, <3>2 DEF TimersPlaced, c
  <2> QED BY Zenon, <2>2, <2>3, <2>4
<1> QED BY SMTT(40), <1>7, <1>8

\* What a timer's entries in the list count.
LEMMA EntriesCounted ==
  ASSUME timeouts \in Seq(Entry), Distinct(timeouts), NEW h
  PROVE  Cardinality({i \in DOMAIN timeouts : timeouts[i].h = h})
           = IF Lists(timeouts, h) THEN 1 ELSE 0
<1> DEFINE S == {i \in DOMAIN timeouts : timeouts[i].h = h}
<1>1. CASE Lists(timeouts, h)
  <2>1. PICK i \in DOMAIN timeouts : timeouts[i].h = h
    BY Zenon, <1>1 DEF Lists
  <2>2. S = {i}
    BY Zenon, <2>1 DEF Distinct
  <2>3. Cardinality({i}) = 1
    BY Zenon, FS_Singleton
  <2> QED BY Zenon, <1>1, <2>2, <2>3
<1>2. CASE ~Lists(timeouts, h)
  <2>1. S = {}
    BY Zenon, <1>2 DEF Lists
  <2> QED BY Zenon, <1>2, <2>1, FS_EmptySet
<1> QED BY Zenon, <1>1, <1>2

\* The invariant says what TimersSound claims.
LEMMA TimersImply ==
  ASSUME TimerConstants, TimersInv
  PROVE  TimersSound
<1> USE DEF TimersInv
<1>1. \A t : Left(t) = Far(now, t)
  BY Zenon DEF Left, Far, Half
<1>2. TimersInOrder
  <2>1. current # Nothing => Far(now, current.time) <= 0
    BY Zenon, Running
  <2>2. \A i, j \in DOMAIN timeouts : i < j => Far(now, timeouts[i].time) <= Far(now, timeouts[j].time)
    BY Zenon DEF TimersNear, Sorted
  <2> QED BY Zenon, <1>1, <2>1, <2>2 DEF TimersInOrder
<1>3. TimersArmed
  <2> DEFINE S(h) == {i \in DOMAIN timeouts : timeouts[i].h = h}
             Armed(h) == Cardinality(S(h)) + IF current.h = h THEN 1 ELSE 0
  <2>1. timeouts \in Seq(Entry) /\ Distinct(timeouts)
    BY Zenon DEF TimersTyped, TimersPlaced
  <2>2. \A h : Cardinality(S(h)) = IF Lists(timeouts, h) THEN 1 ELSE 0
    BY Zenon, <2>1, EntriesCounted
  <2>3. ASSUME NEW h \in Timers
        PROVE  Armed(h) = IF Lists(timeouts, h) \/ current.h = h THEN 1 ELSE 0
    <3>1. ~(Lists(timeouts, h) /\ current.h = h)
      BY Zenon, CurrentFacts DEF TimersPlaced
    <3> HIDE DEF S
    <3> QED BY <2>2, <3>1
  <2> HIDE DEF Armed
  <2>4. \A h \in Cyclic : Armed(h) = IF h \in starting THEN 0 ELSE 1
    BY Zenon, <2>3 DEF TimersPlaced, Timers
  <2>5. Armed(Tcp) = IF tcpip_tcp_timer_active THEN 1 ELSE 0
    BY Zenon, <2>3 DEF TimersPlaced, Timers
  <2>6. pcbs => tcpip_tcp_timer_active
    BY Zenon DEF TimersPlaced
  <2> QED BY Zenon, <2>4, <2>5, <2>6 DEF TimersArmed, Armed, S
<1> QED BY Zenon, <1>2, <1>3 DEF TimersSound

\* The list of timeouts stays in the order of time although the 32-bit clock
\* wraps, no handler runs before it is due, and every timer that was started is
\* armed exactly once (sys_timeout_abs, sys_check_timeouts and lwip_cyclic_timer
\* of timeouts.c), for any timers whose period and delay fit half the clock.
THEOREM TimersCorrect ==
  ASSUME TimerConstants
  PROVE  TimeSpec => []TimersSound
<1>1. TimeInit => TimersInv
  BY Zenon, TimersInit
<1>2. TimersInv /\ [TimeNext]_timeVars => TimersInv'
  <2> SUFFICES ASSUME TimersInv, [TimeNext]_timeVars PROVE TimersInv'
    BY Zenon
  <2>1. CASE UNCHANGED timeVars
    BY Zenon, <2>1 DEF timeVars, TimersInv, TimersTyped, TimersNear, TimersPlaced
  <2>2. CASE TimeNext
    BY Zenon, <2>2, InitLoopInv, NeededInv, CheckInv, RunHeadInv, CyclicInv, TcpTimerInv, TickInv
       DEF TimeNext
  <2> QED BY Zenon, <2>1, <2>2
<1>3. TimersInv => TimersSound
  BY Zenon, TimersImply
<1> QED BY <1>1, <1>2, <1>3, PTL DEF TimeSpec
=============================================================================
