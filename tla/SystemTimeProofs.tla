-------------------------- MODULE SystemTimeProofs --------------------------
(***************************************************************************)
(* Proofs about SystemTime: for every width of the counters and every     *)
(* period, the clock is right and no timer is late or out of order.        *)
(***************************************************************************)
EXTENDS SystemTime, SequenceTheorems, NaturalsInduction, WellFoundedInduction, TLAPS

-----------------------------------------------------------------------------
(* Times modulo TimeSize *)

\* The constants one by one, as the lemmas use them.
LEMMA Widths ==
  /\ StkSize \in Nat \ {0} /\ TimeSize \in Nat \ {0} /\ TimeSize % StkSize = 0
  /\ 2 * StkSize <= TimeSize
  /\ Period \in Nat \ {0} /\ Latency \in Nat \ {0} /\ MaxPause \in Nat \ {0}
  /\ Period + Latency + MaxPause + 2 < StkSize
<1>1. /\ StkSize \in Nat \ {0} /\ TimeSize \in Nat /\ TimeSize % StkSize = 0
      /\ Period \in Nat \ {0} /\ Latency \in Nat \ {0} /\ MaxPause \in Nat \ {0}
      /\ Period + Latency + MaxPause + 2 < StkSize
      /\ 2 * StkSize <= TimeSize
  BY SystemTimeAssumption
<1>2. QED
  BY <1>1

\* time_diff of two times is a signed number of the width of time_t.
LEMMA DiffType ==
  ASSUME NEW x \in Times, NEW y \in Times
  PROVE  /\ TimeDiff(x, y) \in Int
         /\ -TimeSize <= 2 * TimeDiff(x, y) /\ 2 * TimeDiff(x, y) < TimeSize
<1>1. (y - x) % TimeSize \in 0 .. TimeSize - 1
  BY Widths DEF Times
<1>2. QED
  BY <1>1, Widths DEF TimeDiff

\* A time that is a ahead of now has the difference a, also past the wrap.
LEMMA DiffAhead ==
  ASSUME NEW x \in Times, NEW a \in Nat, 2 * a < TimeSize
  PROVE  (x + a) % TimeSize \in Times /\ TimeDiff(x, (x + a) % TimeSize) = a
<1>1. /\ TimeSize \in Nat \ {0} /\ x \in 0 .. TimeSize - 1 /\ a \in 0 .. TimeSize - 1
  BY Widths DEF Times
<1>2. (x + a) % TimeSize = IF x + a < TimeSize THEN x + a ELSE x + a - TimeSize
  BY <1>1
<1>3. (((x + a) % TimeSize) - x) % TimeSize = a
  BY <1>1, <1>2
<1>4. QED
  BY <1>1, <1>2, <1>3 DEF Times, TimeDiff

\* A tick later a deadline is one tick nearer.
LEMMA DiffTick ==
  ASSUME NEW x \in Times, NEW y \in Times, 2 - TimeSize <= 2 * TimeDiff(x, y)
  PROVE  /\ (x + 1) % TimeSize \in Times
         /\ TimeDiff((x + 1) % TimeSize, y) = TimeDiff(x, y) - 1
<1>1. /\ TimeSize \in Nat \ {0, 1} /\ x \in 0 .. TimeSize - 1 /\ y \in 0 .. TimeSize - 1
  BY Widths DEF Times
<1>2. (x + 1) % TimeSize = IF x + 1 < TimeSize THEN x + 1 ELSE 0
  BY <1>1
<1>3. (y - x) % TimeSize = IF x <= y THEN y - x ELSE y - x + TimeSize
  BY <1>1
<1> DEFINE z == (x + 1) % TimeSize
<1>4. z \in 0 .. TimeSize - 1
  BY <1>1, <1>2
<1>5. (y - z) % TimeSize = IF z <= y THEN y - z ELSE y - z + TimeSize
  <2> HIDE DEF z
  <2> QED BY <1>1, <1>4
<1>6. QED
  BY <1>1, <1>2, <1>3, <1>4, <1>5 DEF Times, TimeDiff

\* A tick later a stamp is one tick older.
LEMMA AgeTick ==
  ASSUME now \in Times, NEW s \in Times, Age(s) + 1 < TimeSize
  PROVE  (((now + 1) % TimeSize) - Not(s)) % TimeSize = Age(s) + 1
<1> DEFINE b == Not(s)
           z == (now + 1) % TimeSize
<1>1. /\ TimeSize \in Nat \ {0, 1} /\ now \in 0 .. TimeSize - 1 /\ b \in 0 .. TimeSize - 1
  BY Widths DEF Times, Not
<1>2. z = IF now + 1 < TimeSize THEN now + 1 ELSE 0
  BY <1>1
<1>3. Age(s) = IF b <= now THEN now - b ELSE now - b + TimeSize
  <2>1. Age(s) = (now - b) % TimeSize
    BY DEF Age
  <2> HIDE DEF b
  <2>2. QED
    BY <1>1, <2>1
<1>4. z \in 0 .. TimeSize - 1
  BY <1>1, <1>2
<1>5. (z - b) % TimeSize = IF b <= z THEN z - b ELSE z - b + TimeSize
  <2> HIDE DEF z, b
  <2> QED BY <1>1, <1>4
<1>6. QED
  <2>1. (z - b) % TimeSize = Age(s) + 1
    <3> HIDE DEF b, z
    <3> QED BY <1>1, <1>2, <1>3, <1>4, <1>5
  <2>2. QED
    BY <2>1

\* A stamp of now has no age.
LEMMA AgeZero ==
  ASSUME now \in Times
  PROVE  Not(now) \in Times /\ Not(Not(now)) = now /\ Age(Not(now)) = 0
<1>1. Not(now) \in Times /\ Not(Not(now)) = now
  BY Widths DEF Times, Not
<1>2. now - Not(Not(now)) = 0
  BY <1>1 DEF Times
<1>3. QED
  BY <1>1, <1>2, Widths DEF Age

\* A time is a number of turns of the SysTick counter, and what it counts.
LEMMA Turns ==
  ASSUME NEW x \in Times
  PROVE  /\ x \div StkSize \in Nat /\ x % StkSize \in 0 .. StkSize - 1
         /\ x = StkSize * (x \div StkSize) + (x % StkSize)
<1>1. x \in Int /\ 0 <= x /\ StkSize \in Nat \ {0}
  BY Widths DEF Times
<1>2. x % StkSize \in 0 .. StkSize - 1 /\ x \div StkSize \in Int
      /\ x = StkSize * (x \div StkSize) + (x % StkSize)
  BY <1>1
<1>3. x \div StkSize >= 0
  BY <1>1
<1>4. QED
  BY <1>2, <1>3

\* time_now is right while the SysTick counter has not gone round since the stamp.
LEMMA ClockRight ==
  ASSUME now \in Times, NEW s \in Times, Age(s) < StkSize
  PROVE  TimeNow(s) = now
<1> DEFINE n == Not(now)
           b == Not(s)
           t == Stk + (s \div StkSize) * StkSize
<1>1. /\ TimeSize \in Nat \ {0} /\ StkSize \in Nat \ {0} /\ 2 * StkSize <= TimeSize
      /\ now \in 0 .. TimeSize - 1 /\ s \in 0 .. TimeSize - 1
      /\ n \in 0 .. TimeSize - 1 /\ b \in 0 .. TimeSize - 1
      /\ n = TimeSize - 1 - now /\ b = TimeSize - 1 - s
  BY Widths DEF Times, Not
<1>2. Age(s) = IF b <= now THEN now - b ELSE now - b + TimeSize
  <2>1. Age(s) = (now - b) % TimeSize
    BY DEF Age
  <2> HIDE DEF b, n
  <2>2. QED
    BY <1>1, <2>1
<1>3. Age(s) = IF n <= s THEN s - n ELSE s - n + TimeSize
  <2> HIDE DEF n, b
  <2> QED BY <1>1, <1>2
<1> DEFINE p == n \div StkSize
           q == s \div StkSize
           e == TimeSize \div StkSize
<1>4. /\ p \in Nat /\ n % StkSize \in 0 .. StkSize - 1 /\ n = StkSize * p + (n % StkSize)
      /\ q \in Nat /\ s % StkSize \in 0 .. StkSize - 1 /\ s = StkSize * q + (s % StkSize)
  <2>1. n \in Times /\ s \in Times
    BY <1>1 DEF Times
  <2> HIDE DEF n
  <2>2. QED
    BY <2>1, Turns
<1>5. TimeSize = StkSize * e /\ e \in Nat
  BY Widths
<1>6. t = (n % StkSize) + StkSize * q
  BY <1>1, <1>4 DEF Stk
<1> HIDE DEF n, p, q, e, t
<1>7. (IF t > s THEN t - StkSize ELSE t) = (IF n <= s THEN n ELSE n - TimeSize)
  <2>1. CASE n <= s
    <3> DEFINE r == n % StkSize
               v == s % StkSize
    <3>1. /\ p \in Nat /\ q \in Nat /\ StkSize \in Nat \ {0}
          /\ n = StkSize * p + r /\ s = StkSize * q + v /\ t = r + StkSize * q
          /\ r \in 0 .. StkSize - 1 /\ v \in 0 .. StkSize - 1
          /\ n <= s /\ s - n < StkSize
      BY <2>1, <1>1, <1>3, <1>4, <1>6
    <3> HIDE DEF r, v
    <3>2. p <= q
      <4>1. p >= q + 1 => StkSize * p >= StkSize * q + StkSize
        BY <3>1
      <4>2. QED
        BY <4>1, <3>1
    <3>3. q <= p + 1
      <4>1. q >= p + 2 => StkSize * q >= StkSize * p + 2 * StkSize
        BY <3>1
      <4>2. QED
        BY <4>1, <3>1
    <3>4. CASE p = q
      BY <3>1, <3>4
    <3>5. CASE p = q - 1
      <4>1. StkSize * p = StkSize * q - StkSize
        BY <3>1, <3>5
      <4>2. QED
        BY <4>1, <3>1
    <3>6. QED
      BY <3>1, <3>2, <3>3, <3>4, <3>5
  <2>2. CASE ~ n <= s
    <3>1. s < StkSize /\ n >= TimeSize - StkSize
      BY <2>2, <1>1, <1>3
    <3>2. q = 0
      BY <3>1, <1>1, <1>4
    <3>3. p = e - 1
      BY <3>1, <1>1, <1>4, <1>5
    <3>4. StkSize * p = TimeSize - StkSize
      BY <3>3, <1>1, <1>5
    <3>5. QED
      BY <3>2, <3>4, <2>2, <1>1, <1>3, <1>4, <1>6
  <2>3. QED
    BY <2>1, <2>2
<1>8. (IF n <= s THEN n ELSE n - TimeSize) % TimeSize = n
  BY <1>1
<1>9. TimeNow(s) = Not((IF t > s THEN t - StkSize ELSE t) % TimeSize)
  BY DEF TimeNow, t
<1>10. TimeNow(s) = Not(n)
  BY <1>7, <1>8, <1>9
<1>11. QED
  BY <1>10, <1>1 DEF Not

\* reprogram_timer: the interrupt comes, and at most the shortest interrupt late.
LEMMA TicksBound ==
  ASSUME NEW delta \in Nat
  PROVE  Ticks(delta) \in 1 .. delta + 2 /\ Ticks(delta) \in 0 .. MaxTicks
<1>1. /\ SlackTicks \in Nat \ {0} /\ Fine \in Nat \ {0} /\ Unit \in Nat \ {0}
      /\ Early \in Nat \ {0} /\ MaxArr \in Nat \ {0} /\ Fine - SlackTicks - 1 <= MaxArr
      /\ Fine \div Unit > Early
  BY SystemTimeAssumption
<1>2. MaxTicks \in Nat /\ MaxTicks >= MaxArr + 1 /\ MaxTicks = (MaxArr + 1) * Unit
  BY <1>1 DEF MaxTicks
<1>3. CASE delta < Fine
  BY <1>1, <1>2, <1>3 DEF Ticks
<1>4. CASE ~ delta < Fine
  <2> DEFINE u == delta \div Unit
             arr == u - Early
             m == IF arr < MaxArr THEN arr ELSE MaxArr
  <2>1. u \in Nat /\ u * Unit <= delta
    BY <1>1
  <2>2. u >= Fine \div Unit
    BY <1>1, <1>4
  <2>3. Ticks(delta) = (m + 1) * Unit
    BY <1>4 DEF Ticks
  <2> HIDE DEF u
  <2>4. m \in Nat /\ m + 1 <= u /\ m <= MaxArr
    BY <2>1, <2>2, <1>1
  <2> HIDE DEF m
  <2>5. (m + 1) * Unit \in Nat /\ (m + 1) * Unit >= 1
    BY <2>4, <1>1
  <2>6. (m + 1) * Unit <= u * Unit
    BY <2>4, <2>1, <1>1
  <2>7. (m + 1) * Unit <= (MaxArr + 1) * Unit
    BY <2>4, <1>1
  <2>8. u * Unit \in Int /\ MaxTicks \in Nat
    BY <2>1, <1>1, <1>2
  <2>9. (m + 1) * Unit <= delta + 2 /\ (m + 1) * Unit <= MaxTicks
    <3> DEFINE w == (m + 1) * Unit
               z == u * Unit
    <3>1. w \in Nat /\ z \in Int /\ w <= z /\ z <= delta /\ w <= MaxTicks
      BY <2>1, <2>5, <2>6, <2>7, <2>8, <1>2
    <3> HIDE DEF w, z
    <3>2. w <= delta + 2 /\ w <= MaxTicks
      BY <3>1, <2>8
    <3>3. QED
      BY <3>2 DEF w
  <2>10. QED
    <3> DEFINE w == (m + 1) * Unit
    <3>1. w \in Nat /\ w >= 1 /\ w <= delta + 2 /\ w <= MaxTicks /\ Ticks(delta) = w
      BY <2>3, <2>5, <2>9
    <3> HIDE DEF w
    <3>2. QED
      BY <3>1, <2>8
<1>5. QED
  BY <1>3, <1>4

-----------------------------------------------------------------------------
(* The list of timers *)

\* No timer is twice in the list, and the list is in the order of the deadlines
\* dl, which is kept by the differences from the time n.
Distinct(q)      == \A i, j \in DOMAIN q : q[i] = q[j] => i = j
Sorted(q, dl, n) ==
  \A i, j \in DOMAIN q : i < j => TimeDiff(n, dl[q[i]]) <= TimeDiff(n, dl[q[j]])

\* The list r is q without its k-th timer.
Gap(r, q, k) ==
  /\ Len(r) = Len(q) - 1
  /\ \A i \in 1 .. Len(q) - 1 : r[i] = IF i < k THEN q[i] ELSE q[i + 1]

\* The list r is q with the timer t at the k-th place.
Grown(r, q, t, k) ==
  /\ Len(r) = Len(q) + 1
  /\ \A i \in 1 .. Len(q) + 1 :
       r[i] = IF i < k THEN q[i] ELSE IF i = k THEN t ELSE q[i - 1]

\* The k-th place of q is where the deadline d belongs.
Place(k, q, dl, d, n) ==
  /\ \A j \in 1 .. k - 1 : TimeDiff(n, d) > TimeDiff(n, dl[q[j]])
  /\ k <= Len(q) => TimeDiff(n, d) <= TimeDiff(n, dl[q[k]])

\* The deadlines e are dl, with d for t.
Moved(e, dl, t, d) == e = [dl EXCEPT ![t] = d]

\* A set of numbers that is not empty has a least one.
LessThan == {s \in Nat \X Nat : s[1] < s[2]}

\* The numbers are well-founded, so that a search along the list has an end.
LEMMA LessThanWellFounded == IsWellFoundedOn(LessThan, Nat)
<1>1. OpToRel(<, Nat) = LessThan
  BY DEF OpToRel, LessThan
<1>2. QED
  BY <1>1, NatLessThanWellFounded, Zenon

\* The loop of timer_set finds the first timer that is not sooner, if there is one.
LEMMA LeastNumber ==
  ASSUME NEW T \in SUBSET Nat, T # {}
  PROVE  \E x \in T : \A y \in T : x <= y
<1>1. PICK x \in T : \A y \in T : ~ (<<y, x>> \in LessThan)
  BY LessThanWellFounded, WFMin, Zenon
<1>2. ASSUME NEW y \in T PROVE x <= y
  <2>1. ~ (<<y, x>> \in LessThan)
    BY <1>1, Zenon
  <2>2. x \in Nat /\ y \in Nat
    OBVIOUS
  <2>3. QED
    BY <2>1, <2>2 DEF LessThan
<1>3. QED
  BY <1>2

\* What a list holds without its k-th timer (_timer_cancel, or IRQ_timer with the
\* head): the others, in their order.
LEMMA Unlinked ==
  ASSUME NEW q \in Seq(Timers), NEW k \in DOMAIN q
  PROVE  LET r == SubSeq(q, 1, k - 1) \o SubSeq(q, k + 1, Len(q))
         IN  r \in Seq(Timers) /\ Gap(r, q, k)
<1> DEFINE a == SubSeq(q, 1, k - 1)
           b == SubSeq(q, k + 1, Len(q))
<1>1. Len(q) \in Nat /\ DOMAIN q = 1 .. Len(q) /\ k \in 1 .. Len(q)
      /\ \A i \in 1 .. Len(q) : q[i] \in Timers
  OBVIOUS
<1>2. /\ a \in Seq(Timers) /\ Len(a) = k - 1 /\ \A i \in 1 .. k - 1 : a[i] = q[i]
  BY <1>1, SubSeqProperties
<1>3. /\ b \in Seq(Timers) /\ Len(b) = Len(q) - k
      /\ \A i \in 1 .. Len(q) - k : b[i] = q[i + k]
  BY <1>1, SubSeqProperties
<1> HIDE DEF a, b
<1>4. /\ a \o b \in Seq(Timers) /\ Len(a \o b) = Len(q) - 1
      /\ \A i \in 1 .. Len(q) - 1 :
           (a \o b)[i] = IF i <= k - 1 THEN a[i] ELSE b[i - (k - 1)]
  <2>1. /\ a \o b \in Seq(Timers) /\ Len(a \o b) = Len(a) + Len(b)
        /\ \A i \in 1 .. Len(a) + Len(b) :
             (a \o b)[i] = IF i <= Len(a) THEN a[i] ELSE b[i - Len(a)]
    BY <1>2, <1>3, ConcatProperties
  <2>2. QED
    BY <2>1, <1>1, <1>2, <1>3
<1>5. \A i \in 1 .. Len(q) - 1 : (a \o b)[i] = IF i < k THEN q[i] ELSE q[i + 1]
  BY <1>1, <1>2, <1>3, <1>4
<1>6. QED
  BY <1>4, <1>5 DEF a, b, Gap

\* What a list holds with the timer t put at its k-th place (timer_set).
LEMMA Linked ==
  ASSUME NEW q \in Seq(Timers), NEW t \in Timers, NEW k \in 1 .. Len(q) + 1
  PROVE  LET r == SubSeq(q, 1, k - 1) \o <<t>> \o SubSeq(q, k, Len(q))
         IN  r \in Seq(Timers) /\ Grown(r, q, t, k)
<1> DEFINE a == SubSeq(q, 1, k - 1)
           b == SubSeq(q, k, Len(q))
           m == <<t>>
<1>1. Len(q) \in Nat /\ DOMAIN q = 1 .. Len(q)
      /\ \A i \in 1 .. Len(q) : q[i] \in Timers
  OBVIOUS
<1>2. /\ a \in Seq(Timers) /\ Len(a) = k - 1 /\ \A i \in 1 .. k - 1 : a[i] = q[i]
  BY <1>1, SubSeqProperties
<1>3. /\ b \in Seq(Timers) /\ Len(b) = Len(q) - k + 1
      /\ \A i \in 1 .. Len(q) - k + 1 : b[i] = q[i + k - 1]
  BY <1>1, SubSeqProperties
<1>4. m \in Seq(Timers) /\ Len(m) = 1 /\ m[1] = t
  OBVIOUS
<1> HIDE DEF a, b, m
<1>5. /\ a \o m \in Seq(Timers) /\ Len(a \o m) = k
      /\ \A i \in 1 .. k : (a \o m)[i] = IF i <= k - 1 THEN q[i] ELSE t
  <2>1. /\ a \o m \in Seq(Timers) /\ Len(a \o m) = Len(a) + Len(m)
        /\ \A i \in 1 .. Len(a) + Len(m) :
             (a \o m)[i] = IF i <= Len(a) THEN a[i] ELSE m[i - Len(a)]
    BY <1>2, <1>4, ConcatProperties
  <2>2. QED
    BY <2>1, <1>1, <1>2, <1>4
<1> DEFINE c == a \o m
<1> HIDE DEF c
<1>6. /\ c \in Seq(Timers) /\ Len(c) = k
      /\ \A i \in 1 .. k : c[i] = IF i <= k - 1 THEN q[i] ELSE t
  BY <1>5 DEF c
<1>7. /\ c \o b \in Seq(Timers) /\ Len(c \o b) = Len(c) + Len(b)
      /\ \A i \in 1 .. Len(c) + Len(b) :
           (c \o b)[i] = IF i <= Len(c) THEN c[i] ELSE b[i - Len(c)]
  BY <1>6, <1>3, ConcatProperties
<1>8. Len(c \o b) = Len(q) + 1
      /\ \A i \in 1 .. Len(q) + 1 :
           (c \o b)[i] = IF i < k THEN q[i] ELSE IF i = k THEN t ELSE q[i - 1]
  BY <1>1, <1>3, <1>6, <1>7
<1>9. QED
  BY <1>7, <1>8 DEF a, b, c, m, Grown

\* A sorted list stays sorted when it loses a timer, and holds the other ones.
LEMMA UnlinkedSorted ==
  ASSUME NEW q \in Seq(Timers), NEW k \in DOMAIN q, NEW r \in Seq(Timers),
         NEW dl, NEW n, Gap(r, q, k), Distinct(q), Sorted(q, dl, n)
  PROVE  /\ Distinct(r) /\ Sorted(r, dl, n)
         /\ \A i \in DOMAIN r : r[i] # q[k]
         /\ \A i \in DOMAIN r : \E j \in DOMAIN q : r[i] = q[j]
         /\ \A i \in DOMAIN q : q[i] # q[k] => \E j \in DOMAIN r : r[j] = q[i]
<1>1. Len(q) \in Nat /\ DOMAIN q = 1 .. Len(q) /\ k \in 1 .. Len(q)
      /\ DOMAIN r = 1 .. Len(q) - 1
      /\ \A i \in 1 .. Len(q) - 1 : r[i] = IF i < k THEN q[i] ELSE q[i + 1]
  BY DEF Gap
<1> DEFINE at(i) == IF i < k THEN i ELSE i + 1
<1>2. \A i \in DOMAIN r : at(i) \in DOMAIN q /\ at(i) # k /\ r[i] = q[at(i)]
  BY <1>1
<1>3. \A i, j \in DOMAIN r : (i < j => at(i) < at(j)) /\ (at(i) = at(j) => i = j)
  BY <1>1
<1>4. \A i \in DOMAIN q : i # k => \E j \in DOMAIN r : at(j) = i
  <2> SUFFICES ASSUME NEW i \in DOMAIN q, i # k PROVE \E j \in DOMAIN r : at(j) = i
    OBVIOUS
  <2>1. CASE i < k
    BY <2>1, <1>1
  <2>2. CASE i > k
    <3>1. i - 1 \in DOMAIN r /\ at(i - 1) = i
      BY <2>2, <1>1
    <3>2. QED
      BY <3>1
  <2>3. QED
    BY <2>1, <2>2, <1>1
<1> HIDE DEF at
<1>5. Distinct(r)
  BY <1>2, <1>3, Zenon DEF Distinct
<1>6. Sorted(r, dl, n)
  <2> SUFFICES ASSUME NEW i \in DOMAIN r, NEW j \in DOMAIN r, i < j
               PROVE  TimeDiff(n, dl[r[i]]) <= TimeDiff(n, dl[r[j]])
    BY DEF Sorted
  <2>1. at(i) < at(j)
    BY <1>3
  <2>2. at(i) \in DOMAIN q /\ r[i] = q[at(i)] /\ at(j) \in DOMAIN q /\ r[j] = q[at(j)]
    BY <1>2, Zenon
  <2>3. TimeDiff(n, dl[q[at(i)]]) <= TimeDiff(n, dl[q[at(j)]])
    BY <2>1, <2>2, Zenon DEF Sorted
  <2>4. QED
    BY <2>2, <2>3, Zenon
<1>7. \A i \in DOMAIN r : r[i] # q[k]
  BY <1>1, <1>2, Zenon DEF Distinct
<1>8. \A i \in DOMAIN q : q[i] # q[k] => \E j \in DOMAIN r : r[j] = q[i]
  BY <1>2, <1>4, Zenon
<1>9. \A i \in DOMAIN r : \E j \in DOMAIN q : r[i] = q[j]
  BY <1>2, Zenon
<1>10. QED
  BY <1>5, <1>6, <1>7, <1>8, <1>9, Zenon

\* _timer_cancel takes the timer out of the list and leaves the others in order.
LEMMA WithoutSorted ==
  ASSUME NEW q \in Seq(Timers), NEW t \in Timers, NEW dl, NEW n,
         Distinct(q), Sorted(q, dl, n)
  PROVE  LET r == Without(q, t)
         IN  /\ r \in Seq(Timers) /\ Distinct(r) /\ Sorted(r, dl, n)
             /\ \A i \in DOMAIN r : r[i] # t
             /\ \A i \in DOMAIN r : \E j \in DOMAIN q : r[i] = q[j]
             /\ \A i \in DOMAIN q : q[i] # t => \E j \in DOMAIN r : r[j] = q[i]
<1> DEFINE At == {i \in DOMAIN q : q[i] = t}
           k  == CHOOSE i \in At : TRUE
           r  == SubSeq(q, 1, k - 1) \o SubSeq(q, k + 1, Len(q))
<1>1. Without(q, t) = IF At = {} THEN q ELSE r
  BY DEF Without
<1>2. CASE At = {}
  <2>1. Without(q, t) = q /\ \A i \in DOMAIN q : q[i] # t
    BY <1>1, <1>2, Zenon
  <2>2. QED
    BY <2>1, Zenon
<1>3. CASE At # {}
  <2>1. k \in At
    BY <1>3, Zenon
  <2> HIDE DEF k
  <2>2. k \in DOMAIN q /\ q[k] = t
    BY <2>1, Zenon
  <2>3. r \in Seq(Timers) /\ Gap(r, q, k)
    BY <2>2, Unlinked
  <2> HIDE DEF r
  <2>4. /\ Distinct(r) /\ Sorted(r, dl, n)
        /\ \A i \in DOMAIN r : r[i] # q[k]
        /\ \A i \in DOMAIN r : \E j \in DOMAIN q : r[i] = q[j]
        /\ \A i \in DOMAIN q : q[i] # q[k] => \E j \in DOMAIN r : r[j] = q[i]
    BY <2>2, <2>3, UnlinkedSorted, Zenon
  <2>5. Without(q, t) = r
    BY <1>1, <1>3, Zenon
  <2>6. QED
    BY <2>2, <2>3, <2>4, <2>5, Zenon
<1>4. QED
  BY <1>2, <1>3, Zenon

\* The same of the head, which IRQ_timer takes out of the list.
LEMMA TailSorted ==
  ASSUME NEW q \in Seq(Timers), q # <<>>, NEW dl, NEW n, Distinct(q), Sorted(q, dl, n)
  PROVE  LET r == Tail(q)
         IN  /\ 1 \in DOMAIN q /\ Head(q) = q[1]
             /\ r \in Seq(Timers) /\ Distinct(r) /\ Sorted(r, dl, n)
             /\ \A i \in DOMAIN r : r[i] # Head(q)
             /\ \A i \in DOMAIN r : \E j \in DOMAIN q : r[i] = q[j]
             /\ \A i \in DOMAIN q : q[i] # Head(q) => \E j \in DOMAIN r : r[j] = q[i]
<1> DEFINE r == Tail(q)
<1>1. Len(q) \in Nat \ {0} /\ DOMAIN q = 1 .. Len(q) /\ Head(q) = q[1]
  OBVIOUS
<1>2. /\ r \in Seq(Timers) /\ Len(r) = Len(q) - 1
      /\ \A i \in 1 .. Len(q) - 1 : r[i] = q[i + 1]
  BY HeadTailProperties
<1> HIDE DEF r
<1>3. 1 \in DOMAIN q /\ Gap(r, q, 1)
  BY <1>1, <1>2 DEF Gap
<1>4. /\ Distinct(r) /\ Sorted(r, dl, n)
      /\ \A i \in DOMAIN r : r[i] # q[1]
      /\ \A i \in DOMAIN r : \E j \in DOMAIN q : r[i] = q[j]
      /\ \A i \in DOMAIN q : q[i] # q[1] => \E j \in DOMAIN r : r[j] = q[i]
  BY <1>2, <1>3, UnlinkedSorted, Zenon
<1>5. QED
  BY <1>1, <1>2, <1>3, <1>4, Zenon DEF r

\* The loop of timer_set ends at a place: after the timers that are sooner, before
\* the first that is not.
LEMMA InsertAtPlace ==
  ASSUME NEW q \in Seq(Timers), NEW dl \in [Timers -> Times], NEW t, NEW d \in Times,
         TimeNow(time_stamp) = now, now \in Times
  PROVE  LET k == InsertAt(q, dl, t, d)
         IN  k \in 1 .. Len(q) + 1 /\ Place(k, q, dl, d, now)
<1> DEFINE Later(i) == i <= Len(q) => TimeDiff(now, d) <= TimeDiff(now, dl[q[i]])
           At == {i \in 1 .. Len(q) + 1 : Later(i)}
           Here(i) == /\ \A j \in 1 .. i - 1 : TimeDiff(now, d) > TimeDiff(now, dl[q[j]])
                      /\ Later(i)
<1>1. Len(q) \in Nat /\ \A i \in 1 .. Len(q) : q[i] \in Timers
  OBVIOUS
<1>2. At \in SUBSET Nat /\ At # {}
  <2>1. Len(q) + 1 \in At
    BY <1>1
  <2>2. QED
    BY <1>1, <2>1
<1>3. PICK k \in At : \A j \in At : k <= j
  <2> HIDE DEF At
  <2> QED BY <1>2, LeastNumber
<1>4. ASSUME NEW j \in 1 .. k - 1
      PROVE  TimeDiff(now, d) > TimeDiff(now, dl[q[j]])
  <2>1. j \in 1 .. Len(q) /\ ~ k <= j /\ j \in 1 .. Len(q) + 1
    BY <1>1
  <2>2. ~ Later(j)
    BY <1>3, <2>1
  <2>3. dl[q[j]] \in Times
    BY <1>1, <2>1
  <2>4. TimeDiff(now, d) \in Int /\ TimeDiff(now, dl[q[j]]) \in Int
    BY <2>3, DiffType
  <2>5. QED
    BY <2>1, <2>2, <2>4
<1>5. \E i \in 1 .. Len(q) + 1 : Here(i)
  BY <1>4
<1>6. InsertAt(q, dl, t, d) = CHOOSE i \in 1 .. Len(q) + 1 : Here(i)
  BY DEF InsertAt
<1> DEFINE m == CHOOSE i \in 1 .. Len(q) + 1 : Here(i)
<1>7. m \in 1 .. Len(q) + 1 /\ Here(m)
  <2> HIDE DEF Here
  <2> QED BY <1>5, Zenon
<1> HIDE DEF m
<1>8. QED
  BY <1>6, <1>7 DEF m, Place

\* A timer at the place that timer_set finds keeps the list in order.
LEMMA GrownSorted ==
  ASSUME NEW q \in Seq(Timers), NEW r \in Seq(Timers), NEW t \in Timers,
         NEW k \in 1 .. Len(q) + 1, NEW dl \in [Timers -> Times], NEW d \in Times,
         NEW n \in Times, Grown(r, q, t, k), Distinct(q), Sorted(q, dl, n),
         \A i \in DOMAIN q : q[i] # t, Place(k, q, dl, d, n),
         NEW e, Moved(e, dl, t, d)
  PROVE  /\ Distinct(r) /\ Sorted(r, e, n)
         /\ k \in DOMAIN r /\ r[k] = t
         /\ \A i \in DOMAIN r : r[i] = t \/ \E j \in DOMAIN q : r[i] = q[j]
         /\ \A i \in DOMAIN q : \E j \in DOMAIN r : r[j] = q[i]
<1>1. /\ Len(q) \in Nat /\ DOMAIN q = 1 .. Len(q) /\ DOMAIN r = 1 .. Len(q) + 1
      /\ \A i \in 1 .. Len(q) : q[i] \in Timers
      /\ \A i \in 1 .. Len(q) + 1 :
           r[i] = IF i < k THEN q[i] ELSE IF i = k THEN t ELSE q[i - 1]
  BY DEF Grown
<1>2. k \in DOMAIN r /\ r[k] = t
  BY <1>1
<1>3. \A i \in DOMAIN r : r[i] = t \/ \E j \in DOMAIN q : r[i] = q[j]
  <2> SUFFICES ASSUME NEW i \in DOMAIN r
               PROVE  r[i] = t \/ \E j \in DOMAIN q : r[i] = q[j]
    OBVIOUS
  <2>1. CASE i < k
    BY <2>1, <1>1
  <2>2. CASE i = k
    BY <2>2, <1>2
  <2>3. CASE i > k
    <3>1. i - 1 \in DOMAIN q /\ r[i] = q[i - 1]
      BY <2>3, <1>1
    <3>2. QED
      BY <3>1
  <2>4. QED
    BY <2>1, <2>2, <2>3, <1>1
<1>4. \A i \in DOMAIN q : \E j \in DOMAIN r : r[j] = q[i]
  <2> SUFFICES ASSUME NEW i \in DOMAIN q PROVE \E j \in DOMAIN r : r[j] = q[i]
    OBVIOUS
  <2>1. CASE i < k
    BY <2>1, <1>1
  <2>2. CASE i >= k
    <3>1. i + 1 \in DOMAIN r /\ r[i + 1] = q[i]
      BY <2>2, <1>1
    <3>2. QED
      BY <3>1
  <2>3. QED
    BY <2>1, <2>2, <1>1
<1>5. Distinct(r)
  <2> SUFFICES ASSUME NEW i \in DOMAIN r, NEW j \in DOMAIN r, r[i] = r[j] PROVE i = j
    BY DEF Distinct
  <2> DEFINE from(x) == IF x < k THEN x ELSE x - 1
  <2>1. \A x, y \in 1 .. Len(q) : q[x] = q[y] => x = y
    BY <1>1 DEF Distinct
  <2>2. \A x \in DOMAIN r : x # k => from(x) \in 1 .. Len(q) /\ r[x] = q[from(x)]
    BY <1>1
  <2>3. \A x \in DOMAIN r : x # k => r[x] # t
    BY <2>2, <1>1, Zenon
  <2>4. CASE i = k \/ j = k
    BY <2>3, <2>4, <1>2, Zenon
  <2>5. CASE i # k /\ j # k
    <3>1. from(i) = from(j)
      BY <2>1, <2>2, <2>5, Zenon
    <3>2. QED
      BY <3>1, <2>5, <1>1
  <2>6. QED
    BY <2>4, <2>5
<1>6. \A i \in DOMAIN q : e[q[i]] = dl[q[i]]
  BY <1>1 DEF Moved
<1>7. e[t] = d
  BY DEF Moved
<1> DEFINE D == TimeDiff(n, d)
           Q(i) == TimeDiff(n, dl[q[i]])
           R(i) == TimeDiff(n, e[r[i]])
<1>8. D \in Int /\ \A i \in DOMAIN q : Q(i) \in Int
  <2>1. D \in Int
    BY DiffType
  <2>2. \A i \in DOMAIN q : dl[q[i]] \in Times
    BY <1>1
  <2>3. \A i \in DOMAIN q : Q(i) \in Int
    BY <2>2, DiffType
  <2>4. QED
    BY <2>1, <2>3
<1>9. \A i \in DOMAIN r : R(i) = IF i < k THEN Q(i) ELSE IF i = k THEN D ELSE Q(i - 1)
  <2> SUFFICES ASSUME NEW i \in DOMAIN r
               PROVE  R(i) = IF i < k THEN Q(i) ELSE IF i = k THEN D ELSE Q(i - 1)
    OBVIOUS
  <2>1. CASE i < k
    <3>1. i \in DOMAIN q /\ r[i] = q[i]
      BY <2>1, <1>1
    <3>2. e[r[i]] = dl[q[i]]
      BY <3>1, <1>6
    <3>3. QED
      BY <2>1, <3>2
  <2>2. CASE i = k
    BY <2>2, <1>2, <1>7
  <2>3. CASE i > k
    <3>1. i - 1 \in DOMAIN q /\ r[i] = q[i - 1]
      BY <2>3, <1>1
    <3>2. e[r[i]] = dl[q[i - 1]]
      BY <3>1, <1>6
    <3>3. QED
      BY <2>3, <3>2, <1>1
  <2>4. QED
    BY <2>1, <2>2, <2>3, <1>1
<1>10. \A i, j \in DOMAIN q : i < j => Q(i) <= Q(j)
  BY DEF Sorted
<1>11. /\ \A j \in 1 .. k - 1 : D > Q(j)
       /\ k <= Len(q) => D <= Q(k)
  BY DEF Place
<1> DEFINE G(i) == IF i < k THEN Q(i) ELSE IF i = k THEN D ELSE Q(i - 1)
<1> HIDE DEF D, Q, R
<1>12. \A i, j \in DOMAIN r : i < j => G(i) <= G(j)
  <2> SUFFICES ASSUME NEW i \in DOMAIN r, NEW j \in DOMAIN r, i < j PROVE G(i) <= G(j)
    OBVIOUS
  <2>1. CASE j < k
    BY <2>1, <1>1, <1>8, <1>10
  <2>2. CASE j = k
    BY <2>2, <1>1, <1>8, <1>11
  <2>3. CASE j > k /\ i < k
    <3>1. i \in DOMAIN q /\ k \in DOMAIN q /\ j - 1 \in DOMAIN q
      BY <2>3, <1>1
    <3>2. D > Q(i) /\ D <= Q(k)
      BY <2>3, <1>1, <1>11
    <3>3. Q(k) <= Q(j - 1)
      BY <3>1, <2>3, <1>1, <1>8, <1>10
    <3>4. QED
      BY <3>1, <3>2, <3>3, <2>3, <1>1, <1>8
  <2>4. CASE j > k /\ i = k
    <3>1. k \in DOMAIN q /\ j - 1 \in DOMAIN q
      BY <2>4, <1>1
    <3>2. D <= Q(k)
      BY <2>4, <1>1, <1>11
    <3>3. Q(k) <= Q(j - 1)
      BY <3>1, <2>4, <1>1, <1>8, <1>10
    <3>4. QED
      BY <3>1, <3>2, <3>3, <2>4, <1>1, <1>8
  <2>5. CASE j > k /\ i > k
    <3>1. i - 1 \in DOMAIN q /\ j - 1 \in DOMAIN q /\ i - 1 < j - 1
      BY <2>5, <1>1
    <3>2. Q(i - 1) <= Q(j - 1)
      BY <3>1, <1>10
    <3>3. QED
      BY <3>2, <2>5, <1>1
  <2>6. QED
    BY <2>1, <2>2, <2>3, <2>4, <2>5, <1>1
<1>13. \A i \in DOMAIN r : R(i) = G(i)
  BY <1>9
<1> HIDE DEF G
<1>14. \A i, j \in DOMAIN r : i < j => R(i) <= R(j)
  BY <1>12, <1>13
<1>15. Sorted(r, e, n)
  BY <1>14 DEF Sorted, R
<1>16. QED
  BY <1>2, <1>3, <1>4, <1>5, <1>15

\* The timer t is in the list q.
Listed(q, t) == \E i \in DOMAIN q : q[i] = t

\* timer_set, with the right time: t is in the list with its deadline, the others
\* are as before, the order is kept, and a new head has its interrupt.
LEMMA TimerSetSound ==
  ASSUME TimeNow(time_stamp) = now, now \in Times, deadline \in [Timers -> Times],
         NEW q \in Seq(Timers), Distinct(q), Sorted(q, deadline, now),
         NEW t \in Timers, NEW d \in Times, TimerSet(q, t, d, now)
  PROVE  /\ queue' \in Seq(Timers) /\ Distinct(queue') /\ Sorted(queue', deadline', now)
         /\ deadline' = [deadline EXCEPT ![t] = d]
         /\ \A u : Listed(queue', u) <=> u = t \/ Listed(q, u)
         /\ queue' # <<>> /\ Head(queue') = queue'[1]
         /\ \/ Head(queue') = t /\ counter' = Ticks(TimeDiff(now, d))
            \/ Head(queue') # t /\ counter' = counter
<1> DEFINE r == Without(q, t)
           k == InsertAt(r, deadline, t, d)
           p == SubSeq(r, 1, k - 1) \o <<t>> \o SubSeq(r, k, Len(r))
<1>1. /\ queue' = p /\ deadline' = [deadline EXCEPT ![t] = d]
      /\ counter' = Reprogram(k, TimeDiff(now, d))
  BY DEF TimerSet
<1>2. /\ r \in Seq(Timers) /\ Distinct(r) /\ Sorted(r, deadline, now)
      /\ \A i \in DOMAIN r : r[i] # t
      /\ \A i \in DOMAIN r : \E j \in DOMAIN q : r[i] = q[j]
      /\ \A i \in DOMAIN q : q[i] # t => \E j \in DOMAIN r : r[j] = q[i]
  BY WithoutSorted, Zenon
<1> HIDE DEF r
<1>3. k \in 1 .. Len(r) + 1 /\ Place(k, r, deadline, d, now)
  BY <1>2, InsertAtPlace, Zenon
<1> HIDE DEF k
<1>4. p \in Seq(Timers) /\ Grown(p, r, t, k)
  BY <1>2, <1>3, Linked, Zenon DEF p
<1> HIDE DEF p
<1> DEFINE e == [deadline EXCEPT ![t] = d]
<1> HIDE DEF e
<1>5. /\ Distinct(p) /\ Sorted(p, e, now)
      /\ k \in DOMAIN p /\ p[k] = t
      /\ \A i \in DOMAIN p : p[i] = t \/ \E j \in DOMAIN r : p[i] = r[j]
      /\ \A i \in DOMAIN r : \E j \in DOMAIN p : p[j] = r[i]
  <2>1. Moved(e, deadline, t, d)
    BY DEF e, Moved
  <2>2. QED
    <3>1. r \in Seq(Timers) /\ p \in Seq(Timers) /\ t \in Timers
      BY <1>2, <1>4
    <3>2. k \in 1 .. Len(r) + 1 /\ deadline \in [Timers -> Times] /\ d \in Times
          /\ now \in Times
      BY <1>3
    <3>3. Grown(p, r, t, k) /\ Distinct(r) /\ Sorted(r, deadline, now)
          /\ (\A i \in DOMAIN r : r[i] # t) /\ Place(k, r, deadline, d, now)
      BY <1>2, <1>3, <1>4, Zenon
    <3>4. QED
      BY ONLY <3>1, <3>2, <3>3, <2>1, GrownSorted, Zenon
<1>6. \A u : Listed(p, u) <=> u = t \/ Listed(q, u)
  <2> SUFFICES ASSUME NEW u PROVE Listed(p, u) <=> u = t \/ Listed(q, u)
    OBVIOUS
  <2>1. Listed(p, u) => u = t \/ Listed(q, u)
    <3> SUFFICES ASSUME NEW i \in DOMAIN p, p[i] = u PROVE u = t \/ Listed(q, u)
      BY Zenon DEF Listed
    <3>1. CASE p[i] = t
      BY <3>1
    <3>2. ASSUME NEW j \in DOMAIN r, p[i] = r[j] PROVE Listed(q, u)
      <4>1. PICK m \in DOMAIN q : r[j] = q[m]
        BY <1>2
      <4>2. q[m] = u
        BY <4>1, <3>2
      <4>3. QED
        BY <4>2, Zenon DEF Listed
    <3>3. QED
      BY <3>1, <3>2, <1>5, Zenon
  <2>2. u = t => Listed(p, u)
    BY <1>5, Zenon DEF Listed
  <2>3. u # t /\ Listed(q, u) => Listed(p, u)
    <3> SUFFICES ASSUME NEW i \in DOMAIN q, q[i] = u, u # t PROVE Listed(p, u)
      BY Zenon DEF Listed
    <3>1. PICK j \in DOMAIN r : r[j] = q[i]
      BY <1>2
    <3>2. PICK m \in DOMAIN p : p[m] = r[j]
      BY <1>5
    <3>3. p[m] = u
      BY <3>1, <3>2
    <3>4. QED
      BY <3>3, Zenon DEF Listed
  <2>4. QED
    BY <2>1, <2>2, <2>3, Zenon
<1>7. p # <<>> /\ Head(p) = p[1] /\ 1 \in DOMAIN p
  BY <1>4, <1>5
<1>8. CASE k = 1
  BY <1>1, <1>4, <1>5, <1>6, <1>7, <1>8 DEF Reprogram, e
<1>9. CASE k # 1
  <2>1. p[1] # t
    BY <1>5, <1>7, <1>9, Zenon DEF Distinct
  <2>2. counter' = counter
    BY <1>1, <1>9, Zenon DEF Reprogram
  <2>3. QED
    BY <1>1, <1>4, <1>5, <1>6, <1>7, <2>1, <2>2, Zenon DEF e
<1>10. QED
  BY <1>8, <1>9, Zenon

\* A list that has all timers of another but t lists the same ones but t.
LEMMA ListedRest ==
  ASSUME NEW q, NEW r, NEW t,
         \A i \in DOMAIN r : r[i] # t,
         \A i \in DOMAIN r : \E j \in DOMAIN q : r[i] = q[j],
         \A i \in DOMAIN q : q[i] # t => \E j \in DOMAIN r : r[j] = q[i]
  PROVE  \A u : Listed(r, u) <=> u # t /\ Listed(q, u)
<1> SUFFICES ASSUME NEW u PROVE Listed(r, u) <=> u # t /\ Listed(q, u)
  OBVIOUS
<1>1. ASSUME NEW i \in DOMAIN r, r[i] = u PROVE u # t /\ Listed(q, u)
  <2>1. PICK j \in DOMAIN q : r[i] = q[j]
    OBVIOUS
  <2>2. q[j] = u /\ u # t
    BY <1>1, <2>1
  <2>3. QED
    BY <2>2, Zenon DEF Listed
<1>2. ASSUME NEW i \in DOMAIN q, q[i] = u, u # t PROVE Listed(r, u)
  <2>1. PICK j \in DOMAIN r : r[j] = q[i]
    BY <1>2
  <2>2. r[j] = u
    BY <1>2, <2>1
  <2>3. QED
    BY <2>2, Zenon DEF Listed
<1>3. QED
  BY <1>1, <1>2, Zenon DEF Listed

-----------------------------------------------------------------------------
(* The invariant *)

\* What the code can rely on in any state: the time that it reads is right, also
\* the one that an interrupted thread goes on to read, and the list has a head that
\* is not later than the others, none of which is late.
LEMMA Reliable ==
  ASSUME IInv
  PROVE  /\ TimeNow(time_stamp) = now /\ (stamp # -1 => TimeNow(stamp) = now)
         /\ Distinct(queue) /\ Sorted(queue, deadline, now)
         /\ Age(time_stamp) \in 0 .. Period + Latency + 2
         /\ stamp # -1 => Age(stamp) \in Nat
         /\ queue # <<>> /\ 1 \in DOMAIN queue /\ Head(queue) = queue[1]
         /\ \A t \in Timers : Left(t) \in Int
         /\ \A i \in DOMAIN queue : queue[i] \in Timers
         /\ \A i \in DOMAIN queue : Left(Head(queue)) <= Left(queue[i])
         /\ \A i \in DOMAIN queue : Left(queue[i]) >= -(2 + lag)
         /\ Left(StampTimer) >= -(2 + lag) /\ lag \in 0 .. Latency
<1>1. /\ now \in Times /\ time_stamp \in Times /\ queue \in Seq(Timers)
      /\ deadline \in [Timers -> Times] /\ lag \in 0 .. Latency
      /\ stamp \in Times \cup {-1} /\ pause \in 0 .. MaxPause
  BY DEF IInv, TypeOK
<1>2. Distinct(queue) /\ Sorted(queue, deadline, now)
  BY DEF IInv, TypeOK, Ordered, Left, Distinct, Sorted
<1>3. \A t \in Timers : Left(t) \in Int
  BY <1>1, DiffType DEF Left
<1>4. \A i \in DOMAIN queue : queue[i] \in Timers
  BY <1>1
<1>5. \A i \in DOMAIN queue : Left(queue[i]) >= -(2 + lag)
  BY DEF IInv, InTime
<1>6. PICK i \in DOMAIN queue : queue[i] = StampTimer
  BY DEF IInv, StampTimed
<1>7. queue # <<>> /\ 1 \in DOMAIN queue /\ Head(queue) = queue[1]
  BY <1>1, <1>6
<1>8. \A j \in DOMAIN queue : Left(Head(queue)) <= Left(queue[j])
  <2> SUFFICES ASSUME NEW j \in DOMAIN queue PROVE Left(Head(queue)) <= Left(queue[j])
    OBVIOUS
  <2>1. CASE j = 1
    BY <2>1, <1>3, <1>4, <1>7
  <2>2. CASE j # 1
    <3>1. 1 < j
      BY <2>2, <1>1
    <3>2. QED
      BY <3>1, <1>7 DEF IInv, Ordered
  <2>3. QED
    BY <2>1, <2>2
<1>9. Left(StampTimer) >= -(2 + lag)
  BY <1>5, <1>6
<1>10. \A s \in Times : Age(s) \in 0 .. TimeSize - 1
  <2> SUFFICES ASSUME NEW s \in Times PROVE Age(s) \in 0 .. TimeSize - 1
    OBVIOUS
  <2>1. Not(s) \in Int /\ now \in Int /\ TimeSize \in Nat \ {0}
    BY <1>1, Widths DEF Times, Not
  <2>2. QED
    BY <2>1 DEF Age
<1>11. Age(time_stamp) \in 0 .. Period + Latency + 2
  <2>1. Age(time_stamp) + Left(StampTimer) = Period
    BY DEF IInv, StampTimed
  <2>2. Age(time_stamp) \in Nat /\ Left(StampTimer) \in Int
    BY <1>1, <1>3, <1>10 DEF Timers
  <2>3. QED
    BY <2>1, <2>2, <1>1, <1>9, Widths
<1>12. TimeNow(time_stamp) = now
  <2>1. Age(time_stamp) < StkSize
    BY <1>11, Widths
  <2>2. QED
    BY <2>1, <1>1, ClockRight
<1>13. ASSUME stamp # -1 PROVE TimeNow(stamp) = now /\ Age(stamp) \in Nat
  <2>1. stamp \in Times /\ Age(stamp) \in Nat
    BY <1>1, <1>10, <1>13
  <2>2. Age(stamp) <= Period + Latency + 2 + pause
    BY <1>13 DEF IInv, ReadYoung
  <2>3. Age(stamp) < StkSize
    BY <2>1, <2>2, <1>1, Widths
  <2>4. QED
    BY <2>1, <2>3, <1>1, ClockRight
<1>14. QED
  BY <1>1, <1>2, <1>3, <1>4, <1>5, <1>7, <1>8, <1>9, <1>11, <1>12, <1>13, Zenon

\* time_init: a stamp of now, and its timer a period ahead.
LEMMA InitIInv == Init => IInv
<1> SUFFICES ASSUME Init PROVE IInv
  OBVIOUS
<1>1. /\ now \in TimeSize - StkSize .. TimeSize - 1 /\ time_stamp = Stk
      /\ queue = <<StampTimer>>
      /\ deadline = [t \in Timers |-> IF t = StampTimer THEN (now + Period) % TimeSize ELSE 0]
      /\ counter = Ticks(Period)
      /\ irq = FALSE /\ inIrq = FALSE /\ lag = 0
      /\ stamp = -1 /\ pause = 0
  BY Zenon DEF Init
<1>2. now \in Times /\ Not(now) \in 0 .. StkSize - 1
  BY <1>1, Widths DEF Times, Not
<1>3. Stk = Not(now)
  BY <1>2, Widths DEF Stk
<1>4. time_stamp \in Times /\ Age(time_stamp) = 0
  BY <1>1, <1>2, <1>3, AgeZero
<1>5. (now + Period) % TimeSize \in Times /\ TimeDiff(now, (now + Period) % TimeSize) = Period
  BY <1>2, DiffAhead, Widths
<1>6. StampTimer \in Timers
  BY DEF Timers
<1>7. Left(StampTimer) = Period
  BY <1>1, <1>5, <1>6 DEF Left
<1>8. queue \in Seq(Timers) /\ DOMAIN queue = {1} /\ queue[1] = StampTimer
      /\ Head(queue) = StampTimer
  BY <1>1, <1>6
<1>9. 0 \in Times
  BY Widths DEF Times
<1>10. deadline \in [Timers -> Times]
  BY <1>1, <1>5, <1>9
<1>11. counter \in 1 .. Period + 2 /\ counter \in 0 .. MaxTicks
  BY <1>1, TicksBound, Widths
<1>12. TypeOK
  <2>1. irq \in BOOLEAN /\ inIrq \in BOOLEAN /\ stamp \in Times \cup {-1}
    BY <1>1, Zenon
  <2>2. lag \in 0 .. Latency /\ pause \in 0 .. MaxPause
    BY <1>1, Widths
  <2>3. \A i, j \in DOMAIN queue : queue[i] = queue[j] => i = j
    BY <1>8
  <2>4. QED
    BY <1>2, <1>4, <1>8, <1>10, <1>11, <2>1, <2>2, <2>3, Zenon DEF TypeOK
<1>13. StampTimed /\ ReadYoung /\ Ordered
  BY <1>1, <1>4, <1>7, <1>8, Widths DEF StampTimed, ReadYoung, Ordered
<1>14. InTime /\ Awaited
  BY <1>1, <1>7, <1>8, <1>11, Widths DEF InTime, Awaited
<1>15. QED
  BY <1>12, <1>13, <1>14 DEF IInv

\* What a step that neither moves time nor touches the stamp keeps: the types of
\* what it leaves alone, and the place of the stamp.
LEMMA KeptByThread ==
  ASSUME IInv, UNCHANGED <<now, time_stamp, timerVars, irqVars>>,
         stamp' \in Times \cup {-1}, pause' \in 0 .. MaxPause, ReadYoung'
  PROVE  IInv'
<1>1. UNCHANGED <<now, time_stamp, queue, deadline, counter, irq, inIrq, lag>>
  BY Zenon DEF timerVars, irqVars
<1>2. TypeOK' /\ StampTimed' /\ Ordered' /\ InTime' /\ Awaited'
  BY <1>1 DEF IInv, TypeOK, StampTimed, Ordered, InTime, Awaited, Left, Age
<1>3. QED
  BY <1>2 DEF IInv

\* time_now in the thread: the first read.
LEMMA ReadStampIInv == IInv /\ ReadStamp => IInv'
<1> SUFFICES ASSUME IInv, ReadStamp PROVE IInv'
  OBVIOUS
<1>1. UNCHANGED <<now, time_stamp, timerVars, irqVars>> /\ stamp' = time_stamp /\ pause' = 0
  BY Zenon DEF ReadStamp
<1>2. time_stamp \in Times /\ MaxPause \in Nat
  BY Widths DEF IInv, TypeOK
<1>3. Age(time_stamp) <= Period + Latency + 2 + 0
  BY Reliable, Widths
<1>4. ReadYoung'
  BY <1>1, <1>3 DEF ReadYoung, Age
<1>5. QED
  BY <1>1, <1>2, <1>4, KeptByThread

\* time_now in the thread: the second read.
LEMMA ReadStkIInv == IInv /\ ReadStk => IInv'
<1> SUFFICES ASSUME IInv, ReadStk PROVE IInv'
  OBVIOUS
<1>1. UNCHANGED <<now, time_stamp, timerVars, irqVars>> /\ stamp' = -1 /\ pause' = 0
  BY Zenon DEF ReadStk
<1>2. MaxPause \in Nat
  BY Widths
<1>3. ReadYoung'
  BY <1>1 DEF ReadYoung
<1>4. QED
  BY <1>1, <1>2, <1>3, KeptByThread

\* The same, of any timer that is in the list.
LEMMA ListedSound ==
  ASSUME IInv
  PROVE  \A u : Listed(queue, u) =>
           /\ u \in Timers /\ Left(u) \in Int
           /\ Left(u) >= -(2 + lag) /\ Left(Head(queue)) <= Left(u)
<1> SUFFICES ASSUME NEW i \in DOMAIN queue
             PROVE  LET u == queue[i] IN
                      /\ u \in Timers /\ Left(u) \in Int
                      /\ Left(u) >= -(2 + lag) /\ Left(Head(queue)) <= Left(u)
  BY Zenon DEF Listed
<1>1. QED
  BY Reliable, Zenon

\* timer_set by a caller other than the stamp's.
LEMMA SetIInv == ASSUME NEW t \in Others PROVE IInv /\ Set(t) => IInv'
<1> SUFFICES ASSUME IInv, Set(t) PROVE IInv'
  OBVIOUS
<1>1. PICK a \in Aheads :
        TimerSet(queue, t, (now + a) % TimeSize, TimeNow(time_stamp))
  BY Zenon DEF Set
<1>2. UNCHANGED <<now, time_stamp, irq, inIrq, lag, stamp, pause>>
  BY Zenon DEF Set, irqVars, readVars
<1>3. a \in Nat /\ 2 * a < TimeSize /\ t \in Timers /\ t # StampTimer
  BY SystemTimeAssumption DEF Timers
<1> DEFINE d == (now + a) % TimeSize
<1>4. now \in Times /\ queue \in Seq(Timers) /\ deadline \in [Timers -> Times]
      /\ counter \in 0 .. MaxTicks
  BY DEF IInv, TypeOK
<1>5. d \in Times /\ TimeDiff(now, d) = a
  BY <1>3, <1>4, DiffAhead
<1> HIDE DEF d
<1>6. TimeNow(time_stamp) = now /\ Distinct(queue) /\ Sorted(queue, deadline, now)
  BY Reliable, Zenon
<1>7. TimerSet(queue, t, d, now)
  BY <1>1, <1>6 DEF d
<1>8. /\ queue' \in Seq(Timers) /\ Distinct(queue') /\ Sorted(queue', deadline', now)
      /\ deadline' = [deadline EXCEPT ![t] = d]
      /\ \A u : Listed(queue', u) <=> u = t \/ Listed(queue, u)
      /\ queue' # <<>> /\ Head(queue') = queue'[1]
      /\ \/ Head(queue') = t /\ counter' = Ticks(TimeDiff(now, d))
         \/ Head(queue') # t /\ counter' = counter
  BY <1>3, <1>4, <1>5, <1>6, <1>7, TimerSetSound
<1>9. deadline' \in [Timers -> Times] /\ deadline'[t] = d
      /\ \A u \in Timers : u # t => deadline'[u] = deadline[u]
  BY <1>3, <1>4, <1>5, <1>8
<1> DEFINE Then(u) == TimeDiff(now', deadline'[u])
<1>10. Then(t) = a /\ \A u \in Timers : u # t => Then(u) = Left(u)
  BY <1>2, <1>5, <1>9 DEF Left
<1>11. Ticks(a) \in 1 .. a + 2 /\ Ticks(a) \in 0 .. MaxTicks
  BY <1>3, TicksBound
<1>12. TypeOK'
  <2>1. now' \in Times /\ time_stamp' \in Times /\ irq' \in BOOLEAN /\ inIrq' \in BOOLEAN
        /\ lag' \in 0 .. Latency /\ stamp' \in Times \cup {-1} /\ pause' \in 0 .. MaxPause
    BY <1>2, Zenon DEF IInv, TypeOK
  <2>2. counter' \in 0 .. MaxTicks
    BY <1>4, <1>5, <1>8, <1>11
  <2>3. QED
    BY <1>8, <1>9, <2>1, <2>2, Zenon DEF TypeOK, Distinct
<1>13. StampTimed'
  <2>1. Listed(queue, StampTimer)
    BY Zenon DEF IInv, StampTimed, Listed
  <2>2. Listed(queue', StampTimer)
    BY <1>8, <2>1, Zenon
  <2>3. Left(StampTimer)' = Left(StampTimer)
    BY <1>3, <1>10 DEF Timers, Left
  <2>4. Age(time_stamp)' = Age(time_stamp)
    BY <1>2 DEF Age
  <2>5. Age(time_stamp) + Left(StampTimer) = Period
    BY DEF IInv, StampTimed
  <2>6. QED
    BY <2>2, <2>3, <2>4, <2>5 DEF StampTimed, Listed
<1>14. ReadYoung'
  BY <1>2 DEF IInv, ReadYoung, Age
<1>15. Ordered'
  BY <1>2, <1>8 DEF Ordered, Left, Sorted
<1>16. \A i \in DOMAIN queue' : queue'[i] \in Timers /\ Listed(queue', queue'[i])
  <2>1. \A i \in DOMAIN queue' : queue'[i] \in Timers
    BY <1>8
  <2>2. QED
    BY <2>1, Zenon DEF Listed
<1>17. \A u : Listed(queue, u) => /\ u \in Timers /\ Left(u) \in Int
                                 /\ Left(u) >= -(2 + lag) /\ Left(Head(queue)) <= Left(u)
  BY ListedSound, Zenon
<1>18. InTime'
  <2> SUFFICES ASSUME NEW i \in DOMAIN queue' PROVE Then(queue'[i]) >= -(2 + lag')
    BY DEF InTime, Left
  <2> DEFINE u == queue'[i]
  <2>1. u \in Timers /\ (u = t \/ Listed(queue, u))
    BY <1>8, <1>16, Zenon
  <2>2. Then(u) >= -(2 + lag')
    <3>1. lag' = lag /\ lag \in Nat
      BY <1>2, Reliable
    <3> HIDE DEF Then, u
    <3>2. CASE u = t
      BY <3>1, <3>2, <1>3, <1>10
    <3>3. CASE u # t
      BY <3>1, <3>3, <2>1, <1>10, <1>17
    <3>4. QED
      BY <3>2, <3>3
  <2>3. QED
    BY <2>2
<1>19. Awaited'
  <2> SUFFICES ASSUME ~irq', ~inIrq'
               PROVE  lag' = 0 /\ counter' > 0 /\ counter' <= Then(Head(queue')) + 2
    BY DEF Awaited, Left
  <2>1. lag = 0 /\ counter > 0 /\ counter <= Left(Head(queue)) + 2
    BY <1>2 DEF IInv, Awaited
  <2>2. CASE Head(queue') = t /\ counter' = Ticks(TimeDiff(now, d))
    <3>1. Then(Head(queue')) = a
      BY <2>2, <1>10
    <3>2. QED
      BY <3>1, <2>1, <2>2, <1>2, <1>3, <1>5, <1>11
  <2>3. CASE Head(queue') # t /\ counter' = counter
    <3> DEFINE h == Head(queue')
    <3>1. h \in Timers /\ Listed(queue, h)
      <4>1. 1 \in DOMAIN queue'
        BY <1>8
      <4>2. h = queue'[1] /\ Listed(queue', h)
        BY <4>1, <1>8, <1>16, Zenon
      <4>3. QED
        BY <4>1, <4>2, <2>3, <1>8, <1>16, Zenon
    <3>2. Then(h) = Left(h) /\ Left(h) \in Int /\ Left(Head(queue)) <= Left(h)
      BY <3>1, <2>3, <1>10, <1>17
    <3>3. Left(Head(queue)) \in Int
      BY Reliable, Zenon
    <3>4. QED
      BY <3>2, <3>3, <2>1, <2>3, <1>2, <1>4 DEF MaxTicks
  <2>4. QED
    BY <2>2, <2>3, <1>8
<1>20. QED
  BY <1>12, <1>13, <1>14, <1>15, <1>18, <1>19 DEF IInv

\* A list that loses a timer other than the stamp's is in order, and whatever heads
\* it is not due before the interrupt that the old head has.
LEMMA KeptWithout ==
  ASSUME IInv, NEW t \in Others, queue' \in Seq(Timers), Distinct(queue'),
         Sorted(queue', deadline, now),
         \A u : Listed(queue', u) <=> u # t /\ Listed(queue, u),
         deadline' = [deadline EXCEPT ![t] = 0],
         UNCHANGED <<now, time_stamp, counter, irqVars, readVars>>
  PROVE  IInv'
<1>1. UNCHANGED <<now, time_stamp, counter, irq, inIrq, lag, stamp, pause>>
  BY Zenon DEF irqVars, readVars
<1>2. t \in Timers /\ t # StampTimer /\ 0 \in Times /\ deadline \in [Timers -> Times]
  BY SystemTimeAssumption, Widths DEF Timers, Times, IInv, TypeOK
<1>3. deadline' \in [Timers -> Times]
      /\ \A u \in Timers : u # t => deadline'[u] = deadline[u]
  BY <1>2
<1> DEFINE Then(u) == TimeDiff(now', deadline'[u])
<1>4. \A u \in Timers : u # t => Then(u) = Left(u)
  BY <1>1, <1>3 DEF Left
<1>5. \A u : Listed(queue', u) =>
        /\ u \in Timers /\ Then(u) = Left(u) /\ Left(u) \in Int
        /\ Left(u) >= -(2 + lag) /\ Left(Head(queue)) <= Left(u)
  BY <1>4, ListedSound, Zenon
<1>6. \A i \in DOMAIN queue' : Listed(queue', queue'[i])
  BY Zenon DEF Listed
<1>7. TypeOK'
  <2>1. now' \in Times /\ time_stamp' \in Times /\ irq' \in BOOLEAN /\ inIrq' \in BOOLEAN
        /\ lag' \in 0 .. Latency /\ stamp' \in Times \cup {-1} /\ pause' \in 0 .. MaxPause
        /\ counter' \in 0 .. MaxTicks
    BY <1>1, Zenon DEF IInv, TypeOK
  <2>2. QED
    BY <1>3, <2>1, Zenon DEF TypeOK, Distinct
<1>8. Listed(queue', StampTimer)
  <2>1. Listed(queue, StampTimer)
    BY Zenon DEF IInv, StampTimed, Listed
  <2>2. QED
    BY <1>2, <2>1, Zenon
<1>9. StampTimed'
  <2>1. Left(StampTimer)' = Left(StampTimer)
    BY <1>2, <1>4 DEF Timers, Left
  <2>2. Age(time_stamp)' = Age(time_stamp)
    BY <1>1 DEF Age
  <2>3. Age(time_stamp) + Left(StampTimer) = Period
    BY DEF IInv, StampTimed
  <2>4. QED
    BY <1>8, <2>1, <2>2, <2>3 DEF StampTimed, Listed
<1>10. ReadYoung'
  BY <1>1 DEF IInv, ReadYoung, Age
<1>11. Ordered'
  <2> SUFFICES ASSUME NEW i \in DOMAIN queue', NEW j \in DOMAIN queue', i < j
               PROVE  Then(queue'[i]) <= Then(queue'[j])
    BY DEF Ordered, Left
  <2>1. Left(queue'[i]) <= Left(queue'[j])
    BY DEF Sorted, Left
  <2>2. Then(queue'[i]) = Left(queue'[i]) /\ Then(queue'[j]) = Left(queue'[j])
    BY <1>5, <1>6, Zenon
  <2> HIDE DEF Then
  <2>3. QED
    BY <2>1, <2>2, Zenon
<1>12. InTime'
  <2> SUFFICES ASSUME NEW i \in DOMAIN queue' PROVE Then(queue'[i]) >= -(2 + lag')
    BY DEF InTime, Left
  <2>1. Then(queue'[i]) = Left(queue'[i]) /\ Left(queue'[i]) >= -(2 + lag)
    BY <1>5, <1>6, Zenon
  <2> HIDE DEF Then
  <2>2. QED
    BY <2>1, <1>1
<1>13. Awaited'
  <2> SUFFICES ASSUME ~irq', ~inIrq'
               PROVE  lag' = 0 /\ counter' > 0 /\ counter' <= Then(Head(queue')) + 2
    BY DEF Awaited, Left
  <2> DEFINE h == Head(queue')
  <2>1. lag = 0 /\ counter > 0 /\ counter <= Left(Head(queue)) + 2
    BY <1>1 DEF IInv, Awaited
  <2>2. Listed(queue', h)
    <3>1. PICK i \in DOMAIN queue' : queue'[i] = StampTimer
      BY <1>8 DEF Listed
    <3>2. 1 \in DOMAIN queue' /\ h = queue'[1]
      BY <3>1
    <3>3. QED
      BY <3>2, <1>6, Zenon
  <2>3. Then(h) = Left(h) /\ Left(h) \in Int /\ Left(Head(queue)) <= Left(h)
    BY <2>2, <1>5, Zenon
  <2>4. Left(Head(queue)) \in Int /\ counter \in 0 .. MaxTicks
    BY Reliable, Zenon DEF IInv, TypeOK
  <2> HIDE DEF Then, h
  <2>5. QED
    BY <2>1, <2>3, <2>4, <1>1 DEF h
<1>14. QED
  BY <1>7, <1>9, <1>10, <1>11, <1>12, <1>13 DEF IInv

\* timer_cancel.
LEMMA CancelIInv == ASSUME NEW t \in Others PROVE IInv /\ Cancel(t) => IInv'
<1> SUFFICES ASSUME IInv, Cancel(t) PROVE IInv'
  OBVIOUS
<1>1. /\ queue' = Without(queue, t) /\ deadline' = [deadline EXCEPT ![t] = 0]
      /\ UNCHANGED <<now, time_stamp, counter, irqVars, readVars>>
  BY Zenon DEF Cancel
<1>2. queue \in Seq(Timers) /\ t \in Timers
  BY DEF IInv, TypeOK, Timers
<1>3. Distinct(queue) /\ Sorted(queue, deadline, now)
  BY Reliable, Zenon
<1> DEFINE r == Without(queue, t)
<1>4. /\ r \in Seq(Timers) /\ Distinct(r) /\ Sorted(r, deadline, now)
      /\ \A i \in DOMAIN r : r[i] # t
      /\ \A i \in DOMAIN r : \E j \in DOMAIN queue : r[i] = queue[j]
      /\ \A i \in DOMAIN queue : queue[i] # t => \E j \in DOMAIN r : r[j] = queue[i]
  BY <1>2, <1>3, WithoutSorted, Zenon
<1> HIDE DEF r
<1>5. \A u : Listed(r, u) <=> u # t /\ Listed(queue, u)
  BY <1>4, ListedRest, Zenon
<1>6. queue' = r
  BY <1>1 DEF r
<1>7. QED
  BY <1>1, <1>4, <1>5, <1>6, KeptWithout, Zenon

\* The interrupt begins: what was awaited has come.
LEMMA IrqEnterIInv == IInv /\ IrqEnter => IInv'
<1> SUFFICES ASSUME IInv, IrqEnter PROVE IInv'
  OBVIOUS
<1>1. UNCHANGED <<now, time_stamp, queue, deadline, counter, lag, stamp, pause>>
      /\ irq' = FALSE /\ inIrq' = TRUE
  BY Zenon DEF IrqEnter, timerVars, readVars
<1>2. TypeOK'
  BY <1>1, Zenon DEF IInv, TypeOK
<1>3. StampTimed' /\ ReadYoung' /\ Ordered' /\ InTime' /\ Awaited'
  BY <1>1 DEF IInv, StampTimed, ReadYoung, Ordered, InTime, Awaited, Left, Age
<1>4. QED
  BY <1>2, <1>3 DEF IInv

\* The callback of time_stamp_timer: a stamp of now, and the timer a period ahead.
LEMMA StampUpdateIInv ==
  ASSUME IInv, inIrq, Head(queue) = StampTimer, StampUpdate,
         UNCHANGED <<now, irqVars, readVars>>
  PROVE  IInv'
<1>1. UNCHANGED <<now, irq, inIrq, lag, stamp, pause>>
  BY Zenon DEF irqVars, readVars
<1>2. /\ now \in Times /\ queue \in Seq(Timers) /\ deadline \in [Timers -> Times]
      /\ counter \in 0 .. MaxTicks
  BY DEF IInv, TypeOK
<1>3. /\ TimeNow(time_stamp) = now /\ Distinct(queue) /\ Sorted(queue, deadline, now)
      /\ queue # <<>> /\ lag \in 0 .. Latency
  BY Reliable, Zenon
<1> DEFINE d == (now + Period) % TimeSize
           r == Tail(queue)
<1>4. d \in Times /\ TimeDiff(now, d) = Period /\ Period \in Nat
  BY <1>2, DiffAhead, Widths
<1>5. time_stamp' = Not(now) /\ TimerSet(r, StampTimer, d, now)
  BY <1>3, Zenon DEF StampUpdate
<1> HIDE DEF d
<1>6. /\ r \in Seq(Timers) /\ Distinct(r) /\ Sorted(r, deadline, now)
      /\ \A i \in DOMAIN r : r[i] # Head(queue)
      /\ \A i \in DOMAIN r : \E j \in DOMAIN queue : r[i] = queue[j]
      /\ \A i \in DOMAIN queue : queue[i] # Head(queue) => \E j \in DOMAIN r : r[j] = queue[i]
  BY <1>2, <1>3, TailSorted, Zenon
<1> HIDE DEF r
<1>7. \A u : Listed(r, u) <=> u # Head(queue) /\ Listed(queue, u)
  BY <1>6, ListedRest, Zenon
<1>8. StampTimer \in Timers
  BY DEF Timers
<1>9. /\ queue' \in Seq(Timers) /\ Distinct(queue') /\ Sorted(queue', deadline', now)
      /\ deadline' = [deadline EXCEPT ![StampTimer] = d]
      /\ \A u : Listed(queue', u) <=> u = StampTimer \/ Listed(r, u)
      /\ \/ Head(queue') = StampTimer /\ counter' = Ticks(TimeDiff(now, d))
         \/ Head(queue') # StampTimer /\ counter' = counter
  BY <1>2, <1>3, <1>4, <1>5, <1>6, <1>8, TimerSetSound
<1>10. deadline' \in [Timers -> Times] /\ deadline'[StampTimer] = d
       /\ \A u \in Timers : u # StampTimer => deadline'[u] = deadline[u]
  BY <1>2, <1>4, <1>8, <1>9
<1> DEFINE Then(u) == TimeDiff(now', deadline'[u])
<1>11. Then(StampTimer) = Period
       /\ \A u \in Timers : u # StampTimer => Then(u) = Left(u)
  BY <1>1, <1>4, <1>10 DEF Left
<1>12. time_stamp' \in Times /\ Age(time_stamp)' = 0
  <2>1. Not(now) \in Times /\ Age(Not(now)) = 0
    BY <1>2, AgeZero
  <2>2. QED
    BY <2>1, <1>1, <1>5 DEF Age
<1>13. TypeOK'
  <2>1. now' \in Times /\ irq' \in BOOLEAN /\ inIrq' \in BOOLEAN
        /\ lag' \in 0 .. Latency /\ stamp' \in Times \cup {-1} /\ pause' \in 0 .. MaxPause
    BY <1>1, Zenon DEF IInv, TypeOK
  <2>2. Ticks(Period) \in 0 .. MaxTicks
    BY <1>4, TicksBound
  <2>3. counter' \in 0 .. MaxTicks
    BY <1>2, <1>4, <1>9, <2>2
  <2>4. QED
    BY <1>9, <1>10, <1>12, <2>1, <2>3, Zenon DEF TypeOK, Distinct
<1>14. StampTimed'
  <2>1. Listed(queue', StampTimer)
    BY <1>9, Zenon
  <2>2. Left(StampTimer)' = Period
    BY <1>11 DEF Left
  <2>3. QED
    BY <2>1, <2>2, <1>4, <1>12 DEF StampTimed, Listed
<1>15. ReadYoung'
  BY <1>1 DEF IInv, ReadYoung, Age
<1>16. Ordered'
  BY <1>1, <1>9 DEF Ordered, Left, Sorted
<1>17. InTime'
  <2> SUFFICES ASSUME NEW i \in DOMAIN queue' PROVE Then(queue'[i]) >= -(2 + lag')
    BY DEF InTime, Left
  <2> DEFINE u == queue'[i]
  <2>1. Listed(queue', u)
    BY Zenon DEF Listed
  <2>2. CASE u = StampTimer
    BY <2>2, <1>1, <1>3, <1>4, <1>11
  <2>3. CASE u # StampTimer
    <3>1. u \in Timers /\ Left(u) \in Int /\ Left(u) >= -(2 + lag)
      BY <2>1, <2>3, <1>7, <1>9, ListedSound, Zenon
    <3>2. Then(u) = Left(u)
      BY <3>1, <2>3, <1>11, Zenon
    <3> HIDE DEF Then, u
    <3>3. Then(u) >= -(2 + lag')
      BY <3>1, <3>2, <1>1
    <3>4. QED
      BY <3>3 DEF u
  <2>4. QED
    BY <2>2, <2>3
<1>18. Awaited'
  BY <1>1 DEF Awaited
<1>19. QED
  BY <1>13, <1>14, <1>15, <1>16, <1>17, <1>18 DEF IInv

\* IRQ_timer, the head being due: it leaves the list and its callback runs.
LEMMA IrqCallbackIInv == IInv /\ IrqCallback => IInv'
<1> SUFFICES ASSUME IInv, IrqCallback PROVE IInv'
  OBVIOUS
<1>1. UNCHANGED <<now, irqVars, readVars>> /\ inIrq
  BY Zenon DEF IrqCallback
<1>2. CASE Head(queue) = StampTimer
  BY <1>1, <1>2, StampUpdateIInv, Zenon DEF IrqCallback
<1>3. CASE Head(queue) # StampTimer
  <2> DEFINE t == Head(queue)
             r == Tail(queue)
  <2>1. /\ queue' = r /\ deadline' = [deadline EXCEPT ![t] = 0]
        /\ UNCHANGED <<time_stamp, counter>>
    BY <1>3, Zenon DEF IrqCallback
  <2>2. /\ queue \in Seq(Timers) /\ queue # <<>> /\ t \in Timers
        /\ Distinct(queue) /\ Sorted(queue, deadline, now)
    BY Reliable, Zenon DEF IInv, TypeOK
  <2>3. t \in Others
    BY <2>2, <1>3 DEF Timers
  <2>4. /\ r \in Seq(Timers) /\ Distinct(r) /\ Sorted(r, deadline, now)
        /\ \A i \in DOMAIN r : r[i] # t
        /\ \A i \in DOMAIN r : \E j \in DOMAIN queue : r[i] = queue[j]
        /\ \A i \in DOMAIN queue : queue[i] # t => \E j \in DOMAIN r : r[j] = queue[i]
    BY <2>2, TailSorted, Zenon
  <2> HIDE DEF r, t
  <2>5. \A u : Listed(r, u) <=> u # t /\ Listed(queue, u)
    BY <2>4, ListedRest, Zenon
  <2>6. UNCHANGED <<now, time_stamp, counter, irqVars, readVars>>
    BY <1>1, <2>1, Zenon
  <2>7. QED
    BY <2>1, <2>3, <2>4, <2>5, <2>6, KeptWithout, Zenon
<1>4. QED
  BY <1>2, <1>3

\* IRQ_timer, the head not being due: the timer is programmed for it.
LEMMA IrqExitIInv == IInv /\ IrqExit => IInv'
<1> SUFFICES ASSUME IInv, IrqExit PROVE IInv'
  OBVIOUS
<1>1. /\ UNCHANGED <<now, time_stamp, queue, deadline, irq, stamp, pause>>
      /\ counter' = Rearmed /\ inIrq' = FALSE /\ lag' = 0 /\ ~Due
  BY Zenon DEF IrqExit, readVars
<1> DEFINE l == Left(Head(queue))
<1>2. /\ queue # <<>> /\ TimeNow(time_stamp) = now /\ 1 \in DOMAIN queue
      /\ Head(queue) \in Timers /\ l \in Int
      /\ \A i \in DOMAIN queue : l <= Left(queue[i])
      /\ \A i \in DOMAIN queue : queue[i] \in Timers /\ Left(queue[i]) \in Int
  BY Reliable, Zenon
<1>3. Delta = l
  BY <1>2 DEF Delta, Left
<1> HIDE DEF l
<1>4. l > SlackTicks /\ SlackTicks \in Nat
  BY <1>1, <1>2, <1>3, SystemTimeAssumption DEF Due
<1>5. counter' = Ticks(l) /\ Ticks(l) \in 1 .. l + 2 /\ Ticks(l) \in 0 .. MaxTicks
  <2>1. l \in Nat
    BY <1>2, <1>4
  <2>2. counter' = Ticks(l)
    BY <1>1, <1>2, <1>3, Zenon DEF Rearmed
  <2>3. QED
    BY <2>1, <2>2, TicksBound
<1>6. TypeOK'
  <2>1. lag' \in 0 .. Latency
    BY <1>1, Widths
  <2>2. inIrq' \in BOOLEAN
    BY <1>1, Zenon
  <2>3. counter' \in 0 .. MaxTicks
    BY <1>5
  <2>4. QED
    BY <1>1, <2>1, <2>2, <2>3, Zenon DEF IInv, TypeOK
<1>7. StampTimed' /\ ReadYoung' /\ Ordered'
  BY <1>1 DEF IInv, StampTimed, ReadYoung, Ordered, Left, Age
<1>8. InTime'
  <2> SUFFICES ASSUME NEW i \in DOMAIN queue PROVE Left(queue[i]) >= -(2 + 0)
    BY <1>1 DEF InTime, Left
  <2>1. l <= Left(queue[i]) /\ Left(queue[i]) \in Int
    BY <1>2, Zenon
  <2>2. QED
    BY <2>1, <1>2, <1>4
<1>9. Awaited'
  <2>1. counter' > 0 /\ counter' <= l + 2
    BY <1>2, <1>5
  <2>2. QED
    BY <2>1, <1>1 DEF Awaited, Left, l
<1>10. QED
  BY <1>6, <1>7, <1>8, <1>9 DEF IInv

\* A tick of time: every deadline is nearer by one, the stamp is older by one, and
\* the counter has one less to go.
LEMMA TickIInv == IInv /\ Tick => IInv'
<1> SUFFICES ASSUME IInv, Tick PROVE IInv'
  OBVIOUS
<1>1. /\ now' = (now + 1) % TimeSize
      /\ counter' = IF counter = 0 THEN 0 ELSE counter - 1
      /\ irq' = (irq \/ counter = 1)
      /\ IF irq \/ inIrq THEN lag < Latency /\ lag' = lag + 1 ELSE lag' = lag
      /\ IF stamp # -1 THEN pause < MaxPause /\ pause' = pause + 1 ELSE pause' = pause
      /\ UNCHANGED <<time_stamp, queue, deadline, inIrq, stamp>>
  BY DEF Tick
<1>2. /\ now \in Times /\ time_stamp \in Times /\ queue \in Seq(Timers)
      /\ deadline \in [Timers -> Times] /\ counter \in 0 .. MaxTicks
      /\ lag \in 0 .. Latency /\ stamp \in Times \cup {-1} /\ pause \in 0 .. MaxPause
      /\ irq \in BOOLEAN /\ inIrq \in BOOLEAN
  BY DEF IInv, TypeOK
<1>3. MaxTicks \in Nat
  BY SystemTimeAssumption DEF MaxTicks
<1> DEFINE Then(u) == TimeDiff(now', deadline'[u])
<1>4. ASSUME NEW i \in DOMAIN queue
      PROVE  Then(queue[i]) = Left(queue[i]) - 1 /\ now' \in Times
  <2>1. deadline[queue[i]] \in Times
    BY <1>2
  <2>2. Left(queue[i]) >= -(2 + lag) /\ Left(queue[i]) \in Int /\ lag \in 0 .. Latency
    BY Reliable, Zenon
  <2>3. 2 - TimeSize <= 2 * Left(queue[i])
    BY <2>2, Widths
  <2>4. QED
    BY <1>1, <1>2, <2>1, <2>3, DiffTick DEF Left
<1>5. PICK k \in DOMAIN queue : queue[k] = StampTimer
  BY DEF IInv, StampTimed
<1>6. now' \in Times /\ Left(StampTimer)' = Left(StampTimer) - 1
  BY <1>4, <1>5 DEF Left
<1>7. TypeOK'
  <2>1. counter' \in 0 .. MaxTicks
    BY <1>1, <1>2, <1>3
  <2>2. lag' \in 0 .. Latency /\ pause' \in 0 .. MaxPause
    BY <1>1, <1>2, Widths
  <2>3. irq' \in BOOLEAN
    BY <1>1, Zenon
  <2>4. QED
    BY <1>1, <1>2, <1>6, <2>1, <2>2, <2>3, Zenon DEF IInv, TypeOK
<1>8. StampTimed'
  <2>1. Age(time_stamp) \in 0 .. Period + Latency + 2
    BY Reliable, Zenon
  <2>2. Age(time_stamp) + 1 < TimeSize
    BY <2>1, Widths
  <2>3. Age(time_stamp)' = Age(time_stamp) + 1
    BY <1>1, <1>2, <2>2, AgeTick DEF Age
  <2>4. Age(time_stamp) + Left(StampTimer) = Period /\ Left(StampTimer) \in Int
    BY Reliable DEF IInv, StampTimed, Timers
  <2>5. Age(time_stamp)' + Left(StampTimer)' = Period
    BY <2>1, <2>3, <2>4, <1>6, Widths
  <2>6. QED
    BY <2>5, <1>1, <1>5 DEF StampTimed
<1>9. ReadYoung'
  <2> SUFFICES ASSUME stamp # -1 PROVE Age(stamp)' <= Period + Latency + 2 + pause'
    BY <1>1 DEF ReadYoung
  <2>1. Age(stamp) \in Nat
    BY Reliable, Zenon
  <2>2. Age(stamp) <= Period + Latency + 2 + pause
    BY DEF IInv, ReadYoung
  <2>3. pause < MaxPause /\ pause' = pause + 1
    BY <1>1
  <2>4. Age(stamp) + 1 < TimeSize /\ stamp \in Times
    BY <2>1, <2>2, <2>3, <1>2, Widths
  <2>5. Age(stamp)' = Age(stamp) + 1
    BY <1>1, <1>2, <2>4, AgeTick DEF Age
  <2>6. QED
    BY <2>1, <2>2, <2>3, <2>5, <1>2, Widths
<1>10. \A i \in DOMAIN queue : Left(queue[i]) \in Int
  BY Reliable, Zenon
<1>11. Ordered'
  <2> SUFFICES ASSUME NEW i \in DOMAIN queue, NEW j \in DOMAIN queue, i < j
               PROVE  Then(queue[i]) <= Then(queue[j])
    BY <1>1 DEF Ordered, Left
  <2>1. Left(queue[i]) <= Left(queue[j])
    BY DEF IInv, Ordered
  <2>2. Then(queue[i]) = Left(queue[i]) - 1 /\ Then(queue[j]) = Left(queue[j]) - 1
    BY <1>4
  <2> HIDE DEF Then
  <2>3. QED
    BY <2>1, <2>2, <1>10
<1>12. ~irq /\ ~inIrq =>
         lag = 0 /\ counter > 0 /\ counter <= Left(Head(queue)) + 2
  BY DEF IInv, Awaited
<1>13. /\ 1 \in DOMAIN queue /\ Head(queue) = queue[1] /\ Left(Head(queue)) \in Int
       /\ \A i \in DOMAIN queue : Left(Head(queue)) <= Left(queue[i])
       /\ \A i \in DOMAIN queue : Left(queue[i]) >= -(2 + lag)
  BY Reliable, Zenon
<1>14. InTime'
  <2> SUFFICES ASSUME NEW i \in DOMAIN queue PROVE Then(queue[i]) >= -(2 + lag')
    BY <1>1 DEF InTime, Left
  <2>1. Then(queue[i]) = Left(queue[i]) - 1
    BY <1>4
  <2>2. Left(queue[i]) \in Int /\ Left(queue[i]) >= -(2 + lag)
        /\ Left(Head(queue)) <= Left(queue[i])
    BY <1>10, <1>13, Zenon
  <2> HIDE DEF Then
  <2>3. CASE irq \/ inIrq
    BY <2>1, <2>2, <2>3, <1>1, <1>2
  <2>4. CASE ~irq /\ ~inIrq
    <3>1. lag' = 0 /\ counter > 0 /\ counter <= Left(Head(queue)) + 2
      BY <2>4, <1>1, <1>12
    <3>2. QED
      BY <3>1, <2>1, <2>2, <1>2, <1>3, <1>13
  <2>5. QED
    BY <2>3, <2>4
<1>15. Awaited'
  <2> SUFFICES ASSUME ~irq', ~inIrq'
               PROVE  lag' = 0 /\ counter' > 0 /\ counter' <= Then(Head(queue)) + 2
    BY <1>1 DEF Awaited, Left
  <2>1. ~irq /\ ~inIrq /\ counter # 1
    BY <1>1
  <2>2. Then(Head(queue)) = Left(Head(queue)) - 1
    BY <1>4, <1>13
  <2> HIDE DEF Then
  <2>3. QED
    BY <2>1, <2>2, <1>1, <1>2, <1>3, <1>12, <1>13
<1>16. QED
  BY <1>7, <1>8, <1>9, <1>11, <1>14, <1>15 DEF IInv

\* Every step keeps the invariant.
LEMMA NextIInv == IInv /\ [Next]_vars => IInv'
<1> SUFFICES ASSUME IInv, [Next]_vars PROVE IInv'
  OBVIOUS
<1>1. ASSUME NEW t \in Others, Set(t) PROVE IInv'
  BY <1>1, SetIInv
<1>2. ASSUME NEW t \in Others, Cancel(t) PROVE IInv'
  BY <1>2, CancelIInv
<1>3. CASE IrqEnter
  BY <1>3, IrqEnterIInv
<1>4. CASE IrqCallback
  BY <1>4, IrqCallbackIInv
<1>5. CASE IrqExit
  BY <1>5, IrqExitIInv
<1>6. CASE ReadStamp
  BY <1>6, ReadStampIInv
<1>7. CASE ReadStk
  BY <1>7, ReadStkIInv
<1>8. CASE Tick
  BY <1>8, TickIInv
<1>9. CASE UNCHANGED vars
  <2>1. UNCHANGED <<now, time_stamp, timerVars, irqVars>> /\ UNCHANGED <<stamp, pause>>
    BY <1>9, Zenon DEF vars, readVars
  <2>2. stamp' \in Times \cup {-1} /\ pause' \in 0 .. MaxPause
    BY <2>1, Zenon DEF IInv, TypeOK
  <2>3. ReadYoung'
    BY <2>1 DEF IInv, ReadYoung, Age
  <2>4. QED
    BY <2>1, <2>2, <2>3, KeptByThread
<1>10. QED
  BY <1>1, <1>2, <1>3, <1>4, <1>5, <1>6, <1>7, <1>8, <1>9, Zenon DEF Next

-----------------------------------------------------------------------------
(* The theorems *)

\* The invariant holds: the list and the registers have their types, the refresh of
\* the stamp is never overdue, and between interrupts the timer is programmed so that
\* the head of the list is not missed.
THEOREM Inductive == Spec => []IInv
<1>1. QED
  BY InitIInv, NextIInv, PTL DEF Spec

\* time_now tells the time, at every wrap of SysTick and of time_t, also to a thread
\* that interrupts hold up between its two reads.
THEOREM ClockIsTrue == Spec => []ClockTrue
<1>1. IInv => ClockTrue
  BY Reliable, Zenon DEF ClockTrue
<1>2. QED
  BY <1>1, Inductive, PTL

\* No timer is forgotten, whatever was set, cancelled or moved before it.
THEOREM NoneForgotten == Spec => []NotForgotten
<1>1. ASSUME IInv PROVE NotForgotten
  <2> SUFFICES ASSUME NEW i \in DOMAIN queue
               PROVE  Left(queue[i]) >= -(Latency + 2)
    BY DEF NotForgotten, Left
  <2>1. Left(queue[i]) >= -(2 + lag) /\ queue[i] \in Timers /\ lag \in 0 .. Latency
    BY <1>1, Reliable, Zenon
  <2>2. Left(queue[i]) \in Int
    BY <1>1, <2>1, Reliable, Zenon
  <2>3. QED
    BY <2>1, <2>2, Widths
<1>2. QED
  BY <1>1, Inductive, PTL

\* Callbacks run in the order of their deadlines.
THEOREM CallbacksInOrder == Spec => InOrder
<1>1. IInv => (IrqCallback => \A i \in DOMAIN queue :
        TimeDiff(now, deadline[Head(queue)]) <= TimeDiff(now, deadline[queue[i]]))
  BY Reliable DEF Left
<1>2. QED
  BY <1>1, Inductive, PTL DEF InOrder
=============================================================================
