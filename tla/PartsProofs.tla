----------------------------- MODULE PartsProofs -----------------------------
(***************************************************************************)
(* Proofs about five of the parts that MCParts runs side by side.         *)
(*                                                                         *)
(* The timer: for every width of the counter, every timeout and every      *)
(* pattern of calls that are less than a turn of the counter apart.        *)
(*                                                                         *)
(* The console: for every size of the ring, every width of its two         *)
(* counters and any texts, what is printed goes out in order, however      *)
(* handlers print and a crash comes between two characters.                *)
(*                                                                         *)
(* The display: for any texts and numbers and any number of missed bytes,  *)
(* it shows what was written last.                                         *)
(*                                                                         *)
(* Memory: for every size, block and alignment, every byte of a call ends  *)
(* where it belongs.  Qsort: for any number of items and any keys, they    *)
(* are put in order, and the stack stays small.                            *)
(***************************************************************************)
EXTENDS StkTimer, Console, Display, Memory, Qsort, FiniteSetTheorems, SequenceTheorems,
        NaturalsInduction, WellFoundedInduction, TLAPS

-----------------------------------------------------------------------------
(* The timer *)

\* A tick moves the difference by one, also when the counter goes round.
LEMMA DiffTick ==
  ASSUME TypeOK, gap < MaxGap, Diff = gap,
         stk' = IF stk = 0 THEN StkSize - 1 ELSE stk - 1, prev_stk' = prev_stk
  PROVE  Diff' = gap + 1
BY StkTimerAssumption DEF TypeOK, Diff, Counter

\* Differences of counter values are counter values (stk_diff).
LEMMA DiffType == ASSUME TypeOK PROVE Diff \in Nat
BY StkTimerAssumption DEF TypeOK, Diff, Counter

\* The accounting of the ticks is inductive.
THEOREM TimerInductive == Spec => []IInv
<1>1. Init => IInv
  <2> SUFFICES ASSUME Init PROVE IInv
    OBVIOUS
  <2>1. timeout \in Timeouts /\ timeout \in Nat /\ 0 < timeout /\ ticks = timeout
    BY StkTimerAssumption DEF Init
  <2>2. stk \in Counter /\ prev_stk = stk /\ fired = FALSE /\ elapsed = 0 /\ gap = 0
    BY DEF Init
  <2>3. Diff = 0
    BY <2>2 DEF Diff, Counter
  <2>4. elapsed \in Nat /\ gap \in 0 .. MaxGap
    BY <2>2, StkTimerAssumption
  <2>5. TypeOK
    BY <2>1, <2>2, <2>4, Zenon DEF TypeOK
  <2> QED
    BY <2>1, <2>2, <2>3, <2>5 DEF IInv, NeverEarly, Accounted, Spent
<1>2. IInv /\ [Next]_vars => IInv'
  <2> SUFFICES ASSUME IInv, [Next]_vars PROVE IInv'
    OBVIOUS
  <2>1. CASE InitTimer
    <3> PICK t \in Timeouts : ticks' = t /\ timeout' = t
      BY <2>1 DEF InitTimer
    <3>1. t \in Nat /\ 0 < t
      BY StkTimerAssumption
    <3>2. /\ stk' = stk /\ stk \in Counter /\ prev_stk' = stk
          /\ fired' = FALSE /\ elapsed' = 0 /\ gap' = 0
      BY <2>1 DEF InitTimer, IInv, TypeOK
    <3>3. Diff' = 0
      BY <3>2 DEF Diff, Counter
    <3>4. elapsed' \in Nat /\ gap' \in 0 .. MaxGap
      BY <3>2, StkTimerAssumption
    <3>5. TypeOK'
      BY <3>1, <3>2, <3>4 DEF TypeOK
    <3>6. gap' <= elapsed' /\ t + (elapsed' - gap') = t
      BY <3>1, <3>2
    <3> QED
      BY <3>1, <3>2, <3>3, <3>5, <3>6 DEF IInv, NeverEarly, Accounted, Spent
  <2>2. CASE TimerFired
    <3>1. TypeOK'
      BY <2>2, DiffType, StkTimerAssumption
      DEF TimerFired, Fires, NextPrev, IInv, TypeOK
    <3>2. CASE Fires
      <4>1. fired' = TRUE /\ ticks' = 0 /\ gap' = 0
        BY <2>2, <3>2 DEF TimerFired
      <4>2. elapsed >= timeout
        BY <3>2, DiffType DEF Fires, IInv, TypeOK, NeverEarly, Accounted
      <4> QED
        BY <2>2, <3>1, <4>1, <4>2
        DEF TimerFired, IInv, TypeOK, NeverEarly, Accounted, Spent
    <3>3. CASE ~Fires
      <4>1. /\ fired' = FALSE /\ gap' = 0 /\ prev_stk' = stk /\ stk' = stk
            /\ ticks' = ticks - Diff /\ elapsed' = elapsed /\ timeout' = timeout
        BY <2>2, <3>3 DEF TimerFired, NextPrev
      <4>2. ~fired
        BY <3>3, DiffType DEF Fires, IInv, TypeOK, Spent
      <4>3. Diff' = 0
        BY <4>1 DEF Diff, IInv, TypeOK, Counter
      <4>4. 0 < ticks' /\ ticks' + elapsed = timeout
        BY <3>3, <4>1, <4>2, DiffType DEF Fires, IInv, TypeOK, Accounted
      <4> QED
        BY <3>1, <4>1, <4>3, <4>4
        DEF IInv, TypeOK, NeverEarly, Accounted, Spent
    <3> QED
      BY <3>2, <3>3
  <2>3. CASE Tick
    <3>1. TypeOK'
      BY <2>3, StkTimerAssumption DEF Tick, IInv, TypeOK, Counter
    <3>2. ~fired => Diff' = gap + 1
      BY <2>3, DiffTick DEF Tick, IInv, Accounted
    <3>3. /\ fired' = fired /\ timeout' = timeout /\ ticks' = ticks
          /\ gap' = gap + 1 /\ elapsed' = elapsed + 1
      BY <2>3 DEF Tick
    <3>4. gap \in Nat /\ elapsed \in Nat /\ timeout \in Nat /\ ticks \in Nat
      BY StkTimerAssumption DEF IInv, TypeOK
    <3>5. gap' <= elapsed' /\ elapsed' - gap' = elapsed - gap
      BY <3>3, <3>4 DEF IInv
    <3>6. NeverEarly'
      BY <3>3, <3>4 DEF IInv, NeverEarly
    <3>7. Accounted' /\ Spent'
      BY <3>2, <3>3, <3>5 DEF IInv, Accounted, Spent
    <3> QED
      BY <3>1, <3>5, <3>6, <3>7 DEF IInv
  <2>4. CASE UNCHANGED vars
    BY <2>4 DEF vars, IInv, TypeOK, NeverEarly, Accounted, Spent, Diff, Counter
  <2> QED
    BY <2>1, <2>2, <2>3, <2>4 DEF Next
<1> QED
  BY <1>1, <1>2, PTL DEF Spec

\* USB_OTG_BSP_TimerFired and delay_ticks are exact to the calls they are made in.
THEOREM Exact == Spec => []Timely
<1>1. IInv => Timely
  BY DEF IInv, TypeOK, Accounted, Timely, NeverEarly, NeverLate
<1> QED
  BY <1>1, TimerInductive, PTL

-----------------------------------------------------------------------------
(* The console: its two counters *)

\* The constants one by one, as the lemmas use them.
LEMMA Sizes ==
  /\ RingSize \in Nat \ {0, 1} /\ Counters \in Nat \ {0} /\ RingSize < Counters
  /\ Counters = RingSize * (Counters \div RingSize) /\ Counters \div RingSize \in Nat
<1>1. /\ RingSize \in Nat /\ RingSize > 1 /\ Counters \in Nat /\ Counters % RingSize = 0
      /\ Counters > RingSize
  BY ConsoleAssumption
<1>2. QED
  BY <1>1

\* Whole turns make no difference to a position in the ring (MASK).
LEMMA WholeTurns ==
  ASSUME NEW N \in Nat \ {0}, NEW a \in Int, NEW m \in Int
  PROVE  (a + N * m) % N = a % N
<1> DEFINE b == a + N * m
           p == a \div N
           q == b \div N
           u == a % N
           v == b % N
<1>1. p \in Int /\ u \in 0 .. N - 1 /\ a = N * p + u
  OBVIOUS
<1>2. b \in Int /\ b = a + N * m
  OBVIOUS
<1>3. q \in Int /\ v \in 0 .. N - 1 /\ b = N * q + v
  <2> HIDE DEF b
  <2> QED BY <1>2
<1> SUFFICES u = v
  OBVIOUS
<1> HIDE DEF b, p, q, u, v
<1>4. v - u = N * (p + m - q)
  <2>1. N * (p + m - q) = N * p + N * m - N * q
    BY <1>1, <1>3
  <2>2. QED
    BY <2>1, <1>1, <1>2, <1>3
<1> DEFINE j == p + m - q
<1>5. j \in Int /\ v - u = N * j
  BY <1>1, <1>3, <1>4
<1> HIDE DEF j
<1>6. j >= 1 => N * j >= N
  BY <1>5
<1>7. j <= -1 => N * j <= -N
  BY <1>5
<1>8. j = 0
  BY <1>1, <1>3, <1>5, <1>6, <1>7
<1>9. QED
  BY <1>1, <1>3, <1>5, <1>8

\* The distance of two counters, also past the wrap (prod - cons, unsigned).
LEMMA Distance ==
  ASSUME NEW x \in 0 .. Counters - 1, NEW y \in 0 .. Counters - 1
  PROVE  /\ (y - x) % Counters = IF x <= y THEN y - x ELSE y - x + Counters
         /\ (y - x) % Counters \in 0 .. Counters - 1
BY Sizes

\* Distances are numbers, and only a counter itself has none from it.
LEMMA DistanceType ==
  \A x, y \in 0 .. Counters - 1 :
    (y - x) % Counters \in Nat /\ (x = y <=> (y - x) % Counters = 0)
<1> SUFFICES ASSUME NEW x \in 0 .. Counters - 1, NEW y \in 0 .. Counters - 1
             PROVE  (y - x) % Counters \in Nat /\ (x = y <=> (y - x) % Counters = 0)
  OBVIOUS
<1> QED BY Distance, Sizes

\* A counter that is moved on.
LEMMA MovedOn ==
  ASSUME NEW x \in 0 .. Counters - 1, NEW n \in 0 .. Counters - 1
  PROVE  /\ (x + n) % Counters = IF x + n < Counters THEN x + n ELSE x + n - Counters
         /\ (x + n) % Counters \in 0 .. Counters - 1
BY Sizes

\* Counters that differ by whole turns of themselves have the same place in the
\* ring, because its size divides their number.
LEMMA SamePlace ==
  ASSUME NEW x \in Int
  PROVE  /\ MASK(x + Counters) = MASK(x) /\ MASK(x - Counters) = MASK(x)
         /\ MASK(x) \in 0 .. RingSize - 1
<1> DEFINE q == Counters \div RingSize
<1>1. RingSize \in Nat \ {0} /\ q \in Nat /\ Counters = RingSize * q
  BY Sizes
<1> HIDE DEF q
<1>2. x + Counters = x + RingSize * q /\ x - Counters = x + RingSize * (-q)
  BY <1>1
<1>3. (x + RingSize * q) % RingSize = x % RingSize
      /\ (x + RingSize * (-q)) % RingSize = x % RingSize
  <2>1. \A m \in Int : (x + RingSize * m) % RingSize = x % RingSize
    BY <1>1, WholeTurns
  <2>2. q \in Int /\ -q \in Int
    BY <1>1
  <2>3. QED
    BY <2>1, <2>2
<1>4. x % RingSize \in 0 .. RingSize - 1
  BY <1>1
<1>5. QED
  BY <1>2, <1>3, <1>4 DEF MASK

\* Where the k-th of the characters that are not sent is, and how far that is past
\* prod: the next ones are staged from there on.
LEMMA PlaceInRing ==
  ASSUME cons \in 0 .. Counters - 1, prod \in 0 .. Counters - 1,
         Unsent < RingSize, NEW k \in Nat
  PROVE  (MASK(cons + k) - prod) % RingSize = (k - Unsent) % RingSize
<1> DEFINE i == MASK(cons + k)
           d == (cons + k) \div RingSize
           a == k - Unsent
<1>1. /\ RingSize \in Nat \ {0} /\ Unsent \in Nat /\ a \in Int /\ cons + k \in Nat
      /\ prod \in Nat
  BY Distance, Sizes DEF Unsent
<1>2. prod = cons + Unsent \/ prod = cons + Unsent - Counters
  BY Distance, Sizes DEF Unsent
<1>3. i = cons + k - RingSize * d /\ d \in Int /\ i \in Int
  BY <1>1 DEF MASK
<1>4. PICK q \in Nat : Counters = RingSize * q
  BY Sizes
<1>5. PICK m \in Int : prod = cons + Unsent - RingSize * m
  <2>1. CASE prod = cons + Unsent
    <3>1. prod = cons + Unsent - RingSize * 0
      BY <2>1, <1>1, Sizes
    <3>2. QED
      BY <3>1
  <2>2. CASE prod = cons + Unsent - Counters
    BY <2>2, <1>4
  <2>3. QED
    BY <1>2, <2>1, <2>2
<1> HIDE DEF i, d
<1>6. i - prod = (k - Unsent) + RingSize * (m - d)
  <2>1. RingSize * (m - d) = RingSize * m - RingSize * d
    BY <1>1, <1>3, <1>5
  <2>2. RingSize * m \in Int /\ RingSize * d \in Int /\ cons \in Int /\ k \in Int
    BY <1>1, <1>3, <1>5
  <2>3. QED
    BY <2>1, <2>2, <1>1, <1>3, <1>5
<1> HIDE DEF a
<1>7. \A b \in Int : (a + RingSize * b) % RingSize = a % RingSize
  BY <1>1, WholeTurns
<1>8. (i - prod) % RingSize = a % RingSize
  <2>1. m - d \in Int
    BY <1>3, <1>5
  <2>2. i - prod = a + RingSize * (m - d)
    BY <1>6 DEF a
  <2>3. QED
    BY <2>1, <2>2, <1>7
<1>9. QED
  BY <1>8 DEF a, i

-----------------------------------------------------------------------------
(* Staging *)

\* The order of the numbers, as a set of pairs.
LessThan == {s \in Nat \X Nat : s[1] < s[2]}

\* The numbers are well-founded, so that the loop has a first place to end.
LEMMA LessThanWellFounded == IsWellFoundedOn(LessThan, Nat)
<1>1. OpToRel(<, Nat) = LessThan
  BY DEF OpToRel, LessThan
<1>2. QED
  BY <1>1, NatLessThanWellFounded, Zenon

\* Every set of numbers has a least one.
LEMMA LeastNumber ==
  ASSUME NEW T \in SUBSET Nat, T # {}
  PROVE  \E x \in T : \A y \in T : x <= y
<1>1. PICK x \in T : \A y \in T : ~ (<<y, x>> \in LessThan)
  BY LessThanWellFounded, WFMin, Zenon
<1>2. ASSUME NEW y \in T PROVE x <= y
  <2>1. ~ (<<y, x>> \in LessThan)
    BY <1>1, Zenon
  <2>2. x \in Nat /\ y \in Nat
    OBVIOUS
  <2>3. QED
    BY <2>1, <2>2 DEF LessThan
<1>3. QED
  BY <1>2

\* A text is staged as at most two characters for each of its own, which is less
\* than the ring holds, wherever the loop ends.
LEMMA CountType ==
  ASSUME NEW text \in Texts \cup {LastWords}, ConsoleTypeOK
  PROVE  Count(text) \in Nat /\ Count(text) < RingSize
<1>1. text \in Seq(Letters) /\ Len(text) \in Nat /\ 2 * Len(text) <= RingSize - 2
  <2>1. 2 * Len(text) <= RingSize - 2
    BY ConsoleAssumption
  <2>2. text \in Seq(Letters)
    <3>1. CASE text \in Texts
      BY <3>1, ConsoleAssumption
    <3>2. CASE text = LastWords
      <4>1. "char" \in Letters /\ "nl" \in Letters
        BY DEF Letters
      <4>2. QED
        BY <3>2, <4>1 DEF LastWords
    <3>3. QED
      BY <3>1, <3>2
  <2>3. Len(text) \in Nat
    BY <2>2
  <2>4. QED
    BY <2>1, <2>2, <2>3
<1>2. \A k \in 0 .. Len(text) : Pushes(text, k) \in 0 .. 2 * k
  <2> TAKE k \in 0 .. Len(text)
  <2>1. IsFiniteSet(1 .. k) /\ Cardinality(1 .. k) = k
    BY FS_Interval
  <2>2. ASSUME NEW T \in SUBSET (1 .. k) PROVE Cardinality(T) \in 0 .. k
    <3>1. IsFiniteSet(T) /\ Cardinality(T) <= k
      BY <2>1, FS_Subset
    <3>2. Cardinality(T) \in Nat
      BY <3>1, FS_CardinalityType
    <3>3. QED
      BY <3>1, <3>2
  <2>3. /\ Cardinality({i \in 1 .. k : text[i] # "cr"}) \in 0 .. k
        /\ Cardinality({i \in 1 .. k : text[i] = "nl"}) \in 0 .. k
    BY <2>2
  <2>4. QED
    BY <2>3 DEF Pushes
<1>3. Min(Stops(text)) \in 0 .. Len(text)
  <2>1. Stops(text) \in SUBSET Nat /\ Stops(text) # {}
    BY <1>1 DEF Stops
  <2>2. \E x \in Stops(text) : \A y \in Stops(text) : x <= y
    BY <2>1, LeastNumber
  <2>3. Min(Stops(text)) \in Stops(text)
    BY <2>2 DEF Min
  <2>4. QED
    BY <2>3 DEF Stops
<1>4. Count(text) \in 0 .. 2 * Min(Stops(text))
  BY <1>2, <1>3 DEF Count
<1>5. QED
  BY <1>1, <1>3, <1>4, Sizes

\* What is staged follows what is in the ring, and nothing of that is lost unless
\* the ring is overrun.
LEMMA Staged ==
  ASSUME NEW text \in Texts \cup {LastWords}, ConsoleTypeOK, Window,
         Unsent + Count(text) < RingSize
  PROVE  LET s == Staging(text)
             n == Unsent + Count(text)
         IN /\ (s.prod - cons) % Counters = n /\ n <= s.staged
            /\ s.staged - n = staged - Unsent
            /\ \A k \in 0 .. n - 1 : s.ring[MASK(cons + k)] = staged - Unsent + k
<1> DEFINE c == Count(text)
           n == Unsent + c
           s == Staging(text)
<1>1. c \in Nat /\ Unsent \in Nat /\ n < RingSize /\ Unsent <= staged /\ staged \in Nat
      /\ RingSize < Counters
      /\ cons \in 0 .. Counters - 1 /\ prod \in 0 .. Counters - 1
      /\ c \in 0 .. Counters - 1 /\ Unsent < RingSize
  <2>1. cons \in 0 .. Counters - 1 /\ prod \in 0 .. Counters - 1 /\ staged \in Nat
    BY DEF ConsoleTypeOK
  <2>2. c \in Nat /\ c < RingSize
    BY CountType
  <2>3. Unsent \in Nat
    BY <2>1, Distance, Sizes DEF Unsent
  <2>4. Unsent <= staged /\ Unsent < RingSize
    BY DEF Window
  <2>5. n < RingSize
    OBVIOUS
  <2> HIDE DEF c, n
  <2>6. QED
    BY <2>1, <2>2, <2>3, <2>4, <2>5, Sizes
<1>2. s.prod = (prod + c) % Counters /\ s.staged = staged + c
  BY DEF Staging
<1>3. \A i \in 0 .. RingSize - 1 :
        s.ring[i] = IF (i - prod) % RingSize < c THEN staged + ((i - prod) % RingSize)
                                                 ELSE ring[i]
  BY DEF Staging
<1> HIDE DEF c, s
<1>4. (s.prod - cons) % Counters = n
  <2>1. s.prod = (IF prod + c < Counters THEN prod + c ELSE prod + c - Counters)
        /\ s.prod \in 0 .. Counters - 1
    <3>1. \A m \in 0 .. Counters - 1 :
            /\ (prod + m) % Counters = IF prod + m < Counters THEN prod + m ELSE prod + m - Counters
            /\ (prod + m) % Counters \in 0 .. Counters - 1
      BY <1>1, MovedOn
    <3>2. QED
      BY <1>1, <1>2, <3>1
  <2>2. Unsent = IF cons <= prod THEN prod - cons ELSE prod - cons + Counters
    BY <1>1, Distance DEF Unsent
  <2>3. (s.prod - cons) % Counters
          = IF cons <= s.prod THEN s.prod - cons ELSE s.prod - cons + Counters
    BY <1>1, <2>1, Distance
  <2>4. QED
    BY <1>1, <2>1, <2>2, <2>3, Sizes
<1>5. ASSUME NEW k \in 0 .. n - 1 PROVE s.ring[MASK(cons + k)] = staged - Unsent + k
  <2> DEFINE i == MASK(cons + k)
             j == (i - prod) % RingSize
  <2>1. i \in 0 .. RingSize - 1
    BY <1>1, SamePlace
  <2>2. j = (k - Unsent) % RingSize
    <3>1. k \in Nat
      BY <1>1
    <3>2. QED
      BY <3>1, <1>1, PlaceInRing
  <2>3. s.ring[i] = IF j < c THEN staged + j ELSE ring[i]
    BY <1>3, <2>1
  <2> HIDE DEF i, j
  <2>4. CASE k < Unsent
    <3>1. j = k - Unsent + RingSize
      <4>1. k - Unsent \in -RingSize + 1 .. -1 /\ RingSize \in Nat \ {0}
        BY <1>1, <2>4, Sizes
      <4>2. QED
        BY <2>2, <4>1
    <3>2. ring[i] = staged - Unsent + k
      BY <1>1, <2>4 DEF Window, i
    <3>3. QED
      BY <1>1, <2>3, <2>4, <3>1, <3>2, Sizes DEF i
  <2>5. CASE k >= Unsent
    <3>1. j = k - Unsent
      <4>1. k - Unsent \in 0 .. RingSize - 1 /\ RingSize \in Nat \ {0}
        BY <1>1, <2>5, Sizes
      <4>2. QED
        BY <2>2, <4>1
    <3>2. QED
      BY <1>1, <2>3, <2>5, <3>1 DEF i
  <2>6. QED
    BY <1>1, <2>4, <2>5
<1>6. QED
  BY <1>1, <1>2, <1>4, <1>5 DEF s, c

\* Staging keeps the types.
LEMMA StagedType ==
  ASSUME NEW text \in Texts \cup {LastWords}, ConsoleTypeOK
  PROVE  LET s == Staging(text)
         IN /\ s.ring \in [0 .. RingSize - 1 -> Nat] /\ s.prod \in 0 .. Counters - 1
            /\ s.staged \in Nat
<1> DEFINE n == Count(text)
<1>1. n \in Nat /\ n \in 0 .. Counters - 1 /\ staged \in Nat /\ prod \in 0 .. Counters - 1
      /\ ring \in [0 .. RingSize - 1 -> Nat]
  <2>1. n \in Nat /\ n < RingSize
    BY CountType
  <2>2. staged \in Nat /\ prod \in 0 .. Counters - 1 /\ ring \in [0 .. RingSize - 1 -> Nat]
    BY DEF ConsoleTypeOK
  <2> HIDE DEF n
  <2>3. QED
    BY <2>1, <2>2, Sizes
<1> HIDE DEF n
<1>2. (prod + n) % Counters \in 0 .. Counters - 1
  BY <1>1, MovedOn
<1>3. ASSUME NEW i \in 0 .. RingSize - 1
      PROVE  (IF (i - prod) % RingSize < n THEN staged + ((i - prod) % RingSize)
                                           ELSE ring[i]) \in Nat
  <2>1. (i - prod) % RingSize \in Nat
    BY <1>1, Sizes
  <2>2. ring[i] \in Nat
    BY <1>1
  <2>3. QED
    BY <1>1, <2>1, <2>2
<1>4. QED
  BY <1>1, <1>2, <1>3 DEF Staging, n

-----------------------------------------------------------------------------
(* What goes out *)

\* What flush_ring_to_serial sends is read from the ring.
LEMMA RingFromType ==
  ASSUME NEW r \in [0 .. RingSize - 1 -> Nat],
         NEW c \in 0 .. Counters - 1, NEW p \in 0 .. Counters - 1
  PROVE  /\ RingFrom(r, c, p) \in Seq(Nat) /\ Len(RingFrom(r, c, p)) = (p - c) % Counters
         /\ \A i \in 1 .. (p - c) % Counters : RingFrom(r, c, p)[i] = r[MASK(c + i - 1)]
<1> DEFINE n == (p - c) % Counters
<1>1. n \in Nat
  BY Distance
<1> HIDE DEF n
<1>2. ASSUME NEW i \in 1 .. n PROVE r[MASK(c + i - 1)] \in Nat
  <2>1. c + i - 1 \in Int
    OBVIOUS
  <2>2. MASK(c + i - 1) \in 0 .. RingSize - 1
    BY <2>1, SamePlace
  <2>3. QED
    BY <2>2
<1>3. RingFrom(r, c, p) = [i \in 1 .. n |-> r[MASK(c + i - 1)]]
  BY DEF RingFrom, n
<1> DEFINE f == [i \in 1 .. n |-> r[MASK(c + i - 1)]]
<1>4. f \in Seq(Nat) /\ Len(f) = n /\ \A i \in 1 .. n : f[i] = r[MASK(c + i - 1)]
  BY <1>1, <1>2
<1>5. QED
  BY <1>3, <1>4 DEF n

\* Where an item behind the first of the second part of a sequence is.
LEMMA PlaceBehind ==
  ASSUME NEW i \in Int, NEW n \in Nat, NEW m \in Nat, i > n + 1, i <= n + m
  PROVE  i - n \in 1 .. m /\ i - 1 - n \in 1 .. m /\ i - 1 \in 1 .. i - 1
OBVIOUS

\* Every character but the first comes after the one before it.
Chain(S) == \A i \in DOMAIN S : S[i] = 0 \/ \E j \in 1 .. i - 1 : S[j] = S[i] - 1

\* R is the m characters from w on, and the one before w is in S.
CarriesOn(S, w, m, R) ==
  /\ S \in Seq(Nat) /\ Chain(S) /\ w \in Nat /\ m \in Nat
  /\ w = 0 \/ \E i \in DOMAIN S : S[i] = w - 1
  /\ R \in Seq(Nat) /\ Len(R) = m /\ \A i \in 1 .. m : R[i] = w + i - 1

\* Sending the characters from w on, after the one before w went out.
LEMMA ChainGrows ==
  ASSUME NEW S, NEW w, NEW m, NEW R, CarriesOn(S, w, m, R)
  PROVE  /\ Chain(S \o R)
         /\ w + m > 0 => \E i \in DOMAIN (S \o R) : (S \o R)[i] = w + m - 1
<1> USE DEF CarriesOn
<1> DEFINE T == S \o R
           n == Len(S)
<1>1. /\ T \in Seq(Nat) /\ n \in Nat /\ DOMAIN S = 1 .. n
      /\ DOMAIN T = 1 .. n + m
      /\ \A i \in 1 .. n : T[i] = S[i]
      /\ \A i \in 1 .. m : T[n + i] = w + i - 1
  <2>1. T \in Seq(Nat) /\ Len(T) = n + m /\ n \in Nat /\ DOMAIN S = 1 .. n
    <3>1. S \o R \in Seq(Nat) /\ Len(S \o R) = Len(S) + Len(R)
      BY ConcatProperties, Zenon
    <3>2. Len(S) \in Nat /\ DOMAIN S = 1 .. Len(S)
      BY LenProperties, Zenon
    <3>3. QED
      BY <3>1, <3>2
  <2>2. \A i \in 1 .. n + m : T[i] = IF i <= n THEN S[i] ELSE R[i - n]
    <3>1. \A i \in 1 .. Len(S) + Len(R) :
            (S \o R)[i] = IF i <= Len(S) THEN S[i] ELSE R[i - Len(S)]
      BY ConcatProperties, Zenon
    <3>2. QED
      BY <3>1
  <2> HIDE DEF T, n
  <2>3. DOMAIN T = 1 .. n + m
    BY <2>1
  <2>4. ASSUME NEW i \in 1 .. m PROVE T[n + i] = w + i - 1
    <3>1. n + i \in 1 .. n + m /\ ~ n + i <= n /\ (n + i) - n = i
      BY <2>1
    <3>2. T[n + i] = R[(n + i) - n]
      BY <2>2, <3>1
    <3>3. QED
      BY <3>1, <3>2
  <2>5. ASSUME NEW i \in 1 .. n PROVE T[i] = S[i]
    BY <2>1, <2>2
  <2>6. QED
    BY <2>1, <2>3, <2>4, <2>5
<1> HIDE DEF T, n
<1>2. ASSUME NEW i \in DOMAIN T PROVE T[i] = 0 \/ \E j \in 1 .. i - 1 : T[j] = T[i] - 1
  <2>1. CASE i <= n
    <3>1. i \in DOMAIN S /\ T[i] = S[i] /\ \A j \in 1 .. i - 1 : T[j] = S[j]
      BY <1>1, <2>1
    <3>2. QED
      BY <3>1 DEF Chain
  <2>2. CASE i = n + 1
    <3>1. T[i] = w
      <4>1. 1 \in 1 .. m
        BY <1>1, <2>2
      <4>2. T[n + 1] = w + 1 - 1
        BY <1>1, <4>1
      <4>3. QED
        BY <4>2, <2>2
    <3>2. ASSUME NEW j \in DOMAIN S, S[j] = w - 1 PROVE j \in 1 .. i - 1 /\ T[j] = T[i] - 1
      BY <1>1, <2>2, <3>1, <3>2
    <3>3. QED
      BY <3>1, <3>2
  <2>3. CASE i > n + 1
    <3>1. i - n \in 1 .. m /\ i - 1 - n \in 1 .. m /\ i - 1 \in 1 .. i - 1 /\ i \in Int
      <4>1. i \in 1 .. n + m /\ n \in Nat
        BY <1>1
      <4>2. i \in Int /\ n \in Nat /\ m \in Nat /\ i > n + 1 /\ i <= n + m
        BY <2>3, <4>1
      <4>3. QED
        BY <4>2, PlaceBehind
    <3>2. T[n + (i - n)] = w + (i - n) - 1 /\ T[n + (i - 1 - n)] = w + (i - 1 - n) - 1
      BY <1>1, <3>1
    <3>3. n + (i - n) = i /\ n + (i - 1 - n) = i - 1
      <4>1. i \in Int /\ n \in Int
        BY <1>1, <3>1
      <4>2. QED
        BY <4>1
    <3>4. T[i - 1] = T[i] - 1
      BY <1>1, <3>1, <3>2, <3>3
    <3>5. QED
      BY <3>1, <3>4
  <2>4. QED
    BY <1>1, <2>1, <2>2, <2>3
<1>3. ASSUME w + m > 0 PROVE \E i \in DOMAIN T : T[i] = w + m - 1
  <2>1. CASE m = 0
    <3>1. PICK i \in DOMAIN S : S[i] = w - 1
      BY <1>3, <2>1
    <3>2. i \in DOMAIN T /\ T[i] = w + m - 1
      BY <1>1, <2>1, <3>1
    <3>3. QED
      BY <3>2
  <2>2. CASE m > 0
    <3>1. n + m \in DOMAIN T /\ m \in 1 .. m
      BY <1>1, <2>2
    <3>2. T[n + m] = w + m - 1
      BY <1>1, <3>1
    <3>3. QED
      BY <3>1, <3>2
  <2>3. QED
    BY <2>1, <2>2
<1>4. QED
  BY <1>1, <1>2, <1>3 DEF Chain, T

-----------------------------------------------------------------------------
(* The steps *)

\* Before a crash has dumped what is left, what went out is a chain, and ends
\* before what is in the ring.
LEMMA CountedChain ==
  ASSUME ConsoleTypeOK, Window, Counted
  PROVE  /\ Following
         /\ staged - Unsent = 0 \/ \E i \in DOMAIN sent : sent[i] = staged - Unsent - 1
<1>1. /\ sent \in Seq(Nat) /\ staged \in Nat /\ Unsent \in Nat /\ Unsent <= staged
      /\ \A i \in DOMAIN sent : sent[i] = i - 1
      /\ DOMAIN sent = 1 .. Len(sent) /\ Len(sent) \in Nat
  <2>1. Unsent \in Nat
    BY Distance DEF ConsoleTypeOK, Unsent
  <2>2. sent \in Seq(Nat) /\ staged \in Nat
    BY DEF ConsoleTypeOK
  <2>3. DOMAIN sent = 1 .. Len(sent) /\ Len(sent) \in Nat
    BY <2>2
  <2>4. QED
    BY <2>1, <2>2, <2>3 DEF Window, Counted
<1>2. ASSUME NEW i \in DOMAIN sent PROVE sent[i] = 0 \/ \E j \in 1 .. i - 1 : sent[j] = sent[i] - 1
  <2>1. CASE i = 1
    BY <2>1, <1>1
  <2>2. CASE i # 1
    <3>1. i - 1 \in 1 .. i - 1 /\ i - 1 \in DOMAIN sent
      BY <1>1, <2>2
    <3>2. sent[i - 1] = sent[i] - 1
      BY <1>1, <3>1
    <3>3. QED
      BY <3>1, <3>2
  <2>3. QED
    BY <2>1, <2>2
<1>3. staged - Unsent <= Len(sent)
  <2>1. CASE flush.on
    <3>1. Advance(flush.c) \in Nat
      <4>1. flush.c \in 0 .. Counters - 1 /\ cons \in 0 .. Counters - 1
        BY DEF ConsoleTypeOK
      <4>2. QED
        BY <4>1, DistanceType DEF Advance
    <3>2. QED
      BY <2>1, <3>1, <1>1 DEF Counted
  <2>2. CASE ~flush.on
    BY <2>2, <1>1 DEF Counted
  <2>3. QED
    BY <2>1, <2>2
<1>4. CASE staged - Unsent = 0
  BY <1>2, <1>4 DEF Following
<1>5. CASE staged - Unsent # 0
  <2>1. staged - Unsent \in DOMAIN sent
    BY <1>1, <1>3, <1>5
  <2>2. QED
    BY <1>1, <1>2, <2>1 DEF Following
<1>6. QED
  BY <1>4, <1>5

\* vprintk: whatever it finds in the ring, and however it is called.
LEMMA VprintkInv ==
  ASSUME ConsoleInv, NEW text \in Texts \cup {LastWords}, Vprintk(text),
         UNCHANGED <<sync_console, flush>>,
         phase' \in {"run", "crash", "sync", "reset"}, prints' \in Nat,
         sync_console <=> phase' \in {"sync", "reset"}
  PROVE  ConsoleInv'
<1> DEFINE s == Staging(text)
           n == Unsent + Count(text)
<1>1. ConsoleTypeOK /\ (sync_console => cons = prod) /\ (overrun => piled)
      /\ (~overrun => Window /\ IF sync_console THEN Following /\ LastSent ELSE Counted)
  BY DEF ConsoleInv
<1>2. /\ ring' = s.ring /\ prod' = s.prod /\ staged' = s.staged
      /\ pending' = (pending \/ (~sync_console /\ cons # s.prod))
      /\ piled' = (piled \/ cons # prod) /\ overrun' = (overrun \/ n >= RingSize)
  BY DEF Vprintk, KickTx
<1>3. /\ s.ring \in [0 .. RingSize - 1 -> Nat] /\ s.prod \in 0 .. Counters - 1
      /\ s.staged \in Nat
  BY <1>1, StagedType
<1>4. /\ cons \in 0 .. Counters - 1 /\ prod \in 0 .. Counters - 1 /\ sent \in Seq(Nat)
      /\ {sync_console, pending, piled, overrun} \subseteq BOOLEAN
  BY <1>1 DEF ConsoleTypeOK
<1>5. /\ RingFrom(s.ring, cons, s.prod) \in Seq(Nat)
      /\ Len(RingFrom(s.ring, cons, s.prod)) = (s.prod - cons) % Counters
      /\ \A i \in 1 .. (s.prod - cons) % Counters :
           RingFrom(s.ring, cons, s.prod)[i] = s.ring[MASK(cons + i - 1)]
  <2> HIDE DEF s
  <2> QED BY <1>3, <1>4, RingFromType
<1>6. IF sync_console
        THEN sent' = sent \o RingFrom(s.ring, cons, s.prod) /\ cons' = s.prod
        ELSE sent' = sent /\ cons' = cons
  BY DEF Vprintk, KickTx
<1> HIDE DEF s
<1>7. ConsoleTypeOK'
  <2>1. sent' \in Seq(Nat) /\ cons' \in 0 .. Counters - 1
    <3>1. CASE sync_console
      <4>1. sent \o RingFrom(s.ring, cons, s.prod) \in Seq(Nat)
        BY <1>4, <1>5, ConcatProperties, Zenon
      <4>2. QED
        BY <3>1, <4>1, <1>3, <1>6
    <3>2. CASE ~sync_console
      BY <3>2, <1>4, <1>6
    <3>3. QED
      BY <3>1, <3>2
  <2>2. {sync_console, pending, piled, overrun}' \subseteq BOOLEAN
    BY <1>2, <1>4
  <2>3. flush' \in [c : 0 .. Counters - 1, p : 0 .. Counters - 1, on : BOOLEAN]
    BY <1>1 DEF ConsoleTypeOK
  <2>4. QED
    BY <1>2, <1>3, <2>1, <2>2, <2>3 DEF ConsoleTypeOK
<1>8. sync_console' => cons' = prod'
  BY <1>2, <1>6
<1>9. overrun' => piled'
  <2>1. CASE overrun
    BY <2>1, <1>1, <1>2
  <2>2. CASE cons = prod
    <3>1. Unsent = 0
      BY <2>2, <1>4, Distance DEF Unsent
    <3>2. Count(text) \in Nat /\ Count(text) < RingSize /\ RingSize \in Nat
      BY <1>1, CountType, Sizes
    <3>3. ~ n >= RingSize
      BY <3>1, <3>2
    <3>4. QED
      BY <3>3, <1>1, <1>2
  <2>3. CASE cons # prod
    BY <2>3, <1>2
  <2>4. QED
    BY <2>2, <2>3
<1>10. ASSUME ~overrun'
       PROVE  Window' /\ IF sync_console' THEN Following' /\ LastSent' ELSE Counted'
  <2>1. ~overrun /\ n < RingSize /\ n \in Nat /\ Unsent \in Nat /\ staged \in Nat
    <3>1. Count(text) \in Nat /\ RingSize \in Nat
      BY <1>1, CountType, Sizes
    <3>2. Unsent \in Nat
      BY <1>4, Distance DEF Unsent
    <3>3. staged \in Nat
      BY <1>1 DEF ConsoleTypeOK
    <3>4. ~overrun /\ ~(n >= RingSize)
      BY <1>2, <1>10
    <3>5. QED
      BY <3>1, <3>2, <3>3, <3>4
  <2>2. Window /\ Unsent < RingSize /\ Unsent <= staged
    BY <1>1, <2>1 DEF Window
  <2>3. /\ (s.prod - cons) % Counters = n /\ n <= s.staged
        /\ s.staged - n = staged - Unsent
        /\ \A k \in 0 .. n - 1 : s.ring[MASK(cons + k)] = staged - Unsent + k
    BY <1>1, <2>1, <2>2, Staged DEF s
  <2> HIDE DEF n
  <2>4. CASE sync_console
    <3>1. cons = prod /\ Unsent = 0 /\ Following /\ LastSent
      <4>1. cons = prod /\ Following /\ LastSent
        BY <1>1, <2>1, <2>4
      <4>2. QED
        BY <4>1, <1>4, DistanceType DEF Unsent
    <3> DEFINE R == RingFrom(s.ring, cons, s.prod)
    <3>2. R \in Seq(Nat) /\ Len(R) = n
      BY <1>5, <2>3
    <3>3. ASSUME NEW i \in 1 .. n PROVE R[i] = staged + i - 1
      <4>1. R[i] = s.ring[MASK(cons + i - 1)]
        BY <1>5, <2>3
      <4>2. i - 1 \in 0 .. n - 1 /\ cons + (i - 1) = cons + i - 1
        BY <1>4, <2>1
      <4>3. s.ring[MASK(cons + (i - 1))] = staged - Unsent + (i - 1)
        BY <2>3, <4>2
      <4>4. QED
        BY <2>1, <3>1, <4>1, <4>2, <4>3
    <3>4. sent' = sent \o R
      BY <1>6, <2>4
    <3> HIDE DEF R
    <3>5. Chain(sent) /\ (staged = 0 \/ \E i \in DOMAIN sent : sent[i] = staged - 1)
      BY <2>1, <3>1 DEF Following, Chain, LastSent
    <3>6. /\ Chain(sent \o R)
          /\ staged + n > 0 => \E i \in DOMAIN (sent \o R) : (sent \o R)[i] = staged + n - 1
      <4>1. /\ sent \in Seq(Nat) /\ staged \in Nat /\ n \in Nat /\ R \in Seq(Nat)
            /\ Len(R) = n /\ \A i \in 1 .. n : R[i] = staged + i - 1
        BY <1>4, <2>1, <3>2, <3>3
      <4>2. CarriesOn(sent, staged, n, R)
        BY <4>1, <3>5 DEF CarriesOn
      <4>3. QED
        BY <4>2, ChainGrows
    <3>7. staged' = staged + n /\ Unsent' = 0
      <4>1. cons' = prod' /\ cons' \in 0 .. Counters - 1
        BY <1>2, <1>3, <1>6, <2>4
      <4>2. s.staged \in Nat
        BY <1>3
      <4>3. Unsent' = 0
        BY <4>1, DistanceType DEF Unsent
      <4>4. staged' = s.staged /\ s.staged - n = staged - 0
        BY <1>2, <2>3, <3>1
      <4>5. QED
        BY <2>1, <4>2, <4>3, <4>4
    <3>8. Window'
      BY <2>1, <3>7, Sizes DEF Window
    <3>9. Following' /\ LastSent'
      <4>1. Chain(sent')
        BY <3>4, <3>6
      <4>2. staged' > 0 => \E i \in DOMAIN sent' : sent'[i] = staged' - 1
        <5> DEFINE S == sent \o R
        <5>1. sent' = S /\ (staged + n > 0 => \E i \in DOMAIN S : S[i] = staged + n - 1)
          BY <3>4, <3>6
        <5> HIDE DEF S
        <5>2. QED
          BY <5>1, <3>7, <2>1
      <4>3. QED
        BY <4>1, <4>2 DEF Following, LastSent, Chain
    <3>10. QED
      BY <3>8, <3>9, <2>4
  <2>5. CASE ~sync_console
    <3>1. Counted /\ cons' = cons /\ sent' = sent /\ prod' = s.prod /\ flush' = flush
      BY <1>1, <1>2, <1>6, <2>1, <2>5
    <3>2. Unsent' = n /\ staged' = s.staged /\ ring' = s.ring
      BY <1>2, <2>3, <3>1 DEF Unsent
    <3>3. Window'
      <4>1. \A k \in 0 .. n - 1 : ring'[MASK(cons + k)] = staged' - n + k
        BY <2>3, <3>2
      <4>2. QED
        BY <2>1, <2>3, <3>1, <3>2, <4>1 DEF Window, MASK
    <3>4. Unsent <= n
      <4>1. Count(text) \in Nat
        BY <1>1, CountType
      <4>2. QED
        BY <2>1, <4>1 DEF n
    <3>5. /\ Advance(flush.c)' = Advance(flush.c) /\ Advance(flush.p)' = Advance(flush.p)
          /\ Advance(flush.p) \in Nat /\ Advance(flush.c) \in Nat
      <4>1. flush.c \in 0 .. Counters - 1 /\ flush.p \in 0 .. Counters - 1
        BY <1>1 DEF ConsoleTypeOK
      <4>2. /\ (flush.c - cons) % Counters \in Nat /\ (flush.p - cons) % Counters \in Nat
        BY <1>4, <4>1, DistanceType
      <4>3. QED
        BY <3>1, <4>2 DEF Advance
    <3>6. Counted'
      BY <2>1, <2>3, <3>1, <3>2, <3>4, <3>5 DEF Counted
    <3>7. QED
      BY <2>5, <3>3, <3>6
  <2>6. QED
    BY <2>4, <2>5
<1>11. QED
  BY <1>7, <1>8, <1>9, <1>10 DEF ConsoleInv

\* The ring and the counters are empty when the program begins.
LEMMA InitInv == ConsoleInit => ConsoleInv
<1> SUFFICES ASSUME ConsoleInit PROVE ConsoleInv
  OBVIOUS
<1>1. cons \in 0 .. Counters - 1 /\ prod = cons /\ RingSize \in Nat \ {0, 1} /\ 0 \in 0 .. Counters - 1
  BY ConsoleAssumption, Sizes DEF ConsoleInit
<1>2. Unsent = 0
  BY <1>1, DistanceType DEF Unsent
<1>3. ConsoleTypeOK
  <2>1. flush \in [c : 0 .. Counters - 1, p : 0 .. Counters - 1, on : BOOLEAN]
    BY <1>1 DEF ConsoleInit, NoFlush
  <2>2. sent \in Seq(Nat) /\ ring \in [0 .. RingSize - 1 -> Nat]
    BY DEF ConsoleInit
  <2>3. QED
    BY <1>1, <2>1, <2>2 DEF ConsoleInit, ConsoleTypeOK
<1>4. Window
  BY <1>1, <1>2 DEF Window, ConsoleInit
<1>5. Counted
  BY <1>2 DEF Counted, ConsoleInit, NoFlush
<1>6. QED
  BY <1>3, <1>4, <1>5 DEF ConsoleInit, ConsoleInv

\* printk, in the thread or a handler or a crash dump.
LEMMA PrintkInv ==
  ASSUME NEW text \in Texts
  PROVE  ConsoleInv /\ (Printk(text) \/ CrashPrintk(text)) => ConsoleInv'
<1> SUFFICES ASSUME ConsoleInv, Printk(text) \/ CrashPrintk(text) PROVE ConsoleInv'
  OBVIOUS
<1>1. Vprintk(text) /\ UNCHANGED <<sync_console, flush, phase>> /\ prints' = prints + 1
  BY DEF Printk, CrashPrintk
<1>2. /\ phase' \in {"run", "crash", "sync", "reset"} /\ prints' \in Nat
      /\ sync_console <=> phase' \in {"sync", "reset"}
  BY <1>1 DEF ConsoleInv, ConsoleTypeOK
<1>3. QED
  BY <1>1, <1>2, VprintkInv

\* The distances of two counters from a third are in the order they are passed in,
\* and the one that is moved on is a step further.
LEMMA StepOn ==
  ASSUME NEW o \in 0 .. Counters - 1, NEW x \in 0 .. Counters - 1, NEW y \in 0 .. Counters - 1,
         x # y, (x - o) % Counters <= (y - o) % Counters
  PROVE  /\ (((x + 1) % Counters) - o) % Counters = ((x - o) % Counters) + 1
         /\ (x - o) % Counters < (y - o) % Counters
         /\ MASK(o + ((x - o) % Counters)) = MASK(x)
<1> DEFINE z == (x + 1) % Counters
           a == (x - o) % Counters
           b == (y - o) % Counters
<1>1. /\ Counters \in Nat \ {0} /\ a \in 0 .. Counters - 1 /\ b \in 0 .. Counters - 1
      /\ a = IF o <= x THEN x - o ELSE x - o + Counters
      /\ b = IF o <= y THEN y - o ELSE y - o + Counters
  BY Sizes, Distance
<1>2. z \in 0 .. Counters - 1 /\ z = IF x + 1 < Counters THEN x + 1 ELSE x + 1 - Counters
  <2>1. 1 \in 0 .. Counters - 1
    BY Sizes
  <2>2. QED
    BY <2>1, MovedOn
<1>3. (z - o) % Counters = IF o <= z THEN z - o ELSE z - o + Counters
  <2> HIDE DEF z
  <2> QED BY <1>2, Distance
<1>4. a <= b
  OBVIOUS
<1> HIDE DEF a, b, z
<1>5. a < b /\ (z - o) % Counters = a + 1
  BY <1>1, <1>2, <1>3, <1>4
<1>6. x = o + a \/ x = (o + a) - Counters
  BY <1>1
<1>7. MASK(o + a) = MASK(x)
  <2>1. o + a \in Int
    BY <1>1
  <2>2. QED
    BY <1>6, <2>1, SamePlace
<1>8. QED
  BY <1>5, <1>7 DEF a, b, z

\* The soft interrupt begins.
LEMMA SoftIrqInv == ConsoleInv /\ SoftIrq => ConsoleInv'
<1> SUFFICES ASSUME ConsoleInv, SoftIrq PROVE ConsoleInv'
  OBVIOUS
<1>1. /\ flush' = [c |-> cons, p |-> prod, on |-> TRUE] /\ pending' = FALSE /\ ~flush.on
      /\ UNCHANGED <<ring, cons, prod, sync_console, phase, staged, sent, prints, piled, overrun>>
      /\ phase = "run"
  BY DEF SoftIrq, ringVars, histVars
<1>2. ConsoleTypeOK /\ cons \in 0 .. Counters - 1 /\ prod \in 0 .. Counters - 1
  BY DEF ConsoleInv, ConsoleTypeOK
<1>3. ConsoleTypeOK'
  <2>1. flush' \in [c : 0 .. Counters - 1, p : 0 .. Counters - 1, on : BOOLEAN]
    BY <1>1, <1>2
  <2>2. QED
    BY <1>1, <1>2, <2>1 DEF ConsoleTypeOK
<1>4. Unsent' = Unsent /\ Unsent \in Nat /\ Advance(flush.c)' = 0 /\ Advance(flush.p)' = Unsent
  <2>1. flush'.c = cons /\ flush'.p = prod
    BY <1>1
  <2>2. Advance(flush.c)' = (cons - cons) % Counters
        /\ Advance(flush.p)' = (prod - cons) % Counters /\ Unsent' = (prod - cons) % Counters
    BY <1>1, <2>1 DEF Unsent, Advance
  <2>3. QED
    BY <1>2, <2>2, DistanceType DEF Unsent
<1>5. ASSUME ~overrun PROVE Window' /\ Counted'
  <2>1. Window /\ Counted /\ staged \in Nat
    BY <1>1, <1>5 DEF ConsoleInv, ConsoleTypeOK
  <2>2. Window'
    BY <1>1, <1>4, <2>1 DEF Window, MASK
  <2>3. Counted'
    BY <1>1, <1>4, <2>1 DEF Counted
  <2>4. QED
    BY <2>2, <2>3
<1>6. QED
  BY <1>1, <1>3, <1>5 DEF ConsoleInv

\* It sends a character: the one that follows those that went out.
LEMMA SendCharInv == ConsoleInv /\ SendChar => ConsoleInv'
<1> SUFFICES ASSUME ConsoleInv, SendChar PROVE ConsoleInv'
  OBVIOUS
<1> DEFINE x == ring[MASK(flush.c)]
           a == Advance(flush.c)
<1>1. /\ phase = "run" /\ flush.on /\ flush.c # flush.p
      /\ sent' = Append(sent, x) /\ flush' = [flush EXCEPT !.c = (@ + 1) % Counters]
      /\ UNCHANGED <<ring, cons, prod, sync_console, pending, phase, staged, prints, piled, overrun>>
  BY DEF SendChar, ringVars
<1>2. /\ ConsoleTypeOK /\ cons \in 0 .. Counters - 1 /\ prod \in 0 .. Counters - 1
      /\ flush \in [c : 0 .. Counters - 1, p : 0 .. Counters - 1, on : BOOLEAN]
      /\ sent \in Seq(Nat) /\ staged \in Nat /\ ring \in [0 .. RingSize - 1 -> Nat]
  BY DEF ConsoleInv, ConsoleTypeOK
<1>3. flush.c \in 0 .. Counters - 1 /\ flush.p \in 0 .. Counters - 1
  BY <1>2
<1>4. x \in Nat
  <2>1. MASK(flush.c) \in 0 .. RingSize - 1
    BY <1>3, SamePlace
  <2>2. QED
    BY <1>2, <2>1
<1>5. (flush.c + 1) % Counters \in 0 .. Counters - 1
      /\ (flush.c + 1) % Counters
           = IF flush.c + 1 < Counters THEN flush.c + 1 ELSE flush.c + 1 - Counters
  <2>1. 1 \in 0 .. Counters - 1
    BY Sizes
  <2>2. QED
    BY <1>3, <2>1, MovedOn
<1>6. /\ flush'.c = (flush.c + 1) % Counters /\ flush'.p = flush.p /\ flush'.on = flush.on
      /\ flush' \in [c : 0 .. Counters - 1, p : 0 .. Counters - 1, on : BOOLEAN]
  BY <1>1, <1>2, <1>5
<1> HIDE DEF x
<1>7. ConsoleTypeOK'
  <2>1. sent' \in Seq(Nat)
    BY <1>1, <1>2, <1>4
  <2>2. QED
    BY <1>1, <1>2, <1>6, <2>1 DEF ConsoleTypeOK
<1>8. ASSUME ~overrun PROVE Window' /\ Counted'
  <2>1. /\ Window /\ Counted /\ a <= Advance(flush.p) /\ Advance(flush.p) <= Unsent
        /\ Len(sent) = staged - Unsent + a /\ Unsent <= staged
    BY <1>1, <1>8 DEF ConsoleInv, Counted, Window
  <2>2. a \in Nat /\ Advance(flush.p) \in Nat /\ Unsent \in Nat
    BY <1>2, <1>3, DistanceType DEF Advance, Unsent
  <2> DEFINE b == Advance(flush.p)
  <2>3. /\ (((flush.c + 1) % Counters) - cons) % Counters = a + 1 /\ a < b
        /\ MASK(cons + a) = MASK(flush.c)
    <3>1. (flush.c - cons) % Counters <= (flush.p - cons) % Counters
      BY <2>1 DEF Advance
    <3>2. QED
      BY <1>1, <1>2, <1>3, <3>1, StepOn DEF Advance
  <2>4. Advance(flush.c)' = a + 1 /\ Advance(flush.p)' = b
    BY <1>1, <1>6, <2>3 DEF Advance
  <2>5. x = Len(sent)
    <3>1. a \in 0 .. Unsent - 1
      BY <2>1, <2>2, <2>3
    <3>2. ring[MASK(cons + a)] = staged - Unsent + a
      BY <2>1, <3>1 DEF Window
    <3>3. QED
      BY <2>1, <2>3, <3>2 DEF x
  <2> HIDE DEF a, b
  <2>6. Window'
    BY <1>1, <2>1 DEF Window, Unsent, MASK
  <2>7. Counted'
    <3>1. Len(sent') = Len(sent) + 1 /\ \A i \in DOMAIN sent' : sent'[i] = i - 1
      <4>1. /\ Len(sent) \in Nat /\ DOMAIN sent = 1 .. Len(sent)
            /\ Len(sent') = Len(sent) + 1 /\ DOMAIN sent' = 1 .. Len(sent) + 1
            /\ \A i \in 1 .. Len(sent) : sent'[i] = sent[i]
            /\ sent'[Len(sent) + 1] = x
        BY <1>1, <1>2, <1>4
      <4>2. \A i \in DOMAIN sent : sent[i] = i - 1
        BY <2>1 DEF Counted
      <4>3. QED
        BY <4>1, <4>2, <2>5
    <3>2. Unsent' = Unsent
      BY <1>1 DEF Unsent
    <3>3. /\ flush'.on /\ Advance(flush.c)' <= Advance(flush.p)' /\ Advance(flush.p)' <= Unsent'
          /\ Len(sent') = staged' - Unsent' + Advance(flush.c)'
      <4>1. a \in Nat /\ b \in Nat /\ Unsent \in Nat /\ staged \in Nat /\ a < b /\ b <= Unsent
        BY <1>2, <2>1, <2>2, <2>3 DEF b
      <4>2. Len(sent) = staged - Unsent + a
        BY <2>1
      <4> HIDE DEF b
      <4>3. QED
        BY <1>1, <1>6, <2>4, <3>1, <3>2, <4>1, <4>2 DEF b
    <3>4. QED
      BY <3>1, <3>3 DEF Counted
  <2>8. QED
    BY <2>6, <2>7
<1>9. QED
  BY <1>1, <1>7, <1>8 DEF ConsoleInv

\* What is left between two counters once the third is where the first of them was.
LEMMA Consumed ==
  ASSUME NEW o \in 0 .. Counters - 1, NEW x \in 0 .. Counters - 1, NEW y \in 0 .. Counters - 1,
         (x - o) % Counters <= (y - o) % Counters
  PROVE  /\ (y - x) % Counters = ((y - o) % Counters) - ((x - o) % Counters)
         /\ \A k \in Nat : MASK(x + k) = MASK(o + (((x - o) % Counters) + k))
<1> DEFINE a == (x - o) % Counters
           b == (y - o) % Counters
<1>1. /\ Counters \in Nat \ {0} /\ a \in 0 .. Counters - 1 /\ b \in 0 .. Counters - 1
      /\ a = IF o <= x THEN x - o ELSE x - o + Counters
      /\ b = IF o <= y THEN y - o ELSE y - o + Counters
  BY Sizes, Distance
<1>2. (y - x) % Counters = IF x <= y THEN y - x ELSE y - x + Counters
  BY Distance
<1>3. a <= b
  OBVIOUS
<1> HIDE DEF a, b
<1>4. (y - x) % Counters = b - a
  BY <1>1, <1>2, <1>3
<1>5. ASSUME NEW k \in Nat PROVE MASK(x + k) = MASK(o + (a + k))
  <2>1. /\ o + (a + k) \in Int
        /\ x + k = o + (a + k) \/ x + k = (o + (a + k)) - Counters
    BY <1>1
  <2>2. QED
    BY <2>1, SamePlace
<1>6. QED
  BY <1>4, <1>5 DEF a, b

\* It ends: what it sent is not in the ring any more.
LEMMA FlushEndInv == ConsoleInv /\ FlushEnd => ConsoleInv'
<1> SUFFICES ASSUME ConsoleInv, FlushEnd PROVE ConsoleInv'
  OBVIOUS
<1> DEFINE a == Advance(flush.c)
<1>1. /\ phase = "run" /\ flush.on /\ flush.c = flush.p /\ cons' = flush.c /\ flush' = NoFlush
      /\ UNCHANGED <<ring, prod, sync_console, pending, phase, staged, sent, prints, piled, overrun>>
  BY DEF FlushEnd, ConsAfter, histVars
<1>2. /\ ConsoleTypeOK /\ cons \in 0 .. Counters - 1 /\ prod \in 0 .. Counters - 1
      /\ flush \in [c : 0 .. Counters - 1, p : 0 .. Counters - 1, on : BOOLEAN]
      /\ staged \in Nat
  BY DEF ConsoleInv, ConsoleTypeOK
<1>3. flush.c \in 0 .. Counters - 1 /\ 0 \in 0 .. Counters - 1
  BY <1>2, Sizes
<1>4. ConsoleTypeOK'
  <2>1. flush' \in [c : 0 .. Counters - 1, p : 0 .. Counters - 1, on : BOOLEAN]
    BY <1>1, <1>3 DEF NoFlush
  <2>2. QED
    BY <1>1, <1>2, <1>3, <2>1 DEF ConsoleTypeOK
<1>5. ASSUME ~overrun PROVE Window' /\ Counted'
  <2>1. /\ Window /\ Counted /\ a <= Unsent /\ Len(sent) = staged - Unsent + a
        /\ Unsent <= staged /\ Unsent < RingSize
    BY <1>1, <1>5 DEF ConsoleInv, Counted, Window
  <2>2. a \in Nat /\ Unsent \in Nat /\ RingSize \in Nat
    BY <1>2, <1>3, DistanceType, Sizes DEF Advance, Unsent
  <2>3. /\ (prod - flush.c) % Counters = Unsent - a
        /\ \A k \in Nat : MASK(flush.c + k) = MASK(cons + (a + k))
    <3>1. (flush.c - cons) % Counters <= (prod - cons) % Counters
      BY <2>1 DEF Advance, Unsent
    <3>2. QED
      BY <1>2, <1>3, <3>1, Consumed DEF Advance, Unsent
  <2>4. Unsent' = Unsent - a
    BY <1>1, <2>3 DEF Unsent
  <2> HIDE DEF a
  <2>5. ASSUME NEW k \in 0 .. (Unsent - a) - 1
        PROVE  ring[MASK(flush.c + k)] = staged - (Unsent - a) + k
    <3>1. a + k \in 0 .. Unsent - 1 /\ k \in Nat
      BY <2>1, <2>2
    <3>2. ring[MASK(cons + (a + k))] = staged - Unsent + (a + k)
      BY <2>1, <3>1 DEF Window
    <3>3. QED
      BY <1>2, <2>2, <2>3, <3>1, <3>2
  <2>6. Window'
    <3>1. Unsent' < RingSize /\ Unsent' <= staged'
      BY <1>1, <1>2, <2>1, <2>2, <2>4
    <3>2. \A k \in 0 .. Unsent' - 1 : ring'[MASK(cons' + k)] = staged' - Unsent' + k
      BY <1>1, <2>4, <2>5
    <3>3. QED
      BY <3>1, <3>2 DEF Window, MASK
  <2>7. Counted'
    <3>1. Len(sent') = staged' - Unsent'
      BY <1>1, <1>2, <2>1, <2>2, <2>4
    <3>2. QED
      BY <1>1, <2>1, <3>1 DEF Counted, NoFlush
  <2>8. QED
    BY <2>6, <2>7
<1>6. QED
  BY <1>1, <1>4, <1>5 DEF ConsoleInv

\* A crash: the soft interrupt stays where it is.
LEMMA UnexpectedInv == ConsoleInv /\ Unexpected => ConsoleInv'
<1> SUFFICES ASSUME ConsoleInv, Unexpected PROVE ConsoleInv'
  OBVIOUS
<1>1. /\ phase = "run" /\ phase' = "crash" /\ prints' = 0
      /\ UNCHANGED <<ring, cons, prod, sync_console, pending, flush, staged, sent, piled, overrun>>
  BY DEF Unexpected, ringVars
<1>2. ConsoleTypeOK'
  BY <1>1 DEF ConsoleInv, ConsoleTypeOK
<1>3. ASSUME Window PROVE Window'
  BY <1>1, <1>3 DEF Window, Unsent, MASK
<1>4. ASSUME Counted PROVE Counted'
  BY <1>1, <1>4 DEF Counted, Unsent, Advance
<1>5. ~sync_console /\ ~sync_console' /\ (overrun' => piled')
  BY <1>1 DEF ConsoleInv
<1>6. ASSUME ~overrun' PROVE Window' /\ Counted'
  BY <1>1, <1>3, <1>4, <1>5, <1>6 DEF ConsoleInv
<1>7. QED
  BY <1>1, <1>2, <1>5, <1>6 DEF ConsoleInv

\* console_sync sends what is left, what the soft interrupt has sent included.
LEMMA ConsoleSyncInv == ConsoleInv /\ ConsoleSync => ConsoleInv'
<1> SUFFICES ASSUME ConsoleInv, ConsoleSync PROVE ConsoleInv'
  OBVIOUS
<1> DEFINE R == RingFrom(ring, cons, prod)
<1>1. /\ phase \in {"run", "crash"} /\ sync_console' = TRUE /\ sent' = sent \o R
      /\ cons' = prod /\ phase' = "sync"
      /\ UNCHANGED <<ring, prod, pending, flush, staged, prints, piled, overrun>>
  BY DEF ConsoleSync
<1>2. /\ ConsoleTypeOK /\ cons \in 0 .. Counters - 1 /\ prod \in 0 .. Counters - 1
      /\ ring \in [0 .. RingSize - 1 -> Nat] /\ staged \in Nat /\ sent \in Seq(Nat)
      /\ ~sync_console
  BY <1>1 DEF ConsoleInv, ConsoleTypeOK
<1>3. /\ R \in Seq(Nat) /\ Len(R) = Unsent
      /\ \A i \in 1 .. Unsent : R[i] = ring[MASK(cons + i - 1)]
  BY <1>2, RingFromType DEF Unsent
<1> HIDE DEF R
<1>4. ConsoleTypeOK'
  <2>1. sent' \in Seq(Nat)
    BY <1>1, <1>2, <1>3, ConcatProperties
  <2>2. {sync_console, pending, piled, overrun}' \subseteq BOOLEAN
    BY <1>1, <1>2 DEF ConsoleTypeOK
  <2>3. QED
    BY <1>1, <1>2, <2>1, <2>2 DEF ConsoleTypeOK
<1>5. Unsent' = 0 /\ Unsent \in Nat
  BY <1>1, <1>2, DistanceType DEF Unsent
<1>6. ASSUME ~overrun PROVE Window' /\ Following' /\ LastSent'
  <2>1. Window /\ Counted /\ Unsent <= staged
    BY <1>2, <1>6 DEF ConsoleInv, Window
  <2> DEFINE w == staged - Unsent
  <2>2. Following /\ (w = 0 \/ \E i \in DOMAIN sent : sent[i] = w - 1)
    BY <1>2, <2>1, CountedChain
  <2>3. w \in Nat /\ w + Unsent = staged
    BY <1>2, <1>5, <2>1
  <2>4. ASSUME NEW i \in 1 .. Unsent PROVE R[i] = w + i - 1
    <3>1. i - 1 \in 0 .. Unsent - 1 /\ cons + (i - 1) = cons + i - 1
      BY <1>2, <1>5
    <3>2. ring[MASK(cons + (i - 1))] = staged - Unsent + (i - 1)
      BY <2>1, <3>1 DEF Window
    <3>3. QED
      BY <1>2, <1>3, <1>5, <3>1, <3>2
  <2> HIDE DEF w
  <2>5. Chain(sent)
    BY <2>2 DEF Following, Chain
  <2>6. /\ Chain(sent \o R)
        /\ w + Unsent > 0 => \E i \in DOMAIN (sent \o R) : (sent \o R)[i] = w + Unsent - 1
    <3>1. /\ sent \in Seq(Nat) /\ w \in Nat /\ Unsent \in Nat /\ R \in Seq(Nat)
          /\ Len(R) = Unsent /\ \A i \in 1 .. Unsent : R[i] = w + i - 1
      BY <1>2, <1>3, <1>5, <2>3, <2>4
    <3>2. CarriesOn(sent, w, Unsent, R)
      BY <3>1, <2>2, <2>5 DEF CarriesOn
    <3>3. QED
      BY <3>2, ChainGrows
  <2>7. Following' /\ LastSent'
    <3> DEFINE S == sent \o R
    <3>1. sent' = S /\ Chain(S) /\ (staged > 0 => \E i \in DOMAIN S : S[i] = staged - 1)
      <4>1. w + Unsent > 0 => \E i \in DOMAIN S : S[i] = w + Unsent - 1
        BY <2>6
      <4>2. sent' = S /\ Chain(S)
        BY <1>1, <2>6
      <4> HIDE DEF S
      <4>3. ASSUME staged > 0 PROVE \E i \in DOMAIN S : S[i] = staged - 1
        <5>1. PICK i \in DOMAIN S : S[i] = w + Unsent - 1
          BY <2>3, <4>1, <4>3
        <5>2. S[i] = staged - 1
          BY <1>2, <1>5, <2>3, <5>1
        <5>3. QED
          BY <5>2
      <4>4. QED
        BY <4>2, <4>3
    <3> HIDE DEF S
    <3>2. QED
      BY <1>1, <3>1 DEF Following, Chain, LastSent
  <2>8. Window'
    BY <1>1, <1>2, <1>5, Sizes DEF Window
  <2>9. QED
    BY <2>7, <2>8
<1>7. QED
  BY <1>1, <1>4, <1>6 DEF ConsoleInv

\* The last words of system_reset.
LEMMA SystemResetInv == ConsoleInv /\ SystemReset => ConsoleInv'
<1> SUFFICES ASSUME ConsoleInv, SystemReset PROVE ConsoleInv'
  OBVIOUS
<1>1. /\ phase = "sync" /\ phase' = "reset" /\ Vprintk(LastWords)
      /\ UNCHANGED <<sync_console, flush>> /\ prints' = prints
  BY DEF SystemReset
<1>2. prints' \in Nat /\ (sync_console <=> phase' \in {"sync", "reset"})
  BY <1>1 DEF ConsoleInv, ConsoleTypeOK
<1>3. QED
  BY <1>1, <1>2, VprintkInv

\* Every step of the console keeps the invariant.
LEMMA NextInv == ConsoleInv /\ [ConsoleNext]_consoleVars => ConsoleInv'
<1> SUFFICES ASSUME ConsoleInv, [ConsoleNext]_consoleVars PROVE ConsoleInv'
  OBVIOUS
<1>1. CASE \E text \in Texts : Printk(text) \/ CrashPrintk(text)
  BY <1>1, PrintkInv
<1>2. CASE Sends
  BY <1>2, SoftIrqInv, SendCharInv, FlushEndInv DEF Sends
<1>3. CASE Unexpected \/ ConsoleSync \/ SystemReset
  BY <1>3, UnexpectedInv, ConsoleSyncInv, SystemResetInv
<1>4. CASE UNCHANGED consoleVars
  <2>1. UNCHANGED <<ring, cons, prod, sync_console, pending, flush, phase, staged, sent, prints,
                    piled, overrun>>
    BY <1>4 DEF consoleVars, ringVars, histVars
  <2>2. ConsoleTypeOK'
    BY <2>1 DEF ConsoleInv, ConsoleTypeOK
  <2>3. Window => Window'
    BY <2>1 DEF Window, Unsent, MASK
  <2>4. Counted => Counted'
    BY <2>1 DEF Counted, Unsent, Advance
  <2>5. (Following => Following') /\ (LastSent => LastSent')
    BY <2>1 DEF Following, LastSent
  <2>6. QED
    BY <2>1, <2>2, <2>3, <2>4, <2>5 DEF ConsoleInv
<1>5. QED
  BY <1>1, <1>2, <1>3, <1>4 DEF ConsoleNext

\* The accounting of what is in the ring and what went out holds always.
THEOREM ConsoleInductive == ConsoleSpec => []ConsoleInv
  BY InitInv, NextInv, PTL DEF ConsoleSpec

\* What is printed goes out in the order in which it was staged, and as long as
\* the program runs just once; the ring is overrun only by texts that pile up.
THEOREM SentInOrder == ConsoleSpec => []InOrder
<1>1. ConsoleInv => InOrder
  <2> SUFFICES ASSUME ConsoleInv PROVE InOrder
    OBVIOUS
  <2>1. ASSUME ~overrun PROVE Following
    <3>1. CASE sync_console
      BY <2>1, <3>1 DEF ConsoleInv
    <3>2. CASE ~sync_console
      BY <2>1, <3>2, CountedChain DEF ConsoleInv
    <3>3. QED
      BY <3>1, <3>2
  <2>2. ASSUME ~overrun, phase = "run" PROVE \A i \in DOMAIN sent : sent[i] = i - 1
    BY <2>2 DEF ConsoleInv, Counted
  <2>3. QED
    BY <2>1, <2>2 DEF ConsoleInv, InOrder
<1>2. QED
  BY <1>1, ConsoleInductive, PTL

-----------------------------------------------------------------------------
(* The display: bytes and bits *)

\* The segments of a character fill a byte.
LEMMA SegmentsNat == ASSUME NEW c \in 0 .. Other PROVE Segments(c) \in Nat
<1>1. digits \in Seq(Nat) /\ Len(digits) = 10
  BY DEF digits
<1>2. letters \in Seq(Nat) /\ Len(letters) = 26
  BY DEF letters
<1>3. <<64, 0>> \in Seq(Nat) /\ Len(<<64, 0>>) = 2
  OBVIOUS
<1>4. ASSUME NEW a \in Seq(Nat), NEW b \in Seq(Nat), NEW e \in Seq(Nat),
             Len(a) = 10, Len(b) = 26, Len(e) = 2, NEW i \in 1 .. 38
      PROVE  (a \o b \o e)[i] \in Nat
  <2>1. a \o b \in Seq(Nat) /\ Len(a \o b) = Len(a) + Len(b)
    BY ConcatProperties, Zenon
  <2>2. a \o b \o e \in Seq(Nat) /\ Len(a \o b \o e) = Len(a \o b) + Len(e)
    BY <2>1, ConcatProperties, Zenon
  <2>3. QED
    <3>1. Len(a \o b \o e) = 38
      BY <1>4, <2>1, <2>2
    <3>2. i \in 1 .. Len(a \o b \o e)
      BY <3>1
    <3>3. QED
      BY <2>2, <3>2, ElementOfSeq, Zenon
<1>5. c + 1 \in 1 .. 38
  BY DEF Other
<1>6. (digits \o letters \o <<64, 0>>)[c + 1] \in Nat
  BY <1>1, <1>2, <1>3, <1>4, <1>5, Zenon
<1>7. QED
  BY <1>6 DEF Segments

\* A bit is one of the two levels.
LEMMA BitLevel ==
  ASSUME NEW x \in Nat, NEW i \in 0 .. 7 PROVE Bit(x, i) \in {LOW, HIGH}
<1>1. Weights[i + 1] \in Nat \ {0}
  BY DEF Weights
<1>2. x \div Weights[i + 1] \in Int
  BY <1>1
<1>3. QED
  BY <1>2 DEF Bit, LOW, HIGH

\* The bits of a byte are levels.
LEMMA BitsLevel == ASSUME NEW x \in Nat PROVE Bits(x) \in [0 .. 7 -> {LOW, HIGH}]
  BY BitLevel DEF Bits

\* The commands, by the bits the chip looks at.
LEMMA CommandBits ==
  /\ Bit(64, 7) = 0 /\ Bit(64, 6) = 1
  /\ Bit(137, 7) = 1 /\ Bit(137, 6) = 0 /\ Bit(137, 3) = 1
  /\ Bit(192, 7) = 1 /\ Bit(192, 6) = 1 /\ Bit(192, 0) = 0 /\ Bit(192, 1) = 0
  BY DEF Bit, Weights

-----------------------------------------------------------------------------
(* What the TM1651 makes of a change of the wires *)

\* What START, STOP, a clock and the acknowledgement leave of the chip is a chip.
LEMMA ChipTypes ==
  ASSUME NEW c \in ChipType
  PROVE  /\ [c EXCEPT !.on = TRUE, !.n = 0, !.addr = Command] \in ChipType
         /\ [c EXCEPT !.n = 0, !.pull = FALSE] \in ChipType
         /\ [c EXCEPT !.n = 9] \in ChipType
         /\ [c EXCEPT !.on = FALSE] \in ChipType
         /\ [c EXCEPT !.pull = TRUE] \in ChipType
<1> DEFINE A == Command .. NoData
           R == [0 .. 3 -> Bytes]
           N == 0 .. 9
<1>1. Command \in A /\ 0 \in N /\ 9 \in N
  BY DEF Command, NoData, ChipType
<1>2. ChipType = [on : BOOLEAN, n : N, byte : Bytes, pull : BOOLEAN, addr : A, reg : R, lit : BOOLEAN]
  BY DEF ChipType
<1> HIDE DEF A, R, N
<1>3. [c EXCEPT !.on = TRUE, !.n = 0, !.addr = Command] \in ChipType
  BY <1>1, <1>2
<1>4. [c EXCEPT !.n = 0, !.pull = FALSE] \in ChipType
  BY <1>1, <1>2
<1>5. [c EXCEPT !.n = 9] \in ChipType
  BY <1>1, <1>2
<1>6. [c EXCEPT !.on = FALSE] \in ChipType /\ [c EXCEPT !.pull = TRUE] \in ChipType
  BY <1>1, <1>2
<1>7. QED
  BY <1>3, <1>4, <1>5, <1>6

\* So is what it has read a bit into, or obeyed a data byte in.
LEMMA DataTypes ==
  ASSUME NEW c \in ChipType, NEW b \in Bytes, NEW a \in Command .. NoData,
         NEW r \in [0 .. 3 -> Bytes], NEW n \in 0 .. 9
  PROVE  /\ [c EXCEPT !.byte = b, !.n = n] \in ChipType
         /\ [c EXCEPT !.reg = r, !.addr = a] \in ChipType
<1> DEFINE A == Command .. NoData
           R == [0 .. 3 -> Bytes]
           N == 0 .. 9
<1>1. a \in A /\ r \in R /\ n \in N
  OBVIOUS
<1>2. ChipType = [on : BOOLEAN, n : N, byte : Bytes, pull : BOOLEAN, addr : A, reg : R, lit : BOOLEAN]
  BY DEF ChipType
<1> HIDE DEF A, R, N
<1>3. [c EXCEPT !.byte = b, !.n = n] \in ChipType
  BY <1>1, <1>2
<1>4. [c EXCEPT !.reg = r, !.addr = a] \in ChipType
  BY <1>1, <1>2
<1>5. QED
  BY <1>3, <1>4

\* And what it has obeyed a command in.
LEMMA AddrTypes ==
  ASSUME NEW c \in ChipType, NEW a \in Command .. NoData
  PROVE  [c EXCEPT !.addr = a] \in ChipType /\ [c EXCEPT !.addr = a, !.lit = TRUE] \in ChipType
<1> DEFINE A == Command .. NoData
           R == [0 .. 3 -> Bytes]
           N == 0 .. 9
<1>1. a \in A
  OBVIOUS
<1>2. ChipType = [on : BOOLEAN, n : N, byte : Bytes, pull : BOOLEAN, addr : A, reg : R, lit : BOOLEAN]
  BY DEF ChipType
<1> HIDE DEF A, R, N
<1>3. QED
  BY <1>1, <1>2

\* Off the bus it waits for DAT to change while CLK is high.
LEMMA Unmoved ==
  ASSUME tm1651, NEW d, NEW k \in {LOW, HIGH}, Drive(d, k), ~chip.on, clk \in {LOW, HIGH} \ {k}
  PROVE  chip' = chip /\ misses' = misses
  BY DEF Drive, Reaction, Missable, LOW, HIGH

\* Nor does it mind what DAT does while CLK is low.
LEMMA Settles ==
  ASSUME tm1651, NEW d, Drive(d, LOW), clk = LOW
  PROVE  chip' = chip /\ misses' = misses
  BY DEF Drive, Reaction, Missable, LOW, HIGH

\* START: it is on the bus and expects a command.
LEMMA HearsStart ==
  ASSUME tm1651, chip \in ChipType, Drive(LOW, HIGH), clk = HIGH, dat = HIGH, ~chip.pull
  PROVE  /\ chip'.on /\ chip'.n = 0 /\ chip'.addr = Command
         /\ chip'.pull = chip.pull /\ chip'.reg = chip.reg /\ chip'.lit = chip.lit
         /\ chip' \in ChipType /\ misses' = misses
<1>1. chip' = [chip EXCEPT !.on = TRUE, !.n = 0, !.addr = Command] /\ misses' = misses
  BY DEF Drive, Reaction, Missable, LOW, HIGH, Line
<1>2. Bits(0) \in Bytes
  BY BitsLevel DEF Bytes
<1>3. chip' \in ChipType
  BY <1>1, <1>2, ChipTypes
<1>4. QED
  BY <1>1, <1>3 DEF ChipType

\* STOP: it is off the bus, and shows what it showed.
LEMMA HearsStop ==
  ASSUME tm1651, chip \in ChipType, Drive(HIGH, HIGH), clk = HIGH, dat = LOW, ~chip.pull
  PROVE  /\ ~chip'.on
         /\ chip'.pull = chip.pull /\ chip'.reg = chip.reg /\ chip'.lit = chip.lit
         /\ chip' \in ChipType /\ misses' = misses
<1>1. chip' = [chip EXCEPT !.on = FALSE] /\ misses' = misses
  BY DEF Drive, Reaction, Missable, LOW, HIGH, Line
<1>2. Bits(0) \in Bytes
  BY BitsLevel DEF Bytes
<1>3. chip' \in ChipType
  BY <1>1, <1>2, ChipTypes
<1>4. QED
  BY <1>1, <1>3 DEF ChipType

\* A rising edge of CLK: it reads the level of DAT as its next bit.
LEMMA Reads ==
  ASSUME tm1651, chip \in ChipType, Drive(dat, HIGH), clk = LOW, dat \in {LOW, HIGH},
         chip.on, ~chip.pull, chip.n < 8
  PROVE  /\ chip'.on /\ chip'.n = chip.n + 1
         /\ chip'.byte[chip.n] = dat
         /\ \A k \in 0 .. 7 : k < chip.n => chip'.byte[k] = chip.byte[k]
         /\ chip'.pull = chip.pull /\ chip'.addr = chip.addr
         /\ chip'.reg = chip.reg /\ chip'.lit = chip.lit
         /\ chip' \in ChipType /\ misses' = misses
<1> DEFINE b == [chip.byte EXCEPT ![chip.n] = dat]
<1>1. chip' = [chip EXCEPT !.byte = b, !.n = chip.n + 1] /\ misses' = misses
  BY DEF Drive, Reaction, Missable, LOW, HIGH, Line
<1>2. chip.byte \in Bytes /\ chip.n \in 0 .. 7
  BY DEF ChipType
<1>3. b \in Bytes
  BY <1>2 DEF Bytes
<1>4. b[chip.n] = dat /\ \A k \in 0 .. 7 : k < chip.n => b[k] = chip.byte[k]
  BY <1>2 DEF Bytes
<1> HIDE DEF b
<1>5. chip' \in ChipType
  <2>1. chip.n + 1 \in 0 .. 9 /\ chip.reg \in [0 .. 3 -> Bytes] /\ chip.addr \in Command .. NoData
    BY DEF ChipType
  <2>2. [chip EXCEPT !.byte = b, !.n = chip.n + 1] \in ChipType
    BY <1>3, <2>1, DataTypes
  <2>3. QED
    BY <1>1, <2>2
<1>6. QED
  BY <1>1, <1>4, <1>5 DEF ChipType

\* The ninth rising edge.
LEMMA Clocks ==
  ASSUME tm1651, chip \in ChipType, Drive(dat, HIGH), clk = LOW, chip.on, chip.n = 8
  PROVE  /\ chip'.on /\ chip'.n = 9
         /\ chip'.pull = chip.pull /\ chip'.addr = chip.addr
         /\ chip'.reg = chip.reg /\ chip'.lit = chip.lit
         /\ chip' \in ChipType /\ misses' = misses
<1>1. chip' = [chip EXCEPT !.n = 9] /\ misses' = misses
  BY DEF Drive, Reaction, Missable, LOW, HIGH
<1>2. chip' \in ChipType
  BY <1>1, ChipTypes
<1>3. QED
  BY <1>1, <1>2 DEF ChipType

\* CLK falls in the middle of a byte.
LEMMA Waits ==
  ASSUME tm1651, chip \in ChipType, Drive(dat, LOW), clk = HIGH, chip.on, chip.n < 8
  PROVE  chip' = chip /\ misses' = misses
<1>1. chip.n \in 0 .. 7
  BY DEF ChipType
<1>2. QED
  BY <1>1 DEF Drive, Reaction, Missable, LOW, HIGH

\* CLK falls after the ninth clock: it lets go of DAT and reads the next byte.
LEMMA BeginsByte ==
  ASSUME tm1651, chip \in ChipType, Drive(dat, LOW), clk = HIGH, chip.on, chip.n = 9
  PROVE  /\ chip'.on /\ chip'.n = 0 /\ ~chip'.pull
         /\ chip'.addr = chip.addr /\ chip'.reg = chip.reg /\ chip'.lit = chip.lit
         /\ chip' \in ChipType /\ misses' = misses
<1>1. chip' = [chip EXCEPT !.n = 0, !.pull = FALSE] /\ misses' = misses
  BY DEF Drive, Reaction, Missable, LOW, HIGH
<1>2. Bits(0) \in Bytes
  BY BitsLevel DEF Bytes
<1>3. chip' \in ChipType
  BY <1>1, <1>2, ChipTypes
<1>4. QED
  BY <1>1, <1>3 DEF ChipType

\* What a byte does: the command that begins to write at address 0, the next byte
\* there, and the two other commands.
Spells(c, x) == \A k \in 0 .. 7 : c.byte[k] = Bit(x, k)

\* The three commands the program sends.
LEMMA ObeysCommand ==
  ASSUME NEW c \in ChipType, c.addr = Command, NEW x \in {64, 137, 192}, Spells(c, x)
  PROVE  /\ Obey(c) \in ChipType
         /\ Obey(c).on = c.on /\ Obey(c).n = c.n /\ Obey(c).reg = c.reg
         /\ x = 192 => Obey(c).addr = 0
         /\ x # 192 => Obey(c).addr = NoData
         /\ x = 137 => Obey(c).lit
         /\ c.lit => Obey(c).lit
<1>1. /\ c.byte[0] = Bit(x, 0) /\ c.byte[1] = Bit(x, 1) /\ c.byte[3] = Bit(x, 3)
      /\ c.byte[6] = Bit(x, 6) /\ c.byte[7] = Bit(x, 7)
  BY DEF Spells
<1>2. Command = -1 /\ NoData = 4
  BY DEF Command, NoData
<1>t. 0 \in Command .. NoData /\ NoData \in Command .. NoData
  BY DEF Command, NoData
<1>3. CASE x = 64
  <2>1. Obey(c) = [c EXCEPT !.addr = NoData]
    BY <1>1, <1>2, <1>3, CommandBits DEF Obey
  <2>2. QED
    <3>1. Obey(c) \in ChipType
      <4>1. [c EXCEPT !.addr = NoData] \in ChipType
        BY <1>t, AddrTypes
      <4>2. QED
        BY <2>1, <4>1
    <3>2. QED
      BY <1>2, <1>3, <2>1, <3>1 DEF ChipType
<1>4. CASE x = 137
  <2>1. Obey(c) = [c EXCEPT !.addr = NoData, !.lit = TRUE]
    BY <1>1, <1>2, <1>4, CommandBits DEF Obey
  <2>2. QED
    <3>1. Obey(c) \in ChipType
      <4>1. [c EXCEPT !.addr = NoData, !.lit = TRUE] \in ChipType
        BY <1>t, AddrTypes
      <4>2. QED
        BY <2>1, <4>1
    <3>2. QED
      BY <1>2, <1>4, <2>1, <3>1 DEF ChipType
<1>5. CASE x = 192
  <2>1. Obey(c) = [c EXCEPT !.addr = 0]
    BY <1>1, <1>2, <1>5, CommandBits DEF Obey
  <2>2. QED
    <3>1. Obey(c) \in ChipType
      <4>1. [c EXCEPT !.addr = 0] \in ChipType
        BY <1>t, AddrTypes
      <4>2. QED
        BY <2>1, <4>1
    <3>2. QED
      BY <1>2, <1>5, <2>1, <3>1 DEF ChipType
<1>6. QED
  BY <1>3, <1>4, <1>5

\* A data byte goes to its address, and the next to the one after it.
LEMMA ObeysData ==
  ASSUME NEW c \in ChipType, c.addr \in 0 .. 3
  PROVE  /\ Obey(c) \in ChipType
         /\ Obey(c).on = c.on /\ Obey(c).n = c.n /\ Obey(c).lit = c.lit
         /\ Obey(c).addr = c.addr + 1
         /\ Obey(c).reg[c.addr] = c.byte
         /\ \A a \in 0 .. 3 : a # c.addr => Obey(c).reg[a] = c.reg[a]
<1> DEFINE r == [c.reg EXCEPT ![c.addr] = c.byte]
<1>1. Command = -1 /\ NoData = 4
  BY DEF Command, NoData
<1>2. Obey(c) = [c EXCEPT !.reg = r, !.addr = c.addr + 1]
  BY <1>1 DEF Obey
<1>3. c.reg \in [0 .. 3 -> Bytes] /\ c.byte \in Bytes
  BY DEF ChipType
<1>4. /\ r \in [0 .. 3 -> Bytes] /\ r[c.addr] = c.byte
      /\ \A a \in 0 .. 3 : a # c.addr => r[a] = c.reg[a]
  BY <1>3
<1> HIDE DEF r
<1>5. c.addr + 1 \in Command .. NoData
  BY <1>1
<1>6. Obey(c) \in ChipType
  <2>1. 0 \in 0 .. 9
    OBVIOUS
  <2>2. [c EXCEPT !.reg = r, !.addr = c.addr + 1] \in ChipType
    BY <1>3, <1>4, <1>5, <2>1, DataTypes
  <2>3. QED
    BY <1>2, <2>2
<1>7. QED
  BY <1>1, <1>2, <1>4, <1>6 DEF ChipType

\* The ninth clock: the byte is obeyed and acknowledged, or missed.
LEMMA EndsByte ==
  ASSUME tm1651, chip \in ChipType, Drive(dat, LOW), clk = HIGH, chip.on, chip.n = 8,
         Obey(chip) \in ChipType, Obey(chip).on, Obey(chip).n = 8
  PROVE  /\ chip' \in ChipType
         /\ \/ /\ misses' = misses /\ chip'.on /\ chip'.n = 8 /\ chip'.pull
               /\ chip'.addr = Obey(chip).addr /\ chip'.reg = Obey(chip).reg
               /\ chip'.lit = Obey(chip).lit
            \/ /\ misses' = misses + 1 /\ ~chip'.on /\ chip'.pull = chip.pull
               /\ chip'.reg = chip.reg /\ chip'.lit = chip.lit
<1>1. \/ chip' = [Obey(chip) EXCEPT !.pull = TRUE] /\ misses' = misses
      \/ chip' = [chip EXCEPT !.on = FALSE] /\ misses' = misses + 1
  BY DEF Drive, Reaction, Missable, LOW, HIGH
<1>2. chip' \in ChipType
  BY <1>1, ChipTypes
<1> DEFINE c == Obey(chip)
<1>3. /\ \/ chip' = [c EXCEPT !.pull = TRUE] /\ misses' = misses
         \/ chip' = [chip EXCEPT !.on = FALSE] /\ misses' = misses + 1
      /\ c \in ChipType /\ c.on /\ c.n = 8
  BY <1>1
<1> HIDE DEF c
<1>4. QED
  BY <1>2, <1>3 DEF ChipType, c

-----------------------------------------------------------------------------
(* Where the program is *)

\* Of what the program drives.
LEMMA Driven ==
  ASSUME NEW d, NEW k, Drive(d, k)
  PROVE  /\ dat' = d /\ clk' = k
         /\ misses' = misses \/ misses' = misses + 1
         /\ nr_digits' = nr_digits /\ shiftreg_curval' = shiftreg_curval /\ ops' = ops
         /\ frame' = frame /\ retry' = retry /\ wanted' = wanted /\ failed' = failed
         /\ tm1651' = tm1651
  BY Zenon DEF Drive, callVars

\* The frames.
LEMMA Frames ==
  ASSUME Calls, frame # <<>>
  PROVE  /\ Len(frame) \in Nat /\ Len(frame) >= 1 /\ frame \in Seq(Nat)
         /\ \A b \in 1 .. Len(frame) : frame[b] \in Nat
         /\ \/ Len(frame) = 1 /\ frame = <<64>> /\ frame[1] = 64 /\ ~IsData /\ frame # <<137>>
            \/ Len(frame) = 1 /\ frame = <<137>> /\ frame[1] = 137 /\ ~IsData
            \/ Len(frame) = 5 /\ IsData /\ frame[1] = 192 /\ frame # <<137>> /\ frame # <<64>>
<1>1. wanted[1] \in Nat /\ wanted[2] \in Nat /\ wanted[3] \in Nat
  BY DEF Calls
<1>2. CASE frame = <<64>>
  BY <1>2 DEF IsData
<1>3. CASE frame = <<137>>
  BY <1>3 DEF IsData
<1>4. CASE IsData
  BY <1>1, <1>4 DEF IsData
<1>5. QED
  BY <1>2, <1>3, <1>4 DEF Calls

\* What was obeyed stays so while the registers stay as they are.
LEMMA StaysObeyed ==
  ASSUME frame' = frame, wanted' = wanted, ops' = ops,
         chip'.reg = chip.reg, chip'.lit = chip.lit
  PROVE  /\ \A m : Effect(chip, m) => Effect(chip, m)'
         /\ \A m : chip'.addr = chip.addr /\ Obeyed(chip, m) => Obeyed(chip, m)'
         /\ Shows(chip) => Shows(chip)'
  BY DEF Effect, Obeyed, AddressOf, IsData, Shows

\* A change of a pin while a frame is sent leaves the calls as they are, so that what
\* remains is where it leaves the program, and what the chip makes of it.
LEMMA FramePin ==
  ASSUME DisplayInv, NEW d, NEW k, Drive(d, k),
         place.at \in {"start", "write", "stop"}, place'.at \in {"start", "write", "stop", "none"},
         fail' \in BOOLEAN, Places',
         tm1651 /\ ~failed /\ chip \in ChipType /\ Follows /\ Shows(chip) =>
           chip' \in ChipType /\ Follows' /\ Shows(chip)',
         ~tm1651 =>
           /\ (place.at = "stop" \/ (place.at = "none" /\ frame # <<>>) => fail)'
           /\ (place.at = "write" /\ place.bit = 8 /\ place.step = 4 => fail)'
  PROVE  DisplayInv'
<1>1. /\ misses' = misses \/ misses' = misses + 1
      /\ nr_digits' = nr_digits /\ shiftreg_curval' = shiftreg_curval /\ ops' = ops
      /\ frame' = frame /\ retry' = retry /\ wanted' = wanted /\ failed' = failed
      /\ tm1651' = tm1651
  BY Driven
<1>2. Calls /\ frame # <<>> /\ place.at # "none"
  <2>1. Calls
    BY DEF DisplayInv
  <2>2. ~(frame = <<>> /\ place.at \in {"none", "shift", "rest"})
    OBVIOUS
  <2>3. \/ frame = <<64>> \/ frame = <<137>>
        \/ frame = <<192, wanted[1], wanted[2], wanted[3], 0>>
    BY <2>1, <2>2 DEF Calls, IsData
  <2>4. /\ <<64>> # <<>> /\ <<137>> # <<>>
        /\ \A a, b, c : <<192, a, b, c, 0>> # <<>>
    OBVIOUS
  <2>5. frame # <<>>
    BY <2>3, <2>4, Zenon
  <2>6. QED
    BY <2>1, <2>5
<1>3. misses \in Nat /\ misses' \in Nat /\ misses' >= misses
  BY <1>1, <1>2 DEF Calls
<1>4. Calls'
  BY <1>1, <1>2, <1>3 DEF Calls, IsData, Probed, Idle
<1>5. CASE tm1651 /\ failed
  BY <1>1, <1>3, <1>4, <1>5 DEF DisplayInv, Tries
<1>6. CASE tm1651 /\ ~failed
  BY <1>1, <1>4, <1>6 DEF DisplayInv
<1>7. CASE ~tm1651
  <2>1. Shifted /\ (place.at = "none" => ops \notin {<<"light">>, <<>>})'
    BY <1>1, <1>2, <1>7 DEF DisplayInv, Shifted, Calls
  <2>2. Shifted'
    BY <1>1, <1>7, <2>1 DEF Shifted
  <2>3. QED
    BY <1>1, <1>4, <1>7, <2>2 DEF DisplayInv
<1>8. QED
  BY <1>2, <1>5, <1>6, <1>7 DEF Calls

-----------------------------------------------------------------------------
(* A frame begins *)

\* tm1651_start keeps the invariant: the chip, off the bus, hears a START.
LEMMA StartKept == ASSUME DisplayInv, tm1651_start PROVE DisplayInv'
<1>1. Calls /\ Places
  BY DEF DisplayInv
<1>2. PICK n \in 1 .. 3 :
        /\ place = AtStart(n)
        /\ dat = HIGH /\ clk = (IF n = 2 THEN LOW ELSE HIGH)
  BY <1>1 DEF tm1651_start, Places, Nowhere, AtStart, AtStop, AtBit, AtShift, AtEnd
<1>3. place.at = "start" /\ place.step = n
  BY <1>2 DEF AtStart
<1>4. fail' = fail /\ fail \in BOOLEAN
  BY <1>1 DEF tm1651_start, Calls
<1>5. frame # <<>>
  <2>1. \/ frame = <<64>> \/ frame = <<137>>
        \/ frame = <<192, wanted[1], wanted[2], wanted[3], 0>>
    BY <1>1, <1>3 DEF Calls, IsData
  <2>2. QED
    BY <2>1
<1>6. CASE n < 3
  <2>1. PICK k \in {LOW, HIGH}, m \in 2 .. 3 :
          Drive(dat, k) /\ place' = AtStart(m) /\ clk # k /\ k = (IF m = 2 THEN LOW ELSE HIGH)
    <3>1. CASE n = 1
      BY <1>2, <1>3, <3>1 DEF tm1651_start, LOW, HIGH
    <3>2. CASE n = 2
      BY <1>2, <1>3, <3>2 DEF tm1651_start, LOW, HIGH
    <3>3. QED
      BY <1>6, <3>1, <3>2
  <2>2. dat' = HIGH /\ clk' = k /\ frame' = frame /\ retry' = retry /\ wanted' = wanted /\ ops' = ops
    BY <1>2, <2>1, Driven
  <2>3. Places' /\ place'.at = "start"
    BY <2>1, <2>2 DEF Places, AtStart
  <2>4. ASSUME tm1651, chip \in ChipType, Follows, Shows(chip)
        PROVE  chip' \in ChipType /\ Follows' /\ Shows(chip)'
    <3>1. ~chip.on /\ ~chip.pull /\ misses >= retry
      BY <1>3, <2>4 DEF Follows
    <3>2. clk \in {LOW, HIGH} \ {k}
      BY <1>2, <2>1
    <3>3. chip' = chip /\ misses' = misses
      BY <2>1, <2>4, <3>1, <3>2, Unmoved
    <3>4. Shows(chip)'
      BY <2>2, <2>4, <3>3, StaysObeyed
    <3>5. QED
      BY <2>2, <2>3, <2>4, <3>1, <3>3, <3>4 DEF Follows
  <2>5. QED
    BY <1>3, <1>4, <2>1, <2>3, <2>4, FramePin
<1>7. CASE n = 3
  <2>1. Drive(LOW, HIGH) /\ place' = AtBit(1, 0, 1)
    BY <1>2, <1>3, <1>7 DEF tm1651_start
  <2>2. dat' = LOW /\ clk' = HIGH /\ frame' = frame /\ retry' = retry /\ wanted' = wanted /\ ops' = ops
    BY <2>1, Driven
  <2>3. place'.at = "write" /\ place'.byte = 1 /\ place'.bit = 0 /\ place'.step = 1
    BY <2>1 DEF AtBit
  <2>4. Places'
    BY <1>1, <1>5, <2>1, <2>2, Frames DEF Places, LOW, HIGH
  <2>5. ASSUME tm1651, chip \in ChipType, Follows, Shows(chip)
        PROVE  chip' \in ChipType /\ Follows' /\ Shows(chip)'
    <3>1. ~chip.on /\ ~chip.pull /\ misses >= retry
      BY <1>3, <2>5 DEF Follows
    <3>2. /\ chip'.on /\ chip'.n = 0 /\ chip'.addr = Command
          /\ chip'.pull = chip.pull /\ chip'.reg = chip.reg /\ chip'.lit = chip.lit
          /\ chip' \in ChipType /\ misses' = misses
      BY <1>2, <1>7, <2>1, <2>5, <3>1, HearsStart
    <3>3. Shows(chip)'
      BY <2>2, <2>5, <3>2, StaysObeyed
    <3>4. InByte(1, 0, 1)'
      BY <3>1, <3>2 DEF InByte, Obeyed, AddressOf, Effect, HasRead
    <3>5. QED
      BY <2>2, <2>3, <3>1, <3>2, <3>3, <3>4 DEF Follows
  <2>6. QED
    BY <1>3, <1>4, <2>1, <2>3, <2>4, <2>5, FramePin
<1>8. QED
  BY <1>6, <1>7

-----------------------------------------------------------------------------
(* A byte *)

\* The byte that is complete is obeyed: the chip c is as it should be after it.
LEMMA ByteObeyed ==
  ASSUME Calls, frame # <<>>, chip \in ChipType, chip.n = 8, chip.on, Shows(chip),
         NEW b \in 1 .. Len(frame), Obeyed(chip, b - 1),
         \A k \in 0 .. 7 : chip.byte[k] = Bit(frame[b], k)
  PROVE  /\ Obey(chip) \in ChipType /\ Obey(chip).on /\ Obey(chip).n = 8
         /\ Obeyed(Obey(chip), b) /\ Shows(Obey(chip))
<1>1. CASE ~IsData
  <2>1. b = 1 /\ frame[1] \in {64, 137} /\ Len(frame) = 1 /\ (frame = <<137>> <=> frame[1] = 137)
    BY <1>1, Frames
  <2>2. chip.addr = Command
    BY <2>1 DEF Obeyed, AddressOf
  <2>3. frame[1] \in {64, 137, 192} /\ \A k \in 0 .. 7 : chip.byte[k] = Bit(frame[1], k)
    BY <2>1
  <2>a. PICK x \in {64, 137, 192} : x = frame[1]
    BY <2>3
  <2>b. Spells(chip, x)
    BY <2>3, <2>a DEF Spells
  <2>c. /\ Obey(chip) \in ChipType
        /\ Obey(chip).on = chip.on /\ Obey(chip).n = chip.n /\ Obey(chip).reg = chip.reg
        /\ x = 192 => Obey(chip).addr = 0
        /\ x # 192 => Obey(chip).addr = NoData
        /\ x = 137 => Obey(chip).lit
        /\ chip.lit => Obey(chip).lit
    BY <2>2, <2>b, ObeysCommand
  <2>4. /\ Obey(chip) \in ChipType
        /\ Obey(chip).on = chip.on /\ Obey(chip).n = chip.n /\ Obey(chip).reg = chip.reg
        /\ Obey(chip).addr = IF frame[1] = 192 THEN 0 ELSE NoData
        /\ frame[1] = 137 => Obey(chip).lit
        /\ chip.lit => Obey(chip).lit
    BY <2>a, <2>c
  <2>5. Obeyed(Obey(chip), b)
    BY <1>1, <2>1, <2>4 DEF Obeyed, AddressOf, Effect
  <2>6. Shows(Obey(chip))
    BY <2>4 DEF Shows
  <2>7. QED
    BY <2>4, <2>5, <2>6
<1>2. CASE IsData /\ b = 1
  <2>1. frame[1] = 192 /\ frame # <<137>>
    BY <1>2, Frames
  <2>2. chip.addr = Command
    BY <1>2 DEF Obeyed, AddressOf
  <2>3. frame[1] \in {64, 137, 192} /\ \A k \in 0 .. 7 : chip.byte[k] = Bit(frame[1], k)
    BY <1>2, <2>1
  <2>a. PICK x \in {64, 137, 192} : x = frame[1]
    BY <2>3
  <2>b. Spells(chip, x)
    BY <2>3, <2>a DEF Spells
  <2>c. /\ Obey(chip) \in ChipType
        /\ Obey(chip).on = chip.on /\ Obey(chip).n = chip.n /\ Obey(chip).reg = chip.reg
        /\ x = 192 => Obey(chip).addr = 0
        /\ x # 192 => Obey(chip).addr = NoData
        /\ x = 137 => Obey(chip).lit
        /\ chip.lit => Obey(chip).lit
    BY <2>2, <2>b, ObeysCommand
  <2>4. /\ Obey(chip) \in ChipType
        /\ Obey(chip).on = chip.on /\ Obey(chip).n = chip.n /\ Obey(chip).reg = chip.reg
        /\ Obey(chip).addr = IF frame[1] = 192 THEN 0 ELSE NoData
        /\ chip.lit => Obey(chip).lit
    BY <2>a, <2>c
  <2>5. Obeyed(Obey(chip), b)
    BY <1>2, <2>1, <2>4 DEF Obeyed, AddressOf, Effect
  <2>6. Shows(Obey(chip))
    BY <2>4 DEF Shows
  <2>7. QED
    BY <2>4, <2>5, <2>6
<1>3. CASE IsData /\ b > 1
  <2>1. b \in 2 .. 5 /\ frame # <<137>>
    <3>1. Len(frame) = 5 /\ frame # <<137>>
      BY <1>3, Frames, Zenon
    <3>2. QED
      BY <1>3, <3>1
  <2>2. chip.addr = b - 2 /\ b - 2 \in 0 .. 3
    BY <1>3, <2>1 DEF Obeyed, AddressOf
  <2>3. /\ Obey(chip) \in ChipType
        /\ Obey(chip).on = chip.on /\ Obey(chip).n = chip.n /\ Obey(chip).lit = chip.lit
        /\ Obey(chip).addr = chip.addr + 1
        /\ Obey(chip).reg[chip.addr] = chip.byte
        /\ \A a \in 0 .. 3 : a # chip.addr => Obey(chip).reg[a] = chip.reg[a]
    BY <2>2, ObeysData
  <2>4. chip.byte = Bits(frame[b])
    <3>1. chip.byte \in [0 .. 7 -> {LOW, HIGH}]
      BY DEF ChipType, Bytes
    <3>2. QED
      BY <3>1 DEF Bits
  <2>5. AddressOf(Obey(chip), b)
    BY <1>3, <2>1, <2>2, <2>3 DEF AddressOf
  <2>6. ASSUME NEW a \in 0 .. 3, a + 1 < b PROVE Obey(chip).reg[a] = Bits(frame[a + 2])
    <3>1. CASE a = b - 2
      <4>1. a + 2 = b
        BY <2>1, <3>1
      <4>2. QED
        BY <2>2, <2>3, <2>4, <3>1, <4>1
    <3>2. CASE a # b - 2
      <4>1. a + 1 < b - 1
        BY <2>1, <2>6, <3>2
      <4>2. chip.reg[a] = Bits(frame[a + 2])
        BY <1>3, <4>1 DEF Obeyed, Effect
      <4>3. QED
        BY <2>2, <2>3, <3>2, <4>2
    <3>3. QED
      BY <3>1, <3>2
  <2>7. Effect(Obey(chip), b)
    BY <2>1, <2>6 DEF Effect
  <2>8. Shows(Obey(chip))
    BY <1>3, <2>3 DEF Shows
  <2>9. QED
    BY <2>3, <2>5, <2>7, <2>8 DEF Obeyed
<1>4. QED
  BY <1>1, <1>2, <1>3

\* CLK falls: on the ninth time the byte is complete.
LEMMA WriteFalls ==
  ASSUME DisplayInv, tm1651_write,
         NEW b \in 1 .. Len(frame), NEW i \in 0 .. 8, place = AtBit(b, i, 1), clk = HIGH
  PROVE  DisplayInv'
<1>1. Calls /\ place.at = "write" /\ place.byte = b /\ place.bit = i /\ place.step = 1
  BY DEF DisplayInv, AtBit
<1>2. fail \in BOOLEAN /\ frame # <<>>
  BY <1>1 DEF Calls, AtBit
<1>3. Drive(dat, LOW) /\ place' = AtBit(b, i, 2) /\ fail' = fail
  BY <1>1 DEF tm1651_write
<1>4. /\ clk' = LOW /\ frame' = frame /\ retry' = retry /\ wanted' = wanted /\ ops' = ops
      /\ misses' = misses \/ misses' = misses + 1
  BY <1>3, Driven
<1>5. place'.at = "write" /\ place'.byte = b /\ place'.bit = i /\ place'.step = 2
  BY <1>3 DEF AtBit
<1>6. Places'
  BY <1>3, <1>4 DEF Places, LOW, HIGH
<1>7. ASSUME tm1651, chip \in ChipType, Follows, Shows(chip)
      PROVE  chip' \in ChipType /\ Follows' /\ Shows(chip)'
  <2>1. /\ misses >= retry /\ Obeyed(chip, b - 1)
        /\ IF i = 0 /\ b > 1 THEN chip.on /\ chip.n = 9 ELSE HasRead(frame[b], i)
    BY <1>1, <1>7 DEF Follows, InByte
  <2>2. CASE i = 0 /\ b > 1
    <3>1. /\ chip'.on /\ chip'.n = 0 /\ ~chip'.pull
          /\ chip'.addr = chip.addr /\ chip'.reg = chip.reg /\ chip'.lit = chip.lit
          /\ chip' \in ChipType /\ misses' = misses
      BY <1>3, <1>7, <2>1, <2>2, BeginsByte
    <3>2. Shows(chip)' /\ Obeyed(chip, b - 1)'
      BY <1>4, <1>7, <2>1, <3>1, StaysObeyed
    <3>3. InByte(b, i, 2)'
      BY <2>2, <3>1, <3>2 DEF InByte, HasRead
    <3>4. QED
      BY <1>4, <1>5, <2>1, <3>1, <3>2, <3>3 DEF Follows
  <2>3. CASE ~(i = 0 /\ b > 1) /\ i < 8
    <3>1. chip' = chip /\ misses' = misses
      BY <1>3, <1>7, <2>1, <2>3, Waits DEF HasRead
    <3>2. Shows(chip)' /\ Obeyed(chip, b - 1)'
      BY <1>4, <1>7, <2>1, <3>1, StaysObeyed
    <3>3. InByte(b, i, 2)'
      BY <1>4, <2>1, <2>3, <3>1, <3>2 DEF InByte, HasRead
    <3>4. QED
      BY <1>4, <1>5, <1>7, <2>1, <3>1, <3>2, <3>3 DEF Follows
  <2>4. CASE i = 8
    <3>1. chip.on /\ ~chip.pull /\ chip.n = 8 /\ \A k \in 0 .. 7 : chip.byte[k] = Bit(frame[b], k)
      BY <2>1, <2>4 DEF HasRead
    <3>2. /\ Obey(chip) \in ChipType /\ Obey(chip).on /\ Obey(chip).n = 8
          /\ Obeyed(Obey(chip), b) /\ Shows(Obey(chip))
      BY <1>1, <1>2, <1>7, <2>1, <3>1, ByteObeyed
    <3>3. /\ chip' \in ChipType
          /\ \/ /\ misses' = misses /\ chip'.on /\ chip'.n = 8 /\ chip'.pull
                /\ chip'.addr = Obey(chip).addr /\ chip'.reg = Obey(chip).reg
                /\ chip'.lit = Obey(chip).lit
             \/ /\ misses' = misses + 1 /\ ~chip'.on /\ chip'.pull = chip.pull
                /\ chip'.reg = chip.reg /\ chip'.lit = chip.lit
      BY <1>3, <1>7, <3>1, <3>2, EndsByte
    <3>4. CASE /\ misses' = misses /\ chip'.on /\ chip'.n = 8 /\ chip'.pull
               /\ chip'.addr = Obey(chip).addr /\ chip'.reg = Obey(chip).reg
               /\ chip'.lit = Obey(chip).lit
      <4>1. Obeyed(chip, b)' /\ Shows(chip)'
        BY <1>4, <3>2, <3>4 DEF Obeyed, AddressOf, Effect, Shows, IsData
      <4>2. InByte(b, i, 2)'
        BY <2>4, <3>4, <4>1 DEF InByte
      <4>3. QED
        BY <1>4, <1>5, <2>1, <3>3, <3>4, <4>1, <4>2 DEF Follows
    <3>5. CASE /\ misses' = misses + 1 /\ ~chip'.on /\ chip'.pull = chip.pull
               /\ chip'.reg = chip.reg /\ chip'.lit = chip.lit
      <4>1. Shows(chip)'
        BY <1>4, <1>7, <3>5, StaysObeyed
      <4>2. misses \in Nat /\ retry \in Nat
        BY <1>1 DEF Calls
      <4>3. misses' > retry' /\ misses' >= retry'
        BY <1>4, <2>1, <3>5, <4>2
      <4>4. InByte(b, i, 2)'
        BY <2>4, <3>1, <3>5, <4>3 DEF InByte, Missed
      <4>5. QED
        BY <1>4, <1>5, <3>3, <4>1, <4>3, <4>4 DEF Follows
    <3>6. QED
      BY <3>3, <3>4, <3>5
  <2>5. QED
    BY <2>2, <2>3, <2>4
<1>8. QED
  BY <1>1, <1>2, <1>3, <1>5, <1>6, <1>7, FramePin

\* DAT takes its level, or is released for the acknowledgement.
LEMMA WriteSets ==
  ASSUME DisplayInv, tm1651_write,
         NEW b \in 1 .. Len(frame), NEW i \in 0 .. 8, place = AtBit(b, i, 2), clk = LOW
  PROVE  DisplayInv'
<1>1. Calls /\ place.at = "write" /\ place.byte = b /\ place.bit = i /\ place.step = 2
  BY DEF DisplayInv, AtBit
<1>2. fail \in BOOLEAN /\ frame # <<>>
  BY <1>1 DEF Calls, AtBit
<1> DEFINE d == IF i = 8 THEN HIGH ELSE Bit(frame[b], i)
           n == IF i = 8 THEN 3 ELSE 4
<1>3. /\ Drive(d, LOW) /\ place' = AtBit(b, i, n) /\ fail' = fail
      /\ n \in {3, 4} /\ (n = 3 <=> i = 8)
      /\ i = 8 => d = HIGH
      /\ i # 8 => d = Bit(frame[b], i)
  <2>1. CASE i = 8
    <3>1. Drive(HIGH, clk) /\ place' = AtBit(b, i, 3) /\ fail' = fail
      BY <1>1, <2>1 DEF tm1651_write
    <3>2. d = HIGH /\ n = 3 /\ clk = LOW
      BY <2>1
    <3>3. Drive(d, LOW)
      BY <3>1, <3>2, Zenon
    <3>4. QED
      BY <2>1, <3>1, <3>2, <3>3
  <2>2. CASE i # 8
    <3>1. Drive(Bit(frame[b], i), clk) /\ place' = AtBit(b, i, 4) /\ fail' = fail
      BY <1>1, <2>2 DEF tm1651_write
    <3>2. d = Bit(frame[b], i) /\ n = 4 /\ clk = LOW
      BY <2>2
    <3>3. Drive(d, LOW)
      BY <3>1, <3>2, Zenon
    <3>4. QED
      BY <2>2, <3>1, <3>2, <3>3
  <2>3. QED
    BY <2>1, <2>2
<1> HIDE DEF d, n
<1>4. /\ dat' = d /\ clk' = LOW
      /\ frame' = frame /\ retry' = retry /\ wanted' = wanted /\ ops' = ops
  BY <1>3, Driven
<1>5. place'.at = "write" /\ place'.byte = b /\ place'.bit = i /\ place'.step = n
  BY <1>3 DEF AtBit
<1>6. Places'
  BY <1>3, <1>4 DEF Places, LOW, HIGH
<1>7. ASSUME tm1651, chip \in ChipType, Follows, Shows(chip)
      PROVE  chip' \in ChipType /\ Follows' /\ Shows(chip)'
  <2>1. misses >= retry /\ InByte(b, i, 2)
    BY <1>1, <1>7 DEF Follows
  <2>2. chip' = chip /\ misses' = misses
    BY <1>3, <1>7, Settles
  <2>3. Shows(chip)' /\ \A m : Obeyed(chip, m) => Obeyed(chip, m)'
    BY <1>4, <1>7, <2>2, StaysObeyed
  <2>4. InByte(b, i, n)'
    BY <1>3, <1>4, <2>1, <2>2, <2>3 DEF InByte, HasRead, Missed
  <2>5. QED
    BY <1>4, <1>5, <1>7, <2>1, <2>2, <2>3, <2>4 DEF Follows
<1>8. ~(i = 8 /\ n = 4)
  BY <1>3
<1>9. QED
  BY <1>1, <1>2, <1>3, <1>5, <1>6, <1>7, <1>8, FramePin

\* The acknowledgement is read, and DAT driven low.
LEMMA WriteReads ==
  ASSUME DisplayInv, tm1651_write,
         NEW b \in 1 .. Len(frame), NEW i \in 0 .. 8, place = AtBit(b, i, 3), clk = LOW, i = 8, dat = HIGH
  PROVE  DisplayInv'
<1>1. Calls /\ place.at = "write" /\ place.byte = b /\ place.bit = i /\ place.step = 3
  BY DEF DisplayInv, AtBit
<1>2. fail \in BOOLEAN /\ frame # <<>>
  BY <1>1 DEF Calls, AtBit
<1>3. /\ Drive(LOW, LOW) /\ place' = AtBit(b, i, 4)
      /\ (Acked /\ fail' = FALSE) \/ (~Acked /\ fail' = TRUE)
  <2>1. Drive(LOW, clk) /\ place' = AtBit(b, i, 4)
    BY <1>1 DEF tm1651_write
  <2>2. (Acked /\ fail' = FALSE) \/ (~Acked /\ fail' = TRUE)
    <3>1. place.step # 1 /\ place.step # 2 /\ place.step # 4
      BY <1>1
    <3>2. QED
      BY <3>1, Zenon DEF tm1651_write
  <2>3. QED
    BY <2>1, <2>2, Zenon
<1>4. /\ dat' = LOW /\ clk' = LOW
      /\ frame' = frame /\ retry' = retry /\ wanted' = wanted /\ ops' = ops
  BY <1>3, Driven
<1>5. place'.at = "write" /\ place'.byte = b /\ place'.bit = 8 /\ place'.step = 4
  BY <1>3 DEF AtBit
<1>6. Places' /\ fail' \in BOOLEAN
  <2>1. Places'
    <3>1. place' = AtBit(b, 8, 4)
      BY <1>3
    <3>2. QED
      BY <1>4, <3>1 DEF Places, LOW, HIGH
  <2>2. fail' \in BOOLEAN
    <3>1. fail' = TRUE \/ fail' = FALSE
      BY <1>3, Zenon
    <3>2. QED
      BY <3>1
  <2>3. QED
    BY <2>1, <2>2
<1>7. ASSUME tm1651, chip \in ChipType, Follows, Shows(chip)
      PROVE  chip' \in ChipType /\ Follows' /\ Shows(chip)'
  <2>1. misses >= retry /\ InByte(b, 8, 3)
    BY <1>1, <1>7 DEF Follows
  <2>2. chip' = chip /\ misses' = misses
    BY <1>3, <1>7, Settles
  <2>3. Shows(chip)' /\ \A m : Obeyed(chip, m) => Obeyed(chip, m)'
    BY <1>4, <1>7, <2>2, StaysObeyed
  <2>4. chip.on <=> chip.pull
    BY <2>1 DEF InByte, Missed
  <2>5. fail' <=> ~chip.on
    BY <1>3, <1>7, <2>4 DEF Acked, Line, LOW, HIGH
  <2>6. InByte(b, 8, 4)'
    BY <1>3, <1>4, <2>1, <2>2, <2>3, <2>5 DEF InByte, Missed
  <2>7. QED
    BY <1>4, <1>5, <1>7, <2>1, <2>2, <2>3, <2>6 DEF Follows
<1>8. ~tm1651 => fail'
  BY <1>3 DEF Acked
<1>9. QED
  BY <1>1, <1>2, <1>3, <1>5, <1>6, <1>7, <1>8, FramePin

\* CLK rises: the chip reads a bit, or the byte is over.
LEMMA WriteRises ==
  ASSUME DisplayInv, tm1651_write,
         NEW b \in 1 .. Len(frame), NEW i \in 0 .. 8, place = AtBit(b, i, 4), clk = LOW, dat = IF i = 8 THEN LOW ELSE Bit(frame[b], i)
  PROVE  DisplayInv'
<1>1. Calls /\ place.at = "write" /\ place.byte = b /\ place.bit = i /\ place.step = 4
  BY DEF DisplayInv, AtBit
<1>2. fail \in BOOLEAN /\ frame # <<>>
  BY <1>1 DEF Calls, AtBit
<1>3. /\ Drive(dat, HIGH) /\ fail' = fail
      /\ i < 8 => place' = AtBit(b, i + 1, 1)
      /\ i = 8 => place' = AfterByte(b)
  BY <1>1 DEF tm1651_write
<1>4. /\ dat' = dat /\ clk' = HIGH
      /\ frame' = frame /\ retry' = retry /\ wanted' = wanted /\ ops' = ops
  BY <1>3, Driven
<1>5. Len(frame) \in Nat /\ frame[b] \in Nat
  BY <1>1, <1>2, Frames
<1>6. CASE i < 8
  <2>1. place' = AtBit(b, i + 1, 1) /\ i + 1 \in 1 .. 8
    BY <1>3, <1>6
  <2>2. place'.at = "write" /\ place'.byte = b /\ place'.bit = i + 1 /\ place'.step = 1
    BY <2>1 DEF AtBit
  <2>3. Places'
    BY <1>4, <2>1 DEF Places, LOW, HIGH
  <2>4. ASSUME tm1651, chip \in ChipType, Follows, Shows(chip)
        PROVE  chip' \in ChipType /\ Follows' /\ Shows(chip)'
    <3>1. misses >= retry /\ Obeyed(chip, b - 1) /\ HasRead(frame[b], i)
      BY <1>1, <1>6, <2>4 DEF Follows, InByte
    <3>2. dat \in {LOW, HIGH} /\ i \in 0 .. 7 /\ dat = Bit(frame[b], i)
      <4>1. i \in 0 .. 7 /\ dat = Bit(frame[b], i)
        BY <1>6
      <4>2. QED
        BY <1>5, <4>1, BitLevel
    <3>3. chip.on /\ ~chip.pull /\ chip.n = i /\ chip.n < 8
      BY <1>6, <3>1 DEF HasRead
    <3>4. /\ chip'.on /\ chip'.n = chip.n + 1
          /\ chip'.byte[chip.n] = dat
          /\ \A k \in 0 .. 7 : k < chip.n => chip'.byte[k] = chip.byte[k]
          /\ chip'.pull = chip.pull /\ chip'.addr = chip.addr
          /\ chip'.reg = chip.reg /\ chip'.lit = chip.lit
          /\ chip' \in ChipType /\ misses' = misses
      BY <1>3, <2>4, <3>2, <3>3, Reads
    <3>5. Shows(chip)' /\ Obeyed(chip, b - 1)'
      BY <1>4, <2>4, <3>1, <3>4, StaysObeyed
    <3>6. \A k \in 0 .. 7 : k < i + 1 => chip'.byte[k] = Bit(frame[b], k)
      BY <3>1, <3>2, <3>3, <3>4 DEF HasRead
    <3>7. HasRead(frame[b], i + 1)'
      BY <1>4, <3>3, <3>4, <3>6 DEF HasRead
    <3>8. InByte(b, i + 1, 1)'
      BY <1>4, <2>1, <3>5, <3>7 DEF InByte
    <3>9. QED
      BY <1>4, <2>2, <3>1, <3>4, <3>5, <3>8 DEF Follows
  <2>5. QED
    BY <1>1, <1>2, <1>3, <2>2, <2>3, <2>4, FramePin
<1>7. CASE i = 8
  <2>1. place' = AfterByte(b) /\ dat = LOW
    BY <1>3, <1>7
  <2>2. \/ /\ fail \/ b = Len(frame)
           /\ place' = AtStop(1) /\ place'.at = "stop" /\ place'.step = 1
        \/ /\ ~fail /\ b + 1 \in 2 .. Len(frame)
           /\ place' = AtBit(b + 1, 0, 1) /\ place'.at = "write" /\ place'.byte = b + 1
           /\ place'.bit = 0 /\ place'.step = 1
    BY <1>5, <2>1 DEF AfterByte, AtStop, AtBit
  <2>3. Places'
    BY <1>4, <2>1, <2>2 DEF Places, LOW, HIGH
  <2>4. ASSUME tm1651, chip \in ChipType, Follows, Shows(chip)
        PROVE  chip' \in ChipType /\ Follows' /\ Shows(chip)'
    <3>1. misses >= retry /\ InByte(b, 8, 4)
      BY <1>1, <1>7, <2>4 DEF Follows
    <3>2. CASE fail
      <4>1. Missed /\ place'.at = "stop" /\ place'.step = 1
        BY <2>2, <3>1, <3>2 DEF InByte
      <4>2. chip' = chip /\ misses' = misses
        BY <1>3, <2>4, <4>1, Unmoved DEF Missed, LOW, HIGH
      <4>3. Shows(chip)'
        BY <1>4, <2>4, <4>2, StaysObeyed
      <4>4. InStop(1)'
        BY <1>3, <1>4, <3>2, <4>1, <4>2 DEF InStop, Missed
      <4>5. QED
        BY <1>4, <2>4, <3>1, <4>1, <4>2, <4>3, <4>4 DEF Follows
    <3>3. CASE ~fail
      <4>1. chip.on /\ chip.n = 8 /\ Obeyed(chip, b)
        BY <3>1, <3>3 DEF InByte
      <4>2. /\ chip'.on /\ chip'.n = 9
            /\ chip'.pull = chip.pull /\ chip'.addr = chip.addr
            /\ chip'.reg = chip.reg /\ chip'.lit = chip.lit
            /\ chip' \in ChipType /\ misses' = misses
        BY <1>3, <2>4, <4>1, Clocks
      <4>3. Shows(chip)' /\ Obeyed(chip, b)'
        BY <1>4, <2>4, <4>1, <4>2, StaysObeyed
      <4>4. CASE b = Len(frame) /\ place'.at = "stop" /\ place'.step = 1
        <5>1. InStop(1)'
          BY <1>3, <1>4, <3>3, <4>2, <4>3, <4>4 DEF InStop
        <5>2. QED
          BY <1>4, <3>1, <4>2, <4>3, <4>4, <5>1 DEF Follows
      <4>5. CASE /\ b + 1 \in 2 .. Len(frame) /\ place'.at = "write" /\ place'.byte = b + 1
                 /\ place'.bit = 0 /\ place'.step = 1
        <5>1. InByte(b + 1, 0, 1)'
          BY <4>2, <4>3, <4>5 DEF InByte
        <5>2. QED
          BY <1>4, <3>1, <4>2, <4>3, <4>5, <5>1 DEF Follows
      <4>6. QED
        BY <2>2, <3>3, <4>4, <4>5
    <3>4. QED
      BY <3>2, <3>3
  <2>5. ~tm1651 => fail
    BY <1>1, <1>7 DEF DisplayInv, Shifted
  <2>6. QED
    BY <1>1, <1>2, <1>3, <2>2, <2>3, <2>4, <2>5, FramePin
<1>8. QED
  BY <1>6, <1>7

\* tm1651_write keeps it, each of its pin changes.
LEMMA WriteKept == ASSUME DisplayInv, tm1651_write PROVE DisplayInv'
<1>1. Places /\ place.at = "write"
  BY DEF DisplayInv, tm1651_write
<1>2. PICK b \in 1 .. Len(frame), i \in 0 .. 8, n \in 1 .. 4 :
        /\ place = AtBit(b, i, n)
        /\ clk = (IF n = 1 THEN HIGH ELSE LOW)
        /\ n = 1 /\ i = 0 => dat = LOW
        /\ n = 3 => i = 8 /\ dat = HIGH
        /\ n = 4 => dat = IF i = 8 THEN LOW ELSE Bit(frame[b], i)
  BY <1>1 DEF Places, Nowhere, AtStart, AtStop, AtShift, AtEnd
<1>3. CASE n = 1
  BY <1>2, <1>3, WriteFalls
<1>4. CASE n = 2
  BY <1>2, <1>4, WriteSets
<1>5. CASE n = 3
  BY <1>2, <1>5, WriteReads
<1>6. CASE n = 4
  <2>1. dat = (IF i = 8 THEN LOW ELSE Bit(frame[b], i)) /\ clk = LOW /\ place = AtBit(b, i, 4)
    BY <1>2, <1>6
  <2>2. QED
    BY <2>1, WriteRises
<1>7. QED
  BY <1>3, <1>4, <1>5, <1>6

-----------------------------------------------------------------------------
(* A frame ends *)

\* tm1651_stop keeps it: the chip hears a STOP, or had missed a byte and is off the bus.
LEMMA StopKept == ASSUME DisplayInv, tm1651_stop PROVE DisplayInv'
<1>1. Calls /\ Places /\ place.at = "stop"
  BY DEF DisplayInv, tm1651_stop
<1>2. PICK n \in 1 .. 3 :
        /\ place = AtStop(n)
        /\ dat = LOW /\ clk = (IF n = 2 THEN LOW ELSE HIGH)
  BY <1>1 DEF Places, Nowhere, AtStart, AtBit, AtShift, AtEnd
<1>3. place.at = "stop" /\ place.step = n
  BY <1>2 DEF AtStop
<1>4. fail' = fail /\ fail \in BOOLEAN
  BY <1>1 DEF tm1651_stop, Calls
<1>5. Len(frame) \in Nat
  BY <1>1, Frames
<1>6. ~tm1651 => fail
  BY <1>3 DEF DisplayInv, Shifted
<1>7. ASSUME tm1651, Follows PROVE misses >= retry /\ InStop(n)
  BY <1>3, <1>7 DEF Follows
<1>8. CASE n = 1
  <2>1. Drive(dat, LOW) /\ place' = AtStop(2)
    BY <1>3, <1>8 DEF tm1651_stop
  <2>2. /\ dat' = LOW /\ clk' = LOW /\ clk = HIGH
        /\ frame' = frame /\ retry' = retry /\ wanted' = wanted /\ ops' = ops
    BY <1>2, <1>8, <2>1, Driven
  <2>3. Places' /\ place'.at = "stop" /\ place'.step = 2
    BY <2>1, <2>2 DEF Places, AtStop
  <2>4. ASSUME tm1651, chip \in ChipType, Follows, Shows(chip)
        PROVE  chip' \in ChipType /\ Follows' /\ Shows(chip)'
    <3>1. misses >= retry /\ InStop(1)
      BY <1>7, <1>8, <2>4
    <3>2. CASE fail
      <4>1. Missed
        BY <3>1, <3>2 DEF InStop
      <4>2. chip' = chip /\ misses' = misses
        BY <2>1, <2>2, <2>4, <4>1, Unmoved DEF Missed, LOW, HIGH
      <4>3. Shows(chip)' /\ InStop(2)'
        BY <1>4, <2>2, <2>4, <3>2, <4>1, <4>2, StaysObeyed DEF InStop, Missed
      <4>4. QED
        BY <2>2, <2>3, <2>4, <3>1, <4>2, <4>3 DEF Follows
    <3>3. CASE ~fail
      <4>1. chip.on /\ Obeyed(chip, Len(frame)) /\ chip.n = 9
        BY <3>1, <3>3 DEF InStop
      <4>2. /\ chip'.on /\ chip'.n = 0 /\ ~chip'.pull
            /\ chip'.addr = chip.addr /\ chip'.reg = chip.reg /\ chip'.lit = chip.lit
            /\ chip' \in ChipType /\ misses' = misses
        BY <2>1, <2>2, <2>4, <4>1, BeginsByte
      <4>3. Shows(chip)' /\ Obeyed(chip, Len(frame))'
        BY <2>2, <2>4, <4>1, <4>2, StaysObeyed
      <4>4. InStop(2)'
        BY <1>4, <2>2, <3>3, <4>2, <4>3 DEF InStop
      <4>5. QED
        BY <2>2, <2>3, <2>4, <3>1, <4>2, <4>3, <4>4 DEF Follows
    <3>4. QED
      BY <3>2, <3>3
  <2>5. QED
    BY <1>3, <1>4, <1>6, <2>1, <2>3, <2>4, FramePin
<1>9. CASE n = 2
  <2>1. Drive(dat, HIGH) /\ place' = AtStop(3)
    BY <1>3, <1>9 DEF tm1651_stop
  <2>2. /\ dat' = LOW /\ clk' = HIGH /\ clk = LOW
        /\ frame' = frame /\ retry' = retry /\ wanted' = wanted /\ ops' = ops
    BY <1>2, <1>9, <2>1, Driven
  <2>3. Places' /\ place'.at = "stop" /\ place'.step = 3
    BY <2>1, <2>2 DEF Places, AtStop
  <2>4. ASSUME tm1651, chip \in ChipType, Follows, Shows(chip)
        PROVE  chip' \in ChipType /\ Follows' /\ Shows(chip)'
    <3>1. misses >= retry /\ InStop(2)
      BY <1>7, <1>9, <2>4
    <3>2. CASE fail
      <4>1. Missed
        BY <3>1, <3>2 DEF InStop
      <4>2. chip' = chip /\ misses' = misses
        BY <2>1, <2>2, <2>4, <4>1, Unmoved DEF Missed, LOW, HIGH
      <4>3. Shows(chip)' /\ InStop(3)'
        BY <1>4, <2>2, <2>4, <3>2, <4>1, <4>2, StaysObeyed DEF InStop, Missed
      <4>4. QED
        BY <2>2, <2>3, <2>4, <3>1, <4>2, <4>3 DEF Follows
    <3>3. CASE ~fail
      <4>1. chip.on /\ Obeyed(chip, Len(frame)) /\ chip.n = 0 /\ ~chip.pull
        BY <3>1, <3>3 DEF InStop
      <4>2. /\ chip'.on /\ chip'.n = 1
            /\ chip'.pull = chip.pull /\ chip'.addr = chip.addr
            /\ chip'.reg = chip.reg /\ chip'.lit = chip.lit
            /\ chip' \in ChipType /\ misses' = misses
        BY <1>2, <2>1, <2>2, <2>4, <4>1, Reads
      <4>3. Shows(chip)' /\ Obeyed(chip, Len(frame))'
        BY <2>2, <2>4, <4>1, <4>2, StaysObeyed
      <4>4. InStop(3)'
        BY <1>4, <2>2, <3>3, <4>1, <4>2, <4>3 DEF InStop
      <4>5. QED
        BY <2>2, <2>3, <2>4, <3>1, <4>2, <4>3, <4>4 DEF Follows
    <3>4. QED
      BY <3>2, <3>3
  <2>5. QED
    BY <1>3, <1>4, <1>6, <2>1, <2>3, <2>4, FramePin
<1>10. CASE n = 3
  <2>1. Drive(HIGH, HIGH) /\ place' = Nowhere
    BY <1>2, <1>3, <1>10 DEF tm1651_stop
  <2>2. /\ dat' = HIGH /\ clk' = HIGH /\ clk = HIGH
        /\ frame' = frame /\ retry' = retry /\ wanted' = wanted /\ ops' = ops
    BY <1>2, <1>10, <2>1, Driven
  <2>3. Places' /\ place'.at = "none"
    BY <2>1, <2>2 DEF Places, Nowhere
  <2>4. ASSUME tm1651, chip \in ChipType, Follows, Shows(chip)
        PROVE  chip' \in ChipType /\ Follows' /\ Shows(chip)'
    <3>1. misses >= retry /\ InStop(3)
      BY <1>7, <1>10, <2>4
    <3>2. /\ ~chip.pull
          /\ fail => misses > retry
          /\ ~fail => Obeyed(chip, Len(frame))
      BY <3>1 DEF InStop, Missed
    <3>3. /\ ~chip'.on
          /\ chip'.pull = chip.pull /\ chip'.reg = chip.reg /\ chip'.lit = chip.lit
          /\ chip' \in ChipType /\ misses' = misses
      BY <1>2, <2>1, <2>2, <2>4, <3>2, HearsStop
    <3>4. Shows(chip)'
      BY <2>2, <2>4, <3>3, StaysObeyed
    <3>5. ~fail => Effect(chip, Len(frame))'
      <4>1. ASSUME Effect(chip, Len(frame)) PROVE Effect(chip, Len(frame))'
        BY <2>2, <3>3, <4>1 DEF Effect, IsData
      <4>2. QED
        BY <3>2, <4>1 DEF Obeyed
    <3>6. misses' >= retry' /\ fail' \in BOOLEAN /\ (fail' => misses' > retry')
      BY <1>4, <2>2, <3>1, <3>2, <3>3
    <3>7. ~fail' => Effect(chip, Len(frame))'
      BY <1>4, <3>5
    <3>8. Follows'
      BY <2>3, <3>2, <3>3, <3>6, <3>7 DEF Follows
    <3>9. QED
      BY <3>3, <3>4, <3>8
  <2>5. QED
    BY <1>3, <1>4, <1>6, <2>1, <2>3, <2>4, FramePin
<1>11. QED
  BY <1>8, <1>9, <1>10

-----------------------------------------------------------------------------
(* The shift registers *)

\* A change of a pin while the registers are shifted leaves the calls as they are.
LEMMA ShiftPin ==
  ASSUME DisplayInv, place.at \in {"shift", "rest"}, NEW d, NEW k, Drive(d, k), fail' = fail,
         Places', place'.at \in {"shift", "rest", "none"},
         ~tm1651 => /\ (place.at = "shift" => Holds(place.x, place.bit))'
                    /\ (place.at \in {"rest", "none"} => Holds(shiftreg_curval, 16))'
  PROVE  DisplayInv'
<1>1. /\ misses' = misses \/ misses' = misses + 1
      /\ nr_digits' = nr_digits /\ shiftreg_curval' = shiftreg_curval /\ ops' = ops
      /\ frame' = frame /\ retry' = retry /\ wanted' = wanted /\ failed' = failed
      /\ tm1651' = tm1651
  BY Driven
<1>2. Calls /\ frame = <<>> /\ ops \in {<<"light">>, <<>>} /\ (tm1651 => failed)
  BY DEF DisplayInv, Calls
<1>3. misses \in Nat /\ misses' \in Nat /\ misses' >= misses
  BY <1>1, <1>2 DEF Calls
<1>4. Calls'
  <2>1. Probed /\ ops # <<"probe", "blank", "light">>
    BY <1>2 DEF Probed
  <2>2. QED
    BY <1>1, <1>2, <1>3, <2>1 DEF Calls, IsData, Probed, Idle
<1>5. CASE tm1651
  BY <1>1, <1>2, <1>3, <1>4, <1>5 DEF DisplayInv, Tries
<1>6. CASE ~tm1651
  <2>1. Shifted
    BY <1>6 DEF DisplayInv
  <2>2. Shifted'
    BY <1>1, <1>2, <1>6, <2>1 DEF Shifted
  <2>3. QED
    BY <1>1, <1>4, <1>6, <2>2 DEF DisplayInv
<1>7. QED
  BY <1>2, <1>5, <1>6 DEF Calls

\* A rising edge of CLK shifts DAT in, and any other change of a wire nothing.
LEMMA ShiftsIn ==
  ASSUME ~tm1651, Drive(dat, HIGH), clk = LOW, NEW x, NEW i \in 0 .. 15, Holds(x, i),
         dat = Bit(x, 15 - i)
  PROVE  Holds(x, i + 1)'
<1>1. regs164' = [j \in 1 .. 16 |-> IF j = 1 THEN dat ELSE regs164[j - 1]]
  BY DEF Drive, LOW, HIGH
<1>2. ASSUME NEW j \in 1 .. i + 1 PROVE regs164'[j] = Bit(x, 15 - (i + 1) + j)
  <2>1. CASE j = 1
    <3>1. 15 - (i + 1) + j = 15 - i
      BY <2>1
    <3>2. QED
      BY <1>1, <2>1, <3>1
  <2>2. CASE j # 1
    <3>1. j - 1 \in 1 .. i /\ 15 - i + (j - 1) = 15 - (i + 1) + j /\ j \in 1 .. 16
      BY <1>2, <2>2
    <3>2. regs164[j - 1] = Bit(x, 15 - i + (j - 1))
      BY <3>1 DEF Holds
    <3>3. QED
      BY <1>1, <2>2, <3>1, <3>2
  <2>3. QED
    BY <2>1, <2>2
<1>3. QED
  BY <1>2 DEF Holds

\* Nothing else shifts them.
LEMMA ShiftsNot ==
  ASSUME ~tm1651, NEW d, NEW k, Drive(d, k), k = LOW \/ clk = HIGH
  PROVE  regs164' = regs164
  BY DEF Drive, LOW, HIGH

\* shiftreg_update_display_u16 keeps it: after i bits the registers hold them.
LEMMA ShiftKept == ASSUME DisplayInv, shiftreg_update_display_u16 PROVE DisplayInv'
<1>1. Calls /\ Places /\ place.at \in {"shift", "rest"} /\ fail' = fail
  BY DEF DisplayInv, shiftreg_update_display_u16
<1>2. CASE place.at = "shift"
  <2>1. PICK i \in 0 .. 15, n \in 1 .. 3 :
          /\ place = AtShift(shiftreg_curval, i, n)
          /\ clk = (IF n = 1 THEN HIGH ELSE LOW)
          /\ n = 3 => dat = Bit(shiftreg_curval, 15 - i)
    BY <1>1, <1>2 DEF Places, Nowhere, AtStart, AtStop, AtBit, AtEnd
  <2>2. place.at = "shift" /\ place.x = shiftreg_curval /\ place.bit = i /\ place.step = n
    BY <2>1 DEF AtShift
  <2>3. ~tm1651 => Holds(shiftreg_curval, i)
    BY <2>2 DEF DisplayInv, Shifted
  <2>4. CASE n = 1
    <3>1. Drive(dat, LOW) /\ place' = AtShift(shiftreg_curval, i, 2)
      BY <2>2, <2>4 DEF shiftreg_update_display_u16
    <3>2. clk' = LOW /\ clk = HIGH /\ shiftreg_curval' = shiftreg_curval
      BY <2>1, <2>4, <3>1, Driven
    <3>3. Places' /\ place'.at = "shift" /\ place'.x = shiftreg_curval /\ place'.bit = i
      BY <3>1, <3>2 DEF Places, AtShift, LOW, HIGH
    <3>4. ~tm1651 => Holds(shiftreg_curval, i)'
      BY <2>3, <3>1, <3>2, ShiftsNot DEF Holds
    <3>5. QED
      BY <1>1, <3>1, <3>2, <3>3, <3>4, ShiftPin
  <2>5. CASE n = 2
    <3>1. Drive(Bit(shiftreg_curval, 15 - i), LOW) /\ place' = AtShift(shiftreg_curval, i, 3)
      <4>1. Drive(Bit(shiftreg_curval, 15 - i), clk) /\ place' = AtShift(shiftreg_curval, i, 3)
        BY <2>2, <2>5 DEF shiftreg_update_display_u16
      <4>2. clk = LOW
        BY <2>1, <2>5
      <4>3. QED
        BY <4>1, <4>2, Zenon
    <3>2. clk' = LOW /\ dat' = Bit(shiftreg_curval, 15 - i) /\ shiftreg_curval' = shiftreg_curval
      BY <3>1, Driven
    <3>3. Places' /\ place'.at = "shift" /\ place'.x = shiftreg_curval /\ place'.bit = i
      BY <3>1, <3>2 DEF Places, AtShift, LOW, HIGH
    <3>4. ~tm1651 => Holds(shiftreg_curval, i)'
      BY <2>3, <3>1, <3>2, ShiftsNot DEF Holds
    <3>5. QED
      BY <1>1, <3>1, <3>2, <3>3, <3>4, ShiftPin
  <2>6. CASE n = 3
    <3>1. /\ Drive(dat, HIGH)
          /\ i < 15 => place' = AtShift(shiftreg_curval, i + 1, 1)
          /\ i = 15 => place' = AtEnd
      BY <2>2, <2>6 DEF shiftreg_update_display_u16
    <3>2. clk' = HIGH /\ clk = LOW /\ shiftreg_curval' = shiftreg_curval
          /\ dat = Bit(shiftreg_curval, 15 - i)
      BY <2>1, <2>6, <3>1, Driven
    <3>3. ~tm1651 => Holds(shiftreg_curval, i + 1)'
      <4>1. SUFFICES ASSUME ~tm1651 PROVE Holds(shiftreg_curval, i + 1)'
        OBVIOUS
      <4>2. PICK x : x = shiftreg_curval
        OBVIOUS
      <4>3. Holds(x, i + 1)'
        BY <2>3, <3>1, <3>2, <4>1, <4>2, ShiftsIn
      <4>4. QED
        BY <3>2, <4>2, <4>3
    <3>4. CASE i < 15
      <4>1. /\ place' = AtShift(shiftreg_curval, i + 1, 1) /\ i + 1 \in 0 .. 15
            /\ place'.at = "shift" /\ place'.x = shiftreg_curval /\ place'.bit = i + 1
        BY <3>1, <3>4 DEF AtShift
      <4>2. Places'
        BY <3>2, <4>1 DEF Places, LOW, HIGH
      <4>3. QED
        BY <1>1, <3>1, <3>2, <3>3, <4>1, <4>2, ShiftPin
    <3>5. CASE i = 15
      <4>1. place' = AtEnd /\ place'.at = "rest" /\ i + 1 = 16
        BY <3>1, <3>5 DEF AtEnd
      <4>2. Places'
        BY <3>2, <4>1 DEF Places
      <4>3. QED
        BY <1>1, <3>1, <3>2, <3>3, <4>1, <4>2, ShiftPin
    <3>6. QED
      BY <3>4, <3>5
  <2>7. QED
    BY <2>4, <2>5, <2>6
<1>3. CASE place.at = "rest"
  <2>1. clk = HIGH
    BY <1>1, <1>3 DEF Places, Nowhere, AtStart, AtStop, AtBit, AtShift
  <2>2. Drive(HIGH, HIGH) /\ place' = Nowhere
    <3>1. Drive(HIGH, clk) /\ place' = Nowhere
      BY <1>3 DEF shiftreg_update_display_u16
    <3>2. QED
      BY <2>1, <3>1, Zenon
  <2>3. dat' = HIGH /\ clk' = HIGH /\ shiftreg_curval' = shiftreg_curval
    BY <2>2, Driven
  <2>4. Places' /\ place'.at = "none"
    BY <2>2, <2>3 DEF Places, Nowhere
  <2>5. ~tm1651 => Holds(shiftreg_curval, 16)'
    <3>1. ~tm1651 => Holds(shiftreg_curval, 16)
      BY <1>3 DEF DisplayInv, Shifted
    <3>2. QED
      BY <2>1, <2>2, <2>3, <3>1, ShiftsNot DEF Holds
  <2>6. QED
    BY <1>1, <2>2, <2>4, <2>5, ShiftPin
<1>4. QED
  BY <1>1, <1>2, <1>3

-----------------------------------------------------------------------------
(* The calls *)

\* Between calls the wires are at rest.
LEMMA BetweenCalls ==
  ASSUME DisplayInv, place.at = "none"
  PROVE  Calls /\ place = Nowhere /\ dat = HIGH /\ clk = HIGH
  BY DEF DisplayInv, Places, AtStart, AtStop, AtBit, AtShift, AtEnd

\* Once the probe is over, nr_digits is 3 unless a call failed or it found no TM1651.
LEMMA Digits ==
  ASSUME DisplayInv, Idle, ops \in {<<"blank", "light">>, <<"light">>, <<>>}
  PROVE  /\ tm1651 /\ ~failed => nr_digits = 3
         /\ ~tm1651 => nr_digits = 2
<1>1. Calls /\ Probed
  BY DEF DisplayInv, Probed
<1>2. QED
  BY <1>1 DEF Calls

\* The probe: its frame, and what is left of init.
IsProbe(bytes) == bytes = <<64>> /\ ops' = <<"blank", "light">>

\* A call after the probe: a frame for the TM1651, or the shift registers if it was
\* not found.
AfterProbe ==
  /\ \/ frame' = <<137>> /\ ops' = <<>> /\ tm1651 /\ place'.at = "start"
     \/ IsData' /\ tm1651 /\ place'.at = "start"
     \/ frame' = <<>> /\ place'.at = "shift" /\ (tm1651 => failed)
  /\ ops' \in {<<"light">>, <<>>}
  /\ tm1651 /\ ~failed => nr_digits = 3
  /\ ~tm1651 => nr_digits = 2

\* When the probe or a call after it begins, the calls are as they should be.
LEMMA CallBegun ==
  ASSUME Calls, tm1651' = tm1651, failed' = failed, misses' = misses, nr_digits' = nr_digits,
         fail' \in BOOLEAN, retry' \in 0 .. Tries - 1, wanted' \in [1 .. 3 -> Nat],
         (IsProbe(frame') /\ place'.at = "start") \/ AfterProbe
  PROVE  Calls'
<1>1. /\ wanted' \in [1 .. 3 -> Nat] /\ retry' \in 0 .. Tries - 1 /\ misses' \in Nat
      /\ fail' \in BOOLEAN /\ failed' \in BOOLEAN /\ tm1651' \in BOOLEAN
  BY DEF Calls
<1>2. place'.at \in {"start", "shift"} /\ ~Idle'
  BY DEF Idle, AfterProbe
<1>3. CASE IsProbe(frame') /\ place'.at = "start"
  <2>1. ops' # <<"probe", "blank", "light">> /\ ~Probed'
    BY <1>2, <1>3 DEF Probed, IsProbe
  <2>2. QED
    BY <1>1, <1>3, <2>1 DEF Calls, IsProbe
<1>4. CASE AfterProbe
  <2>1. ops' # <<"probe", "blank", "light">>
    <3>1. ops' \in {<<"light">>, <<>>}
      BY <1>4 DEF AfterProbe
    <3>2. <<"light">> # <<"probe", "blank", "light">> /\ <<>> # <<"probe", "blank", "light">>
      OBVIOUS
    <3>3. QED
      BY <3>1, <3>2, Zenon
  <2>2. /\ tm1651' /\ ~failed' => nr_digits' = 3
        /\ ~tm1651' => nr_digits' = 2
    BY <1>4 DEF AfterProbe
  <2>3. CASE frame' = <<137>> /\ ops' = <<>> /\ tm1651 /\ place'.at = "start"
    BY <1>1, <1>4, <2>1, <2>2, <2>3 DEF Calls, AfterProbe
  <2>4. CASE IsData' /\ tm1651 /\ place'.at = "start"
    BY <1>1, <1>4, <2>1, <2>2, <2>4 DEF Calls, AfterProbe
  <2>5. CASE frame' = <<>> /\ place'.at = "shift" /\ (tm1651 => failed)
    BY <1>1, <1>4, <2>1, <2>2, <2>5 DEF Calls, AfterProbe
  <2>6. QED
    BY <1>4, <2>3, <2>4, <2>5 DEF AfterProbe
<1>5. QED
  BY <1>3, <1>4

\* A call that begins a frame keeps it.
LEMMA TryBegun ==
  ASSUME DisplayInv, Idle, NEW bytes, StartTry(bytes, 0),
         tm1651' = tm1651, dat' = dat, clk' = clk, chip' = chip,
         failed' = failed, misses' = misses,
         Calls',
         tm1651 /\ ~failed /\ Shows(chip) => Shows(chip)',
         ~tm1651 => IsProbe(bytes)
  PROVE  DisplayInv'
<1>1. Calls /\ dat = HIGH /\ clk = HIGH /\ place.at = "none"
  BY BetweenCalls DEF Idle
<1>2. frame' = bytes /\ place' = AtStart(1) /\ place'.at = "start" /\ retry' = 0 /\ fail' = FALSE
  BY DEF StartTry, AtStart
<1>3. Places'
  BY <1>1, <1>2 DEF Places
<1>4. CASE tm1651 /\ failed
  BY <1>3, <1>4 DEF DisplayInv
<1>5. CASE tm1651 /\ ~failed
  <2>1. chip \in ChipType /\ Follows /\ Shows(chip)
    BY <1>5 DEF DisplayInv
  <2>2. ~chip.on /\ ~chip.pull /\ misses \in Nat
    BY <1>1, <2>1 DEF Follows, Calls
  <2>3. Follows'
    BY <1>2, <2>2 DEF Follows
  <2>4. QED
    BY <1>3, <1>5, <2>1, <2>3 DEF DisplayInv
<1>6. CASE ~tm1651
  <2>1. ops' \notin {<<"light">>, <<>>} /\ frame' = <<64>>
    BY <1>2, <1>6 DEF IsProbe
  <2>2. Shifted'
    BY <1>2, <2>1 DEF Shifted
  <2>3. QED
    BY <1>3, <1>6, <2>2 DEF DisplayInv
<1>7. QED
  BY <1>1, <1>4, <1>5, <1>6 DEF Calls

\* A call that begins to shift keeps it.
LEMMA ShiftBegun ==
  ASSUME DisplayInv, Idle, StartShift(shiftreg_curval'),
         tm1651' = tm1651, dat' = dat, clk' = clk, failed' = failed, misses' = misses,
         Calls', tm1651 => failed,
         ~tm1651 => shiftreg_curval' = wanted'[1] * 256 + wanted'[2]
  PROVE  DisplayInv'
<1>1. Calls /\ dat = HIGH /\ clk = HIGH /\ place.at = "none" /\ frame = <<>>
  BY BetweenCalls DEF Idle
<1>2. /\ frame' = <<>> /\ place' = AtShift(shiftreg_curval', 0, 1)
      /\ place'.at = "shift" /\ place'.x = shiftreg_curval' /\ place'.bit = 0
  BY <1>1 DEF StartShift, AtShift
<1>3. Places'
  BY <1>1, <1>2 DEF Places
<1>4. CASE tm1651
  BY <1>3, <1>4 DEF DisplayInv
<1>5. CASE ~tm1651
  <2>1. Shifted'
    BY <1>2, <1>5 DEF Shifted, Holds
  <2>2. QED
    BY <1>3, <1>5, <2>1 DEF DisplayInv
<1>6. QED
  BY <1>1, <1>4, <1>5 DEF Calls

\* Writing three digits, in led_7seg_init or after it.
LEMMA RawKept ==
  ASSUME DisplayInv, Idle, NEW s \in [1 .. 3 -> Nat], WriteRaw(s),
         \/ ops = <<"blank", "light">> /\ ops' = <<"light">>
         \/ ops = <<>> /\ ops' = <<>>,
         tm1651' = tm1651, dat' = dat, clk' = clk, chip' = chip, nr_digits' = nr_digits,
         failed' = failed, misses' = misses
  PROVE  DisplayInv'
<1>1. Calls /\ frame = <<>>
  BY BetweenCalls DEF Idle
<1>2. /\ tm1651 /\ ~failed => nr_digits = 3
      /\ ~tm1651 => nr_digits = 2
  BY Digits
<1>3. wanted' = s /\ ops' \in {<<"light">>, <<>>}
  BY DEF WriteRaw
<1>4. CASE nr_digits = 3
  <2>1. StartTry(<<192, s[1], s[2], s[3], 0>>, 0)
    BY <1>4 DEF WriteRaw
  <2>2. IsData' /\ tm1651 /\ retry' = 0 /\ fail' = FALSE /\ place'.at = "start"
    BY <1>2, <1>3, <1>4, <2>1 DEF StartTry, IsData, AtStart
  <2>3. frame' # <<>> /\ frame' # <<137>>
    BY <2>2 DEF IsData
  <2>4. Calls'
    <3>1. retry' \in 0 .. Tries - 1
      BY <2>2 DEF Tries
    <3>2. QED
      BY <1>1, <1>2, <1>3, <2>2, <3>1, CallBegun DEF AfterProbe, IsProbe
  <2>5. Shows(chip) => Shows(chip)'
    <3>1. ops' = <<>> => ops = <<>> /\ frame # <<137>>
      BY <1>1
    <3>2. QED
      BY <2>2, <3>1 DEF Shows
  <2>6. QED
    BY <2>1, <2>2, <2>4, <2>5, TryBegun DEF IsProbe
<1>5. CASE nr_digits # 3
  <2>1. /\ StartShift(shiftreg_curval') /\ shiftreg_curval' = s[1] * 256 + s[2]
        /\ tm1651 => failed
    BY <1>2, <1>5 DEF WriteRaw
  <2>2. frame' = <<>> /\ retry' = retry /\ fail' = fail /\ place'.at = "shift"
    BY <1>1, <2>1 DEF StartShift, AtShift
  <2>3. Calls'
    <3>1. retry \in 0 .. Tries - 1 /\ fail \in BOOLEAN
      BY <1>1 DEF Calls
    <3>2. QED
      BY <1>1, <1>2, <1>3, <2>1, <2>2, <3>1, CallBegun DEF AfterProbe, IsProbe
  <2>4. QED
    BY <1>3, <2>1, <2>3, ShiftBegun
<1>6. QED
  BY <1>4, <1>5

\* What a string is turned into, and a number into.
LEMMA StringDigits ==
  ASSUME NEW p \in Seq(0 .. Other)
  PROVE  [i \in 1 .. 3 |-> IF i <= Len(p) THEN Segments(p[i]) ELSE 0] \in [1 .. 3 -> Nat]
<1>1. ASSUME NEW i \in 1 .. 3
      PROVE  (IF i <= Len(p) THEN Segments(p[i]) ELSE 0) \in Nat
  <2>1. CASE i <= Len(p)
    <3>1. i \in 1 .. Len(p)
      BY <2>1
    <3>2. p[i] \in 0 .. Other
      BY <3>1, ElementOfSeq, Zenon
    <3>3. Segments(p[i]) \in Nat
      BY <3>2, SegmentsNat
    <3>4. QED
      BY <2>1, <3>3
  <2>2. CASE ~(i <= Len(p))
    BY <2>2
  <2>3. QED
    BY <2>1, <2>2
<1>2. QED
  BY <1>1

\* The digits of a number are characters.
LEMMA DecimalDigits ==
  ASSUME NEW val \in Nat PROVE Decimal(val) \in Seq(0 .. Other)
<1>1. (val % 1000) \div 100 \in 0 .. 9 /\ (val % 100) \div 10 \in 0 .. 9 /\ val % 10 \in 0 .. 9
  <2>1. val % 1000 \in 0 .. 999 /\ val % 100 \in 0 .. 99 /\ val % 10 \in 0 .. 9
    OBVIOUS
  <2>2. ASSUME NEW m \in 0 .. 999 PROVE m \div 100 \in 0 .. 9
    OBVIOUS
  <2>3. ASSUME NEW m \in 0 .. 99 PROVE m \div 10 \in 0 .. 9
    OBVIOUS
  <2>4. QED
    BY <2>1, <2>2, <2>3
<1>2. ASSUME NEW a \in 0 .. 9, NEW b \in 0 .. 9, NEW c \in 0 .. 9
      PROVE  <<a, b, c>> \in Seq(0 .. Other) /\ <<b, c>> \in Seq(0 .. Other)
  BY DEF Other
<1>3. QED
  <2>1. CASE nr_digits = 3
    BY <1>1, <1>2, <2>1 DEF Decimal
  <2>2. CASE nr_digits # 3
    BY <1>1, <1>2, <2>2 DEF Decimal
  <2>3. QED
    BY <2>1, <2>2

\* The rest of led_7seg_init keeps it.
LEMMA InitKept == ASSUME DisplayInv, InitOps PROVE DisplayInv'
<1>1. /\ Idle /\ place.at = "none" /\ frame = <<>> /\ ops # <<>> /\ ops' = Tail(ops)
      /\ tm1651' = tm1651 /\ dat' = dat /\ clk' = clk /\ chip' = chip /\ nr_digits' = nr_digits
      /\ failed' = failed /\ misses' = misses
  BY DEF InitOps, Idle, wireVars, countVars
<1>2. Calls
  BY <1>1, BetweenCalls
<1>3. CASE ops = <<"probe", "blank", "light">>
  <2>1. /\ StartTry(<<64>>, 0) /\ wanted' = wanted /\ shiftreg_curval' = shiftreg_curval
        /\ ops' = <<"blank", "light">>
    BY <1>1, <1>3 DEF InitOps
  <2>2. frame' = <<64>> /\ retry' = 0 /\ fail' = FALSE /\ place'.at = "start"
    BY <2>1 DEF StartTry, AtStart
  <2>3. Calls'
    <3>1. retry' \in 0 .. Tries - 1
      BY <2>2 DEF Tries
    <3>2. wanted' \in [1 .. 3 -> Nat] /\ fail' \in BOOLEAN
      BY <1>2, <2>1, <2>2 DEF Calls
    <3>3. QED
      BY <1>1, <1>2, <2>1, <2>2, <3>1, <3>2, CallBegun DEF AfterProbe, IsProbe
  <2>4. Shows(chip)'
    BY <2>1 DEF Shows
  <2>5. QED
    BY <1>1, <2>1, <2>3, <2>4, TryBegun DEF IsProbe
<1>4. CASE ops = <<"blank", "light">>
  <2>1. WriteString(<<>>) /\ ops' = <<"light">>
    BY <1>1, <1>4 DEF InitOps
  <2>2. <<>> \in Seq(0 .. Other)
    OBVIOUS
  <2>3. QED
    BY <1>1, <1>4, <2>1, <2>2, StringDigits, RawKept DEF WriteString
<1>5. CASE ops = <<"light">>
  <2>1. DisplaySetting(TRUE) /\ ops' = <<>>
    <3>1. Head(ops) = "light" /\ Head(ops) # "probe" /\ Head(ops) # "blank" /\ ops' = <<>>
      BY <1>1, <1>5
    <3>2. QED
      BY <3>1, Zenon DEF InitOps
  <2>2. wanted' = wanted /\ shiftreg_curval' = shiftreg_curval
    BY <2>1 DEF DisplaySetting
  <2>3. /\ tm1651 /\ ~failed => nr_digits = 3
        /\ ~tm1651 => nr_digits = 2
    BY <1>1, <1>5, Digits
  <2>4. CASE nr_digits = 3
    <3>1. StartTry(<<137>>, 0) /\ tm1651
      BY <2>1, <2>3, <2>4 DEF DisplaySetting
    <3>2. frame' = <<137>> /\ retry' = 0 /\ fail' = FALSE /\ place'.at = "start"
      BY <3>1 DEF StartTry, AtStart
    <3>3. Calls'
      <4>1. retry' \in 0 .. Tries - 1
        BY <3>2 DEF Tries
      <4>2. wanted' \in [1 .. 3 -> Nat] /\ fail' \in BOOLEAN
        BY <1>2, <2>2, <3>2 DEF Calls
      <4>3. QED
        BY <1>1, <1>2, <2>1, <2>3, <3>1, <3>2, <4>1, <4>2, CallBegun DEF AfterProbe, IsProbe
    <3>4. Shows(chip) => Shows(chip)'
      <4>1. ~IsData
        BY <1>1 DEF IsData
      <4>2. QED
        BY <1>1, <1>5, <2>1, <2>2, <3>2, <4>1 DEF Shows
    <3>5. QED
      BY <1>1, <3>1, <3>3, <3>4, TryBegun DEF IsProbe
  <2>5. CASE nr_digits # 3
    <3>1. StartShift(shiftreg_curval') /\ (tm1651 => failed)
      BY <2>1, <2>2, <2>3, <2>5 DEF DisplaySetting
    <3>2. frame' = <<>> /\ retry' = retry /\ fail' = fail /\ place'.at = "shift"
      BY <1>1, <3>1 DEF StartShift, AtShift
    <3>3. Calls'
      <4>1. wanted' \in [1 .. 3 -> Nat] /\ retry' \in 0 .. Tries - 1 /\ fail' \in BOOLEAN
        BY <1>2, <2>2, <3>2 DEF Calls
      <4>2. QED
        BY <1>1, <1>2, <2>1, <2>3, <3>1, <3>2, <4>1, CallBegun DEF AfterProbe, IsProbe
    <3>4. ~tm1651 => shiftreg_curval' = wanted'[1] * 256 + wanted'[2]
      BY <1>5, <2>2 DEF DisplayInv, Shifted
    <3>5. QED
      BY <1>1, <3>1, <3>3, <3>4, ShiftBegun
  <2>6. QED
    BY <2>4, <2>5
<1>6. QED
  BY <1>1, <1>2, <1>3, <1>4, <1>5 DEF Calls

\* So does what main writes.
LEMMA WrittenKept == ASSUME DisplayInv, Write PROVE DisplayInv'
<1>1. /\ Idle /\ ops = <<>> /\ ops' = <<>>
      /\ tm1651' = tm1651 /\ dat' = dat /\ clk' = clk /\ chip' = chip /\ nr_digits' = nr_digits
      /\ failed' = failed /\ misses' = misses
  BY DEF Write, wireVars
<1>2. PICK p \in Seq(0 .. Other) : WriteString(p)
  <2>1. CASE \E p \in Strings : WriteString(p)
    BY <2>1, DisplayAssumption
  <2>2. CASE \E val \in Decimals : WriteString(Decimal(val))
    BY <2>2, DecimalDigits, DisplayAssumption
  <2>3. QED
    BY <2>1, <2>2 DEF Write
<1>3. QED
  BY <1>1, <1>2, StringDigits, RawKept DEF WriteString

\* The end of a try.
LEMMA EndKept == ASSUME DisplayInv, EndTry PROVE DisplayInv'
<1>1. /\ place.at = "none" /\ frame # <<>>
      /\ tm1651' = tm1651 /\ dat' = dat /\ clk' = clk /\ chip' = chip /\ ops' = ops
      /\ wanted' = wanted /\ misses' = misses /\ shiftreg_curval' = shiftreg_curval
  BY DEF EndTry, wireVars, countVars
<1>2. Calls /\ place = Nowhere /\ dat = HIGH /\ clk = HIGH
  BY <1>1, BetweenCalls
<1>3. ~Idle /\ ops \in {<<"blank", "light">>, <<"light">>, <<>>}
      /\ retry \in 0 .. Tries - 1 /\ misses \in Nat /\ fail \in BOOLEAN /\ failed \in BOOLEAN
      /\ tm1651 \in BOOLEAN /\ wanted \in [1 .. 3 -> Nat]
  BY <1>1, <1>2 DEF Calls, Idle
<1>4. ASSUME tm1651, ~failed
      PROVE  /\ chip \in ChipType /\ Shows(chip) /\ ~chip.on /\ ~chip.pull /\ misses >= retry
             /\ fail => misses > retry
             /\ ~fail => Effect(chip, Len(frame))
  <2>1. chip \in ChipType /\ Shows(chip) /\ Follows
    BY <1>4 DEF DisplayInv
  <2>2. QED
    BY <1>1, <2>1 DEF Follows
<1>5. ASSUME ~tm1651 PROVE Shifted /\ fail /\ frame = <<64>> /\ ops = <<"blank", "light">>
  <2>1. Shifted
    BY <1>5 DEF DisplayInv
  <2>2. fail /\ frame = <<64>>
    BY <1>1, <2>1 DEF Shifted
  <2>3. frame # <<137>> /\ ~IsData
    BY <2>2 DEF IsData
  <2>4. QED
    BY <1>1, <1>2, <1>5, <2>1, <2>2, <2>3 DEF Calls
<1>6. CASE TryAgain
  <2>1. /\ frame' = frame /\ place' = AtStart(1) /\ retry' = retry + 1 /\ fail' = FALSE
        /\ nr_digits' = nr_digits /\ failed' = failed /\ place'.at = "start"
        /\ fail /\ retry + 1 \in 0 .. Tries - 1
    <3>1. fail /\ retry + 1 \in 0 .. Tries - 1
      BY <1>3, <1>6 DEF TryAgain, Tries
    <3>2. StartTry(frame, retry + 1) /\ nr_digits' = nr_digits /\ failed' = failed
      BY <1>6, Zenon DEF EndTry
    <3>3. QED
      BY <3>1, <3>2 DEF StartTry, AtStart
  <2>2. Places'
    BY <1>1, <1>2, <2>1 DEF Places
  <2>3. Calls'
    BY <1>1, <1>2, <1>3, <2>1 DEF Calls, IsData, Probed, Idle
  <2>4. CASE tm1651 /\ failed
    <3>1. misses >= Tries
      BY <2>4 DEF DisplayInv
    <3>2. QED
      BY <1>1, <2>1, <2>2, <2>3, <2>4, <3>1 DEF DisplayInv, Tries
  <2>5. CASE tm1651 /\ ~failed
    <3>1. Shows(chip)'
      BY <1>1, <1>4, <2>1, <2>5 DEF Shows, IsData
    <3>2. misses' >= retry'
      BY <1>1, <1>3, <1>4, <2>1, <2>5
    <3>3. Follows'
      BY <1>1, <1>4, <2>1, <2>5, <3>2 DEF Follows
    <3>4. QED
      BY <1>1, <1>4, <2>1, <2>2, <2>3, <2>5, <3>1, <3>3 DEF DisplayInv
  <2>6. CASE ~tm1651
    <3>1. ops' \notin {<<"light">>, <<>>} /\ frame' = <<64>>
      BY <1>1, <1>5, <2>1, <2>6
    <3>2. Shifted'
      BY <2>1, <3>1 DEF Shifted
    <3>3. QED
      BY <1>1, <2>2, <2>3, <2>6, <3>2 DEF DisplayInv
  <2>7. QED
    BY <1>3, <2>4, <2>5, <2>6
<1>7. CASE ~TryAgain
  <2>1. /\ frame' = <<>> /\ place' = place /\ retry' = retry /\ fail' = fail
        /\ failed' = (failed \/ fail)
        /\ frame = <<64>> => nr_digits' = IF fail THEN 2 ELSE 3
        /\ frame # <<64>> => nr_digits' = nr_digits
    BY <1>7 DEF EndTry
  <2>2. Places'
    BY <1>1, <1>2, <2>1 DEF Places
  <2>3. /\ tm1651 /\ ~failed' => nr_digits' = 3
        /\ ~tm1651 => nr_digits' = 2
    <3>1. CASE frame = <<64>>
      BY <1>5, <2>1, <3>1
    <3>2. CASE frame # <<64>>
      <4>1. tm1651 /\ ops \in {<<"light">>, <<>>}
        BY <1>1, <1>2, <1>5, <3>2 DEF Calls
      <4>2. Probed
        BY <4>1 DEF Probed
      <4>3. QED
        BY <1>2, <2>1, <3>2, <4>1, <4>2 DEF Calls
    <3>3. QED
      BY <3>1, <3>2
  <2>4. Calls'
    <3>1. ops' # <<"probe", "blank", "light">>
      <4>1. ops' = ops /\ (ops = <<"probe", "blank", "light">> => Idle)
        BY <1>1, <1>2 DEF Calls
      <4>2. QED
        BY <1>3, <4>1
    <3>2. failed' \in BOOLEAN
      BY <1>3, <2>1
    <3>3. frame' = <<>> /\ place'.at = "none"
      BY <1>1, <2>1
    <3>4. QED
      BY <1>1, <1>3, <2>1, <2>3, <3>1, <3>2, <3>3 DEF Calls
  <2>5. CASE tm1651 /\ (failed \/ fail)
    <3>1. misses >= Tries
      <4>1. CASE failed
        BY <2>5, <4>1 DEF DisplayInv
      <4>2. CASE ~failed
        <5>1. fail /\ misses > retry /\ ~(retry + 1 < Tries)
          BY <1>4, <1>7, <2>5, <4>2 DEF TryAgain
        <5>2. QED
          BY <1>3, <5>1 DEF Tries
      <4>3. QED
        BY <4>1, <4>2
    <3>2. tm1651' /\ failed' /\ misses' >= Tries'
      BY <1>1, <2>1, <2>5, <3>1 DEF Tries
    <3>3. QED
      BY <2>2, <2>4, <3>2 DEF DisplayInv
  <2>6. CASE tm1651 /\ ~(failed \/ fail)
    <3>1. /\ chip \in ChipType /\ Shows(chip) /\ ~chip.on /\ ~chip.pull /\ misses >= retry
          /\ Effect(chip, Len(frame))
      BY <1>4, <2>6
    <3>2. Follows'
      BY <1>1, <2>1, <3>1 DEF Follows
    <3>3. ASSUME ops \in {<<"light">>, <<>>}
          PROVE  \A i \in 1 .. 3 : chip.reg[i - 1] = Bits(wanted[i])
      <4>1. CASE IsData
        <5>1. Len(frame) = 5 /\ frame[2] = wanted[1] /\ frame[3] = wanted[2] /\ frame[4] = wanted[3]
          BY <4>1 DEF IsData
        <5>2. \A a \in 0 .. 3 : a + 1 < 5 => chip.reg[a] = Bits(frame[a + 2])
          BY <3>1, <4>1, <5>1 DEF Effect
        <5>3. chip.reg[0] = Bits(frame[2]) /\ chip.reg[1] = Bits(frame[3]) /\ chip.reg[2] = Bits(frame[4])
          BY <5>2
        <5>4. QED
          BY <5>1, <5>3
      <4>2. CASE ~IsData
        BY <3>1, <3>3, <4>2 DEF Shows
      <4>3. QED
        BY <4>1, <4>2
    <3>4. ASSUME ops = <<>> PROVE chip.lit
      <4>1. CASE frame = <<137>>
        BY <3>1, <4>1 DEF Effect
      <4>2. CASE frame # <<137>>
        BY <3>1, <3>4, <4>2 DEF Shows
      <4>3. QED
        BY <4>1, <4>2
    <3>5. Shows(chip)'
      BY <1>1, <3>3, <3>4 DEF Shows
    <3>6. tm1651' /\ ~failed' /\ chip' \in ChipType
      BY <1>1, <2>1, <2>6, <3>1
    <3>7. QED
      BY <2>2, <2>4, <3>2, <3>5, <3>6 DEF DisplayInv
  <2>7. CASE ~tm1651
    <3>1. ops' \notin {<<"light">>, <<>>} /\ frame' = <<>> /\ place'.at = "none"
      BY <1>1, <1>5, <2>1, <2>7
    <3>2. Shifted'
      BY <3>1 DEF Shifted
    <3>3. QED
      BY <1>1, <2>2, <2>4, <2>7, <3>2 DEF DisplayInv
  <2>8. QED
    BY <1>3, <2>5, <2>6, <2>7
<1>8. QED
  BY <1>6, <1>7

\* The chip lets go of DAT: at the end of a byte, while the program keeps it low.
LEMMA ReleaseKept == ASSUME DisplayInv, Release PROVE DisplayInv'
<1>1. /\ tm1651 /\ chip.pull /\ chip.n = 9
      /\ tm1651' = tm1651 /\ dat' = dat /\ clk' = clk /\ place' = place /\ fail' = fail
      /\ nr_digits' = nr_digits /\ shiftreg_curval' = shiftreg_curval /\ ops' = ops
      /\ frame' = frame /\ retry' = retry /\ wanted' = wanted /\ failed' = failed
      /\ misses' = misses
  BY DEF Release, callVars, countVars
<1>2. Calls /\ Places
  BY DEF DisplayInv
<1>3. Calls' /\ Places'
  BY <1>1, <1>2 DEF Calls, Places, IsData, Probed, Idle
<1>4. CASE failed
  BY <1>1, <1>3, <1>4 DEF DisplayInv, Tries
<1>5. CASE ~failed
  <2>1. chip \in ChipType /\ Follows /\ Shows(chip)
    BY <1>1, <1>5 DEF DisplayInv
  <2>2. \/ /\ place.at = "write" /\ place.bit = 0 /\ place.step = 1 /\ place.byte > 1
           /\ chip.on /\ Obeyed(chip, place.byte - 1)
        \/ /\ place.at = "stop" /\ place.step = 1 /\ ~fail
           /\ chip.on /\ Obeyed(chip, Len(frame))
    <3>1. CASE place.at = "write"
      <4>1. InByte(place.byte, place.bit, place.step)
        BY <2>1, <3>1 DEF Follows
      <4>2. QED
        BY <1>1, <3>1, <4>1 DEF InByte, HasRead, Missed
    <3>2. CASE place.at = "stop"
      <4>1. InStop(place.step)
        BY <2>1, <3>2 DEF Follows
      <4>2. place.step \in 1 .. 3
        BY <1>2, <3>2 DEF Places, Nowhere, AtStart, AtStop, AtBit, AtShift, AtEnd
      <4>3. QED
        BY <1>1, <3>2, <4>1, <4>2 DEF InStop, Missed
    <3>3. CASE place.at \notin {"write", "stop"}
      BY <1>1, <2>1, <3>3 DEF Follows
    <3>4. QED
      BY <3>1, <3>2, <3>3
  <2>3. dat = LOW
    BY <1>2, <2>2 DEF Places, Nowhere, AtStart, AtStop, AtBit, AtShift, AtEnd
  <2>4. chip' = [chip EXCEPT !.pull = FALSE]
    BY <2>3 DEF Release, LOW, HIGH
  <2>5. /\ chip' \in ChipType /\ chip'.on = chip.on /\ chip'.n = 9 /\ ~chip'.pull
        /\ chip'.addr = chip.addr /\ chip'.reg = chip.reg /\ chip'.lit = chip.lit
    BY <1>1, <2>1, <2>4 DEF ChipType
  <2>6. Shows(chip)' /\ \A m : Obeyed(chip, m) => Obeyed(chip, m)'
    BY <1>1, <2>1, <2>5, StaysObeyed
  <2>7. Follows'
    <3>1. CASE /\ place.at = "write" /\ place.bit = 0 /\ place.step = 1 /\ place.byte > 1
               /\ chip.on /\ Obeyed(chip, place.byte - 1)
      <4>1. InByte(place.byte, 0, 1)'
        BY <1>1, <2>5, <2>6, <3>1 DEF InByte
      <4>2. QED
        BY <1>1, <2>1, <3>1, <4>1 DEF Follows
    <3>2. CASE /\ place.at = "stop" /\ place.step = 1 /\ ~fail
               /\ chip.on /\ Obeyed(chip, Len(frame))
      <4>1. InStop(1)'
        BY <1>1, <2>5, <2>6, <3>2 DEF InStop
      <4>2. QED
        BY <1>1, <2>1, <3>2, <4>1 DEF Follows
    <3>3. QED
      BY <2>2, <3>1, <3>2
  <2>8. QED
    BY <1>1, <1>3, <1>5, <2>5, <2>6, <2>7 DEF DisplayInv
<1>6. QED
  BY <1>2, <1>4, <1>5 DEF Calls

\* It holds when tm1651_init has released the wires.
LEMMA DisplayInitInv == DisplayInit => DisplayInv
<1>1. SUFFICES ASSUME DisplayInit PROVE DisplayInv
  OBVIOUS
<1>2. Calls
  <2>1. /\ ops = <<"probe", "blank", "light">> /\ place.at = "none" /\ frame = <<>>
        /\ retry = 0 /\ misses = 0 /\ fail = FALSE /\ failed = FALSE /\ tm1651 \in BOOLEAN
    BY <1>1 DEF DisplayInit, Nowhere
  <2>2. wanted \in [1 .. 3 -> Nat] /\ retry \in 0 .. Tries - 1
    <3>1. <<0, 0, 0>> \in [1 .. 3 -> Nat]
      OBVIOUS
    <3>2. QED
      BY <1>1, <2>1, <3>1 DEF DisplayInit, Tries
  <2>3. Idle /\ ops \notin {<<"blank", "light">>, <<"light">>, <<>>}
    BY <2>1 DEF Idle
  <2>4. ~Probed
    BY <2>3 DEF Probed
  <2>5. QED
    BY <2>1, <2>2, <2>3, <2>4 DEF Calls
<1>3. Places
  BY <1>1 DEF DisplayInit, Places
<1>4. Bits(0) \in Bytes
  BY BitsLevel DEF Bytes
<1>5. ChipOff \in ChipType
  BY <1>4 DEF ChipOff, ChipType, Command, NoData
<1>6. Follows /\ Shows(chip)
  BY <1>1 DEF DisplayInit, Follows, Shows, ChipOff, Nowhere
<1>7. Shifted
  BY <1>1 DEF DisplayInit, Shifted, Nowhere
<1>8. QED
  BY <1>1, <1>2, <1>3, <1>5, <1>6, <1>7 DEF DisplayInit, DisplayInv

\* The invariant of the display, over every pin change, call and retry, for any texts
\* and numbers, any number of them, and however often the chip misses a byte.
THEOREM DisplayInductive == DisplaySpec => []DisplayInv
<1>1. ASSUME DisplayInv, [DisplayNext]_displayVars PROVE DisplayInv'
  <2>1. CASE InitOps
    BY <1>1, <2>1, InitKept
  <2>2. CASE Write
    BY <1>1, <2>2, WrittenKept
  <2>3. CASE EndTry
    BY <1>1, <2>3, EndKept
  <2>4. CASE tm1651_start
    BY <1>1, <2>4, StartKept
  <2>5. CASE tm1651_write
    BY <1>1, <2>5, WriteKept
  <2>6. CASE tm1651_stop
    BY <1>1, <2>6, StopKept
  <2>7. CASE shiftreg_update_display_u16
    BY <1>1, <2>7, ShiftKept
  <2>8. CASE Release
    BY <1>1, <2>8, ReleaseKept
  <2>9. CASE UNCHANGED displayVars
    <3>1. /\ tm1651' = tm1651 /\ dat' = dat /\ clk' = clk /\ place' = place /\ fail' = fail
          /\ nr_digits' = nr_digits /\ shiftreg_curval' = shiftreg_curval /\ ops' = ops
          /\ frame' = frame /\ retry' = retry /\ wanted' = wanted /\ failed' = failed
          /\ misses' = misses /\ chip' = chip /\ regs164' = regs164
      BY <2>9 DEF displayVars, wireVars, callVars, countVars
    <3>2. Calls' /\ Places'
      BY <1>1, <3>1 DEF DisplayInv, Calls, Places, IsData, Probed, Idle
    <3>3. Follows => Follows'
      BY <3>1 DEF Follows, InByte, InStop, HasRead, Missed, Obeyed, AddressOf, Effect, IsData
    <3>4. Shows(chip) => Shows(chip)'
      BY <3>1 DEF Shows, IsData
    <3>5. Shifted => Shifted'
      BY <3>1 DEF Shifted, Holds
    <3>6. QED
      BY <1>1, <3>1, <3>2, <3>3, <3>4, <3>5 DEF DisplayInv
  <2>10. QED
    BY <1>1, <2>1, <2>2, <2>3, <2>4, <2>5, <2>6, <2>7, <2>8, <2>9 DEF DisplayNext
<1>2. QED
  BY <1>1, DisplayInitInv, PTL DEF DisplaySpec

\* Between calls the display shows what was written last (led_7seg.c), or three bytes
\* of one frame were missed.
THEOREM ShowsLastWritten == DisplaySpec => []Shown
<1>1. DisplayInv => Shown
  <2>1. SUFFICES ASSUME DisplayInv, Idle, ops = <<>> PROVE Shown
    BY DEF Shown
  <2>2. /\ tm1651 /\ ~failed => nr_digits = 3
        /\ ~tm1651 => nr_digits = 2
    BY <2>1, Digits
  <2>3. frame = <<>> /\ ~IsData /\ frame # <<137>> /\ place.at = "none"
    BY <2>1 DEF Idle, IsData
  <2>4. CASE tm1651
    <3>1. ASSUME ~failed
          PROVE  chip.lit /\ \A i \in 1 .. 3 : chip.reg[i - 1] = Bits(wanted[i])
      <4>1. Shows(chip)
        BY <2>1, <2>4, <3>1 DEF DisplayInv
      <4>2. QED
        BY <2>1, <2>3, <4>1 DEF Shows
    <3>2. failed => misses >= Tries
      BY <2>1, <2>4 DEF DisplayInv
    <3>3. QED
      BY <2>2, <2>4, <3>1, <3>2 DEF Shown
  <2>5. CASE ~tm1651
    <3>1. Shifted
      BY <2>1, <2>5 DEF DisplayInv
    <3>2. shiftreg_curval = wanted[1] * 256 + wanted[2] /\ Holds(shiftreg_curval, 16)
      BY <2>1, <2>3, <3>1 DEF Shifted
    <3>3. ASSUME NEW i \in 1 .. 16 PROVE regs164[i] = Bit(wanted[1] * 256 + wanted[2], i - 1)
      <4>1. 15 - 16 + i = i - 1
        OBVIOUS
      <4>2. regs164[i] = Bit(shiftreg_curval, 15 - 16 + i)
        BY <3>2 DEF Holds
      <4>3. QED
        BY <3>2, <4>1, <4>2
    <3>4. QED
      BY <2>2, <2>5, <3>3 DEF Shown
  <2>6. QED
    BY <2>4, <2>5
<1>2. QED
  BY <1>1, DisplayInductive, PTL

-----------------------------------------------------------------------------
(* Memory *)

\* Before the call every byte is where its name says.
LEMMA MemoryStarts == MemoryInit => MemoryInv
BY MemoryAssumption, SMTT(30)
   DEF MemoryInit, MemoryInv, NoCall, CallType, Progress, Moved, Wanted, Addresses

\* Where a call begins.
LEMMA CalledIs ==
  ASSUME NEW fn, NEW d \in Nat, NEW s \in Nat, NEW n \in Nat
  PROVE  \/ /\ fn = "memmove" /\ s <= d /\ n > 0
            /\ Called(fn, d, s, n) = [fn |-> fn, d |-> d, s |-> s, n |-> n,
                  at |-> "back", p |-> d + n, q |-> s + n, left |-> n]
         \/ /\ fn = "memmove" /\ s <= d /\ n = 0
            /\ Called(fn, d, s, n) = [fn |-> fn, d |-> d, s |-> s, n |-> n,
                  at |-> "done", p |-> d + n, q |-> s + n, left |-> n]
         \/ /\ fn = "memmove" => d < s
            /\ n >= Block
            /\ Called(fn, d, s, n) = [fn |-> fn, d |-> d, s |-> s, n |-> n,
                  at |-> "blocks", p |-> d, q |-> s, left |-> n]
         \/ /\ fn = "memmove" => d < s
            /\ n > 0
            /\ Called(fn, d, s, n) = [fn |-> fn, d |-> d, s |-> s, n |-> n,
                  at |-> "bytes", p |-> d, q |-> s, left |-> n]
         \/ /\ n = 0
            /\ Called(fn, d, s, n) = [fn |-> fn, d |-> d, s |-> s, n |-> n,
                  at |-> "done", p |-> d, q |-> s, left |-> n]
<1> DEFINE c == [fn |-> fn, d |-> d, s |-> s, n |-> n,
                 at |-> "done", p |-> d, q |-> s, left |-> n]
<1>0. c.fn = fn /\ c.d = d /\ c.s = s /\ c.n = n /\ c.left = n
  OBVIOUS
<1>4. Called(fn, d, s, n) = IF fn = "memmove" /\ ~CopiesUp(d, s) THEN Backward(c)
                                                               ELSE Forward(c)
  BY DEF Called
<1> HIDE DEF c
<1>1. Remainder(c) = [c EXCEPT !.at = IF n = 0 THEN "done" ELSE "bytes"]
  BY <1>0 DEF Remainder
<1>2. \/ Forward(c) = Remainder(c)
      \/ n >= Block /\ Forward(c) = [c EXCEPT !.at = "blocks"]
  BY <1>0, Zenon DEF Forward
<1>3. Backward(c) = [c EXCEPT !.p = d + n, !.q = s + n,
                              !.at = IF n = 0 THEN "done" ELSE "back"]
  BY <1>0 DEF Backward
<1>11. Backward(c) = [fn |-> fn, d |-> d, s |-> s, n |-> n,
        at |-> IF n = 0 THEN "done" ELSE "back", p |-> d + n, q |-> s + n, left |-> n]
  BY <1>3 DEF c
<1>5. Remainder(c) = [fn |-> fn, d |-> d, s |-> s, n |-> n,
        at |-> IF n = 0 THEN "done" ELSE "bytes", p |-> d, q |-> s, left |-> n]
  BY <1>1 DEF c
<1>6. [c EXCEPT !.at = "blocks"] = [fn |-> fn, d |-> d, s |-> s, n |-> n,
        at |-> "blocks", p |-> d, q |-> s, left |-> n]
  BY DEF c
<1>7. CopiesUp(d, s) => d < s
  BY DEF CopiesUp
<1>8. ~CopiesUp(d, s) => s <= d
  BY DEF CopiesUp
<1>9. CASE fn = "memmove" /\ ~CopiesUp(d, s)
  BY <1>4, <1>8, <1>9, <1>11
<1>10. CASE ~(fn = "memmove" /\ ~CopiesUp(d, s))
  BY <1>2, <1>4, <1>5, <1>6, <1>7, <1>10
<1> QED
  BY <1>9, <1>10

\* A call finds every byte where its name says.
LEMMA CallKeeps == ASSUME MemoryInv, Call PROVE MemoryInv'
<1>1. PICK d \in Addresses, s \in Addresses, n \in 0 .. MemSize :
        /\ d + n <= MemSize /\ s + n <= MemSize
        /\ \/ call' = Called("memset", d, d, n)
           \/ call' = Called("memmove", d, s, n)
           \/ Apart(d, s, n) /\ call' = Called("memcpy", d, s, n)
  BY DEF Call
<1>2. d \in Nat /\ s \in Nat /\ n \in Nat
  BY MemoryAssumption DEF Addresses
<1>3. mem' = mem /\ mem \in [Addresses -> Int] /\ call = NoCall
      /\ \A x \in Addresses : mem[x] = IF Moved(call, x) THEN Wanted(call, x) ELSE x
  BY DEF Call, MemoryInv
<1>4. \A x \in Addresses : ~Moved(NoCall, x)
  BY MemoryAssumption DEF NoCall, Moved, Addresses
<1>5. \A x \in Addresses : mem[x] = x
  BY <1>3, <1>4
<1>6. ASSUME NEW fn \in {"memset", "memmove", "memcpy"}, NEW b \in Nat,
             call' = Called(fn, d, b, n), b + n <= MemSize,
             fn = "memcpy" => Apart(d, b, n)
      PROVE  MemoryInv'
  <2> DEFINE c == Called(fn, d, b, n)
  <2>1. c \in CallType /\ Progress(c)
    BY <1>1, <1>2, <1>6, CalledIs, MemoryAssumption, SMTT(60) DEF CallType, Progress
  <2>2. \A x \in Addresses : ~Moved(c, x)
    BY <1>2, <1>6, CalledIs, MemoryAssumption, SMTT(60) DEF Moved, Addresses
  <2> QED
    BY <1>3, <1>5, <1>6, <2>1, <2>2 DEF MemoryInv
<1> QED
  BY <1>1, <1>2, <1>6

\* Only where it goes on is new.
LEMMA RemainderIs ==
  ASSUME NEW c \in CallType
  PROVE  /\ Remainder(c) \in CallType
         /\ \A f \in {"fn", "d", "s", "n", "p", "q", "left"} : Remainder(c)[f] = c[f]
         /\ Remainder(c).at = IF c.left = 0 THEN "done" ELSE "bytes"
<1>1. PICK a \in {"done", "bytes"} : a = IF c.left = 0 THEN "done" ELSE "bytes"
  OBVIOUS
<1>2. Remainder(c) = [c EXCEPT !.at = a]
  BY <1>1 DEF Remainder
<1> QED
  BY <1>1, <1>2 DEF CallType

\* How far a call is after k bytes.
LEMMA AdvancedIs ==
  ASSUME NEW c \in CallType, NEW k \in Nat, k <= c.left
  PROVE  LET b == Advanced(c, k)
         IN /\ b \in CallType
            /\ b.fn = c.fn /\ b.d = c.d /\ b.s = c.s /\ b.n = c.n /\ b.at = c.at
            /\ b.p = c.p + k /\ b.q = c.q + k /\ b.left = c.left - k
<1>1. PICK p \in Int, q \in Int, left \in Nat :
        p = c.p + k /\ q = c.q + k /\ left = c.left - k
  BY DEF CallType
<1>2. Advanced(c, k) = [c EXCEPT !.p = p, !.q = q, !.left = left]
  BY <1>1, Zenon DEF Advanced
<1>3. PICK b : b = Advanced(c, k)
  OBVIOUS
<1>4. /\ b \in CallType
      /\ b.fn = c.fn /\ b.d = c.d /\ b.s = c.s /\ b.n = c.n /\ b.at = c.at
      /\ b.p = p /\ b.q = q /\ b.left = left
  BY <1>2, <1>3 DEF CallType
<1> QED
  BY <1>1, <1>3, <1>4

\* k more bytes are moved, upwards: none of those that were to be read was written.
LEMMA UpwardsKeeps ==
  ASSUME MemoryInv, call.at \in {"blocks", "bytes"},
         NEW k \in Nat \ {0}, k <= call.left,
         mem' = [x \in Addresses |->
                   IF call.p <= x /\ x < call.p + k THEN Loaded(x - call.p) ELSE mem[x]],
         NEW c \in CallType, call' = c,
         c.fn = call.fn, c.d = call.d, c.s = call.s, c.n = call.n,
         c.p = call.p + k, c.q = call.q + k, c.left = call.left - k,
         c.at = "blocks" \/ c.at = (IF c.left = 0 THEN "done" ELSE "bytes"),
         c.at = "blocks" => c.left >= Block
  PROVE  MemoryInv'
<1>1. PICK o \in CallType : call = o
  BY DEF MemoryInv
<1>2. /\ o.d \in Nat /\ o.s \in Nat /\ o.n \in Nat /\ o.left \in Nat /\ o.p \in Int
      /\ o.q \in Int /\ c.left \in Nat
  BY DEF CallType
<1>3. Progress(o) /\ mem \in [Addresses -> Int]
      /\ \A x \in Addresses : mem[x] = IF Moved(o, x) THEN Wanted(o, x) ELSE x
  BY <1>1 DEF MemoryInv
<1>4. /\ o.p = o.d + (o.n - o.left) /\ o.q = o.s + (o.n - o.left) /\ o.left <= o.n
      /\ o.d + o.n <= MemSize /\ o.s + o.n <= MemSize
      /\ o.fn = "memset" \/ o.d < o.s \/ Apart(o.d, o.s, o.n)
      /\ k <= o.left
  BY <1>1, <1>3 DEF Progress
<1>5. Progress(c)
  BY <1>1, <1>2, <1>4, MemoryAssumption DEF Progress
<1>6. ASSUME NEW x \in Addresses
      PROVE  mem'[x] \in Int /\ mem'[x] = IF Moved(c, x) THEN Wanted(c, x) ELSE x
  <2>1. x \in Nat /\ x < MemSize
    BY MemoryAssumption DEF Addresses
  <2>2. Wanted(c, x) = Wanted(o, x)
    BY <1>1 DEF Wanted
  <2>3. Moved(c, x) <=> o.d <= x /\ x < o.p + k
    BY <1>1, <1>2, <1>4, <2>1 DEF Moved
  <2>4. Moved(o, x) <=> o.d <= x /\ x < o.p
    BY <1>1, <1>2, <1>4, <2>1 DEF Moved
  <2>5. CASE o.p <= x /\ x < o.p + k
    <3>1. mem'[x] = Loaded(x - o.p)
      BY <1>1, <2>5
    <3>2. Moved(c, x) /\ o.d <= x /\ x < o.d + o.n
      BY <1>1, <1>2, <1>4, <2>1, <2>3, <2>5
    <3>3. CASE o.fn = "memset"
      BY <1>1, <2>2, <3>1, <3>2, <3>3 DEF Loaded, Wanted, Fill
    <3>4. CASE o.fn # "memset"
      <4> DEFINE y == o.q + (x - o.p)
      <4>1. y \in Int /\ y = o.s + (x - o.d) /\ 0 <= y /\ y <= MemSize - 1
        BY <1>2, <1>4, <2>1, <2>5, MemoryAssumption
      <4>7. y \in Addresses
        BY <4>1, MemoryAssumption DEF Addresses
      <4>2. ~(o.d <= y /\ y < o.p)
        BY <1>1, <1>2, <1>4, <2>1, <2>5, <3>4, <4>1 DEF Apart
      <4>3. ~Moved(o, y)
        BY <1>1, <4>2 DEF Moved
      <4>4. mem[y] = y
        BY <1>3, <4>3, <4>7
      <4>5. mem'[x] = mem[y]
        BY <1>1, <3>1, <3>4 DEF Loaded
      <4>6. Wanted(o, x) = y
        BY <3>2, <3>4, <4>1 DEF Wanted
      <4> QED
        BY <2>2, <3>2, <4>1, <4>4, <4>5, <4>6
    <3> QED
      BY <3>3, <3>4
  <2>6. CASE ~(o.p <= x /\ x < o.p + k)
    <3>1. mem'[x] = mem[x] /\ mem[x] \in Int
      BY <1>1, <1>3, <2>6
    <3>2. Moved(c, x) <=> Moved(o, x)
      BY <1>2, <2>1, <2>3, <2>4, <2>6
    <3> QED
      BY <1>3, <2>2, <3>1, <3>2
  <2> QED
    BY <2>5, <2>6
<1> QED
  BY <1>5, <1>6 DEF MemoryInv

\* memcpy_fast and memset_fast: a block at once.
LEMMA MoveBlockKeeps == ASSUME MemoryInv, MoveBlock PROVE MemoryInv'
<1> DEFINE b == Advanced(call, Block)
<1>1. call \in CallType /\ call.left >= Block /\ call.at = "blocks"
  BY DEF MemoryInv, MoveBlock, Progress
<1>2. /\ b \in CallType
      /\ b.fn = call.fn /\ b.d = call.d /\ b.s = call.s /\ b.n = call.n
      /\ b.p = call.p + Block /\ b.q = call.q + Block /\ b.left = call.left - Block
      /\ b.at = "blocks"
  BY <1>1, AdvancedIs, MemoryAssumption
<1>3. /\ call' = IF b.left >= Block THEN b ELSE Remainder(b)
      /\ mem' = [x \in Addresses |->
           IF call.p <= x /\ x < call.p + Block THEN Loaded(x - call.p) ELSE mem[x]]
  BY DEF MoveBlock
<1> HIDE DEF b
<1>4. CASE b.left >= Block
  BY <1>1, <1>2, <1>3, <1>4, UpwardsKeeps, MemoryAssumption
<1>5. CASE ~(b.left >= Block)
  <2>1. call' = Remainder(b)
    BY <1>3, <1>5
  <2>2. Remainder(b).at # "blocks"
    BY <1>2, RemainderIs
  <2> QED
    BY <1>1, <1>2, <1>3, <2>1, <2>2, RemainderIs, UpwardsKeeps, MemoryAssumption
<1> QED
  BY <1>4, <1>5

\* The remainder: a byte at a time.
LEMMA MoveByteKeeps == ASSUME MemoryInv, MoveByte PROVE MemoryInv'
<1> DEFINE b == Advanced(call, 1)
<1>1. call \in CallType /\ call.left > 0 /\ call.at \in {"blocks", "bytes"}
  BY DEF MemoryInv, MoveByte, Progress
<1>2. /\ b \in CallType
      /\ b.fn = call.fn /\ b.d = call.d /\ b.s = call.s /\ b.n = call.n
      /\ b.p = call.p + 1 /\ b.q = call.q + 1 /\ b.left = call.left - 1
  <2>1. 1 \in Nat /\ 1 <= call.left
    BY <1>1 DEF CallType
  <2> QED
    BY <1>1, <2>1, AdvancedIs
<1>3. call' = Remainder(b) /\ mem' = [mem EXCEPT ![call.p] = Loaded(0)]
  BY DEF MoveByte
<1> HIDE DEF b
<1>4. mem \in [Addresses -> Int] /\ call.p \in Int
  BY <1>1 DEF MemoryInv, CallType
<1>5. mem' = [x \in Addresses |->
        IF call.p <= x /\ x < call.p + 1 THEN Loaded(x - call.p) ELSE mem[x]]
  <2>1. \A x \in Addresses : x \in Int /\ (call.p <= x /\ x < call.p + 1 <=> x = call.p)
    BY <1>4, MemoryAssumption DEF Addresses
  <2>2. call.p - call.p = 0
    BY <1>4
  <2> QED
    BY <1>3, <1>4, <2>1, <2>2
<1>6. PICK k \in Nat \ {0} : k = 1
  OBVIOUS
<1>7. PICK c : c = Remainder(b)
  OBVIOUS
<1>8. /\ c \in CallType
      /\ c.fn = call.fn /\ c.d = call.d /\ c.s = call.s /\ c.n = call.n
      /\ c.p = call.p + k /\ c.q = call.q + k /\ c.left = call.left - k
      /\ c.at = (IF c.left = 0 THEN "done" ELSE "bytes") /\ c.at # "blocks"
  BY <1>2, <1>6, <1>7, RemainderIs
<1>9. k <= call.left
  BY <1>1, <1>6 DEF CallType
<1> QED
  BY <1>1, <1>3, <1>5, <1>6, <1>7, <1>8, <1>9, UpwardsKeeps

\* memmove downwards: the destination is not below, so what is to be read is.
LEMMA MoveBackKeeps == ASSUME MemoryInv, MoveBack PROVE MemoryInv'
<1>1. PICK o \in CallType : call = o
  BY DEF MemoryInv
<1>2. /\ o.d \in Nat /\ o.s \in Nat /\ o.n \in Nat /\ o.left \in Nat /\ o.p \in Int
      /\ o.q \in Int
  BY DEF CallType
<1>3. Progress(o) /\ mem \in [Addresses -> Int]
      /\ \A x \in Addresses : mem[x] = IF Moved(o, x) THEN Wanted(o, x) ELSE x
  BY <1>1 DEF MemoryInv
<1>4. o.at = "back" /\ mem' = [mem EXCEPT ![o.p - 1] = mem[o.q - 1]]
  BY <1>1 DEF MoveBack
<1>5. /\ o.p = o.d + o.left /\ o.q = o.s + o.left /\ o.left > 0 /\ o.left <= o.n
      /\ o.d + o.n <= MemSize /\ o.s + o.n <= MemSize
      /\ o.fn = "memmove" /\ o.s <= o.d
  BY <1>3, <1>4 DEF Progress
<1>6. PICK c : call' = c
  OBVIOUS
<1>7. /\ c \in CallType
      /\ c.fn = o.fn /\ c.d = o.d /\ c.s = o.s /\ c.n = o.n
      /\ c.p = o.p - 1 /\ c.q = o.q - 1 /\ c.left = o.left - 1
      /\ c.at = IF o.left = 1 THEN "done" ELSE "back"
  <2>1. PICK p \in Int, q \in Int, left \in Nat, at \in {"done", "back"} :
          /\ p = o.p - 1 /\ q = o.q - 1 /\ left = o.left - 1
          /\ at = IF o.left = 1 THEN "done" ELSE "back"
    BY <1>2, <1>5
  <2>4. PICK b : b = [o EXCEPT !.p = p, !.q = q, !.left = left]
    OBVIOUS
  <2>2. c = [b EXCEPT !.at = at]
    BY <1>1, <1>6, <2>1, <2>4, Zenon DEF MoveBack
  <2>3. /\ b \in CallType
        /\ b.fn = o.fn /\ b.d = o.d /\ b.s = o.s /\ b.n = o.n
        /\ b.p = p /\ b.q = q /\ b.left = left
    BY <2>4 DEF CallType
  <2> QED
    BY <2>1, <2>2, <2>3 DEF CallType
<1>8. Progress(c)
  BY <1>2, <1>5, <1>7, MemoryAssumption DEF Progress
<1>9. ASSUME NEW x \in Addresses
      PROVE  mem'[x] \in Int /\ mem'[x] = IF Moved(c, x) THEN Wanted(c, x) ELSE x
  <2>1. x \in Nat /\ x < MemSize
    BY MemoryAssumption DEF Addresses
  <2>2. Wanted(c, x) = Wanted(o, x)
    BY <1>7 DEF Wanted
  <2>3. Moved(c, x) <=> o.p - 1 <= x /\ x < o.d + o.n
    BY <1>2, <1>5, <1>7, <2>1 DEF Moved
  <2>4. Moved(o, x) <=> o.p <= x /\ x < o.d + o.n
    BY <1>2, <1>4, <1>5, <2>1 DEF Moved
  <2>5. CASE x = o.p - 1
    <3> DEFINE y == o.q - 1
    <3>1. y \in Addresses /\ y = o.s + (x - o.d) /\ y \in Int /\ y < o.p
      BY <1>2, <1>5, <2>5, MemoryAssumption DEF Addresses
    <3>2. ~Moved(o, y)
      BY <1>2, <1>4, <3>1 DEF Moved
    <3>3. mem[y] = y /\ mem'[x] = mem[y]
      BY <1>3, <1>4, <2>5, <3>1, <3>2
    <3>4. Moved(c, x) /\ o.d <= x /\ x < o.d + o.n
      BY <1>2, <1>5, <2>3, <2>5
    <3>5. Wanted(o, x) = y
      BY <1>5, <3>1, <3>4 DEF Wanted
    <3> QED
      BY <2>2, <3>1, <3>3, <3>4, <3>5
  <2>6. CASE x # o.p - 1
    <3>1. mem'[x] = mem[x] /\ mem[x] \in Int
      BY <1>3, <1>4, <2>6
    <3>2. Moved(c, x) <=> Moved(o, x)
      BY <1>2, <2>1, <2>3, <2>4, <2>6
    <3> QED
      BY <1>3, <2>2, <3>1, <3>2
  <2> QED
    BY <2>5, <2>6
<1>10. mem' = [x \in Addresses |-> IF x = o.p - 1 THEN mem[o.q - 1] ELSE mem[x]]
  BY <1>3, <1>4
<1> QED
  BY <1>6, <1>7, <1>8, <1>9, <1>10 DEF MemoryInv

\* Every byte of a call is there or still to come, and none that is to come is
\* lost, for every size of memory, block and alignment.
THEOREM MemoryInductive == MemorySpec => []MemoryInv
<1>1. MemoryInv /\ [MemoryNext]_memoryVars => MemoryInv'
  <2> SUFFICES ASSUME MemoryInv, [MemoryNext]_memoryVars PROVE MemoryInv'
    OBVIOUS
  <2>1. CASE UNCHANGED memoryVars
    BY <2>1 DEF memoryVars, MemoryInv
  <2> QED
    BY <2>1, CallKeeps, MoveBlockKeeps, MoveByteKeeps, MoveBackKeeps DEF MemoryNext
<1> QED
  BY <1>1, MemoryStarts, PTL DEF MemorySpec

\* Whatever the arguments and however they overlap, memset, memcpy and memmove
\* leave every byte as the standard says, for every size of memory, block and
\* alignment.
THEOREM CopiesRight == MemorySpec => []MemoryRight
<1>1. MemoryInv => MemoryRight
  <2> SUFFICES ASSUME MemoryInv, call.at = "done", NEW x \in Addresses
               PROVE  mem[x] = Wanted(call, x)
    BY DEF MemoryRight
  <2>1. Moved(call, x) \/ Wanted(call, x) = x
    BY DEF Moved, Wanted
  <2> QED
    BY <2>1 DEF MemoryInv
<1> QED
  BY <1>1, MemoryInductive, PTL

-----------------------------------------------------------------------------
(* Qsort *)

\* Two items that change places are both still there.
LEMMA SwapKeeps ==
  ASSUME nr \in Nat, NEW a \in [Slots -> Item], Kept(a),
         NEW p \in Slots, NEW q \in Slots
  PROVE  Swapped(a, p, q) \in [Slots -> Item] /\ Kept(Swapped(a, p, q))
<1> DEFINE b == Swapped(a, p, q)
<1>1. /\ b \in [Slots -> Item] /\ b[p] = a[q] /\ b[q] = a[p]
      /\ \A k \in Slots : k # p /\ k # q => b[k] = a[k]
  BY DEF Swapped
<1> HIDE DEF b
<1>2. \A k \in Slots : b[k].id \in Slots
  BY <1>1 DEF Kept
<1>3. ASSUME NEW id \in Slots PROVE \E k \in Slots : b[k].id = id
  <2>1. PICK k \in Slots : a[k].id = id
    BY DEF Kept
  <2>2. k # p /\ k # q => b[k].id = id
    BY <1>1, <2>1
  <2>3. (k = p => b[q].id = id) /\ (k = q => b[p].id = id)
    BY <1>1, <2>1
  <2> QED
    BY <2>2, <2>3
<1>4. Kept(b)
  BY <1>2, <1>3 DEF Kept
<1> QED
  BY <1>1, <1>4 DEF b

\* Nor does the order between two items change unless one call has them both.
LEMMA SwapSeparates ==
  ASSUME nr \in Nat, NEW a \in [Slots -> Item], NEW fs \in Seq(FrameType),
         FramesApart(fs), Separated(a, fs),
         NEW t \in 1 .. Len(fs), NEW p \in Slots, NEW q \in Slots,
         In(p, fs[t]), In(q, fs[t])
  PROVE  Separated(Swapped(a, p, q), fs)
<1> DEFINE b == Swapped(a, p, q)
<1>1. /\ b[p] = a[q] /\ b[q] = a[p]
      /\ \A k \in Slots : k # p /\ k # q => b[k] = a[k]
  BY DEF Swapped
<1> HIDE DEF b
<1>2. SUFFICES ASSUME NEW x \in Slots, NEW y \in Slots, x < y,
                      \A m \in 1 .. Len(fs) : ~(In(x, fs[m]) /\ In(y, fs[m]))
               PROVE  b[x].key <= b[y].key
  BY DEF Separated, b
<1>3. x \in Int /\ y \in Int /\ p \in Int /\ q \in Int
  BY DEF Slots
<1>4. fs[t].l \in Int /\ fs[t].r \in Int
  <2>1. fs[t] \in FrameType
    OBVIOUS
  <2> QED
    BY <2>1 DEF FrameType
<1>5. \A u, v \in Slots :
        u < v => \/ a[u].key <= a[v].key
                 \/ \E m \in 1 .. Len(fs) : In(u, fs[m]) /\ In(v, fs[m])
  BY DEF Separated
<1>6. \A m \in 1 .. Len(fs), u \in Slots : m # t => ~(In(u, fs[m]) /\ In(u, fs[t]))
  BY DEF FramesApart
<1>7. ~(In(x, fs[t]) /\ In(y, fs[t]))
  BY <1>2
<1>8. CASE In(x, fs[t])
  <2>1. PICK u \in Slots : u \in {p, q, x} /\ b[x] = a[u]
    BY <1>1
  <2>2. y # p /\ y # q /\ b[y] = a[y]
    BY <1>1, <1>7, <1>8
  <2>3. In(u, fs[t])
    BY <1>8, <2>1
  <2>4. u < y /\ u \in Int
    BY <1>2, <1>3, <1>4, <1>7, <1>8, <2>1, <2>3 DEF In
  <2>5. \A m \in 1 .. Len(fs) : ~(In(u, fs[m]) /\ In(y, fs[m]))
    BY <1>6, <1>7, <1>8, <2>3
  <2> QED
    BY <1>5, <2>1, <2>2, <2>4, <2>5
<1>9. CASE In(y, fs[t])
  <2>1. PICK u \in Slots : u \in {p, q, y} /\ b[y] = a[u]
    BY <1>1
  <2>2. x # p /\ x # q /\ b[x] = a[x]
    BY <1>1, <1>7, <1>9
  <2>3. In(u, fs[t])
    BY <1>9, <2>1
  <2>4. x < u /\ u \in Int
    BY <1>2, <1>3, <1>4, <1>7, <1>9, <2>1, <2>3 DEF In
  <2>5. \A m \in 1 .. Len(fs) : ~(In(x, fs[m]) /\ In(u, fs[m]))
    BY <1>6, <1>7, <1>9, <2>3
  <2> QED
    BY <1>5, <2>1, <2>2, <2>4, <2>5
<1>10. CASE ~In(x, fs[t]) /\ ~In(y, fs[t])
  BY <1>1, <1>2, <1>5, <1>10
<1> QED
  BY <1>8, <1>9, <1>10

\* What is known of the innermost call.
LEMMA TopIs ==
  ASSUME QsortInv, frames # <<>>
  PROVE  /\ nr \in Nat /\ Innermost \in 1 .. Len(frames) /\ Innermost \in Nat
         /\ Top \in FrameType /\ Top.l \in Int /\ Top.r \in Int /\ Top.given \in Int
         /\ 0 <= Top.l /\ Top.r < nr /\ Top.l <= Top.r + 1 /\ Top.r - Top.l < Top.given
         /\ \A x \in Int : In(x, Top) => x \in Slots
<1>1. nr \in Nat /\ frames \in Seq(FrameType) /\ Innermost \in 1 .. Len(frames)
      /\ Innermost \in Nat
  BY DEF QsortInv, QsortType, Innermost
<1>2. Top \in FrameType /\ Top.l \in Int /\ Top.r \in Int /\ Top.given \in Int
  <2>1. Top \in FrameType
    BY <1>1 DEF Top
  <2> QED
    BY <2>1 DEF FrameType
<1>3. 0 <= Top.l /\ Top.r < nr /\ Top.l <= Top.r + 1 /\ Top.r - Top.l < Top.given
  BY <1>1 DEF QsortInv, FramesApart, Top
<1>4. \A x \in Int : In(x, Top) => x \in Slots
  BY <1>1, <1>2, <1>3 DEF In, Slots
<1> QED
  BY <1>1, <1>2, <1>3, <1>4

\* A change of places of two items of the innermost call keeps all but the search.
LEMMA SwapInside ==
  ASSUME QsortInv, frames # <<>>, NEW p \in Int, NEW q \in Int, In(p, Top), In(q, Top)
  PROVE  /\ p \in Slots /\ q \in Slots
         /\ Swapped(items, p, q) \in [Slots -> Item]
         /\ Kept(Swapped(items, p, q))
         /\ Separated(Swapped(items, p, q), frames)
<1>1. p \in Slots /\ q \in Slots
  BY TopIs
<1>2. /\ nr \in Nat /\ items \in [Slots -> Item] /\ frames \in Seq(FrameType)
      /\ FramesApart(frames) /\ Kept(items) /\ Separated(items, frames)
  BY DEF QsortInv, QsortType
<1>3. Innermost \in 1 .. Len(frames) /\ In(p, frames[Innermost]) /\ In(q, frames[Innermost])
  BY TopIs DEF Top
<1>4. Separated(Swapped(items, p, q), frames)
  BY <1>1, <1>2, <1>3, SwapSeparates
<1> QED
  BY <1>1, <1>2, <1>4, SwapKeeps

\* The call: one frame has all of the items, each where it began.
LEMMA QsortStarts == QsortInit => QsortInv
<1> SUFFICES ASSUME QsortInit PROVE QsortInv
  OBVIOUS
<1>1. nr \in Nat
  BY QsortAssumption DEF QsortInit
<1>2. PICK key \in [Slots -> Keys] : items = [k \in Slots |-> [key |-> key[k], id |-> k]]
  BY DEF QsortInit
<1>3. items \in [Slots -> Item] /\ \A k \in Slots : items[k].id = k
  <2>1. ASSUME NEW k \in Slots PROVE items[k] \in Item /\ items[k].id = k
    <3>3. key[k] \in Keys
      OBVIOUS
    <3>4. key[k] \in Int
      BY <3>3, QsortAssumption, Zenon
    <3>1. key[k] \in Int /\ k \in Int
      BY <1>1, <3>4 DEF Slots
    <3>2. items[k] = [key |-> key[k], id |-> k]
      BY <1>2
    <3> QED
      BY <3>1, <3>2 DEF Item
  <2>2. DOMAIN items = Slots /\ items = [k \in Slots |-> items[k]]
    BY <1>2
  <2>3. items \in [Slots -> Item]
    BY <2>1, <2>2, Zenon
  <2> QED
    BY <2>1, <2>3
<1>4. Kept(items)
  BY <1>3 DEF Kept
<1>5. /\ frames \in Seq(FrameType) /\ Len(frames) = 1
      /\ frames[1] = [l |-> 0, r |-> nr - 1, given |-> nr]
  BY <1>1 DEF QsortInit, Frame, FrameType
<1>6. frames[1].l = 0 /\ frames[1].r = nr - 1 /\ frames[1].given = nr
  BY <1>5
<1>7. FramesApart(frames)
  BY <1>1, <1>5, <1>6 DEF FramesApart
<1>8. \A x \in Slots : In(x, frames[1])
  BY <1>1, <1>6 DEF In, Slots
<1>9. Separated(items, frames)
  BY <1>5, <1>8 DEF Separated
<1>10. QsortType /\ Searched
  BY <1>1, <1>3, <1>5 DEF QsortInit, QsortType, Item, Searched
<1> QED
  BY <1>4, <1>7, <1>9, <1>10 DEF QsortInv

\* The pivot goes to the end of the innermost call, and the search begins.
LEMMA PartitionKeeps == ASSUME QsortInv, Partition PROVE QsortInv'
<1>1. /\ frames # <<>> /\ scan.at = "loop" /\ Top.l < Top.r /\ nr' = nr /\ frames' = frames
  BY DEF Partition
<1>2. PICK m : m = (Top.l + Top.r) \div 2
  OBVIOUS
<1>3. /\ items' = Swapped(items, m, Top.r)
      /\ scan' = [at |-> "up", i |-> Top.l - 1, j |-> Top.r, pivot |-> items[m]]
  BY <1>2 DEF Partition
<1>4. m \in Int /\ Top.l <= m /\ m < Top.r
  BY <1>1, <1>2, TopIs
<1>5. In(m, Top) /\ In(Top.r, Top)
  BY <1>1, <1>4, TopIs DEF In
<1>6. /\ m \in Slots /\ Top.r \in Slots
      /\ items' \in [Slots -> Item] /\ Kept(items') /\ Separated(items', frames)
  BY <1>1, <1>3, <1>4, <1>5, SwapInside, TopIs
<1>7. items \in [Slots -> Item] /\ items'[Top.r] = items[m] /\ items[m] \in Item
  BY <1>3, <1>6 DEF QsortInv, QsortType, Swapped
<1>8. Top' = Top /\ Slots' = Slots
  BY <1>1 DEF Top, Innermost, Slots
<1>9. scan'.at = "up" /\ scan'.i = Top.l - 1 /\ scan'.j = Top.r /\ scan'.pivot = items[m]
  BY <1>3
<1>10. Searched'
  <2>1. \A k \in Slots : ~(Top.l <= k /\ k < scan'.i)
    BY <1>9, TopIs, <1>1 DEF Slots
  <2>2. \A k \in Slots : scan'.j <= k /\ k <= Top.r => items'[k].key >= items[m].key
    BY <1>1, <1>7, <1>9, TopIs DEF Slots, Item
  <2>3. Top.l \in Int /\ Top.r \in Int
    BY <1>1, TopIs
  <2> QED
    BY <1>1, <1>7, <1>8, <1>9, <2>1, <2>2, <2>3 DEF Searched
<1>11. QsortType'
  BY <1>1, <1>3, <1>6, <1>7, <1>8, TopIs DEF QsortInv, QsortType
<1>12. Kept(items)' /\ FramesApart(frames)' /\ Separated(items, frames)'
  BY <1>1, <1>6, <1>8 DEF QsortInv, Kept, FramesApart, Separated
<1> QED
  BY <1>10, <1>11, <1>12 DEF QsortInv

\* What is known of a search.
LEMMA SearchIs ==
  ASSUME QsortInv, scan.at # "loop"
  PROVE  /\ frames # <<>> /\ Top.l < Top.r /\ items[Top.r] = scan.pivot
         /\ scan.at \in {"up", "down", "met"}
         /\ scan.i \in Int /\ scan.j \in Int /\ scan.pivot \in Item /\ scan.pivot.key \in Int
         /\ items \in [Slots -> Item] /\ \A k \in Slots : k \in Int /\ items[k].key \in Int
<1>1. /\ frames # <<>> /\ Top.l < Top.r /\ items[Top.r] = scan.pivot
  BY DEF QsortInv, Searched
<1>2. /\ scan.at \in {"up", "down", "met"}
      /\ scan.i \in Int /\ scan.j \in Int /\ scan.pivot \in Item
      /\ items \in [Slots -> Item]
  BY DEF QsortInv, QsortType
<1>3. \A k \in Slots : k \in Int /\ items[k].key \in Int
  <2>1. ASSUME NEW k \in Slots PROVE items[k].key \in Int
    <3>1. items[k] \in Item
      BY <1>2
    <3> QED
      BY <3>1 DEF Item
  <2> QED
    BY <2>1 DEF Slots
<1>4. scan.pivot.key \in Int
  BY <1>2 DEF Item
<1> QED
  BY <1>1, <1>2, <1>3, <1>4

\* The search upwards ends at the other search, which has the pivot behind it.
LEMMA LookUpKeeps == ASSUME QsortInv, LookUp PROVE QsortInv'
<1>1. scan.at = "up" /\ nr' = nr /\ items' = items /\ frames' = frames
  BY DEF LookUp
<1>2. PICK i : i = scan.i + 1
  OBVIOUS
<1>3. scan' = [scan EXCEPT !.i = i,
                 !.at = IF items[i].key < scan.pivot.key THEN "up" ELSE "down"]
  BY <1>2 DEF LookUp
<1>4. /\ Top.l - 1 <= scan.i /\ Top.l < scan.j /\ scan.j <= Top.r /\ scan.i < scan.j
      /\ \A k \in Slots : Top.l <= k /\ k < scan.i => items[k].key < scan.pivot.key
      /\ \A k \in Slots : scan.j <= k /\ k <= Top.r => items[k].key >= scan.pivot.key
      /\ scan.i >= Top.l => items[scan.i].key < scan.pivot.key
  BY <1>1 DEF QsortInv, Searched
<1>5. /\ Top' = Top /\ Slots' = Slots
      /\ Top.l \in Int /\ Top.r \in Int
  BY <1>1, SearchIs, TopIs DEF Top, Innermost, Slots
<1>6. i \in Slots /\ i \in Int /\ Top.l <= i /\ i <= scan.j
  <2>1. scan.i \in Int /\ scan.j \in Int /\ \A x \in Int : In(x, Top) => x \in Slots
    BY <1>1, SearchIs, TopIs
  <2>2. i \in Int /\ Top.l <= i /\ i <= scan.j /\ i <= Top.r
    BY <1>2, <1>4, <1>5, <2>1
  <2> QED
    BY <2>1, <2>2 DEF In
<1>7. PICK at \in {"up", "down"} : at = IF items[i].key < scan.pivot.key THEN "up" ELSE "down"
  OBVIOUS
<1>8. scan' = [scan EXCEPT !.i = i, !.at = at]
  BY <1>3, <1>7, Zenon
<1>9. /\ scan' \in [at : {"loop", "up", "down", "met"}, i : Int, j : Int, pivot : Item]
      /\ scan'.at = at /\ scan'.i = i /\ scan'.j = scan.j /\ scan'.pivot = scan.pivot
  BY <1>6, <1>7, <1>8 DEF QsortInv, QsortType
<1>10. \A k \in Slots : Top.l <= k /\ k < i => items[k].key < scan.pivot.key
  <2>1. ASSUME NEW k \in Slots, Top.l <= k, k < i PROVE items[k].key < scan.pivot.key
    <3>1. k < scan.i \/ k = scan.i
      BY <1>1, <1>2, <2>1, SearchIs
    <3> QED
      BY <1>4, <2>1, <3>1
  <2> QED
    BY <2>1
<1>11. at = "up" => i < scan.j /\ items[i].key < scan.pivot.key
  <2>1. SUFFICES ASSUME at = "up", i = scan.j PROVE FALSE
    BY <1>1, <1>6, <1>7, SearchIs
  <2>2. items[i].key >= scan.pivot.key /\ items[i].key < scan.pivot.key
    BY <1>4, <1>6, <1>7, <2>1
  <2> QED
    BY <1>1, <1>6, <2>2, SearchIs
<1>12. at = "down" => items[i].key >= scan.pivot.key
  BY <1>1, <1>6, <1>7, SearchIs
<1>13. Searched'
  BY <1>1, <1>4, <1>5, <1>6, <1>7, <1>9, <1>10, <1>11, <1>12, SearchIs DEF Searched
<1>14. QsortType' /\ Kept(items)' /\ FramesApart(frames)' /\ Separated(items, frames)'
  BY <1>1, <1>5, <1>9 DEF QsortInv, QsortType, Kept, FramesApart, Separated
<1> QED
  BY <1>13, <1>14 DEF QsortInv

\* The search downwards ends where the other is, and an exchange serves both.
LEMMA LookDownKeeps == ASSUME QsortInv, LookDown PROVE QsortInv'
<1>1. scan.at = "down" /\ nr' = nr /\ frames' = frames
  BY DEF LookDown
<1>2. PICK i, j : i = scan.i /\ j = scan.j - 1
  OBVIOUS
<1>3. /\ Top.l <= i /\ Top.l < scan.j /\ scan.j <= Top.r /\ i <= scan.j
      /\ \A k \in Slots : Top.l <= k /\ k < i => items[k].key < scan.pivot.key
      /\ \A k \in Slots : scan.j <= k /\ k <= Top.r => items[k].key >= scan.pivot.key
      /\ items[i].key >= scan.pivot.key
  BY <1>1, <1>2 DEF QsortInv, Searched
<1>4. /\ Top' = Top /\ Slots' = Slots
      /\ Top.l \in Int /\ Top.r \in Int
  BY <1>1, SearchIs, TopIs DEF Top, Innermost, Slots
<1>5. /\ i \in Int /\ j \in Int /\ scan.j = j + 1 /\ Top.l <= j /\ j < Top.r
      /\ i \in Slots /\ j \in Slots /\ Top.r \in Slots
  <2>1. scan.i \in Int /\ scan.j \in Int /\ \A x \in Int : In(x, Top) => x \in Slots
    BY <1>1, SearchIs, TopIs
  <2>2. i \in Int /\ j \in Int /\ scan.j = j + 1 /\ Top.l <= j /\ j < Top.r /\ i <= Top.r
    BY <1>2, <1>3, <1>4, <2>1
  <2>3. Top.l <= Top.r
    BY <1>4, <2>2
  <2> QED
    BY <1>3, <1>4, <2>1, <2>2, <2>3 DEF In
<1>6. items' = items =>
        /\ Kept(items)' /\ FramesApart(frames)' /\ Separated(items, frames)'
        /\ items' \in [Slots -> Item]
  BY <1>1, <1>4, SearchIs DEF QsortInv, Kept, FramesApart, Separated
<1>7. CASE items[j].key >= scan.pivot.key /\ i < j
  <2>1. items' = items /\ scan' = [scan EXCEPT !.j = j]
    BY <1>1, <1>2, <1>5, <1>7, SearchIs DEF LookDown
  <2>2. /\ scan' \in [at : {"loop", "up", "down", "met"}, i : Int, j : Int, pivot : Item]
        /\ scan'.at = "down" /\ scan'.i = i /\ scan'.j = j /\ scan'.pivot = scan.pivot
    BY <1>1, <1>2, <1>5, <2>1 DEF QsortInv, QsortType
  <2>3. \A k \in Slots : j <= k /\ k <= Top.r => items[k].key >= scan.pivot.key
    <3>1. ASSUME NEW k \in Slots, j <= k, k <= Top.r PROVE items[k].key >= scan.pivot.key
      <4>1. k = j \/ scan.j <= k
        BY <1>1, <1>5, <3>1, SearchIs
      <4> QED
        BY <1>3, <1>7, <3>1, <4>1
    <3> QED
      BY <3>1
  <2>4. Searched'
    BY <1>1, <1>3, <1>4, <1>5, <1>7, <2>1, <2>2, <2>3, SearchIs DEF Searched
  <2> QED
    BY <1>1, <1>4, <1>6, <2>1, <2>2, <2>4 DEF QsortInv, QsortType
<1>8. CASE items[j].key < scan.pivot.key /\ i < j
  <2>1. items' = Swapped(items, i, j) /\ scan' = [scan EXCEPT !.j = j, !.at = "up"]
    BY <1>1, <1>2, <1>5, <1>8, SearchIs DEF LookDown
  <2>2. /\ scan' \in [at : {"loop", "up", "down", "met"}, i : Int, j : Int, pivot : Item]
        /\ scan'.at = "up" /\ scan'.i = i /\ scan'.j = j /\ scan'.pivot = scan.pivot
    BY <1>1, <1>2, <1>5, <2>1 DEF QsortInv, QsortType
  <2>3. In(i, Top) /\ In(j, Top)
    BY <1>3, <1>4, <1>5, <1>8 DEF In
  <2>4. items' \in [Slots -> Item] /\ Kept(items') /\ Separated(items', frames)
    BY <1>1, <1>5, <2>1, <2>3, SwapInside, SearchIs
  <2>5. /\ items'[i] = items[j] /\ items'[j] = items[i]
        /\ \A k \in Slots : k # i /\ k # j => items'[k] = items[k]
    BY <1>1, <1>5, <2>1, SearchIs DEF Swapped
  <2>6. \A k \in Slots : Top.l <= k /\ k < i => items'[k].key < scan.pivot.key
    <3>1. ASSUME NEW k \in Slots, Top.l <= k, k < i PROVE items'[k].key < scan.pivot.key
      <4>1. k # i /\ k # j
        BY <1>1, <1>5, <1>8, <3>1, SearchIs
      <4> QED
        BY <1>3, <2>5, <3>1, <4>1
    <3> QED
      BY <3>1
  <2>7. \A k \in Slots : j <= k /\ k <= Top.r => items'[k].key >= scan.pivot.key
    <3>1. ASSUME NEW k \in Slots, j <= k, k <= Top.r PROVE items'[k].key >= scan.pivot.key
      <4>1. k = j \/ (scan.j <= k /\ k # i /\ k # j)
        BY <1>1, <1>5, <1>8, <3>1, SearchIs
      <4> QED
        BY <1>3, <2>5, <3>1, <4>1
    <3> QED
      BY <3>1
  <2>8. items'[Top.r] = items[Top.r]
    BY <1>4, <1>5, <1>8, <2>5
  <2>9. Searched'
    BY <1>1, <1>3, <1>4, <1>5, <1>8, <2>2, <2>5, <2>6, <2>7, <2>8, SearchIs DEF Searched
  <2> QED
    BY <1>1, <1>4, <2>2, <2>4, <2>9
       DEF QsortInv, QsortType, Kept, FramesApart, Separated
<1>9. CASE i >= j
  <2>1. items' = items /\ scan' = [scan EXCEPT !.j = j, !.at = "met"]
    BY <1>1, <1>2, <1>5, <1>9, SearchIs DEF LookDown
  <2>2. /\ scan' \in [at : {"loop", "up", "down", "met"}, i : Int, j : Int, pivot : Item]
        /\ scan'.at = "met" /\ scan'.i = i /\ scan'.j = j /\ scan'.pivot = scan.pivot
    BY <1>1, <1>2, <1>5, <2>1 DEF QsortInv, QsortType
  <2>3. \A k \in Slots : i <= k /\ k <= Top.r => items[k].key >= scan.pivot.key
    <3>1. ASSUME NEW k \in Slots, i <= k, k <= Top.r PROVE items[k].key >= scan.pivot.key
      <4>1. k = i \/ scan.j <= k
        BY <1>1, <1>5, <1>9, <3>1, SearchIs
      <4> QED
        BY <1>3, <3>1, <4>1
    <3> QED
      BY <3>1
  <2>4. i <= Top.r
    BY <1>1, <1>3, <1>4, <1>5, SearchIs
  <2>5. Searched'
    BY <1>1, <1>3, <1>4, <1>5, <2>1, <2>2, <2>3, <2>4, SearchIs DEF Searched
  <2> QED
    BY <1>1, <1>4, <1>6, <2>1, <2>2, <2>5 DEF QsortInv, QsortType
<1>10. items[j].key >= scan.pivot.key \/ items[j].key < scan.pivot.key
  BY <1>1, <1>5, SearchIs
<1> QED
  BY <1>5, <1>7, <1>8, <1>9, <1>10

\* The pivot goes where the searches met, which is a change of places.
LEMMA PivotPlaced ==
  ASSUME QsortInv, scan.at = "met",
         items' = [items EXCEPT ![Top.r] = items[scan.i], ![scan.i] = scan.pivot]
  PROVE  /\ scan.i \in Slots /\ Top.l <= scan.i /\ scan.i <= Top.r
         /\ items' = Swapped(items, scan.i, Top.r)
         /\ items' \in [Slots -> Item] /\ Kept(items') /\ Separated(items', frames)
         /\ items'[scan.i].key = scan.pivot.key
         /\ \A k \in Slots : Top.l <= k /\ k < scan.i => items'[k].key < scan.pivot.key
         /\ \A k \in Slots : scan.i <= k /\ k <= Top.r => items'[k].key >= scan.pivot.key
<1>1. PICK i : i = scan.i
  OBVIOUS
<1>2. /\ Top.l <= i /\ i <= Top.r /\ items[Top.r] = scan.pivot
      /\ items[i].key >= scan.pivot.key
      /\ \A k \in Slots : Top.l <= k /\ k < i => items[k].key < scan.pivot.key
      /\ \A k \in Slots : i <= k /\ k <= Top.r => items[k].key >= scan.pivot.key
  BY <1>1 DEF QsortInv, Searched
<1>3. /\ i \in Int /\ Top.l \in Int /\ Top.r \in Int /\ Top.l < Top.r
      /\ items \in [Slots -> Item] /\ scan.pivot.key \in Int
      /\ \A x \in Int : In(x, Top) => x \in Slots
  BY <1>1, SearchIs, TopIs
<1>4. In(i, Top) /\ In(Top.r, Top)
  BY <1>2, <1>3 DEF In
<1>5. /\ i \in Slots /\ Top.r \in Slots
      /\ Swapped(items, i, Top.r) \in [Slots -> Item] /\ Kept(Swapped(items, i, Top.r))
      /\ Separated(Swapped(items, i, Top.r), frames)
  BY <1>3, <1>4, SwapInside, SearchIs
<1>6. items' = Swapped(items, i, Top.r)
  <2>1. items' = [items EXCEPT ![Top.r] = items[i], ![i] = items[Top.r]]
    BY <1>1, <1>2
  <2>2. [items EXCEPT ![Top.r] = items[i], ![i] = items[Top.r]]
        = [items EXCEPT ![i] = items[Top.r], ![Top.r] = items[i]]
    BY <1>3, <1>5
  <2> QED
    BY <2>1, <2>2 DEF Swapped
<1>7. /\ items'[i] = scan.pivot /\ items'[Top.r] = items[i]
      /\ \A k \in Slots : k # i /\ k # Top.r => items'[k] = items[k]
  BY <1>2, <1>3, <1>5, <1>6 DEF Swapped
<1>8. \A k \in Slots : Top.l <= k /\ k < i => items'[k].key < scan.pivot.key
  <2>1. ASSUME NEW k \in Slots, Top.l <= k, k < i PROVE items'[k].key < scan.pivot.key
    <3>1. k # i /\ k # Top.r
      BY <1>2, <1>3, <2>1, SearchIs
    <3> QED
      BY <1>2, <1>7, <2>1, <3>1
  <2> QED
    BY <2>1
<1>9. \A k \in Slots : i <= k /\ k <= Top.r => items'[k].key >= scan.pivot.key
  <2>1. ASSUME NEW k \in Slots, i <= k, k <= Top.r PROVE items'[k].key >= scan.pivot.key
    <3>1. CASE k = i
      BY <1>3, <1>7, <3>1
    <3>2. CASE k = Top.r
      BY <1>2, <1>7, <3>2
    <3>3. CASE k # i /\ k # Top.r
      BY <1>2, <1>7, <2>1, <3>3
    <3> QED
      BY <3>1, <3>2, <3>3
  <2> QED
    BY <2>1
<1> QED
  BY <1>1, <1>2, <1>5, <1>6, <1>7, <1>8, <1>9

\* o and c are what is left of f on either side of i: c, the smaller, is given what
\* it has.
Sides(f, i, o, c) ==
  /\ o.given = f.given
  /\ \/ /\ o.l = i + 1 /\ o.r = f.r
        /\ c.l = f.l /\ c.r = i - 1 /\ c.given = i - f.l
        /\ 2 * (i - f.l) < f.r - f.l + 1
     \/ /\ o.l = f.l /\ o.r = i - 1
        /\ c.l = i + 1 /\ c.r = f.r /\ c.given = f.r - i
        /\ 2 * (f.r - i) < f.r - f.l + 1

\* Both sides lie within what their calls were given, and the smaller is less than half.
LEMMA SidesFit ==
  ASSUME nr \in Nat, NEW i \in Int, NEW f \in FrameType, NEW o \in FrameType, NEW c \in FrameType,
         Sides(f, i, o, c), f.l <= i, i <= f.r, 0 <= f.l, f.r < nr, f.r - f.l < f.given
  PROVE  /\ 0 <= o.l /\ o.l <= o.r + 1 /\ o.r < nr /\ o.r - o.l < o.given
         /\ 0 <= c.l /\ c.l <= c.r + 1 /\ c.r < nr /\ c.r - c.l < c.given
         /\ 2 * c.given < o.given
<1>1. /\ f.l \in Int /\ f.r \in Int /\ f.given \in Int
      /\ o.l \in Int /\ o.r \in Int /\ o.given \in Int
      /\ c.l \in Int /\ c.r \in Int /\ c.given \in Int
  BY DEF FrameType
<1> QED
  BY <1>1 DEF Sides

\* The two sides share nothing, and only the place of the pivot is between them.
LEMMA SidesApart ==
  ASSUME NEW i \in Int, NEW f \in FrameType, NEW o \in FrameType, NEW c \in FrameType,
         Sides(f, i, o, c), f.l <= i, i <= f.r, NEW x \in Int, NEW y \in Int, x <= y
  PROVE  /\ In(x, o) => In(x, f)
         /\ In(x, c) => In(x, f)
         /\ ~(In(x, o) /\ In(x, c))
         /\ In(x, f) /\ In(y, f) =>
              \/ x <= i /\ i <= y
              \/ In(x, o) /\ In(y, o)
              \/ In(x, c) /\ In(y, c)
<1>1. /\ f.l \in Int /\ f.r \in Int
      /\ o.l \in Int /\ o.r \in Int /\ c.l \in Int /\ c.r \in Int
  BY DEF FrameType
<1> QED
  BY <1>1 DEF Sides, In

\* The last frame of fs has become o, and c has come after it.
Pushed(fs, gs, o, c) ==
  /\ Len(gs) = Len(fs) + 1 /\ gs[Len(fs)] = o /\ gs[Len(fs) + 1] = c
  /\ \A q \in 1 .. Len(fs) - 1 : gs[q] = fs[q]

\* The two calls that come of the innermost fit beside the others.
LEMMA SplitFits ==
  ASSUME nr \in Nat, NEW fs \in Seq(FrameType), FramesApart(fs),
         NEW n \in Nat, n > 0, n = Len(fs), NEW f \in FrameType, f = fs[n],
         NEW i \in Int, f.l <= i, i <= f.r,
         NEW o \in FrameType, NEW c \in FrameType, Sides(f, i, o, c),
         NEW gs \in Seq(FrameType), Pushed(fs, gs, o, c)
  PROVE  FramesApart(gs)
<1>15. /\ \A x \in Slots : x \in Int
       /\ 0 <= f.l /\ f.r < nr /\ f.r - f.l < f.given
  <2>1. n \in 1 .. Len(fs)
    OBVIOUS
  <2> QED
    BY <2>1 DEF Slots, FramesApart
<1>4. \A x \in Slots : (In(x, o) \/ In(x, c) => In(x, f)) /\ ~(In(x, o) /\ In(x, c))
  <2>1. ASSUME NEW x \in Slots
        PROVE  (In(x, o) \/ In(x, c) => In(x, f)) /\ ~(In(x, o) /\ In(x, c))
    <3>1. x \in Int /\ x <= x
      BY <1>15
    <3> QED
      BY <3>1, SidesApart
  <2> QED
    BY <2>1
<1>14. /\ 0 <= o.l /\ o.l <= o.r + 1 /\ o.r < nr /\ o.r - o.l < o.given
       /\ 0 <= c.l /\ c.l <= c.r + 1 /\ c.r < nr /\ c.r - c.l < c.given
       /\ 2 * c.given < o.given /\ o.given = f.given
  <2>1. o.given = f.given
    BY DEF Sides
  <2> QED
    BY <1>15, <2>1, SidesFit
<1>16. /\ Len(gs) = n + 1 /\ gs[n] = o /\ gs[n + 1] = c
       /\ \A q \in 1 .. n - 1 : gs[q] = fs[q]
  BY DEF Pushed
<1>11. n \in 1 .. Len(fs) /\ \A q \in 1 .. Len(gs) : q \in 1 .. n - 1 \/ q = n \/ q = n + 1
  BY <1>16
<1>12. /\ \A q \in 1 .. n :
            /\ 0 <= fs[q].l /\ fs[q].l <= fs[q].r + 1 /\ fs[q].r < nr
            /\ fs[q].r - fs[q].l < fs[q].given
       /\ \A q \in 1 .. n - 1 : 2 * fs[q + 1].given < fs[q].given
  BY DEF FramesApart
<1>13. \A p, q \in 1 .. n : p # q => \A x \in Slots : ~(In(x, fs[p]) /\ In(x, fs[q]))
  BY DEF FramesApart
<1>5. ASSUME NEW q \in 1 .. Len(gs)
      PROVE  /\ 0 <= gs[q].l /\ gs[q].l <= gs[q].r + 1 /\ gs[q].r < nr
             /\ gs[q].r - gs[q].l < gs[q].given
  <2>1. CASE q \in 1 .. n - 1
    BY <1>12, <1>16, <2>1
  <2>2. CASE q = n
    BY <1>14, <1>16, <2>2
  <2>3. CASE q = n + 1
    BY <1>14, <1>16, <2>3
  <2> QED
    BY <1>11, <2>1, <2>2, <2>3
<1>6. ASSUME NEW p \in 1 .. Len(gs), NEW q \in 1 .. Len(gs), p # q, NEW x \in Slots,
             In(x, gs[p]), In(x, gs[q])
      PROVE  FALSE
  <2>1. ASSUME NEW m \in 1 .. Len(gs), In(x, gs[m])
        PROVE  \E h \in 1 .. n : In(x, fs[h]) /\ (h = m \/ (h = n /\ m = n + 1))
    <3>1. CASE m \in 1 .. n - 1
      <4>1. m \in 1 .. n /\ In(x, fs[m])
        BY <1>16, <2>1, <3>1
      <4> QED
        BY <4>1
    <3>2. CASE m = n \/ m = n + 1
      <4>1. In(x, f)
        BY <1>4, <1>16, <2>1, <3>2
      <4>2. n \in 1 .. n /\ In(x, fs[n])
        BY <4>1
      <4> QED
        BY <3>2, <4>2
    <3> QED
      BY <1>11, <3>1, <3>2
  <2>2. PICK g \in 1 .. n : In(x, fs[g]) /\ (g = p \/ (g = n /\ p = n + 1))
    BY <1>6, <2>1
  <2>3. PICK h \in 1 .. n : In(x, fs[h]) /\ (h = q \/ (h = n /\ q = n + 1))
    BY <1>6, <2>1
  <2>4. g = h
    BY <1>13, <2>2, <2>3
  <2>5. (p = n /\ q = n + 1) \/ (p = n + 1 /\ q = n)
    BY <1>6, <2>2, <2>3, <2>4
  <2> QED
    BY <1>4, <1>6, <1>16, <2>5
<1>7. ASSUME NEW q \in 1 .. Len(gs) - 1 PROVE 2 * gs[q + 1].given < gs[q].given
  <2>1. CASE q \in 1 .. n - 2
    <3>1. q + 1 \in 1 .. n - 1 /\ q \in 1 .. n - 1
      BY <2>1
    <3> QED
      BY <1>12, <1>16, <3>1
  <2>2. CASE q = n - 1 /\ q # n
    <3>1. q \in 1 .. n - 1 /\ q + 1 = n
      BY <2>2
    <3>2. 2 * fs[n].given < fs[q].given
      BY <1>12, <3>1
    <3> QED
      BY <1>14, <1>16, <2>2, <3>1, <3>2
  <2>3. CASE q = n
    BY <1>14, <1>16, <2>3
  <2> QED
    BY <1>16, <2>1, <2>2, <2>3
<1> QED
  BY <1>5, <1>6, <1>7 DEF FramesApart

\* And what they do not have in common is in order.
LEMMA SplitSeparates ==
  ASSUME nr \in Nat, NEW fs \in Seq(FrameType), NEW a \in [Slots -> Item], Separated(a, fs),
         NEW n \in Nat, n > 0, n = Len(fs), NEW f \in FrameType, f = fs[n],
         NEW i \in Int, f.l <= i, i <= f.r, NEW key \in Int, a[i].key = key,
         \A k \in Slots : f.l <= k /\ k < i => a[k].key < key,
         \A k \in Slots : i <= k /\ k <= f.r => a[k].key >= key,
         NEW o \in FrameType, NEW c \in FrameType, Sides(f, i, o, c),
         NEW gs \in Seq(FrameType), Pushed(fs, gs, o, c)
  PROVE  Separated(a, gs)
<1>1. SUFFICES ASSUME NEW x \in Slots, NEW y \in Slots, x < y,
                      \A m \in 1 .. Len(gs) : ~(In(x, gs[m]) /\ In(y, gs[m]))
               PROVE  a[x].key <= a[y].key
  BY DEF Separated
<1>2. x \in Int /\ y \in Int /\ x <= y
  BY <1>1 DEF Slots
<1>3. /\ Len(gs) = n + 1 /\ gs[n] = o /\ gs[n + 1] = c
      /\ \A q \in 1 .. n - 1 : gs[q] = fs[q]
  BY DEF Pushed
<1>4. CASE In(x, f) /\ In(y, f)
  <2>1. ~(In(x, o) /\ In(y, o)) /\ ~(In(x, c) /\ In(y, c))
    <3>1. n \in 1 .. Len(gs) /\ n + 1 \in 1 .. Len(gs)
      BY <1>3
    <3> QED
      BY <1>1, <1>3, <3>1
  <2>2. x <= i /\ i <= y
    BY <1>2, <1>4, <2>1, SidesApart, Zenon
  <2>3. a[x].key \in Int /\ a[y].key \in Int
    <3>1. a[x] \in Item /\ a[y] \in Item
      OBVIOUS
    <3> QED
      BY <3>1 DEF Item
  <2>4. f.l <= x /\ y <= f.r
    BY <1>4 DEF In
  <2>5. a[x].key <= key
    <3>1. x < i \/ x = i
      BY <1>2, <2>2
    <3> QED
      BY <2>3, <2>4, <3>1
  <2>6. key <= a[y].key
    BY <2>2, <2>3, <2>4
  <2> QED
    BY <2>3, <2>5, <2>6
<1>5. CASE ~(In(x, f) /\ In(y, f))
  <2>1. ASSUME NEW m \in 1 .. Len(fs), In(x, fs[m]), In(y, fs[m]) PROVE FALSE
    <3>1. m # n
      BY <1>5, <2>1
    <3>2. m \in 1 .. n - 1 /\ m \in 1 .. Len(gs)
      BY <1>3, <3>1
    <3> QED
      BY <1>1, <1>3, <2>1, <3>2
  <2> QED
    BY <1>1, <2>1 DEF Separated
<1> QED
  BY <1>4, <1>5

\* The innermost call becomes two.
LEMMA RecurseKeeps == ASSUME QsortInv, Recurse PROVE QsortInv'
<1>1. /\ scan.at = "met" /\ nr' = nr /\ scan' = [scan EXCEPT !.at = "loop"]
      /\ items' = [items EXCEPT ![Top.r] = items[scan.i], ![scan.i] = scan.pivot]
  BY DEF Recurse
<1>2. PICK i, n, f : i = scan.i /\ n = Innermost /\ f = Top
  OBVIOUS
<1>3. /\ nr \in Nat /\ n \in Nat /\ n > 0 /\ n = Len(frames) /\ n \in 1 .. Len(frames)
      /\ f \in FrameType /\ f = frames[n]
      /\ f.l \in Int /\ f.r \in Int /\ f.given \in Int /\ f.r - f.l < f.given
      /\ f.l < f.r /\ i \in Int /\ scan.pivot.key \in Int
  BY <1>1, <1>2, SearchIs, TopIs DEF Innermost, Top
<1>4. /\ i \in Slots /\ f.l <= i /\ i <= f.r
      /\ items' \in [Slots -> Item] /\ Kept(items') /\ Separated(items', frames)
      /\ items'[i].key = scan.pivot.key
      /\ \A k \in Slots : f.l <= k /\ k < i => items'[k].key < scan.pivot.key
      /\ \A k \in Slots : i <= k /\ k <= f.r => items'[k].key >= scan.pivot.key
  BY <1>1, <1>2, PivotPlaced
<1>5. frames \in Seq(FrameType) /\ FramesApart(frames)
  BY DEF QsortInv, QsortType
<1>6. PICK o \in FrameType, c \in FrameType :
        /\ Sides(f, i, o, c)
        /\ frames' = Append([frames EXCEPT ![n] = o], c)
  <2>1. CASE SmallerFirst(f.l, i, f.r)
    <3>1. PICK o : o = [f EXCEPT !.l = i + 1]
      OBVIOUS
    <3>2. PICK c : c = [l |-> f.l, r |-> i - 1, given |-> i - f.l]
      OBVIOUS
    <3>3. o \in FrameType /\ c \in FrameType /\ Sides(f, i, o, c)
      <4>1. 2 * (i - f.l) < f.r - f.l + 1
        BY <1>3, <2>1 DEF SmallerFirst
      <4>2. /\ o \in FrameType /\ o.l = i + 1 /\ o.r = f.r /\ o.given = f.given
        BY <1>3, <3>1 DEF FrameType
      <4>3. c \in FrameType /\ c.l = f.l /\ c.r = i - 1 /\ c.given = i - f.l
        BY <1>3, <3>2 DEF FrameType
      <4> QED
        BY <4>1, <4>2, <4>3 DEF Sides
    <3>4. frames' = Append([frames EXCEPT ![n].l = i + 1], c)
      BY <1>2, <2>1, <3>2 DEF Recurse, Frame
    <3>5. [frames EXCEPT ![n].l = i + 1] = [frames EXCEPT ![n] = o]
      BY <1>3, <3>1
    <3> QED
      BY <3>3, <3>4, <3>5
  <2>2. CASE ~SmallerFirst(f.l, i, f.r)
    <3>1. PICK o : o = [f EXCEPT !.r = i - 1]
      OBVIOUS
    <3>2. PICK c : c = [l |-> i + 1, r |-> f.r, given |-> f.r - i]
      OBVIOUS
    <3>3. o \in FrameType /\ c \in FrameType /\ Sides(f, i, o, c)
      <4>1. 2 * (f.r - i) < f.r - f.l + 1
        BY <1>3, <2>2 DEF SmallerFirst
      <4>2. /\ o \in FrameType /\ o.l = f.l /\ o.r = i - 1 /\ o.given = f.given
        BY <1>3, <3>1 DEF FrameType
      <4>3. c \in FrameType /\ c.l = i + 1 /\ c.r = f.r /\ c.given = f.r - i
        BY <1>3, <3>2 DEF FrameType
      <4> QED
        BY <4>1, <4>2, <4>3 DEF Sides
    <3>4. frames' = Append([frames EXCEPT ![n].r = i - 1], c)
      BY <1>2, <2>2, <3>2 DEF Recurse, Frame
    <3>5. [frames EXCEPT ![n].r = i - 1] = [frames EXCEPT ![n] = o]
      BY <1>3, <3>1
    <3> QED
      BY <3>3, <3>4, <3>5
  <2> QED
    BY <2>1, <2>2
<1>7. frames' \in Seq(FrameType) /\ Pushed(frames, frames', o, c)
  <2>1. PICK es : es = [frames EXCEPT ![n] = o]
    OBVIOUS
  <2>2. /\ es \in Seq(FrameType) /\ Len(es) = Len(frames) /\ es[n] = o
        /\ \A q \in 1 .. n - 1 : es[q] = frames[q]
    BY <1>3, <1>5, <2>1
  <2> QED
    BY <1>3, <1>6, <2>1, <2>2 DEF Pushed
<1>8. FramesApart(frames')
  BY <1>3, <1>4, <1>5, <1>6, <1>7, SplitFits
<1>9. Separated(items', frames')
  BY <1>3, <1>4, <1>5, <1>6, <1>7, SplitSeparates
<1>10. scan'.at = "loop" /\ QsortType'
  BY <1>1, <1>3, <1>4, <1>7 DEF QsortInv, QsortType, Slots
<1> QED
  BY <1>1, <1>4, <1>8, <1>9, <1>10
     DEF QsortInv, Slots, Kept, FramesApart, Separated, Searched

\* A call that is over had no two items, so nothing is left unordered.
LEMMA ReturnKeeps == ASSUME QsortInv, Return PROVE QsortInv'
<1>1. /\ frames # <<>> /\ scan.at = "loop" /\ Top.l >= Top.r
      /\ nr' = nr /\ items' = items /\ scan' = scan
  BY DEF Return
<1>2. PICK n : n = Innermost
  OBVIOUS
<1>3. frames' = SubSeq(frames, 1, n - 1)
  BY <1>2 DEF Return
<1>4. /\ nr \in Nat /\ n \in Nat /\ n > 0 /\ n = Len(frames) /\ frames \in Seq(FrameType)
      /\ Top.l \in Int /\ Top.r \in Int /\ Top = frames[n]
  BY <1>1, <1>2, TopIs DEF QsortInv, QsortType, Innermost, Top
<1>5. PICK gs : gs = frames'
  OBVIOUS
<1>6. gs \in Seq(FrameType) /\ Len(gs) = n - 1 /\ \A q \in 1 .. n - 1 : gs[q] = frames[q]
  BY <1>3, <1>4, <1>5
<1>7. FramesApart(gs)
  <2>1. FramesApart(frames) /\ 1 .. Len(gs) \subseteq 1 .. Len(frames)
        /\ 1 .. Len(gs) - 1 \subseteq 1 .. Len(frames) - 1
        /\ \A q \in 1 .. Len(gs) - 1 : q + 1 \in 1 .. n - 1
    BY <1>4, <1>6 DEF QsortInv
  <2>2. \A q \in 1 .. Len(gs) :
          /\ 0 <= gs[q].l /\ gs[q].l <= gs[q].r + 1 /\ gs[q].r < nr
          /\ gs[q].r - gs[q].l < gs[q].given
    BY <1>6, <2>1 DEF FramesApart
  <2>3. ASSUME NEW p \in 1 .. Len(gs), NEW q \in 1 .. Len(gs), p # q
        PROVE  \A x \in Slots : ~(In(x, gs[p]) /\ In(x, gs[q]))
    <3>1. /\ gs[p] = frames[p] /\ gs[q] = frames[q]
          /\ p \in 1 .. Len(frames) /\ q \in 1 .. Len(frames)
      BY <1>6, <2>1
    <3> QED
      BY <2>1, <2>3, <3>1 DEF FramesApart
  <2>4. ASSUME NEW q \in 1 .. Len(gs) - 1 PROVE 2 * gs[q + 1].given < gs[q].given
    <3>1. /\ gs[q + 1] = frames[q + 1] /\ gs[q] = frames[q] /\ q \in 1 .. Len(frames) - 1
      BY <1>4, <1>6, <2>1
    <3> QED
      BY <2>1, <3>1 DEF FramesApart
  <2> QED
    BY <2>2, <2>3, <2>4 DEF FramesApart
<1>8. Separated(items, gs)
  <2>1. SUFFICES ASSUME NEW x \in Slots, NEW y \in Slots, x < y,
                        \A m \in 1 .. Len(gs) : ~(In(x, gs[m]) /\ In(y, gs[m]))
                 PROVE  items[x].key <= items[y].key
    BY DEF Separated
  <2>2. x \in Int /\ y \in Int
    BY DEF Slots
  <2>3. ASSUME NEW m \in 1 .. Len(frames), In(x, frames[m]), In(y, frames[m]) PROVE FALSE
    <3>1. CASE m = n
      BY <1>1, <1>4, <2>1, <2>2, <2>3, <3>1 DEF In
    <3>2. CASE m # n
      <4>1. m \in 1 .. n - 1 /\ m \in 1 .. Len(gs)
        BY <1>4, <1>6, <3>2
      <4> QED
        BY <1>6, <2>1, <2>3, <4>1
    <3> QED
      BY <3>1, <3>2
  <2> QED
    BY <2>1, <2>3 DEF QsortInv, Separated
<1>9. QsortType' /\ Searched'
  BY <1>1, <1>5, <1>6 DEF QsortInv, QsortType, Searched, Slots
<1> QED
  BY <1>1, <1>5, <1>7, <1>8, <1>9
     DEF QsortInv, Slots, Kept, FramesApart, Separated

\* No place belongs to two calls, two items that no call has both of are in order,
\* and what a search has passed is on its side of the pivot: for any number of items
\* and any keys.
THEOREM QsortInductive == QsortSpec => []QsortInv
<1>1. QsortInv /\ [QsortNext]_qsortVars => QsortInv'
  <2> SUFFICES ASSUME QsortInv, [QsortNext]_qsortVars PROVE QsortInv'
    OBVIOUS
  <2>1. CASE UNCHANGED qsortVars
    BY <2>1 DEF qsortVars, QsortInv, QsortType, Kept, FramesApart, Separated, Searched,
                Slots, Top, Innermost
  <2> QED
    BY <2>1, PartitionKeeps, LookUpKeeps, LookDownKeeps, RecurseKeeps, ReturnKeeps
       DEF QsortNext
<1> QED
  BY <1>1, QsortStarts, PTL DEF QsortSpec

\* qsort_p leaves the items in order and loses none, looks at no place outside of
\* what a call was given, and each call is given less than half of what its caller
\* was: for any number of items and any keys, the same ones more than once included.
THEOREM QsortSorts == QsortSpec => []Sorted
<1>1. QsortInv => Sorted
  <2> SUFFICES ASSUME QsortInv PROVE Sorted
    OBVIOUS
  <2>1. ASSUME frames = <<>>, NEW k \in 1 .. nr - 1 PROVE items[k - 1].key <= items[k].key
    <3>1. k - 1 \in Slots /\ k \in Slots /\ k - 1 < k
      BY <2>1 DEF QsortInv, QsortType, Slots
    <3>2. ~\E q \in 1 .. Len(frames) : In(k - 1, frames[q]) /\ In(k, frames[q])
      BY <2>1
    <3> QED
      BY <3>1, <3>2 DEF QsortInv, Separated
  <2>2. {items[k].id : k \in Slots} = Slots
    BY DEF QsortInv, Kept
  <2>3. LooksInside
    <3>1. CASE scan.at = "up"
      <4>1. /\ Top.l - 1 <= scan.i /\ scan.j <= Top.r /\ scan.i < scan.j
        BY <3>1 DEF QsortInv, Searched
      <4>2. scan.i \in Int /\ scan.j \in Int /\ Top.l \in Int /\ Top.r \in Int
        BY <3>1, SearchIs, TopIs
      <4> QED
        BY <3>1, <4>1, <4>2 DEF LooksInside
    <3>2. CASE scan.at = "down"
      <4>1. Top.l < scan.j /\ scan.j <= Top.r
        BY <3>2 DEF QsortInv, Searched
      <4>2. scan.i \in Int /\ scan.j \in Int /\ Top.l \in Int /\ Top.r \in Int
        BY <3>2, SearchIs, TopIs
      <4> QED
        BY <3>2, <4>1, <4>2 DEF LooksInside
    <3>3. CASE scan.at \notin {"up", "down"}
      BY <3>3 DEF LooksInside
    <3> QED
      BY <3>1, <3>2, <3>3
  <2>4. \A q \in 1 .. Innermost - 1 : 2 * frames[q + 1].given < frames[q].given
    BY DEF QsortInv, FramesApart, Innermost
  <2> QED
    BY <2>1, <2>2, <2>3, <2>4 DEF Sorted
<1> QED
  BY <1>1, QsortInductive, PTL
=============================================================================
