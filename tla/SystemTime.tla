----------------------------- MODULE SystemTime -----------------------------
(***************************************************************************)
(* The system time (time.c) over the timers with deadlines (timer.c): a    *)
(* 32-bit clock made of the 24-bit SysTick counter, which counts down, and *)
(* of a time stamp that a timer refreshes, and which the timers themselves *)
(* read to know their deadlines.                                           *)
(*                                                                         *)
(* The program sets one timer, time_stamp_timer; the other timers stand    *)
(* for any further caller of timer_set and timer_cancel.                   *)
(***************************************************************************)
EXTENDS Integers, Sequences

CONSTANTS
  StkSize,    \* values of the SysTick counter (2^24)
  TimeSize,   \* values of time_t (2^32)
  Period,     \* time_ms(500)
  SlackTicks, \* SLACK_TICKS (12)
  Fine,       \* deltas below this are programmed by the tick (0x10000)
  Unit,       \* ticks of the coarse prescaler (time_us(100))
  Early,      \* units a coarse interrupt comes early (50)
  MaxArr,     \* the largest reload value (0xffff)
  Others,     \* the timers of other callers
  Aheads,     \* how far ahead of now they set their deadlines
  Latency,    \* bound: ticks until the timer interrupt is through
  MaxPause    \* bound: ticks between the two reads in time_now

StampTimer == "time_stamp_timer"

ASSUME SystemTimeAssumption ==
  /\ StampTimer \notin Others
  /\ StkSize \in Nat \ {0} /\ TimeSize \in Nat /\ TimeSize % StkSize = 0
  /\ {Period, SlackTicks, Fine, Unit, Early, MaxArr, Latency, MaxPause}
       \subseteq Nat \ {0}
  /\ Aheads \subseteq Nat
  \* a coarse interrupt comes before its deadline, and then a fine one is due
  /\ Fine \div Unit > Early /\ Early * Unit < Fine /\ SlackTicks < Fine
  \* the reload value of a fine interrupt fits
  /\ Fine - SlackTicks - 1 <= MaxArr
  \* the stamp is refreshed before the SysTick counter has gone round
  /\ Period + Latency + MaxPause + 2 < StkSize
  \* differences of times in use have the right sign
  /\ 2 * StkSize <= TimeSize /\ \A a \in Aheads : 2 * a < TimeSize

Timers == Others \cup {StampTimer}
Times  == 0 .. TimeSize - 1

VARIABLES
  now,        \* the true time, modulo TimeSize
  time_stamp,
  queue,      \* the timers from head on
  deadline,   \* of the timers in the queue; 0 of the others
  counter,    \* ticks until the hardware timer overflows, 0: stopped
  irq,        \* the timer interrupt is pending
  inIrq,      \* IRQ_timer is running
  lag,        \* ticks since the interrupt became due
  stamp,      \* what the thread read of time_stamp in time_now, or -1
  pause       \* ticks since then

timerVars == <<queue, deadline, counter>>
irqVars   == <<irq, inIrq, lag>>
readVars  == <<stamp, pause>>
vars == <<now, time_stamp, timerVars, irqVars, readVars>>

MaxTicks == MaxArr * Unit + Unit

TypeOK ==
  /\ now \in Times /\ time_stamp \in Times
  /\ queue \in Seq(Timers)
  /\ \A i, j \in DOMAIN queue : queue[i] = queue[j] => i = j
  /\ deadline \in [Timers -> Times] /\ counter \in 0 .. MaxTicks
  /\ irq \in BOOLEAN /\ inIrq \in BOOLEAN /\ lag \in 0 .. Latency
  /\ stamp \in Times \cup {-1} /\ pause \in 0 .. MaxPause

-----------------------------------------------------------------------------
(* time.c *)

\* ~x of a time, and the SysTick counter, which is ~now in its 24 bits.
Not(t) == TimeSize - 1 - t
Stk    == Not(now) % StkSize

\* time_now, s being the time stamp read.
TimeNowNoBorrow(s) == Not(Stk + (s \div StkSize) * StkSize)  \* mutant: no borrow
TimeNow(s) ==
  LET t == Stk + (s \div StkSize) * StkSize
  IN  Not((IF t > s THEN t - StkSize ELSE t) % TimeSize)

\* time_diff, a signed difference.
TimeDiff(x, y) ==
  LET d == (y - x) % TimeSize
  IN  IF 2 * d < TimeSize THEN d ELSE d - TimeSize

-----------------------------------------------------------------------------
(* timer.c *)

\* reprogram_timer: the ticks until the interrupt; arr counts from 0.
Ticks(delta) ==
  IF delta < Fine
    THEN IF delta <= SlackTicks THEN 2 ELSE delta - SlackTicks + 1
    ELSE LET arr == delta \div Unit - Early
         IN  ((IF arr < MaxArr THEN arr ELSE MaxArr) + 1) * Unit

WithoutNone(q, t) == q  \* mutant: timer_set does not cancel first
Without(q, t) ==
  LET At == {i \in DOMAIN q : q[i] = t}
      k  == CHOOSE i \in At : TRUE
  IN  IF At = {} THEN q ELSE SubSeq(q, 1, k - 1) \o SubSeq(q, k + 1, Len(q))

\* Where timer_set puts a timer: before the first whose deadline is not sooner.
InsertAtUnsigned(q, dl, t, d) ==  \* mutant: deadlines are compared as numbers
  CHOOSE i \in 1 .. Len(q) + 1 :
    /\ \A j \in 1 .. i - 1 : d > dl[q[j]]
    /\ i <= Len(q) => d <= dl[q[i]]

InsertAt(q, dl, t, d) ==
  LET n == TimeNow(time_stamp)
  IN  CHOOSE i \in 1 .. Len(q) + 1 :
        /\ \A j \in 1 .. i - 1 : TimeDiff(n, d) > TimeDiff(n, dl[q[j]])
        /\ i <= Len(q) => TimeDiff(n, d) <= TimeDiff(n, dl[q[i]])

Reprogram(i, delta) == IF i = 1 THEN Ticks(delta) ELSE counter

\* timer_set on the list q, now being n.
TimerSet(q, t, d, n) ==
  LET r == Without(q, t)
      i == InsertAt(r, deadline, t, d)
  IN  /\ queue' = SubSeq(r, 1, i - 1) \o <<t>> \o SubSeq(r, i, Len(r))
      /\ deadline' = [deadline EXCEPT ![t] = d]
      /\ counter' = Reprogram(i, TimeDiff(n, d))

\* Thread code runs when no interrupt does.
Thread == ~inIrq

Set(t) ==
  /\ Thread
  /\ \E a \in Aheads : TimerSet(queue, t, (now + a) % TimeSize, TimeNow(time_stamp))
  /\ UNCHANGED <<now, time_stamp, irqVars, readVars>>

Cancel(t) ==
  /\ Thread
  /\ queue' = Without(queue, t)
  /\ deadline' = [deadline EXCEPT ![t] = 0]
  /\ UNCHANGED <<now, time_stamp, counter, irqVars, readVars>>

IrqEnter ==
  /\ irq /\ ~inIrq
  /\ irq' = FALSE /\ inIrq' = TRUE
  /\ UNCHANGED <<now, time_stamp, timerVars, lag, readVars>>

Delta == TimeDiff(TimeNow(time_stamp), deadline[Head(queue)])

Due == queue # <<>> /\ Delta <= SlackTicks

\* time_stamp_update, the callback of time_stamp_timer.
StampUpdate ==
  LET n == TimeNow(time_stamp)
  IN  /\ time_stamp' = Not(n)
      /\ TimerSet(Tail(queue), StampTimer, (n + Period) % TimeSize, n)

\* The head is due: it leaves the list and its callback runs.
IrqCallback ==
  /\ inIrq /\ Due
  /\ IF Head(queue) = StampTimer
       THEN StampUpdate
       ELSE /\ queue' = Tail(queue)
            /\ deadline' = [deadline EXCEPT ![Head(queue)] = 0]
            /\ UNCHANGED <<time_stamp, counter>>
  /\ UNCHANGED <<now, irqVars, readVars>>

LeftAlone == counter  \* mutant: the timer is not programmed for the next deadline
Rearmed == IF queue = <<>> THEN counter ELSE Ticks(Delta)

IrqExit ==
  /\ inIrq /\ ~Due
  /\ counter' = Rearmed
  /\ inIrq' = FALSE /\ lag' = 0
  /\ UNCHANGED <<now, time_stamp, queue, deadline, irq, readVars>>

-----------------------------------------------------------------------------
(* time_now in the thread: it reads time_stamp, then the SysTick counter *)

ReadStamp ==
  /\ Thread /\ stamp = -1
  /\ stamp' = time_stamp /\ pause' = 0
  /\ UNCHANGED <<now, time_stamp, timerVars, irqVars>>

ReadStk ==
  /\ Thread /\ stamp # -1
  /\ stamp' = -1 /\ pause' = 0
  /\ UNCHANGED <<now, time_stamp, timerVars, irqVars>>

-----------------------------------------------------------------------------

\* Time passes; neither the interrupt nor the thread is held up for longer than
\* the bounds say.
Tick ==
  /\ now' = (now + 1) % TimeSize
  /\ counter' = IF counter = 0 THEN 0 ELSE counter - 1
  /\ irq' = (irq \/ counter = 1)
  /\ IF irq \/ inIrq THEN lag < Latency /\ lag' = lag + 1 ELSE UNCHANGED lag
  /\ IF stamp # -1 THEN pause < MaxPause /\ pause' = pause + 1 ELSE UNCHANGED pause
  /\ UNCHANGED <<time_stamp, queue, deadline, inIrq, stamp>>

\* time_init: the stamp is the 24 bits of the SysTick counter, so that time begins
\* in the last StkSize ticks before it wraps.
Init ==
  /\ now \in TimeSize - StkSize .. TimeSize - 1
  /\ time_stamp = Stk
  /\ queue = <<StampTimer>>
  /\ deadline = [t \in Timers |-> IF t = StampTimer THEN (now + Period) % TimeSize ELSE 0]
  /\ counter = Ticks(Period)
  /\ irq = FALSE /\ inIrq = FALSE /\ lag = 0
  /\ stamp = -1 /\ pause = 0

Next ==
  \/ \E t \in Others : Set(t) \/ Cancel(t)
  \/ IrqEnter \/ IrqCallback \/ IrqExit
  \/ ReadStamp \/ ReadStk
  \/ Tick

Spec == Init /\ [][Next]_vars

-----------------------------------------------------------------------------
(* What the properties rest on *)

\* The ticks since the stamp s, and those until the deadline of t.
Age(s)  == (now - Not(s)) % TimeSize
Left(t) == TimeDiff(now, deadline[t])

\* The timer that refreshes the stamp is in the list, a period after the stamp.
StampTimed ==
  /\ \E i \in DOMAIN queue : queue[i] = StampTimer
  /\ Age(time_stamp) + Left(StampTimer) = Period

\* What the thread read was that young when it read it.
ReadYoung == stamp # -1 => Age(stamp) <= Period + Latency + 2 + pause

Ordered == \A i, j \in DOMAIN queue : i < j => Left(queue[i]) <= Left(queue[j])

InTime == \A i \in DOMAIN queue : Left(queue[i]) >= -(2 + lag)

\* Between interrupts the next one comes before the head is late.
Awaited ==
  ~irq /\ ~inIrq => lag = 0 /\ counter > 0 /\ counter <= Left(Head(queue)) + 2

IInv ==
  TypeOK /\ StampTimed /\ ReadYoung /\ Ordered /\ InTime /\ Awaited

-----------------------------------------------------------------------------
(* Properties *)

\* time_now tells the time, in an interrupt as in a thread that is interrupted
\* between its two reads, at every wrap of SysTick and of the 32 bits.
ClockTrue ==
  /\ TimeNow(time_stamp) = now
  /\ stamp # -1 => TimeNow(stamp) = now

\* No timer is forgotten: whatever was set, cancelled or moved before it, it is
\* still ahead, or late by no more than the latency and the shortest interrupt.
NotForgotten ==
  \A i \in DOMAIN queue : TimeDiff(now, deadline[queue[i]]) >= -(Latency + 2)

\* Callbacks run in the order of their deadlines.
InOrder ==
  [][IrqCallback => \A i \in DOMAIN queue :
       TimeDiff(now, deadline[Head(queue)]) <= TimeDiff(now, deadline[queue[i]])]_vars
=============================================================================
