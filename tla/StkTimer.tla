------------------------------ MODULE StkTimer ------------------------------
(***************************************************************************)
(* A timeout measured with the SysTick counter, which counts down and goes *)
(* round: USB_OTG_BSP_InitTimer and USB_OTG_BSP_TimerFired (usb_bsp.c), the *)
(* timer of the control transfers.  delay_ticks (stm32f10x.c) is the same  *)
(* with TimerFired called in a loop.                                       *)
(***************************************************************************)
EXTENDS Integers

CONSTANTS
  StkSize,    \* values of the counter: STK_MASK + 1
  Timeouts,   \* the timeouts in use, in ticks
  MaxGap,     \* bound: ticks between two calls
  MaxElapsed  \* bound: ticks since InitTimer

ASSUME StkTimerAssumption ==
  /\ StkSize \in Nat /\ Timeouts \subseteq Nat \ {0}
  /\ MaxElapsed \in Nat
  \* it is called before the counter has gone round
  /\ MaxGap \in Nat /\ MaxGap < StkSize

VARIABLES
  stk,       \* the counter
  prev_stk, ticks,  \* of the struct USB_OTG_BSP_Timer
  fired,     \* what the last call of TimerFired returned
  timeout,   \* the timeout InitTimer was given
  elapsed,   \* ticks since then
  gap        \* ticks since the last call of either

vars == <<stk, prev_stk, ticks, fired, timeout, elapsed, gap>>

Counter == 0 .. StkSize - 1

TypeOK ==
  /\ stk \in Counter /\ prev_stk \in Counter /\ ticks \in Nat
  /\ fired \in BOOLEAN /\ timeout \in Timeouts
  /\ elapsed \in Nat /\ gap \in 0 .. MaxGap

\* (prev_stk - now_stk) & STK_MASK
Diff == IF stk <= prev_stk THEN prev_stk - stk ELSE prev_stk - stk + StkSize

InitTimer ==
  /\ \E t \in Timeouts : ticks' = t /\ timeout' = t
  /\ prev_stk' = stk
  /\ fired' = FALSE /\ elapsed' = 0 /\ gap' = 0
  /\ UNCHANGED stk

NextPrevKept == prev_stk  \* mutant: prev_stk stays that of InitTimer
NextPrev == stk

FiresAfter == ticks + 1 < Diff  \* mutant: a comparison that is off
Fires == ticks <= Diff

TimerFired ==
  /\ IF Fires
       THEN ticks' = 0 /\ UNCHANGED prev_stk
       ELSE ticks' = ticks - Diff /\ prev_stk' = NextPrev
  /\ fired' = Fires
  /\ gap' = 0
  /\ UNCHANGED <<stk, timeout, elapsed>>

Tick ==
  /\ gap < MaxGap /\ elapsed < MaxElapsed
  /\ stk' = IF stk = 0 THEN StkSize - 1 ELSE stk - 1
  /\ gap' = gap + 1 /\ elapsed' = elapsed + 1
  /\ UNCHANGED <<prev_stk, ticks, fired, timeout>>

Init ==
  /\ stk \in Counter /\ prev_stk = stk
  /\ \E t \in Timeouts : ticks = t /\ timeout = t
  /\ fired = FALSE /\ elapsed = 0 /\ gap = 0

Next == InitTimer \/ TimerFired \/ Tick

Spec == Init /\ [][Next]_vars

-----------------------------------------------------------------------------
(* Properties *)

\* A timeout never runs out early, however the calls fall on the counter's turns.
NeverEarly == fired => elapsed >= timeout

\* Nor late: a call after the time has run out sees it, although the timeout may
\* be many turns of the counter.
NeverLate == ~fired => elapsed - gap < timeout

\* Both at once: the timeout is exact to the calls it is polled in.
Timely == NeverEarly /\ NeverLate

\* What holds between calls: the counter has moved by the gap, and the ticks that
\* are left are those that had not passed at the last call.
Accounted ==
  ~fired => Diff = gap /\ 0 < ticks /\ ticks + (elapsed - gap) = timeout

\* A timer that has fired keeps firing until it is started anew.
Spent == fired => ticks = 0

IInv == TypeOK /\ gap <= elapsed /\ NeverEarly /\ Accounted /\ Spent
=============================================================================
