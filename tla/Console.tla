------------------------------ MODULE Console ------------------------------
(***************************************************************************)
(* The serial console (console.c): printk stages characters in a ring      *)
(* buffer, a soft interrupt of the lowest priority sends them, and a crash *)
(* (EXC_unexpected, stm32f10x.c) dumps into the same ring and empties it   *)
(* with interrupts off before system_reset.                                *)
(*                                                                         *)
(* printk is called by the thread and by interrupt handlers, which may     *)
(* come between two characters of the soft interrupt; printk itself runs   *)
(* with interrupts disabled.  Characters are numbered as they are staged,  *)
(* so that a ring that is overrun shows.                                   *)
(***************************************************************************)
EXTENDS Integers, Sequences, FiniteSets, SequencesExt

CONSTANTS
  RingSize,   \* sizeof(ring): 2048
  Counters,   \* cons and prod count modulo this: 2^32
  Starts,     \* where earlier output may have left the two
  Texts,      \* what may be printed
  MaxPrints   \* bound: how often something is printed before a crash, and how
              \* often in one

\* A text is a sequence of these; vprintk's buffer cuts it to 127 of them.
Letters == {"char", "nl", "cr"}

\* system_reset says this before it resets.
LastWords == <<"char", "nl">>

ASSUME ConsoleAssumption ==
  /\ RingSize \in Nat /\ RingSize > 1
  /\ Counters \in Nat /\ Counters % RingSize = 0 /\ Counters > RingSize
  /\ Starts \subseteq 0 .. Counters - 1
  /\ Texts \subseteq Seq(Letters)
  /\ \A t \in Texts \cup {LastWords} : 2 * Len(t) <= RingSize - 2
  /\ MaxPrints \in Nat

VARIABLES
  ring, cons, prod,
  sync_console,
  pending,        \* the soft interrupt is pending
  flush,          \* it is running: its c and p; or NoFlush
  phase,          \* "run"; "crash": EXC_unexpected prints its dump; "sync":
                  \* console_sync was called; "reset"
  staged,         \* history: how many characters were staged
  sent,           \* history: the characters the serial port was given
  prints,         \* how often something was printed
  piled,          \* history: something was staged on top of what was not sent
  overrun         \* history: more than RingSize - 1 characters were staged

ringVars    == <<ring, cons, prod>>
histVars    == <<staged, sent, prints, piled, overrun>>
consoleVars == <<ringVars, sync_console, pending, flush, phase, histVars>>

MASK(x) == x % RingSize
NoFlush == [c |-> 0, p |-> 0, on |-> FALSE]

\* What the ring holds as long as it is not overrun: prod - cons.
Unsent == (prod - cons) % Counters

-----------------------------------------------------------------------------
(* vprintk *)

\* How many characters the first k of a text are staged as: "cr" is skipped, and
\* a newline becomes two.
Pushes(text, k) ==
  Cardinality({i \in 1 .. k : text[i] # "cr"}) + Cardinality({i \in 1 .. k : text[i] = "nl"})

\* After how many of its characters the loop may end: after all, or when
\* RingSize - 1 are staged, and at no other number.
Stops(text) ==
  {k \in 0 .. Len(text) :
     k = Len(text) \/ (Unsent + Pushes(text, k)) % Counters = RingSize - 1}

Count(text) == Pushes(text, Min(Stops(text)))

\* They go into the ring one after the other, over what is there.
Staging(text) ==
  LET n == Count(text)
  IN [ring   |-> [i \in 0 .. RingSize - 1 |->
                    LET k == (i - prod) % RingSize IN IF k < n THEN staged + k ELSE ring[i]],
      prod   |-> (prod + n) % Counters,
      staged |-> staged + n]

\* What flush_ring_to_serial sends with nothing coming in between.
RingFrom(r, c, p) == [i \in 1 .. (p - c) % Counters |-> r[MASK(c + i - 1)]]

\* kick_tx after s was staged: in synchronous mode the ring is emptied here,
\* otherwise the soft interrupt is made pending if there is anything to send.
KickIfEmpty(s) ==                                \* mutant
  /\ pending' = (pending \/ (~sync_console /\ cons = prod /\ cons # s.prod))
  /\ IF sync_console
       THEN sent' = sent \o RingFrom(s.ring, cons, s.prod) /\ cons' = s.prod
       ELSE UNCHANGED <<sent, cons>>
KickTx(s) ==
  /\ pending' = (pending \/ (~sync_console /\ cons # s.prod))
  /\ IF sync_console
       THEN sent' = sent \o RingFrom(s.ring, cons, s.prod) /\ cons' = s.prod
       ELSE UNCHANGED <<sent, cons>>

Vprintk(text) ==
  LET s == Staging(text)
  IN /\ ring' = s.ring /\ prod' = s.prod /\ staged' = s.staged
     /\ KickTx(s)
     /\ piled' = (piled \/ cons # prod)
     /\ overrun' = (overrun \/ Unsent + Count(text) >= RingSize)

\* The thread, or an interrupt handler: the soft interrupt runs before the
\* thread goes on, so only a handler prints while it is pending or running.
Printk(text) ==
  /\ phase = "run" /\ prints < MaxPrints
  /\ prints' = prints + 1
  /\ Vprintk(text)
  /\ UNCHANGED <<sync_console, flush, phase>>

-----------------------------------------------------------------------------
(* SOFTIRQ_console: flush_ring_to_serial, one character at a time *)

SoftIrq ==
  /\ phase = "run" /\ pending /\ ~flush.on
  /\ pending' = FALSE
  /\ flush' = [c |-> cons, p |-> prod, on |-> TRUE]
  /\ UNCHANGED <<ringVars, sync_console, phase, histVars>>

SendChar ==
  /\ phase = "run" /\ flush.on /\ flush.c # flush.p
  /\ sent' = Append(sent, ring[MASK(flush.c)])
  /\ flush' = [flush EXCEPT !.c = (@ + 1) % Counters]
  /\ UNCHANGED <<ringVars, sync_console, pending, phase, staged, prints, piled,
                 overrun>>

ConsIsProd == prod                               \* mutant
ConsAfter  == flush.c

FlushEnd ==
  /\ phase = "run" /\ flush.on /\ flush.c = flush.p
  /\ cons' = ConsAfter
  /\ flush' = NoFlush
  /\ UNCHANGED <<ring, prod, sync_console, pending, phase, histVars>>

-----------------------------------------------------------------------------
(* A crash, or a reset that the program asks for *)

\* EXC_unexpected: nothing else runs any more, the soft interrupt stays where
\* it is.
Unexpected ==
  /\ phase = "run"
  /\ phase' = "crash"
  /\ prints' = 0
  /\ UNCHANGED <<ringVars, sync_console, pending, flush, staged, sent, piled,
                 overrun>>

CrashPrintk(text) ==
  /\ phase = "crash" /\ prints < MaxPrints
  /\ prints' = prints + 1
  /\ Vprintk(text)
  /\ UNCHANGED <<sync_console, flush, phase>>

\* system_reset, first half: console_sync.  main calls it too, with no crash.
ConsoleSync ==
  /\ \/ phase = "crash"
     \/ phase = "run" /\ ~pending /\ ~flush.on
  /\ sync_console' = TRUE
  /\ sent' = sent \o RingFrom(ring, cons, prod)
  /\ cons' = prod
  /\ phase' = "sync"
  /\ UNCHANGED <<ring, prod, pending, flush, staged, prints, piled, overrun>>

\* Second half: the last words, in synchronous mode, and the reset.
SystemReset ==
  /\ phase = "sync"
  /\ Vprintk(LastWords)
  /\ phase' = "reset"
  /\ UNCHANGED <<sync_console, flush, prints>>

-----------------------------------------------------------------------------

\* Everything printed so far was sent.
ConsoleInit ==
  /\ ring = [i \in 0 .. RingSize - 1 |-> 0]
  /\ cons \in Starts /\ prod = cons
  /\ sync_console = FALSE /\ pending = FALSE /\ flush = NoFlush
  /\ phase = "run"
  /\ staged = 0 /\ sent = <<>> /\ prints = 0 /\ piled = FALSE /\ overrun = FALSE

Sends == SoftIrq \/ SendChar \/ FlushEnd

ConsoleNext ==
  \/ \E text \in Texts : Printk(text) \/ CrashPrintk(text)
  \/ Sends
  \/ Unexpected \/ ConsoleSync \/ SystemReset

\* The soft interrupt runs when it is pending, and a crash comes to its reset.
ConsoleFairness ==
  WF_consoleVars(Sends) /\ WF_consoleVars(phase = "crash" /\ ConsoleSync)
    /\ WF_consoleVars(SystemReset)

ConsoleSpec == ConsoleInit /\ [][ConsoleNext]_consoleVars

-----------------------------------------------------------------------------
(* What InOrder rests on *)

ConsoleTypeOK ==
  /\ ring \in [0 .. RingSize - 1 -> Nat]
  /\ cons \in 0 .. Counters - 1 /\ prod \in 0 .. Counters - 1
  /\ flush \in [c : 0 .. Counters - 1, p : 0 .. Counters - 1, on : BOOLEAN]
  /\ phase \in {"run", "crash", "sync", "reset"}
  /\ {sync_console, pending, piled, overrun} \subseteq BOOLEAN
  /\ staged \in Nat /\ prints \in Nat /\ sent \in Seq(Nat)

\* The characters staged last are in the ring, in their order.
Window ==
  /\ Unsent < RingSize /\ Unsent <= staged
  /\ \A k \in 0 .. Unsent - 1 : ring[MASK(cons + k)] = staged - Unsent + k

\* How many of them the soft interrupt has sent, and how many it will.
Advance(c) == (c - cons) % Counters

\* Before the end all characters went out once, up to where the soft interrupt is.
Counted ==
  /\ \A i \in DOMAIN sent : sent[i] = i - 1
  /\ IF flush.on
       THEN /\ Advance(flush.c) <= Advance(flush.p) /\ Advance(flush.p) <= Unsent
            /\ Len(sent) = staged - Unsent + Advance(flush.c)
       ELSE Len(sent) = staged - Unsent

\* A character goes out after the one that was staged before it.
Following == \A i \in DOMAIN sent : sent[i] = 0 \/ \E j \in 1 .. i - 1 : sent[j] = sent[i] - 1
LastSent  == staged > 0 => \E i \in DOMAIN sent : sent[i] = staged - 1

ConsoleInv ==
  /\ ConsoleTypeOK
  /\ sync_console <=> phase \in {"sync", "reset"}
  /\ sync_console => cons = prod
  /\ overrun => piled
  /\ ~overrun => Window /\ IF sync_console THEN Following /\ LastSent ELSE Counted

-----------------------------------------------------------------------------
(* Properties *)

\* Every character goes out after all that were staged before it, and once;
\* only a crash in the middle of the soft interrupt sends some of them again,
\* because cons is written when all are sent.  The ring is overrun only by
\* texts that pile up: in a handler or a crash dump, while nothing is sent.
InOrder ==
  IF overrun THEN piled
  ELSE /\ Following
       /\ phase = "run" => \A i \in DOMAIN sent : sent[i] = i - 1

\* Nothing is left in the ring: not by a text that a handler staged while the
\* soft interrupt was running, not by a crash.
Drained == []<>(cons = prod /\ (overrun \/ ToSet(sent) = 0 .. staged - 1))
=============================================================================
