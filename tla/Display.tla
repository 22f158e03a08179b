------------------------------ MODULE Display ------------------------------
(***************************************************************************)
(* The LED display (led_7seg.c): two wires, DAT and CLK, and at the other  *)
(* end of them either a TM1651 (three digits) or a pair of 74HC164 shift   *)
(* registers (two digits).  led_7seg_init finds out which by whether       *)
(* anything acknowledges a command.                                        *)
(*                                                                         *)
(* The program changes one pin in each step, and the chip at the other end *)
(* reacts to it.  DAT is open drain for the TM1651: it is low when either  *)
(* side pulls it.                                                          *)
(***************************************************************************)
EXTENDS Integers, Sequences

CONSTANTS
  Strings,   \* what led_7seg_write_string is given
  Decimals,  \* what led_7seg_write_decimal is given
  MaxWrites, \* bound: how often something is written
  MaxMisses  \* bound: how often the TM1651 misses a byte

LOW == 0
HIGH == 1

\* A character is a number: 0..9, then a..z (or A..Z), "-" and all others.
Dash  == 36
Other == 37
digits  == <<63, 6, 91, 79, 102, 109, 125, 7, 127, 111>>
letters == <<119, 124, 88, 94, 121, 113, 111, 116, 4,
             14, 8, 56, 64, 84, 92, 115, 103, 80,
             109, 120, 28, 9, 65, 118, 110, 0>>
Segments(c) == (digits \o letters \o <<64, 0>>)[c + 1]

ASSUME DisplayAssumption ==
  /\ Strings \subseteq Seq(0 .. Other) /\ Decimals \subseteq Nat
  /\ MaxWrites \in Nat /\ MaxMisses \in Nat

VARIABLES
  tm1651,    \* that is the chip; otherwise the shift registers are
  dat, clk,  \* the two wires as the program drives them
  chip,      \* the TM1651
  regs164,   \* the shift registers, the bit shifted in last first
  nr_digits,
  shiftreg_curval,
  ops,       \* the calls still to be made: the rest of led_7seg_init
  place,     \* the next pin change of the call that is under way
  frame,     \* the bytes of this try
  retry, fail,
  wanted,    \* history: the digits written last
  failed,    \* history: one of the calls has failed
  writes, misses

wireVars    == <<dat, clk, chip, regs164>>
countVars   == <<writes, misses>>
callVars    == <<nr_digits, shiftreg_curval, ops, frame, retry, wanted, failed>>
displayVars == <<tm1651, wireVars, place, fail, callVars, countVars>>

-----------------------------------------------------------------------------
(* Places: in tm1651_start, tm1651_write, tm1651_stop or the loop over 16 bits *)

Nowhere          == [at |-> "none"]
AtStart(n)       == [at |-> "start", step |-> n]
AtStop(n)        == [at |-> "stop", step |-> n]
AtBit(b, i, n)   == [at |-> "write", byte |-> b, bit |-> i, step |-> n]
AtShift(x, i, n) == [at |-> "shift", x |-> x, bit |-> i, step |-> n]
AtEnd            == [at |-> "rest"]

Weights == <<1, 2, 4, 8, 16, 32, 64, 128, 256, 512, 1024, 2048, 4096, 8192,
             16384, 32768>>
Bit(x, i) == (x \div Weights[i + 1]) % 2

\* The eight bits of a byte, LSB first.
Bits(x) == [i \in 0 .. 7 |-> Bit(x, i)]

-----------------------------------------------------------------------------
(* The chips (external): what they make of a change of the wires *)

\* addr: where the next data byte goes, or that a command is expected, or that
\* no data is.
Command == -1
NoData  == 4

ChipOff == [on |-> FALSE, n |-> 0, byte |-> Bits(0), pull |-> FALSE, addr |-> Command,
            reg |-> [a \in 0 .. 3 |-> Bits(0)], lit |-> FALSE]

Line(d, pull) == IF pull THEN LOW ELSE d

\* The byte is complete: the first of a frame is a command, by its two highest
\* bits to write data, to write at an address, or to turn the light on or off; the
\* others are data.
Obey(c) ==
  CASE c.addr = Command /\ c.byte[7] = 0 /\ c.byte[6] = 1 -> [c EXCEPT !.addr = NoData]
    [] c.addr = Command /\ c.byte[7] = 1 /\ c.byte[6] = 1 ->
         [c EXCEPT !.addr = c.byte[0] + 2 * c.byte[1]]
    [] c.addr = Command /\ c.byte[7] = 1 /\ c.byte[6] = 0 ->
         [c EXCEPT !.addr = NoData, !.lit = IF c.byte[3] = 1 THEN TRUE ELSE FALSE]
    [] c.addr \in 0 .. 3 -> [c EXCEPT !.reg[c.addr] = c.byte, !.addr = @ + 1]
    [] OTHER -> c

\* The chip after a change of DAT or CLK; heard says whether it takes the byte
\* that is complete at this edge.
Reaction(c, d, k, heard) ==
  LET old == Line(dat, c.pull)
      new == Line(d, c.pull)
  IN CASE clk = HIGH /\ k = HIGH /\ old = HIGH /\ new = LOW ->            \* START
            [c EXCEPT !.on = TRUE, !.n = 0, !.addr = Command]
       [] clk = HIGH /\ k = HIGH /\ old = LOW /\ new = HIGH ->            \* STOP
            [c EXCEPT !.on = FALSE]
       [] c.on /\ clk = LOW /\ k = HIGH /\ c.n < 8 ->
            [c EXCEPT !.byte[c.n] = new, !.n = @ + 1]
       [] c.on /\ clk = LOW /\ k = HIGH /\ c.n = 8 -> [c EXCEPT !.n = 9]
       [] c.on /\ clk = HIGH /\ k = LOW /\ c.n = 8 ->
            IF heard THEN [Obey(c) EXCEPT !.pull = TRUE]
                     ELSE [c EXCEPT !.on = FALSE]
       [] c.on /\ clk = HIGH /\ k = LOW /\ c.n = 9 ->
            [c EXCEPT !.n = 0, !.pull = FALSE]
       [] OTHER -> c

Missable(c, k) == c.on /\ clk = HIGH /\ k = LOW /\ c.n = 8

\* The TM1651 lets go of DAT some time after the ninth rising edge.
Release ==
  /\ tm1651 /\ chip.pull /\ chip.n = 9
  /\ chip' = IF dat = HIGH
               THEN [chip EXCEPT !.pull = FALSE, !.on = FALSE]
               ELSE [chip EXCEPT !.pull = FALSE]
  /\ UNCHANGED <<tm1651, dat, clk, regs164, place, fail, callVars, countVars>>

\* The program drives the wires to d and k.
Drive(d, k) ==
  /\ dat' = d /\ clk' = k
  /\ IF tm1651
       THEN /\ UNCHANGED regs164
            /\ \/ chip' = Reaction(chip, d, k, TRUE) /\ UNCHANGED misses
               \/ /\ Missable(chip, k) /\ misses < MaxMisses
                  /\ chip' = Reaction(chip, d, k, FALSE) /\ misses' = misses + 1
       ELSE /\ regs164' = IF clk = LOW /\ k = HIGH
                            THEN [i \in 1 .. 16 |-> IF i = 1 THEN d ELSE regs164[i - 1]]
                            ELSE regs164
            /\ UNCHANGED <<chip, misses>>
  /\ UNCHANGED <<tm1651, callVars, writes>>

-----------------------------------------------------------------------------
(* The pin changes *)

\* DAT goes low while CLK is high.
tm1651_start ==
  /\ place.at = "start"
  /\ \/ place.step = 1 /\ Drive(dat, LOW)  /\ place' = AtStart(2)
     \/ place.step = 2 /\ Drive(dat, HIGH) /\ place' = AtStart(3)
     \/ place.step = 3 /\ Drive(LOW, clk)  /\ place' = AtBit(1, 0, 1)
  /\ UNCHANGED fail

\* Eight bits, LSB first, and a ninth that is released, read as the ACK (step 3)
\* and then driven low.
Acked == tm1651 /\ Line(dat, chip.pull) = LOW

\* A byte without an ACK is the last of its frame.
AfterByte(b) == IF fail \/ b = Len(frame) THEN AtStop(1) ELSE AtBit(b + 1, 0, 1)

tm1651_write ==
  /\ place.at = "write"
  /\ LET b == place.byte
         i == place.bit
     IN \/ /\ place.step = 1
           /\ Drive(dat, LOW) /\ place' = AtBit(b, i, 2) /\ UNCHANGED fail
        \/ /\ place.step = 2 /\ i < 8
           /\ Drive(Bit(frame[b], i), clk) /\ place' = AtBit(b, i, 4) /\ UNCHANGED fail
        \/ /\ place.step = 2 /\ i = 8
           /\ Drive(HIGH, clk) /\ place' = AtBit(b, i, 3) /\ UNCHANGED fail
        \/ /\ place.step = 3
           /\ \/ Acked /\ fail' = FALSE
              \/ ~Acked /\ fail' = TRUE
           /\ Drive(LOW, clk) /\ place' = AtBit(b, i, 4)
        \/ /\ place.step = 4
           /\ Drive(dat, HIGH)
           /\ place' = IF i < 8 THEN AtBit(b, i + 1, 1) ELSE AfterByte(b)
           /\ UNCHANGED fail

\* DAT goes high while CLK is high.
tm1651_stop ==
  /\ place.at = "stop"
  /\ \/ place.step = 1 /\ Drive(dat, LOW)  /\ place' = AtStop(2)
     \/ place.step = 2 /\ Drive(dat, HIGH) /\ place' = AtStop(3)
     \/ place.step = 3 /\ Drive(HIGH, clk) /\ place' = Nowhere
  /\ UNCHANGED fail

\* 16 bits, MSB first; DAT is left high.
shiftreg_update_display_u16 ==
  /\ \/ /\ place.at = "shift"
        /\ LET x == place.x
               i == place.bit
           IN \/ place.step = 1 /\ Drive(dat, LOW) /\ place' = AtShift(x, i, 2)
              \/ /\ place.step = 2
                 /\ Drive(Bit(x, 15 - i), clk) /\ place' = AtShift(x, i, 3)
              \/ /\ place.step = 3
                 /\ Drive(dat, HIGH)
                 /\ place' = IF i < 15 THEN AtShift(x, i + 1, 1) ELSE AtEnd
     \/ place.at = "rest" /\ Drive(HIGH, clk) /\ place' = Nowhere
  /\ UNCHANGED fail

-----------------------------------------------------------------------------
(* The calls *)

Idle == place.at = "none" /\ frame = <<>>

\* A frame is tried at most three times.
Tries == 3

StartTry(bytes, n) ==
  /\ frame' = bytes /\ place' = AtStart(1)
  /\ retry' = n /\ fail' = FALSE

StartShift(x) ==
  /\ place' = AtShift(x, 0, 1)
  /\ UNCHANGED <<frame, retry, fail>>

\* led_7seg_write_raw: all three digits, or the first two.
WriteRaw(d) ==
  /\ wanted' = d
  /\ IF nr_digits = 3
       THEN StartTry(<<192, d[1], d[2], d[3], 0>>, 0) /\ UNCHANGED shiftreg_curval
       ELSE LET x == d[1] * 256 + d[2]
            IN shiftreg_curval' = x /\ StartShift(x)

\* led_7seg_write_string: at most three characters, the rest blank.
WriteString(p) ==
  WriteRaw([i \in 1 .. 3 |-> IF i <= Len(p) THEN Segments(p[i]) ELSE 0])

\* led_7seg_write_decimal: "%03u" or "%02u".
Decimal(val) ==
  IF nr_digits = 3
    THEN <<(val % 1000) \div 100, (val % 100) \div 10, val % 10>>
    ELSE <<(val % 100) \div 10, val % 10>>

\* led_7seg_display_setting
DisplaySetting(enable) ==
  /\ IF nr_digits = 3
       THEN StartTry(<<IF enable THEN 137 ELSE 128>>, 0)
       ELSE StartShift(IF enable THEN shiftreg_curval ELSE 0)
  /\ UNCHANGED <<shiftreg_curval, wanted>>

\* led_7seg_init: the probe, then write_string("") and display_setting(TRUE).
InitOps ==
  /\ Idle /\ ops # <<>>
  /\ ops' = Tail(ops)
  /\ CASE Head(ops) = "probe" -> StartTry(<<64>>, 0)
                                   /\ UNCHANGED <<shiftreg_curval, wanted>>
       [] Head(ops) = "blank" -> WriteString(<<>>)
       [] Head(ops) = "light" -> DisplaySetting(TRUE)
  /\ UNCHANGED <<tm1651, wireVars, nr_digits, failed, countVars>>

\* main writes a string or a number.
Write ==
  /\ Idle /\ ops = <<>> /\ writes < MaxWrites
  /\ writes' = writes + 1
  /\ \/ \E p \in Strings : WriteString(p)
     \/ \E val \in Decimals : WriteString(Decimal(val))
  /\ UNCHANGED <<tm1651, wireVars, nr_digits, ops, failed, misses>>

\* The end of a try: another one, or the end of the call.  The probe's outcome
\* is the number of digits.
NoMoreTries == FALSE                             \* mutant
TryAgain    == fail /\ retry + 1 < Tries

EndTry ==
  /\ place.at = "none" /\ frame # <<>>
  /\ IF TryAgain
       THEN StartTry(frame, retry + 1) /\ UNCHANGED <<nr_digits, failed>>
       ELSE /\ frame' = <<>>
            /\ failed' = (failed \/ fail)
            /\ nr_digits' = IF frame = <<64>> THEN (IF fail THEN 2 ELSE 3)
                                              ELSE nr_digits
            /\ UNCHANGED <<place, retry, fail>>
  /\ UNCHANGED <<tm1651, wireVars, shiftreg_curval, ops, wanted, countVars>>

\* tm1651_init releases both wires.
DisplayInit ==
  /\ tm1651 \in BOOLEAN
  /\ dat = HIGH /\ clk = HIGH
  /\ chip = ChipOff /\ regs164 \in {[i \in 1 .. 16 |-> 0], [i \in 1 .. 16 |-> 1]}
  /\ nr_digits = 0 /\ shiftreg_curval = 0
  /\ ops = <<"probe", "blank", "light">>
  /\ place = Nowhere /\ frame = <<>> /\ retry = 0 /\ fail = FALSE
  /\ wanted = <<0, 0, 0>> /\ failed = FALSE
  /\ writes = 0 /\ misses = 0

DisplayNext ==
  \/ InitOps \/ Write \/ EndTry
  \/ tm1651_start \/ tm1651_write \/ tm1651_stop \/ shiftreg_update_display_u16
  \/ Release

DisplaySpec == DisplayInit /\ [][DisplayNext]_displayVars

-----------------------------------------------------------------------------
(* Properties *)

\* Between calls the display shows what was written last: on a TM1651 that is
\* lit and all of whose calls were acknowledged in the end, as they are unless
\* it misses three bytes; and on the shift registers, which are never taken for
\* a TM1651.
Shown ==
  Idle /\ ops = <<>> =>
    IF tm1651
      THEN /\ ~failed =>
                /\ nr_digits = 3 /\ chip.lit
                /\ \A i \in 1 .. 3 : chip.reg[i - 1] = Bits(wanted[i])
           /\ failed => misses >= Tries
      ELSE /\ nr_digits = 2
           /\ \A i \in 1 .. 16 :
                regs164[i] = Bit(wanted[1] * 256 + wanted[2], i - 1)

-----------------------------------------------------------------------------
(* What the property rests on *)

\* The calls: what init has still to do, which frame belongs to it, and that the
\* probe has told the two chips apart.
Probed == ops \in {<<"light">>, <<>>} \/ (ops = <<"blank", "light">> /\ Idle)

IsData == frame = <<192, wanted[1], wanted[2], wanted[3], 0>>

Calls ==
  /\ ops \in {<<"probe", "blank", "light">>, <<"blank", "light">>, <<"light">>, <<>>}
  /\ \/ frame = <<>> /\ place.at \in {"none", "shift", "rest"}
     \/ frame = <<64>>  /\ ops = <<"blank", "light">>
     \/ frame = <<137>> /\ ops = <<>> /\ tm1651
     \/ IsData /\ ops \in {<<"light">>, <<>>} /\ tm1651
  /\ ops = <<"probe", "blank", "light">> => Idle
  /\ place.at \in {"shift", "rest"} =>
       /\ frame = <<>> /\ ops \in {<<"light">>, <<>>}
       /\ tm1651 => failed
  /\ Probed => /\ tm1651 /\ ~failed => nr_digits = 3
               /\ ~tm1651 => nr_digits = 2
  /\ wanted \in [1 .. 3 -> Nat] /\ retry \in 0 .. Tries - 1 /\ misses \in Nat
  /\ fail \in BOOLEAN /\ failed \in BOOLEAN /\ tm1651 \in BOOLEAN

\* The wires, by where the program is.
Places ==
  \/ place = Nowhere /\ dat = HIGH /\ clk = HIGH
  \/ \E n \in 1 .. 3 :
       /\ place = AtStart(n)
       /\ dat = HIGH /\ clk = (IF n = 2 THEN LOW ELSE HIGH)
  \/ \E n \in 1 .. 3 :
       /\ place = AtStop(n)
       /\ dat = LOW /\ clk = (IF n = 2 THEN LOW ELSE HIGH)
  \/ \E b \in 1 .. Len(frame), i \in 0 .. 8, n \in 1 .. 4 :
       /\ place = AtBit(b, i, n)
       /\ clk = (IF n = 1 THEN HIGH ELSE LOW)
       /\ n = 1 /\ i = 0 => dat = LOW
       /\ n = 3 => i = 8 /\ dat = HIGH
       /\ n = 4 => dat = IF i = 8 THEN LOW ELSE Bit(frame[b], i)
  \/ \E x \in {shiftreg_curval}, i \in 0 .. 15, n \in 1 .. 3 :
       /\ place = AtShift(x, i, n)
       /\ clk = (IF n = 1 THEN HIGH ELSE LOW)
       /\ n = 3 => dat = Bit(x, 15 - i)
  \/ place = AtEnd /\ clk = HIGH

\* The chip c has obeyed the first m bytes of the frame.
AddressOf(c, m) ==
  c.addr = IF m = 0 THEN Command ELSE IF IsData THEN m - 1 ELSE NoData

Effect(c, m) ==
  /\ IsData => \A a \in 0 .. 3 : a + 1 < m => c.reg[a] = Bits(frame[a + 2])
  /\ frame = <<137>> /\ m = 1 => c.lit

Obeyed(c, m) == AddressOf(c, m) /\ Effect(c, m)

\* It has read i bits of x.
HasRead(x, i) ==
  /\ chip.on /\ ~chip.pull /\ chip.n = i
  /\ \A k \in 0 .. 7 : k < i => chip.byte[k] = Bit(x, k)

\* It has missed a byte of this try.
Missed == ~chip.on /\ ~chip.pull /\ misses > retry

\* Before step n of bit i of byte b: on the ninth clock it pulls DAT, and between
\* two bytes it may not have let go yet.
InByte(b, i, n) ==
  IF i = 8 /\ n > 1
    THEN /\ IF chip.on THEN chip.n = 8 /\ chip.pull /\ Obeyed(chip, b) ELSE Missed
         /\ n = 4 => (fail <=> ~chip.on)
    ELSE /\ Obeyed(chip, b - 1)
         /\ IF i = 0 /\ n = 1 /\ b > 1 THEN chip.on /\ chip.n = 9
                                       ELSE HasRead(frame[b], i)

InStop(n) ==
  IF fail THEN Missed
  ELSE /\ chip.on /\ Obeyed(chip, Len(frame))
       /\ chip.n = <<9, 0, 1>>[n]
       /\ n > 1 => ~chip.pull

Follows ==
  /\ misses >= retry
  /\ CASE place.at = "write" -> InByte(place.byte, place.bit, place.step)
       [] place.at = "stop"  -> InStop(place.step)
       [] OTHER -> ~chip.on /\ ~chip.pull
  /\ place.at = "none" /\ frame # <<>> =>
       IF fail THEN misses > retry ELSE Effect(chip, Len(frame))

\* What the chip shows while nothing else is written to it.
Shows(c) ==
  /\ ops \in {<<"light">>, <<>>} /\ ~IsData =>
       \A i \in 1 .. 3 : c.reg[i - 1] = Bits(wanted[i])
  /\ ops = <<>> /\ frame # <<137>> => c.lit

Bytes == [0 .. 7 -> {LOW, HIGH}]

ChipType == [on : BOOLEAN, n : 0 .. 9, byte : Bytes, pull : BOOLEAN,
             addr : Command .. NoData, reg : [0 .. 3 -> Bytes], lit : BOOLEAN]

\* The shift registers hold the bits that went into them, whatever they held before.
Holds(x, i) == \A k \in 1 .. i : regs164[k] = Bit(x, 15 - i + k)

Shifted ==
  /\ frame \in {<<>>, <<64>>}
  /\ place.at = "stop" \/ (place.at = "none" /\ frame # <<>>) => fail
  /\ place.at = "write" /\ place.bit = 8 /\ place.step = 4 => fail
  /\ ops \in {<<"light">>, <<>>} => shiftreg_curval = wanted[1] * 256 + wanted[2]
  /\ place.at = "shift" => Holds(place.x, place.bit)
  /\ place.at = "rest" \/ (place.at = "none" /\ ops \in {<<"light">>, <<>>}) =>
       Holds(shiftreg_curval, 16)

DisplayInv ==
  /\ Calls /\ Places
  /\ IF tm1651 THEN IF failed THEN misses >= Tries
                              ELSE chip \in ChipType /\ Follows /\ Shows(chip)
               ELSE Shifted
=============================================================================
