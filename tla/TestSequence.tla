---------------------------- MODULE TestSequence ----------------------------
(***************************************************************************)
(* The test itself: the numbered states of main's loop (main.c), the pins  *)
(* of the test board (pins.c) and the Greaseweazle under test at the other *)
(* end of the ribbon cable.                                                *)
(*                                                                         *)
(* A command and its response are what module CmdRsp says: executed once   *)
(* and answered, or the test fails.                                        *)
(***************************************************************************)
EXTENDS Integers, Sequences

CONSTANTS
  outp, inp,     \* the two tables of pins, as sequences
  MaxOuter,      \* the 10 of "outer_iter++ > 10"
  Boards         \* the boards that are tested

Outp  == {outp[i] : i \in DOMAIN outp}
Inp   == {inp[i] : i \in DOMAIN inp}
Lines == Outp \cup Inp

\* What can be wrong with the wiring: a line may be cut, held low or high, or
\* shorted to another.
WiringDefects ==
  [kind : {"cut", "low", "high"}, lines : {{l} : l \in Lines}]
    \cup [kind : {"bridge"},
          lines : {s \in SUBSET Lines : \E l, m \in Lines : l # m /\ s = {l, m}}]

\* What can be wrong with the rest of a board.
OtherDefects == {"bootloader", "no_testmode", "opt", "hdr", "osc", "cc"}

\* hw_model: 1, or 4 but for the V4.1 (4 with hw_submodel 2); 7; any other.
Models == {"F1", "F7", "V4.1", "other"}

\* A defect of the wiring may show only now and then; then it lasts for a round.
Always == -1
Rounds == {Always} \cup 0 .. MaxOuter + 1

Board(models, wirings, rounds, others) ==
  [model : models, wiring : wirings, round : rounds, other : others]

AllBoards == Board(Models, SUBSET WiringDefects, Rounds, SUBSET OtherDefects)

ASSUME TestSequenceAssumption ==
  /\ outp \in Seq(Nat) /\ outp # <<>> /\ inp \in Seq(Nat) /\ inp # <<>>
  /\ Outp \cap Inp = {}
  /\ MaxOuter \in Nat
  /\ Boards \subseteq AllBoards

VARIABLES
  state, pin_iter, outer_iter, success,   \* main
  cmdrsp,     \* cmdrsp.state: "idle", "busy", "done"
  tcmd,       \* the command that is outstanding, or was last
  rspbuf,     \* the response to it
  boardLow,   \* the pins the test board drives low
  verdict,    \* what _error shows
  board,      \* the board under test
  gwLow,      \* the pins it drives low
  osc         \* its WDAT line oscillates

mainVars  == <<state, pin_iter, outer_iter, success>>
linkVars  == <<cmdrsp, tcmd, rspbuf>>
boardVars == <<board, gwLow, osc>>
vars == <<mainVars, linkVars, boardLow, verdict, boardVars>>

Commands ==
  [op : {"pins"}, low : SUBSET Lines]
    \cup [op : {"none", "info", "testmode", "option_bytes", "test_headers",
                "wdat_osc_on", "wdat_osc_off", "led"}, low : {{}}]

\* A verdict: none, a pin ("P02"), or an error code.
Shows(code, pin) == [code |-> code, pin |-> pin]
None   == Shows("none", 0)
Errors == {"E10", "E20", "E30", "OPT", "HDR", "OSC", "CCN"}

TypeOK ==
  /\ state \in 0 .. 22
  /\ pin_iter \in 0 .. Len(outp) + Len(inp) /\ outer_iter \in 0 .. MaxOuter + 1
  /\ success \in BOOLEAN
  /\ cmdrsp \in {"idle", "busy", "done"} /\ tcmd \in Commands
  /\ rspbuf \in [good : BOOLEAN, low : SUBSET Outp]
  /\ boardLow \subseteq Outp /\ gwLow \subseteq Inp
  /\ verdict \in {None} \cup [code : {"P"}, pin : Lines] \cup [code : Errors, pin : {0}]
  /\ board \in AllBoards /\ osc \in BOOLEAN

-----------------------------------------------------------------------------
(* The cable: an open-drain line is low when anything pulls it low *)

\* The defects that show in a round, and those that show now.
WiringIn(r) == IF board.round \in {Always, r} THEN board.wiring ELSE {}
Wiring == WiringIn(outer_iter)

Has(W, kind, l) == \E d \in W : d.kind = kind /\ l \in d.lines
Shorted(W, l, m) == \E d \in W : d.kind = "bridge" /\ d.lines = {l, m}
Net(W, l) == {m \in Lines : \/ m = l \/ Shorted(W, l, m)
                            \/ \E k \in Lines : Shorted(W, l, k) /\ Shorted(W, k, m)}

\* A cut line is not driven; its other end is pulled up (in hardware: pins_init
\* configures the inputs as floating).
Pulled(W, l, driven) == Has(W, "low", l) \/ (l \in driven /\ ~Has(W, "cut", l))

LowLines(W, driven) ==
  {l \in Lines : /\ \A m \in Net(W, l) : ~Has(W, "high", m)
                 /\ \E m \in Net(W, l) : Pulled(W, m, driven)}

-----------------------------------------------------------------------------
(* main's loop, one action per state *)

Enter(n) == verdict = None /\ cmdrsp = "idle" /\ state = n - 1

Command(op, low) ==
  /\ cmdrsp' = "busy"
  /\ tcmd' = [op |-> op, low |-> low]
  /\ UNCHANGED rspbuf

\* cmd_set_pin: one pin, or none, is to be driven low.
CmdSetPin(pins) == Command("pins", pins)

Error(e) == verdict' = Shows(e, 0)
ErrorIf(e, condition) == IF condition THEN Error(e) ELSE UNCHANGED verdict
PinError(p) == verdict' = Shows("P", p)

First(pins, S) == pins[CHOOSE i \in DOMAIN pins :
  pins[i] \in S /\ \A j \in 1 .. i - 1 : pins[j] \notin S]

WrongAsserted(seen, asserted) == asserted \ seen  \* mutant: only the pins that should be low
Wrong(seen, asserted) == (seen \ asserted) \cup (asserted \ seen)

\* pin_error(pin) of the pin that is found wrong.
NamedAsserted(p, asserted) ==  \* mutant: the pin that was driven
  IF asserted = {} THEN p ELSE CHOOSE q \in asserted : TRUE
Named(p, asserted) == p

\* check_pins: what the board under test saw of outp, what the test board sees
\* of inp; the first pin that is not as expected is shown.
CheckPins(asserted) ==
  LET seen == LowLines(Wiring, boardLow \cup gwLow) \cap Inp
      O    == Wrong(rspbuf.low, asserted \cap Outp)
      N    == Wrong(seen, asserted \cap Inp)
  IN  CASE O # {} -> PinError(Named(First(outp, O), asserted))
        [] O = {} /\ N # {} -> PinError(Named(First(inp, N), asserted))
        [] OTHER -> UNCHANGED verdict

NoCommand == UNCHANGED linkVars
Goto(n) == state' = n - 1
Iterate == UNCHANGED <<pin_iter, outer_iter>>

NextOuterStuck == outer_iter  \* mutant: rounds are not counted
NextOuter == outer_iter + 1

OuterAfterKept == outer_iter + 1  \* mutant: not set back for the other table
OuterAfter == 0

\* States 4 and 8: the next pin, the next round, or on to state n.
PinsLeft(pins) == pin_iter < Len(pins)
RoundsOver(pins) == ~PinsLeft(pins) /\ outer_iter > MaxOuter

Iteration(pins, n) ==
  /\ IF PinsLeft(pins)
       THEN Iterate
       ELSE /\ pin_iter' = 0
            /\ outer_iter' = IF RoundsOver(pins) THEN OuterAfter ELSE NextOuter
  /\ IF RoundsOver(pins) THEN Goto(n) ELSE state' = state + 1

\* The pin driven then.
Pin(pins) == pins[IF PinsLeft(pins) THEN pin_iter + 1 ELSE 1]

\* States 5 and 10: after the check, the next pin.
EndIteration(pins, n) ==
  /\ CheckPins({pins[pin_iter + 1]})
  /\ pin_iter' = pin_iter + 1
  /\ Goto(n)
  /\ UNCHANGED <<outer_iter, boardLow>> /\ NoCommand

GetInfo == Enter(1) /\ Command("info", {}) /\ UNCHANGED <<boardLow, verdict>>
CheckInfo == Enter(2) /\ ErrorIf("E30", ~rspbuf.good) /\ NoCommand /\ UNCHANGED boardLow
TestMode == Enter(3) /\ Command("testmode", {}) /\ UNCHANGED <<boardLow, verdict>>
CheckOutputsHigh == Enter(6) /\ CmdSetPin({}) /\ UNCHANGED <<boardLow, verdict>>
CheckAllHigh == Enter(7) /\ CheckPins({}) /\ NoCommand /\ UNCHANGED boardLow
ReadInput == Enter(9) /\ CmdSetPin({}) /\ UNCHANGED <<boardLow, verdict>>

DriveAllLow ==
  Enter(11) /\ boardLow' = Outp /\ Command("pins", Lines) /\ UNCHANGED verdict

\* pin_error of the first pin that is high.
CheckAllLow == Enter(12) /\ CheckPins(Lines) /\ NoCommand /\ UNCHANGED boardLow

OptionBytes == Enter(13) /\ Command("option_bytes", {}) /\ UNCHANGED <<boardLow, verdict>>

\* The switch over hw_model has no default.
OptionsChecked == board.model # "other"
CheckOptionBytes ==
  Enter(14) /\ ErrorIf("OPT", OptionsChecked /\ ~rspbuf.good) /\ NoCommand /\ UNCHANGED boardLow

TestHeaders == Enter(15) /\ Command("test_headers", {}) /\ UNCHANGED <<boardLow, verdict>>
CheckHeaders == Enter(16) /\ ErrorIf("HDR", ~rspbuf.good) /\ NoCommand /\ UNCHANGED boardLow
WdatOn == Enter(17) /\ Command("wdat_osc_on", {}) /\ UNCHANGED <<boardLow, verdict>>

\* test_wdat_osc: 31 intervals are measured, an error when there are not as many
\* or one of them is off.
WdatOff ==
  /\ Enter(18)
  /\ IF osc /\ "osc" \notin board.other
       THEN Command("wdat_osc_off", {}) /\ UNCHANGED verdict
       ELSE Error("OSC") /\ NoCommand
  /\ UNCHANGED boardLow

UsbCc ==
  /\ Enter(19)
  /\ ErrorIf("CCN", board.model = "V4.1" /\ "cc" \in board.other)
  /\ NoCommand /\ UNCHANGED boardLow

ReleasedByNobody == boardLow  \* mutant: the set_pinmask of state 20 is missing
ReleasedPins == {}

\* The statement that sets success follows the command.
Finish ==
  /\ Enter(20)
  /\ boardLow' = ReleasedPins
  /\ CmdSetPin({}) /\ UNCHANGED verdict

LedOn == Enter(21) /\ Command("led", {}) /\ UNCHANGED <<boardLow, verdict>>
LedOff == Enter(22) /\ Command("led", {}) /\ UNCHANGED <<boardLow, verdict>>

Straight ==
  /\ \/ GetInfo \/ CheckInfo \/ TestMode \/ CheckOutputsHigh \/ CheckAllHigh
     \/ ReadInput \/ DriveAllLow \/ CheckAllLow \/ OptionBytes
     \/ CheckOptionBytes \/ TestHeaders \/ CheckHeaders \/ WdatOn \/ WdatOff
     \/ UsbCc \/ Finish \/ LedOn
  /\ state' = state + 1
  /\ success' = (success \/ state' = 20)
  /\ UNCHANGED <<pin_iter, outer_iter>>

DriveOutputs ==
  /\ Enter(4)
  /\ Iteration(inp, 6)
  /\ IF RoundsOver(inp) THEN NoCommand ELSE CmdSetPin({Pin(inp)})
  /\ UNCHANGED <<boardLow, success, verdict>>

CheckOutputs == Enter(5) /\ EndIteration(inp, 4) /\ UNCHANGED success

DriveInputs ==
  /\ Enter(8)
  /\ Iteration(outp, 11)
  /\ boardLow' = IF RoundsOver(outp) THEN boardLow ELSE {Pin(outp)}
  /\ NoCommand
  /\ UNCHANGED <<success, verdict>>

CheckInputs == Enter(10) /\ EndIteration(outp, 8) /\ UNCHANGED success

LedLoop == LedOff /\ Goto(21) /\ UNCHANGED <<pin_iter, outer_iter, success>>

Main ==
  /\ Straight \/ DriveOutputs \/ CheckOutputs \/ DriveInputs \/ CheckInputs \/ LedLoop
  /\ UNCHANGED boardVars

\* command_response_handle: the response to TEST_MODE is compared, no other.
HandleResponse ==
  /\ verdict = None /\ cmdrsp = "done"
  /\ IF tcmd.op = "testmode" /\ ~rspbuf.good
       THEN Error("E30") /\ UNCHANGED cmdrsp
       ELSE cmdrsp' = "idle" /\ UNCHANGED verdict
  /\ UNCHANGED <<mainVars, tcmd, rspbuf, boardLow, boardVars>>

\* Its timeouts.
Timeout ==
  /\ verdict = None /\ cmdrsp = "busy"
  /\ Error("E10") \/ Error("E20")
  /\ UNCHANGED <<mainVars, linkVars, boardLow, boardVars>>

-----------------------------------------------------------------------------
(* The board under test *)

\* What it answers to a command, its pins being as the command left them.
Good ==
  CASE tcmd.op = "info"         -> "bootloader" \notin board.other
    [] tcmd.op = "testmode"     -> "no_testmode" \notin board.other
    [] tcmd.op = "option_bytes" -> "opt" \notin board.other
    [] tcmd.op = "test_headers" -> "hdr" \notin board.other
    [] OTHER -> TRUE

Execute ==
  /\ verdict = None /\ cmdrsp = "busy"
  /\ cmdrsp' = "done"
  /\ gwLow' = IF tcmd.op = "pins" THEN tcmd.low \cap Inp ELSE gwLow
  /\ osc' = CASE tcmd.op = "wdat_osc_on" -> TRUE [] tcmd.op = "wdat_osc_off" -> FALSE
              [] OTHER -> osc
  /\ rspbuf' = [good |-> Good,
                low  |-> IF tcmd.op = "pins"
                           THEN LowLines(Wiring, boardLow \cup gwLow') \cap Outp ELSE {}]
  /\ UNCHANGED <<mainVars, tcmd, boardLow, verdict, board>>

NoCommandYet  == [op |-> "none", low |-> {}]
NoResponseYet == [good |-> FALSE, low |-> {}]

\* It is unplugged, which resets the test board (system_reset) ...
Unplug ==
  /\ state > 0
  /\ gwLow' = {} /\ osc' = FALSE
  /\ state' = 0 /\ pin_iter' = 0 /\ outer_iter' = 0 /\ success' = FALSE
  /\ cmdrsp' = "idle" /\ tcmd' = NoCommandYet /\ rspbuf' = NoResponseYet
  /\ boardLow' = {} /\ verdict' = None
  /\ UNCHANGED board

\* ... and another one is plugged in.
Plug ==
  /\ state = 0
  /\ board' \in Boards
  /\ UNCHANGED <<mainVars, linkVars, boardLow, verdict, gwLow, osc>>

Init ==
  /\ state = 0 /\ pin_iter = 0 /\ outer_iter = 0 /\ success = FALSE
  /\ cmdrsp = "idle" /\ tcmd = NoCommandYet /\ rspbuf = NoResponseYet
  /\ boardLow = {} /\ verdict = None
  /\ board \in Boards /\ gwLow = {} /\ osc = FALSE

\* _error never returns.
Shown == verdict # None /\ UNCHANGED vars

Next == Main \/ HandleResponse \/ Timeout \/ Execute \/ Unplug \/ Plug \/ Shown

Spec == Init /\ [][Next]_vars

\* The loop runs, and the board answers in time or the command times out.
Fairness == WF_vars(Main \/ HandleResponse) /\ WF_vars(Execute \/ Timeout)

FairSpec == Spec /\ Fairness

-----------------------------------------------------------------------------
(* Properties *)

\* A defect that the test claims to find on this model of board.
Tested(d) == (d = "cc" => board.model = "V4.1") /\ (d = "opt" => OptionsChecked)
Sound == board.wiring = {} /\ \A d \in board.other : ~Tested(d)

\* No board with a defect passes, whatever was tested before it.
Passed == success => Sound

\* The pin shown is one of those that are wired wrongly, and a board without
\* a defect is not blamed for one.
Blamed ==
  /\ verdict.code = "P" => \E d \in board.wiring : verdict.pin \in d.lines
  /\ verdict.code \in Errors \ {"E10", "E20"} => board.other # {}

\* When the loop blinks the LED every driver on either side has been released and
\* WDAT is quiet.
Released == state > 20 => boardLow = {} /\ gwLow = {} /\ ~osc

\* Every board is passed or given a verdict, unless it is unplugged first.
Decided == []<>(success \/ verdict # None \/ state = 0)

-----------------------------------------------------------------------------
(* The inductive invariant *)

\* A board that was just plugged in finds the test board as it was reset.
Fresh ==
  state = 0 =>
    /\ ~success /\ verdict = None
    /\ cmdrsp = "idle" /\ tcmd = NoCommandYet
    /\ boardLow = {} /\ gwLow = {} /\ ~osc

\* The counters the two loops over the pins share.
Counters ==
  /\ state < 3 \/ state \in {5, 6} => pin_iter = 0 /\ outer_iter = 0
  /\ state = 4 => pin_iter < Len(inp)
  /\ state \in {8, 9} => pin_iter < Len(outp)

\* The command that was sent last.
Pins(low) == tcmd = [op |-> "pins", low |-> low]
Sent ==
  /\ state = 1 => tcmd.op = "info"
  /\ state = 3 /\ cmdrsp # "idle" => tcmd.op = "testmode"
  /\ state = 4 => Pins({inp[pin_iter + 1]})
  /\ state \in {6, 9} => Pins({})
  /\ state = 11 => Pins(Lines)
  /\ state = 13 => tcmd.op = "option_bytes"
  /\ state = 15 => tcmd.op = "test_headers"
  /\ state = 17 => tcmd.op = "wdat_osc_on"
  /\ state \in {18, 19} /\ verdict = None => tcmd.op = "wdat_osc_off"
  /\ state = 20 => tcmd.op = "led" \/ Pins({})
  /\ state > 20 => tcmd.op = "led"

\* The pins the test board drives.
Driven ==
  /\ state < 7 => boardLow = {}
  /\ state \in {8, 9} => boardLow = {outp[pin_iter + 1]}
  /\ state = 11 => boardLow = Outp
  /\ state >= 20 => boardLow = {}

\* Once a command is answered the board under test has done as it was told, and
\* the response is what it saw then and would see now.
Obeyed ==
  cmdrsp # "busy" =>
    /\ tcmd.op # "none" => (rspbuf.good <=> Good)
    /\ tcmd.op = "pins" /\ state \in {4, 6, 9, 11, 20} =>
         /\ gwLow = tcmd.low \cap Inp
         /\ rspbuf.low = LowLines(Wiring, boardLow \cup gwLow) \cap Outp

\* WDAT oscillates while it is measured and is quiet afterwards, and no line is
\* driven when the LED is switched.
Oscillating ==
  /\ state = 17 /\ cmdrsp # "busy" => osc
  /\ state >= 20 /\ tcmd.op = "led" => gwLow = {}
  /\ state > 18 => ~osc
  /\ state = 18 /\ verdict = None /\ cmdrsp # "busy" => ~osc

\* In round r a pin that is driven low is low and no other line is.
Clean(r, pin) == LowLines(WiringIn(r), {pin}) = {pin}

\* What the loop over a table of pins has found so far, and in the end.
CleanSoFar(pins) ==
  \A r \in 0 .. MaxOuter + 1 : \A i \in DOMAIN pins :
    r < outer_iter \/ (r = outer_iter /\ i <= pin_iter) => Clean(r, pins[i])
AllClean(pins) == \A r \in 0 .. MaxOuter + 1 : \A i \in DOMAIN pins : Clean(r, pins[i])

\* What is known of a board in a state of the test, as long as no error shows.
Found ==
  verdict = None =>
    /\ state > 1 => "bootloader" \notin board.other
    /\ state > 3 \/ (state = 3 /\ cmdrsp = "idle") => "no_testmode" \notin board.other
    /\ state \in {3, 4} => CleanSoFar(inp)
    /\ state > 4 => AllClean(inp)
    /\ state \in 7 .. 9 => CleanSoFar(outp)
    /\ state > 9 => AllClean(outp)
    /\ state > 13 /\ "opt" \in board.other => ~OptionsChecked
    /\ state > 15 => "hdr" \notin board.other
    /\ state > 17 => "osc" \notin board.other
    /\ state > 18 /\ "cc" \in board.other => board.model # "V4.1"

IInv ==
  /\ TypeOK /\ Fresh /\ Counters /\ Sent /\ Driven /\ Obeyed /\ Oscillating /\ Found
  /\ Blamed
  /\ success \/ state >= 20 => Sound
=============================================================================
