------------------------- MODULE TestSequenceProofs -------------------------
(***************************************************************************)
(* Proofs about the test: for every pair of pin tables, every number of    *)
(* rounds and every set of boards, whatever combination of defects they    *)
(* have, no defective board passes, only a line with a defect is blamed,   *)
(* and the drivers are off when the test is over.                          *)
(***************************************************************************)
EXTENDS TestSequence, TLAPS, WellFoundedInduction

USE TestSequenceAssumption

-----------------------------------------------------------------------------
(* The tables of pins *)

\* Each table has a first pin, and what it lists are lines (main.c: outp, inp).
LEMMA Tables ==
  /\ Len(outp) \in Nat \ {0} /\ DOMAIN outp = 1 .. Len(outp)
  /\ Len(inp) \in Nat \ {0} /\ DOMAIN inp = 1 .. Len(inp)
  /\ \A i \in DOMAIN outp : outp[i] \in Outp
  /\ \A i \in DOMAIN inp : inp[i] \in Inp
  /\ Outp \subseteq Nat /\ Inp \subseteq Nat
  /\ Outp \subseteq Lines /\ Inp \subseteq Lines
  /\ Outp # {} /\ Inp # {}
<1>1. /\ Len(outp) \in Nat \ {0} /\ DOMAIN outp = 1 .. Len(outp)
      /\ Len(inp) \in Nat \ {0} /\ DOMAIN inp = 1 .. Len(inp)
  OBVIOUS
<1>2. /\ \A i \in DOMAIN outp : outp[i] \in Outp
      /\ \A i \in DOMAIN inp : inp[i] \in Inp
  BY DEF Outp, Inp
<1>3. Outp \subseteq Nat /\ Inp \subseteq Nat
  BY DEF Outp, Inp
<1>4. outp[1] \in Outp /\ inp[1] \in Inp
  BY <1>1, <1>2
<1>5. QED
  BY <1>1, <1>2, <1>3, <1>4 DEF Lines

\* Where a pin of a table is.
LEMMA PinOfTable ==
  ASSUME NEW pins \in Seq(Nat), NEW i \in 0 .. Len(pins) - 1
  PROVE  i + 1 \in DOMAIN pins
OBVIOUS

\* A set of numbers that is not empty has a least one.
LessThan == {s \in Nat \X Nat : s[1] < s[2]}

\* The numbers are well-founded, so that a search along a table has an end.
LEMMA LessThanWellFounded == IsWellFoundedOn(LessThan, Nat)
<1>1. OpToRel(<, Nat) = LessThan
  BY DEF OpToRel, LessThan
<1>2. QED
  BY <1>1, NatLessThanWellFounded, Zenon

\* The loop of check_pins finds the first pin that is wrong, if there is one.
LEMMA LeastNumber ==
  ASSUME NEW T \in SUBSET Nat, T # {}
  PROVE  \E x \in T : \A y \in T : x <= y
<1>1. PICK x \in T : \A y \in T : ~ (<<y, x>> \in LessThan)
  BY LessThanWellFounded, WFMin, Zenon
<1>2. ASSUME NEW y \in T PROVE x <= y
  <2>1. ~ (<<y, x>> \in LessThan)
    BY <1>1, Zenon
  <2>2. x \in Nat /\ y \in Nat
    OBVIOUS
  <2>3. QED
    BY <2>1, <2>2 DEF LessThan
<1>3. QED
  BY <1>2

\* The loop of check_pins stops at a pin that is wrong, if there is one.
LEMMA FirstType ==
  ASSUME NEW pins \in Seq(Nat), NEW S, \E i \in DOMAIN pins : pins[i] \in S
  PROVE  \E i \in DOMAIN pins : First(pins, S) = pins[i] /\ pins[i] \in S
<1> DEFINE At == {i \in DOMAIN pins : pins[i] \in S}
           Least(i) == pins[i] \in S /\ \A j \in 1 .. i - 1 : pins[j] \notin S
<1>1. At \in SUBSET Nat /\ At # {} /\ DOMAIN pins = 1 .. Len(pins) /\ Len(pins) \in Nat
  OBVIOUS
<1>2. PICK k \in At : \A j \in At : k <= j
  <2> HIDE DEF At
  <2> QED BY <1>1, LeastNumber
<1>3. ASSUME NEW j \in 1 .. k - 1 PROVE pins[j] \notin S
  <2>1. j \in DOMAIN pins /\ ~ k <= j
    BY <1>1
  <2>2. QED
    BY <1>2, <2>1
<1>4. \E i \in DOMAIN pins : Least(i)
  BY <1>3
<1>5. (CHOOSE i \in DOMAIN pins : Least(i)) \in DOMAIN pins
      /\ Least(CHOOSE i \in DOMAIN pins : Least(i))
  BY <1>4, Zenon
<1>6. QED
  BY <1>5 DEF First

-----------------------------------------------------------------------------
(* The cable *)

\* A defect is at a line, and a bridge joins two.
LEMMA DefectType ==
  ASSUME NEW d \in WiringDefects
  PROVE  /\ d.lines \subseteq Lines
         /\ \/ d.kind \in {"cut", "low", "high"} /\ \E l \in Lines : d.lines = {l}
            \/ d.kind = "bridge" /\ \E l, m \in Lines : l # m /\ d.lines = {l, m}
BY DEF WiringDefects

\* A line that no defect touches is low exactly when it is driven low.
LEMMA UntouchedLine ==
  ASSUME NEW W \in SUBSET WiringDefects, NEW driven, NEW l \in Lines,
         \A d \in W : l \notin d.lines
  PROVE  l \in LowLines(W, driven) <=> l \in driven
<1>1. ~Has(W, "high", l) /\ ~Has(W, "low", l) /\ ~Has(W, "cut", l)
  BY DEF Has
<1>2. \A m \in Lines : ~Shorted(W, l, m)
  BY DEF Shorted
<1>3. Net(W, l) = {l}
  BY <1>2 DEF Net
<1>4. QED
  BY <1>1, <1>3 DEF LowLines, Pulled

\* Wiring that lets every line be driven low, alone, has no defect: that is why
\* the test drives one line after the other (main.c, states 4 and 8).
LEMMA CleanWiring ==
  ASSUME NEW W \in SUBSET WiringDefects, \A l \in Lines : LowLines(W, {l}) = {l}
  PROVE  W = {}
<1> DEFINE InNet(l) == l \in Net(W, l)
<1>1. \A l \in Lines : InNet(l)
  BY DEF Net
<1>2. ASSUME NEW l \in Lines PROVE \A m \in Net(W, l) : ~Has(W, "high", m)
  BY l \in LowLines(W, {l}) DEF LowLines
<1>3. ASSUME NEW l \in Lines PROVE ~Has(W, "high", l)
  BY <1>1, <1>2
<1>4. ASSUME NEW l \in Lines, Has(W, "low", l) PROVE FALSE
  <2>1. PICK k \in Lines : k # l
    BY Tables DEF Lines
  <2>2. l \in LowLines(W, {k})
    BY <1>1, <1>2, <1>4 DEF LowLines, Pulled
  <2>3. QED
    BY <2>1, <2>2
<1>5. ASSUME NEW l \in Lines PROVE Pulled(W, l, {l})
  <2>1. PICK m \in Net(W, l) : Pulled(W, m, {l})
    BY l \in LowLines(W, {l}) DEF LowLines
  <2>2. m \in Lines
    BY DEF Net
  <2>3. m = l
    BY <2>1, <2>2, <1>4 DEF Pulled
  <2>4. QED
    BY <2>1, <2>3
<1>6. ASSUME NEW l \in Lines, Has(W, "cut", l) PROVE FALSE
  BY <1>4, <1>5, <1>6 DEF Pulled
<1>7. ASSUME NEW l \in Lines, NEW m \in Lines, l # m, Shorted(W, l, m) PROVE FALSE
  <2>1. Shorted(W, m, l)
    <3>1. {l, m} = {m, l}
      OBVIOUS
    <3>2. QED
      BY <1>7, <3>1 DEF Shorted
  <2>2. l \in Net(W, m)
    BY <2>1 DEF Net
  <2>3. m \in LowLines(W, {l})
    BY <1>2, <1>5, <2>2 DEF LowLines
  <2>4. QED
    BY <1>7, <2>3
<1>8. ASSUME NEW d \in W PROVE FALSE
  <2>1. CASE d.kind \in {"cut", "low", "high"} /\ \E l \in Lines : d.lines = {l}
    BY <2>1, <1>3, <1>4, <1>6 DEF Has
  <2>2. CASE d.kind = "bridge" /\ \E l, m \in Lines : l # m /\ d.lines = {l, m}
    BY <2>2, <1>7 DEF Shorted
  <2>3. QED
    BY <2>1, <2>2, DefectType
<1>9. QED
  BY <1>8

-----------------------------------------------------------------------------
(* check_pins *)

\* What shows of a board's defects now is among them.
LEMMA WiringType ==
  ASSUME board \in AllBoards, NEW r
  PROVE  WiringIn(r) \in SUBSET WiringDefects /\ WiringIn(r) \subseteq board.wiring
BY DEF AllBoards, Board, WiringIn

\* check_pins passes only what is as it should be, and blames a line with a
\* defect, when the pins asserted are those that both sides drive low.
LEMMA CheckPinsSound ==
  ASSUME NEW asserted \in SUBSET Lines, board \in AllBoards,
         boardLow \cup gwLow = asserted,
         rspbuf.low = LowLines(Wiring, asserted) \cap Outp,
         CheckPins(asserted)
  PROVE  \/ UNCHANGED verdict /\ LowLines(Wiring, asserted) = asserted
         \/ \E l \in Lines : /\ verdict' = Shows("P", l)
                              /\ \E d \in board.wiring : l \in d.lines
<1> DEFINE low == LowLines(Wiring, asserted)
           O   == Wrong(rspbuf.low, asserted \cap Outp)
           N   == Wrong(low \cap Inp, asserted \cap Inp)
<1>1. low \subseteq Lines
  BY DEF LowLines
<1>2. Wiring \in SUBSET WiringDefects /\ Wiring \subseteq board.wiring
  BY WiringType DEF Wiring
<1>3. ASSUME NEW l \in O \cup N
      PROVE  l \in Lines /\ \E d \in board.wiring : l \in d.lines
  <2>1. l \in Lines /\ ~(l \in low <=> l \in asserted)
    BY Tables DEF Wrong, Lines
  <2>2. QED
    BY <1>2, <2>1, UntouchedLine
<1>4. CASE O # {}
  <2>1. verdict' = Shows("P", First(outp, O))
    BY <1>4 DEF CheckPins, PinError, Named
  <2>2. \E i \in DOMAIN outp : outp[i] \in O
    BY <1>4 DEF Wrong, Outp
  <2>3. First(outp, O) \in O
    <3> HIDE DEF O
    <3> QED BY <2>2, FirstType
  <2>4. QED
    BY <1>3, <2>1, <2>3
<1>5. CASE O = {} /\ N # {}
  <2>1. verdict' = Shows("P", First(inp, N))
    BY <1>5 DEF CheckPins, PinError, Named
  <2>2. \E i \in DOMAIN inp : inp[i] \in N
    BY <1>5 DEF Wrong, Inp
  <2>3. First(inp, N) \in N
    <3> HIDE DEF N
    <3> QED BY <2>2, FirstType
  <2>4. QED
    BY <1>3, <2>1, <2>3
<1>6. CASE O = {} /\ N = {}
  <2>1. UNCHANGED verdict
    BY <1>6 DEF CheckPins
  <2>2. low = asserted
    BY <1>1, <1>6 DEF Wrong, Lines
  <2>3. QED
    BY <2>1, <2>2
<1>7. QED
  BY <1>4, <1>5, <1>6

-----------------------------------------------------------------------------
(* What the steps preserve *)

\* What was found of a board stays true of it.
LEMMA CleanStays ==
  ASSUME UNCHANGED board, NEW pins
  PROVE  /\ AllClean(pins)' <=> AllClean(pins)
         /\ UNCHANGED <<pin_iter, outer_iter>> => (CleanSoFar(pins)' <=> CleanSoFar(pins))
BY DEF AllClean, CleanSoFar, Clean, WiringIn

\* What CmdSetPin and Command send is a command.
LEMMA CommandType ==
  /\ NoCommandYet \in Commands
  /\ \A low \in SUBSET Lines : [op |-> "pins", low |-> low] \in Commands
  /\ \A op \in {"info", "testmode", "option_bytes", "test_headers", "wdat_osc_on",
                 "wdat_osc_off", "led"} : [op |-> op, low |-> {}] \in Commands
BY DEF Commands, NoCommandYet

\* A board that is plugged in, or was there from the start (main.c: main).
LEMMA InitIInv == Init => IInv
<1> SUFFICES ASSUME Init PROVE IInv
  OBVIOUS
<1> USE DEF Init, NoCommandYet, NoResponseYet, None, Shows
<1>1. TypeOK
  <2>1. tcmd \in Commands
    BY CommandType
  <2>2. rspbuf \in [good : BOOLEAN, low : SUBSET Outp]
    OBVIOUS
  <2>3. board \in AllBoards
    BY DEF AllBoards
  <2>4. pin_iter \in 0 .. Len(outp) + Len(inp) /\ outer_iter \in 0 .. MaxOuter + 1
    BY Tables
  <2>5. /\ boardLow \subseteq Outp /\ gwLow \subseteq Inp
        /\ verdict \in {None} \cup [code : {"P"}, pin : Lines] \cup [code : Errors, pin : {0}]
    OBVIOUS
  <2>6. QED
    <3> state \in 0 .. 22
      OBVIOUS
    <3> success \in BOOLEAN /\ osc \in BOOLEAN /\ cmdrsp \in {"idle", "busy", "done"}
      BY Zenon
    <3> QED
      BY <2>1, <2>2, <2>3, <2>4, <2>5, Zenon DEF TypeOK
<1>2. Fresh /\ Counters /\ Sent /\ Driven /\ Obeyed /\ Oscillating
  BY DEF Fresh, Counters, Sent, Driven, Obeyed, Oscillating
<1>3. Found /\ Blamed
  BY DEF Found, Blamed, Errors
<1>4. QED
  BY <1>1, <1>2, <1>3 DEF IInv

\* Pulling a board resets the test board (stm32f10x.c: system_reset), and the
\* next one finds it reset.
LEMMA PlugIInv == IInv /\ (Unplug \/ Plug) => IInv'
<1> SUFFICES ASSUME IInv, Unplug \/ Plug PROVE IInv'
  OBVIOUS
<1> USE DEF IInv, mainVars, linkVars, NoCommandYet, NoResponseYet, None, Shows
<1>1. TypeOK'
  <2>1. CASE Unplug
    <3>1. tcmd' \in Commands
      BY <2>1, CommandType DEF Unplug
    <3>2. rspbuf' \in [good : BOOLEAN, low : SUBSET Outp]
      BY <2>1 DEF Unplug
    <3>3. pin_iter' \in 0 .. Len(outp) + Len(inp) /\ outer_iter' \in 0 .. MaxOuter + 1
      BY <2>1, Tables DEF Unplug
    <3>4. verdict' = None /\ state' = 0 /\ success' = FALSE /\ cmdrsp' = "idle" /\ osc' = FALSE
          /\ boardLow' = {} /\ gwLow' = {} /\ UNCHANGED board
      BY <2>1 DEF Unplug
    <3>5. QED
      <4> state' \in 0 .. 22 /\ board' \in AllBoards
        BY <3>4 DEF TypeOK
      <4> /\ boardLow' \subseteq Outp /\ gwLow' \subseteq Inp
          /\ cmdrsp' \in {"idle", "busy", "done"} /\ success' \in BOOLEAN /\ osc' \in BOOLEAN
          /\ verdict' \in {None} \cup [code : {"P"}, pin : Lines] \cup [code : Errors, pin : {0}]
        BY <3>4, Zenon
      <4> QED
        BY <3>1, <3>2, <3>3, Zenon DEF TypeOK
  <2>2. CASE Plug
    <3>1. board' \in AllBoards
      BY <2>2 DEF Plug
    <3>2. QED
      BY <2>2, <3>1 DEF TypeOK, Plug
  <2>3. QED
    BY <2>1, <2>2
<1>2. state' = 0 /\ Fresh'
  BY DEF Fresh, Unplug, Plug
<1>3. Counters'
  BY <1>2 DEF Counters, Unplug, Plug
<1>4. Sent' /\ Driven' /\ Obeyed' /\ Oscillating'
  BY <1>2 DEF Fresh, Sent, Driven, Obeyed, Oscillating
<1>5. Found' /\ Blamed'
  BY <1>2 DEF Fresh, Found, Blamed, Errors
<1>6. (success \/ state >= 20 => Sound)'
  BY <1>2 DEF Fresh
<1>7. QED
  BY <1>1, <1>2, <1>3, <1>4, <1>5, <1>6

\* The timeouts of command_response_handle (main.c).
LEMMA TimeoutIInv == IInv /\ Timeout => IInv'
<1> SUFFICES ASSUME IInv, Timeout PROVE IInv'
  OBVIOUS
<1> USE DEF IInv, Timeout, Error, Shows, None, mainVars, linkVars, boardVars
<1>1. TypeOK'
  BY DEF TypeOK, Errors
<1>2. Fresh' /\ Counters' /\ Driven'
  BY DEF Fresh, Counters, Driven
<1>8. Sent'
  BY DEF Sent, Pins
<1>3. Obeyed' /\ Oscillating' /\ Found' /\ Blamed'
  BY DEF Obeyed, Oscillating, Found, Blamed, Errors
<1>4. (success \/ state >= 20 => Sound)'
  BY DEF Sound, Tested, OptionsChecked
<1>5. QED
  BY <1>1, <1>2, <1>3, <1>4, <1>8

\* The answer to a command is accepted, or the test fails (main.c:
\* command_response_handle).
LEMMA HandleResponseIInv == IInv /\ HandleResponse => IInv'
<1> SUFFICES ASSUME IInv, HandleResponse PROVE IInv'
  OBVIOUS
<1> USE DEF IInv, HandleResponse, mainVars, boardVars
<1>1. TypeOK'
  BY DEF TypeOK, Errors, Error, Shows
<1>2. Fresh' /\ Counters' /\ Driven'
  BY DEF Fresh, Counters, Driven
<1>8. Sent'
  BY DEF Sent, Pins
<1>3. Obeyed' /\ Oscillating'
  BY DEF Obeyed, Oscillating, Good, Wiring, WiringIn
<1>4. Blamed'
  <2>1. CASE UNCHANGED verdict
    BY <2>1 DEF Blamed
  <2>2. CASE tcmd.op = "testmode" /\ ~rspbuf.good /\ Error("E30")
    <3>1. "no_testmode" \in board.other
      BY <2>2 DEF Obeyed, Good
    <3>2. QED
      BY <2>2, <3>1 DEF Blamed, Error, Shows
  <2>3. QED
    BY <2>1, <2>2
<1>5. Found'
  <2>1. verdict' = None => UNCHANGED verdict /\ (tcmd.op = "testmode" => rspbuf.good)
    BY DEF Error, Shows, None
  <2>2. (state = 3 /\ verdict' = None) => "no_testmode" \notin board.other
    BY <2>1 DEF Sent, Obeyed, Good
  <2>3. QED
    BY <2>1, <2>2, CleanStays DEF Found, OptionsChecked
<1>6. (success \/ state >= 20 => Sound)'
  BY DEF Sound, Tested, OptionsChecked
<1>7. QED
  BY <1>1, <1>2, <1>3, <1>4, <1>5, <1>6, <1>8

\* The board under test carries a command out.
LEMMA ExecuteIInv == IInv /\ Execute => IInv'
<1> SUFFICES ASSUME IInv, Execute PROVE IInv'
  OBVIOUS
<1> USE DEF IInv, Execute, mainVars
<1>1. TypeOK'
  <2>1. Good \in BOOLEAN
    BY DEF Good
  <2>2. rspbuf' \in [good : BOOLEAN, low : SUBSET Outp]
    BY <2>1
  <2>3. gwLow' \subseteq Inp /\ osc' \in BOOLEAN
    BY DEF TypeOK
  <2>4. QED
    BY <2>2, <2>3 DEF TypeOK
<1>2. Fresh' /\ Counters' /\ Driven'
  BY DEF Fresh, Counters, Driven
<1>8. Sent'
  BY DEF Sent, Pins
<1>3. Obeyed'
  BY DEF Obeyed, Good, Wiring, WiringIn
<1>4. Oscillating'
  <2>1. osc' \in BOOLEAN /\ (osc' => osc \/ tcmd.op = "wdat_osc_on")
        /\ (tcmd.op = "wdat_osc_off" => ~osc')
    BY DEF TypeOK
  <2>2. tcmd.op = "led" => gwLow' = gwLow
    OBVIOUS
  <2>3. verdict = None /\ UNCHANGED <<state, verdict, tcmd>>
    OBVIOUS
  <2>4. state > 18 => tcmd.op # "wdat_osc_on"
    <3>1. state \in 0 .. 22
      BY DEF TypeOK
    <3>2. \A low : Pins(low) => tcmd.op = "pins"
      BY DEF Pins
    <3> HIDE DEF Execute
    <3>3. QED
      BY <2>3, <3>1, <3>2 DEF Sent
  <2>5. QED
    BY <2>1, <2>2, <2>3, <2>4 DEF Oscillating, Sent, Pins, TypeOK
<1>5. Found' /\ Blamed'
  BY CleanStays DEF Found, Blamed, OptionsChecked
<1>6. (success \/ state >= 20 => Sound)'
  BY DEF Sound, Tested, OptionsChecked
<1>7. QED
  BY <1>1, <1>2, <1>3, <1>4, <1>5, <1>6, <1>8

\* What the states that go straight to the next one have in common.
LEMMA StraightFacts ==
  ASSUME IInv, Straight, UNCHANGED boardVars
  PROVE  /\ verdict = None /\ cmdrsp = "idle" /\ state \in 0 .. 20 /\ state' = state + 1
         /\ UNCHANGED <<pin_iter, outer_iter, board, gwLow, osc>>
         /\ success' \in BOOLEAN /\ (success' => success \/ state' = 20)
<1>1. verdict = None /\ cmdrsp = "idle" /\ state \in 0 .. 20
  BY DEF Straight, Enter, GetInfo, CheckInfo, TestMode, CheckOutputsHigh, CheckAllHigh,
         ReadInput, DriveAllLow, CheckAllLow, OptionBytes, CheckOptionBytes, TestHeaders,
         CheckHeaders, WdatOn, WdatOff, UsbCc, Finish, LedOn
<1>2. state' = state + 1 /\ UNCHANGED <<pin_iter, outer_iter, board, gwLow, osc>>
  BY DEF Straight, boardVars
<1>3. success' = (success \/ state' = 20)
  BY Zenon DEF Straight
<1>4. success' \in BOOLEAN /\ (success' => success \/ state' = 20)
  BY <1>3, Zenon
<1>5. QED
  BY <1>1, <1>2, <1>4

\* A step that sends a command (main.c, states 1, 3, 6, 9, 11, 13, 15, 17, 18, 20, 21).
LEMMA SendIInv ==
  ASSUME IInv, Straight, UNCHANGED boardVars,
         NEW op, NEW low, Command(op, low), [op |-> op, low |-> low] \in Commands,
         UNCHANGED verdict, boardLow' \subseteq Outp
  PROVE  TypeOK' /\ Fresh' /\ Obeyed' /\ Blamed'
<1> /\ verdict = None /\ cmdrsp = "idle" /\ state \in 0 .. 20 /\ state' = state + 1
    /\ UNCHANGED <<pin_iter, outer_iter, board, gwLow, osc>>
    /\ success' \in BOOLEAN
  BY StraightFacts
<1>1. cmdrsp' = "busy" /\ tcmd' = [op |-> op, low |-> low] /\ UNCHANGED rspbuf
  BY DEF Command
<1>2. TypeOK'
  <2>1. state' \in 0 .. 22
    OBVIOUS
  <2>2. cmdrsp' \in {"idle", "busy", "done"}
    BY <1>1
  <2>3. QED
    BY <1>1, <2>1, <2>2, Zenon DEF IInv, TypeOK
<1>3. Fresh' /\ Obeyed'
  BY <1>1 DEF Fresh, Obeyed
<1>4. Blamed'
  BY DEF IInv, Blamed
<1>5. QED
  BY <1>2, <1>3, <1>4

\* A step that looks at what is there (main.c, states 2, 7, 12, 14, 16, 19).
LEMMA LookIInv ==
  ASSUME IInv, Straight, UNCHANGED boardVars, NoCommand, UNCHANGED boardLow,
         state' \in {2, 7, 12, 14, 16, 18, 19},
         \/ UNCHANGED verdict
         \/ \E l \in Lines : /\ verdict' = Shows("P", l)
                            /\ \E d \in board.wiring : l \in d.lines
         \/ (\E e \in Errors : verdict' = Shows(e, 0)) /\ board.other # {}
  PROVE  TypeOK' /\ Fresh' /\ Obeyed' /\ Blamed'
<1> /\ verdict = None /\ cmdrsp = "idle" /\ state \in 0 .. 20 /\ state' = state + 1
    /\ UNCHANGED <<pin_iter, outer_iter, board, gwLow, osc>>
    /\ success' \in BOOLEAN
  BY StraightFacts
<1>1. UNCHANGED <<cmdrsp, tcmd, rspbuf>>
  BY DEF NoCommand, linkVars
<1>2. TypeOK'
  <2>1. state' \in 0 .. 22
    OBVIOUS
  <2>2. verdict' \in {None} \cup [code : {"P"}, pin : Lines] \cup [code : Errors, pin : {0}]
    BY DEF Shows
  <2>3. QED
    BY <1>1, <2>1, <2>2, Zenon DEF IInv, TypeOK
<1>3. Fresh'
  BY DEF Fresh
<1>4. Obeyed'
  <2>1. Good' <=> Good
    BY <1>1 DEF Good
  <2>2. QED
    BY <1>1, <2>1 DEF IInv, Obeyed
<1>5. Blamed'
  BY DEF IInv, Blamed, Shows, Errors
<1>6. QED
  BY <1>2, <1>3, <1>4, <1>5

\* The loops over the tables start with nothing found (main.c, states 3 and 7).
LEMMA CleanAtStart ==
  ASSUME NEW pins \in Seq(Nat), pin_iter = 0, outer_iter = 0
  PROVE  CleanSoFar(pins)
BY DEF CleanSoFar

\* The straight states, one by one.
LEMMA GetInfoIInv == IInv /\ Straight /\ UNCHANGED boardVars /\ GetInfo => IInv'
<1> SUFFICES ASSUME IInv, Straight, UNCHANGED boardVars, GetInfo PROVE IInv'
  OBVIOUS
<1>1. /\ state = 0 /\ state' = 1 /\ success' = FALSE /\ boardLow' = {}
      /\ Command("info", {}) /\ UNCHANGED <<verdict, pin_iter, outer_iter>>
  BY StraightFacts DEF GetInfo, Enter, IInv, Fresh
<1>2. tcmd'.op = "info"
  BY <1>1 DEF Command
<1>3. TypeOK' /\ Fresh' /\ Obeyed' /\ Blamed'
  BY <1>1, SendIInv, CommandType DEF GetInfo
<1>4. Counters' /\ Sent' /\ Driven' /\ Oscillating' /\ Found'
  BY <1>1, <1>2 DEF IInv, Counters, Sent, Driven, Oscillating, Found
<1>5. QED
  BY <1>1, <1>3, <1>4 DEF IInv

\* State 3: TEST_MODE is sent.
LEMMA TestModeIInv == IInv /\ Straight /\ UNCHANGED boardVars /\ TestMode => IInv'
<1> SUFFICES ASSUME IInv, Straight, UNCHANGED boardVars, TestMode PROVE IInv'
  OBVIOUS
<1>1. /\ state = 2 /\ state' = 3 /\ success' = success
      /\ Command("testmode", {}) /\ UNCHANGED <<verdict, boardLow, gwLow, osc, pin_iter, outer_iter, board>>
      /\ verdict = None /\ cmdrsp = "idle"
  BY StraightFacts DEF TestMode, Enter, CmdSetPin, Straight, IInv, TypeOK
<1>2. tcmd' = [op |-> "testmode", low |-> {}] /\ cmdrsp' = "busy"
  BY <1>1 DEF Command
<1>3. TypeOK' /\ Fresh' /\ Obeyed' /\ Blamed'
  <2>1. boardLow' \subseteq Outp
    BY <1>1 DEF IInv, TypeOK
  <2>2. QED
    BY <1>1, <2>1, SendIInv, CommandType
<1>4. Counters' /\ Sent' /\ Driven' /\ Oscillating'
  BY <1>1, <1>2 DEF IInv, Counters, Sent, Pins, Driven, Oscillating
<1>5. Found'
  BY <1>1, <1>2, CleanStays, CleanAtStart DEF IInv, Found, Counters
<1>6. (success \/ state >= 20 => Sound)'
  BY <1>1 DEF IInv, Sound, Tested, OptionsChecked
<1>7. QED
  BY <1>3, <1>4, <1>5, <1>6 DEF IInv

\* State 6: no pin is driven any more.
LEMMA CheckOutputsHighIInv == IInv /\ Straight /\ UNCHANGED boardVars /\ CheckOutputsHigh => IInv'
<1> SUFFICES ASSUME IInv, Straight, UNCHANGED boardVars, CheckOutputsHigh PROVE IInv'
  OBVIOUS
<1>1. /\ state = 5 /\ state' = 6 /\ success' = success
      /\ Command("pins", {}) /\ UNCHANGED <<verdict, boardLow, gwLow, osc, pin_iter, outer_iter, board>>
      /\ verdict = None /\ cmdrsp = "idle"
  BY StraightFacts DEF CheckOutputsHigh, Enter, CmdSetPin, Straight, IInv, TypeOK
<1>2. tcmd' = [op |-> "pins", low |-> {}] /\ cmdrsp' = "busy"
  BY <1>1 DEF Command
<1>3. TypeOK' /\ Fresh' /\ Obeyed' /\ Blamed'
  <2>1. boardLow' \subseteq Outp
    BY <1>1 DEF IInv, TypeOK
  <2>2. QED
    BY <1>1, <2>1, SendIInv, CommandType
<1>4. Counters' /\ Sent' /\ Driven' /\ Oscillating'
  BY <1>1, <1>2 DEF IInv, Counters, Sent, Pins, Driven, Oscillating
<1>5. Found'
  BY <1>1, <1>2, CleanStays DEF IInv, Found, Counters
<1>6. (success \/ state >= 20 => Sound)'
  BY <1>1 DEF IInv, Sound, Tested, OptionsChecked
<1>7. QED
  BY <1>3, <1>4, <1>5, <1>6 DEF IInv

\* State 9: the board under test reads its pins while the test board drives one.
LEMMA ReadInputIInv == IInv /\ Straight /\ UNCHANGED boardVars /\ ReadInput => IInv'
<1> SUFFICES ASSUME IInv, Straight, UNCHANGED boardVars, ReadInput PROVE IInv'
  OBVIOUS
<1>1. /\ state = 8 /\ state' = 9 /\ success' = success
      /\ Command("pins", {}) /\ UNCHANGED <<verdict, boardLow, gwLow, osc, pin_iter, outer_iter, board>>
      /\ verdict = None /\ cmdrsp = "idle"
  BY StraightFacts DEF ReadInput, Enter, CmdSetPin, Straight, IInv, TypeOK
<1>2. tcmd' = [op |-> "pins", low |-> {}] /\ cmdrsp' = "busy"
  BY <1>1 DEF Command
<1>3. TypeOK' /\ Fresh' /\ Obeyed' /\ Blamed'
  <2>1. boardLow' \subseteq Outp
    BY <1>1 DEF IInv, TypeOK
  <2>2. QED
    BY <1>1, <2>1, SendIInv, CommandType
<1>4. Counters' /\ Sent' /\ Driven' /\ Oscillating'
  BY <1>1, <1>2 DEF IInv, Counters, Sent, Pins, Driven, Oscillating
<1>5. Found'
  BY <1>1, <1>2, CleanStays DEF IInv, Found, Counters
<1>6. (success \/ state >= 20 => Sound)'
  BY <1>1 DEF IInv, Sound, Tested, OptionsChecked
<1>7. QED
  BY <1>3, <1>4, <1>5, <1>6 DEF IInv

\* State 13: the option bytes are asked for.
LEMMA OptionBytesIInv == IInv /\ Straight /\ UNCHANGED boardVars /\ OptionBytes => IInv'
<1> SUFFICES ASSUME IInv, Straight, UNCHANGED boardVars, OptionBytes PROVE IInv'
  OBVIOUS
<1>1. /\ state = 12 /\ state' = 13 /\ success' = success
      /\ Command("option_bytes", {}) /\ UNCHANGED <<verdict, boardLow, gwLow, osc, pin_iter, outer_iter, board>>
      /\ verdict = None /\ cmdrsp = "idle"
  BY StraightFacts DEF OptionBytes, Enter, CmdSetPin, Straight, IInv, TypeOK
<1>2. tcmd' = [op |-> "option_bytes", low |-> {}] /\ cmdrsp' = "busy"
  BY <1>1 DEF Command
<1>3. TypeOK' /\ Fresh' /\ Obeyed' /\ Blamed'
  <2>1. boardLow' \subseteq Outp
    BY <1>1 DEF IInv, TypeOK
  <2>2. QED
    BY <1>1, <2>1, SendIInv, CommandType
<1>4. Counters' /\ Sent' /\ Driven' /\ Oscillating'
  BY <1>1, <1>2 DEF IInv, Counters, Sent, Pins, Driven, Oscillating
<1>5. Found'
  BY <1>1, <1>2, CleanStays DEF IInv, Found, Counters
<1>6. (success \/ state >= 20 => Sound)'
  BY <1>1 DEF IInv, Sound, Tested, OptionsChecked
<1>7. QED
  BY <1>3, <1>4, <1>5, <1>6 DEF IInv

\* State 15: the board tests its headers.
LEMMA TestHeadersIInv == IInv /\ Straight /\ UNCHANGED boardVars /\ TestHeaders => IInv'
<1> SUFFICES ASSUME IInv, Straight, UNCHANGED boardVars, TestHeaders PROVE IInv'
  OBVIOUS
<1>1. /\ state = 14 /\ state' = 15 /\ success' = success
      /\ Command("test_headers", {}) /\ UNCHANGED <<verdict, boardLow, gwLow, osc, pin_iter, outer_iter, board>>
      /\ verdict = None /\ cmdrsp = "idle"
  BY StraightFacts DEF TestHeaders, Enter, CmdSetPin, Straight, IInv, TypeOK
<1>2. tcmd' = [op |-> "test_headers", low |-> {}] /\ cmdrsp' = "busy"
  BY <1>1 DEF Command
<1>3. TypeOK' /\ Fresh' /\ Obeyed' /\ Blamed'
  <2>1. boardLow' \subseteq Outp
    BY <1>1 DEF IInv, TypeOK
  <2>2. QED
    BY <1>1, <2>1, SendIInv, CommandType
<1>4. Counters' /\ Sent' /\ Driven' /\ Oscillating'
  BY <1>1, <1>2 DEF IInv, Counters, Sent, Pins, Driven, Oscillating
<1>5. Found'
  BY <1>1, <1>2, CleanStays DEF IInv, Found, Counters, OptionsChecked
<1>6. (success \/ state >= 20 => Sound)'
  BY <1>1 DEF IInv, Sound, Tested, OptionsChecked
<1>7. QED
  BY <1>3, <1>4, <1>5, <1>6 DEF IInv

\* State 17: WDAT is to oscillate.
LEMMA WdatOnIInv == IInv /\ Straight /\ UNCHANGED boardVars /\ WdatOn => IInv'
<1> SUFFICES ASSUME IInv, Straight, UNCHANGED boardVars, WdatOn PROVE IInv'
  OBVIOUS
<1>1. /\ state = 16 /\ state' = 17 /\ success' = success
      /\ Command("wdat_osc_on", {}) /\ UNCHANGED <<verdict, boardLow, gwLow, osc, pin_iter, outer_iter, board>>
      /\ verdict = None /\ cmdrsp = "idle"
  BY StraightFacts DEF WdatOn, Enter, CmdSetPin, Straight, IInv, TypeOK
<1>2. tcmd' = [op |-> "wdat_osc_on", low |-> {}] /\ cmdrsp' = "busy"
  BY <1>1 DEF Command
<1>3. TypeOK' /\ Fresh' /\ Obeyed' /\ Blamed'
  <2>1. boardLow' \subseteq Outp
    BY <1>1 DEF IInv, TypeOK
  <2>2. QED
    BY <1>1, <2>1, SendIInv, CommandType
<1>4. Counters' /\ Sent' /\ Driven' /\ Oscillating'
  BY <1>1, <1>2 DEF IInv, Counters, Sent, Pins, Driven, Oscillating
<1>5. Found'
  BY <1>1, <1>2, CleanStays DEF IInv, Found, Counters, OptionsChecked
<1>6. (success \/ state >= 20 => Sound)'
  BY <1>1 DEF IInv, Sound, Tested, OptionsChecked
<1>7. QED
  BY <1>3, <1>4, <1>5, <1>6 DEF IInv

\* State 21: the LED goes on.
LEMMA LedOnIInv == IInv /\ Straight /\ UNCHANGED boardVars /\ LedOn => IInv'
<1> SUFFICES ASSUME IInv, Straight, UNCHANGED boardVars, LedOn PROVE IInv'
  OBVIOUS
<1>1. /\ state = 20 /\ state' = 21 /\ success' = success
      /\ Command("led", {}) /\ UNCHANGED <<verdict, boardLow, gwLow, osc, pin_iter, outer_iter, board>>
      /\ verdict = None /\ cmdrsp = "idle"
  BY StraightFacts DEF LedOn, Enter, CmdSetPin, Straight, IInv, TypeOK
<1>2. tcmd' = [op |-> "led", low |-> {}] /\ cmdrsp' = "busy"
  BY <1>1 DEF Command
<1>3. TypeOK' /\ Fresh' /\ Obeyed' /\ Blamed'
  <2>1. boardLow' \subseteq Outp
    BY <1>1 DEF IInv, TypeOK
  <2>2. QED
    BY <1>1, <2>1, SendIInv, CommandType
<1>4. Counters' /\ Sent' /\ Driven' /\ Oscillating'
  <2>1. gwLow = {}
    BY <1>1 DEF IInv, Sent, Pins, Obeyed, Oscillating
  <2>2. QED
    BY <1>1, <1>2, <2>1 DEF IInv, Counters, Sent, Pins, Driven, Oscillating
<1>5. Found'
  BY <1>1, <1>2, CleanStays DEF IInv, Found, Counters, OptionsChecked
<1>6. (success \/ state >= 20 => Sound)'
  BY <1>1 DEF IInv, Sound, Tested, OptionsChecked
<1>7. QED
  BY <1>3, <1>4, <1>5, <1>6 DEF IInv

\* State 2: the answer to GET_INFO is looked at.
LEMMA CheckInfoIInv == IInv /\ Straight /\ UNCHANGED boardVars /\ CheckInfo => IInv'
<1> SUFFICES ASSUME IInv, Straight, UNCHANGED boardVars, CheckInfo PROVE IInv'
  OBVIOUS
<1>1. /\ state = 1 /\ state' = 2 /\ success' = success /\ NoCommand
      /\ UNCHANGED <<boardLow, gwLow, osc, pin_iter, outer_iter, board, cmdrsp, tcmd, rspbuf>>
      /\ verdict = None /\ cmdrsp = "idle"
  BY StraightFacts DEF CheckInfo, Enter, NoCommand, linkVars, Straight, IInv, TypeOK
<1>2. \/ UNCHANGED verdict /\ "bootloader" \notin board.other
      \/ verdict' = Shows("E30", 0) /\ "E30" \in Errors /\ "bootloader" \in board.other /\ verdict' # None
  <2>1. rspbuf.good <=> "bootloader" \notin board.other
    BY <1>1 DEF IInv, Sent, Obeyed, Good
  <2>2. QED
    BY <1>1, <2>1 DEF CheckInfo, ErrorIf, Error, Shows, Errors, None
<1>3. TypeOK' /\ Fresh' /\ Obeyed' /\ Blamed'
  BY <1>1, <1>2, LookIInv
<1>4. Counters' /\ Sent' /\ Driven' /\ Oscillating'
  BY <1>1, <1>2 DEF IInv, Counters, Sent, Pins, Driven, Oscillating
<1>5. Found'
  BY <1>1, <1>2, CleanStays DEF IInv, Found, Counters
<1>6. (success \/ state >= 20 => Sound)'
  BY <1>1 DEF IInv, Sound, Tested, OptionsChecked
<1>7. QED
  BY <1>3, <1>4, <1>5, <1>6 DEF IInv

\* State 14: the option bytes are compared.
LEMMA CheckOptionBytesIInv == IInv /\ Straight /\ UNCHANGED boardVars /\ CheckOptionBytes => IInv'
<1> SUFFICES ASSUME IInv, Straight, UNCHANGED boardVars, CheckOptionBytes PROVE IInv'
  OBVIOUS
<1>1. /\ state = 13 /\ state' = 14 /\ success' = success /\ NoCommand
      /\ UNCHANGED <<boardLow, gwLow, osc, pin_iter, outer_iter, board, cmdrsp, tcmd, rspbuf>>
      /\ verdict = None /\ cmdrsp = "idle"
  BY StraightFacts DEF CheckOptionBytes, Enter, NoCommand, linkVars, Straight, IInv, TypeOK
<1>2. \/ UNCHANGED verdict /\ ~(OptionsChecked /\ "opt" \in board.other)
      \/ verdict' = Shows("OPT", 0) /\ "OPT" \in Errors /\ "opt" \in board.other /\ verdict' # None
  <2>1. rspbuf.good <=> "opt" \notin board.other
    BY <1>1 DEF IInv, Sent, Obeyed, Good
  <2>2. QED
    BY <1>1, <2>1 DEF CheckOptionBytes, ErrorIf, Error, Shows, Errors, None
<1>3. TypeOK' /\ Fresh' /\ Obeyed' /\ Blamed'
  BY <1>1, <1>2, LookIInv
<1>4. Counters' /\ Sent' /\ Driven' /\ Oscillating'
  BY <1>1, <1>2 DEF IInv, Counters, Sent, Pins, Driven, Oscillating
<1>5. Found'
  BY <1>1, <1>2, CleanStays DEF IInv, Found, Counters, OptionsChecked
<1>6. (success \/ state >= 20 => Sound)'
  BY <1>1 DEF IInv, Sound, Tested, OptionsChecked
<1>7. QED
  BY <1>3, <1>4, <1>5, <1>6 DEF IInv

\* State 16: the result of the headers is looked at.
LEMMA CheckHeadersIInv == IInv /\ Straight /\ UNCHANGED boardVars /\ CheckHeaders => IInv'
<1> SUFFICES ASSUME IInv, Straight, UNCHANGED boardVars, CheckHeaders PROVE IInv'
  OBVIOUS
<1>1. /\ state = 15 /\ state' = 16 /\ success' = success /\ NoCommand
      /\ UNCHANGED <<boardLow, gwLow, osc, pin_iter, outer_iter, board, cmdrsp, tcmd, rspbuf>>
      /\ verdict = None /\ cmdrsp = "idle"
  BY StraightFacts DEF CheckHeaders, Enter, NoCommand, linkVars, Straight, IInv, TypeOK
<1>2. \/ UNCHANGED verdict /\ "hdr" \notin board.other
      \/ verdict' = Shows("HDR", 0) /\ "HDR" \in Errors /\ "hdr" \in board.other /\ verdict' # None
  <2>1. rspbuf.good <=> "hdr" \notin board.other
    BY <1>1 DEF IInv, Sent, Obeyed, Good
  <2>2. QED
    BY <1>1, <2>1 DEF CheckHeaders, ErrorIf, Error, Shows, Errors, None
<1>3. TypeOK' /\ Fresh' /\ Obeyed' /\ Blamed'
  BY <1>1, <1>2, LookIInv
<1>4. Counters' /\ Sent' /\ Driven' /\ Oscillating'
  BY <1>1, <1>2 DEF IInv, Counters, Sent, Pins, Driven, Oscillating
<1>5. Found'
  BY <1>1, <1>2, CleanStays DEF IInv, Found, Counters, OptionsChecked
<1>6. (success \/ state >= 20 => Sound)'
  BY <1>1 DEF IInv, Sound, Tested, OptionsChecked
<1>7. QED
  BY <1>3, <1>4, <1>5, <1>6 DEF IInv

\* State 19: the CC lines are looked at.
LEMMA UsbCcIInv == IInv /\ Straight /\ UNCHANGED boardVars /\ UsbCc => IInv'
<1> SUFFICES ASSUME IInv, Straight, UNCHANGED boardVars, UsbCc PROVE IInv'
  OBVIOUS
<1>1. /\ state = 18 /\ state' = 19 /\ success' = success /\ NoCommand
      /\ UNCHANGED <<boardLow, gwLow, osc, pin_iter, outer_iter, board, cmdrsp, tcmd, rspbuf>>
      /\ verdict = None /\ cmdrsp = "idle"
  BY StraightFacts DEF UsbCc, Enter, NoCommand, linkVars, Straight, IInv, TypeOK
<1>2. \/ UNCHANGED verdict /\ ~(board.model = "V4.1" /\ "cc" \in board.other)
      \/ verdict' = Shows("CCN", 0) /\ "CCN" \in Errors /\ "cc" \in board.other /\ verdict' # None
  BY <1>1 DEF UsbCc, ErrorIf, Error, Shows, Errors, None
<1>3. TypeOK' /\ Fresh' /\ Obeyed' /\ Blamed'
  BY <1>1, <1>2, LookIInv
<1>4. Counters' /\ Sent' /\ Driven' /\ Oscillating'
  BY <1>1, <1>2 DEF IInv, Counters, Sent, Pins, Driven, Oscillating
<1>5. Found'
  BY <1>1, <1>2, CleanStays DEF IInv, Found, Counters, OptionsChecked
<1>6. (success \/ state >= 20 => Sound)'
  BY <1>1 DEF IInv, Sound, Tested, OptionsChecked
<1>7. QED
  BY <1>3, <1>4, <1>5, <1>6 DEF IInv

\* State 7: all lines are to be high.
LEMMA CheckAllHighIInv == IInv /\ Straight /\ UNCHANGED boardVars /\ CheckAllHigh => IInv'
<1> SUFFICES ASSUME IInv, Straight, UNCHANGED boardVars, CheckAllHigh PROVE IInv'
  OBVIOUS
<1>1. /\ state = 6 /\ state' = 7 /\ success' = success /\ NoCommand
      /\ UNCHANGED <<boardLow, gwLow, osc, pin_iter, outer_iter, board, cmdrsp, tcmd, rspbuf>>
      /\ verdict = None /\ cmdrsp = "idle"
  BY StraightFacts DEF CheckAllHigh, Enter, NoCommand, linkVars, Straight, IInv, TypeOK
<1>2. \/ UNCHANGED verdict
      \/ verdict' # None /\ \E l \in Lines : /\ verdict' = Shows("P", l)
                                            /\ \E d \in board.wiring : l \in d.lines
  <2>1. boardLow \cup gwLow = {} /\ rspbuf.low = LowLines(Wiring, {}) \cap Outp
    <3>1. tcmd = [op |-> "pins", low |-> {}] /\ boardLow = {}
      BY <1>1 DEF IInv, Sent, Pins, Driven
    <3>2. /\ gwLow = {} \cap Inp
          /\ rspbuf.low = LowLines(Wiring, boardLow \cup gwLow) \cap Outp
      BY <1>1, <3>1 DEF IInv, Obeyed
    <3>3. boardLow \cup gwLow = {}
      BY <3>1, <3>2 DEF Lines
    <3>4. QED
      BY <3>2, <3>3
  <2>2. board \in AllBoards /\ {} \in SUBSET Lines
    BY DEF IInv, TypeOK
  <2>3. CheckPins({})
    BY DEF CheckAllHigh
  <2>4. QED
    BY <2>1, <2>2, <2>3, CheckPinsSound DEF Shows, None
<1>3. TypeOK' /\ Fresh' /\ Obeyed' /\ Blamed'
  BY <1>1, <1>2, LookIInv
<1>4. Counters' /\ Sent' /\ Driven' /\ Oscillating'
  BY <1>1, <1>2 DEF IInv, Counters, Sent, Pins, Driven, Oscillating
<1>5. Found'
  BY <1>1, <1>2, CleanStays, CleanAtStart DEF IInv, Found, Counters
<1>6. (success \/ state >= 20 => Sound)'
  BY <1>1 DEF IInv, Sound, Tested, OptionsChecked
<1>7. QED
  BY <1>3, <1>4, <1>5, <1>6 DEF IInv

\* State 12: all lines are to be low.
LEMMA CheckAllLowIInv == IInv /\ Straight /\ UNCHANGED boardVars /\ CheckAllLow => IInv'
<1> SUFFICES ASSUME IInv, Straight, UNCHANGED boardVars, CheckAllLow PROVE IInv'
  OBVIOUS
<1>1. /\ state = 11 /\ state' = 12 /\ success' = success /\ NoCommand
      /\ UNCHANGED <<boardLow, gwLow, osc, pin_iter, outer_iter, board, cmdrsp, tcmd, rspbuf>>
      /\ verdict = None /\ cmdrsp = "idle"
  BY StraightFacts DEF CheckAllLow, Enter, NoCommand, linkVars, Straight, IInv, TypeOK
<1>2. \/ UNCHANGED verdict
      \/ verdict' # None /\ \E l \in Lines : /\ verdict' = Shows("P", l)
                                            /\ \E d \in board.wiring : l \in d.lines
  <2>1. boardLow \cup gwLow = Lines /\ rspbuf.low = LowLines(Wiring, Lines) \cap Outp
    <3>1. tcmd = [op |-> "pins", low |-> Lines] /\ boardLow = Outp
      BY <1>1 DEF IInv, Sent, Pins, Driven
    <3>2. /\ gwLow = Lines \cap Inp
          /\ rspbuf.low = LowLines(Wiring, boardLow \cup gwLow) \cap Outp
      BY <1>1, <3>1 DEF IInv, Obeyed
    <3>3. boardLow \cup gwLow = Lines
      BY <3>1, <3>2 DEF Lines
    <3>4. QED
      BY <3>2, <3>3
  <2>2. board \in AllBoards /\ Lines \in SUBSET Lines
    BY DEF IInv, TypeOK
  <2>3. CheckPins(Lines)
    BY DEF CheckAllLow
  <2>4. QED
    BY <2>1, <2>2, <2>3, CheckPinsSound DEF Shows, None
<1>3. TypeOK' /\ Fresh' /\ Obeyed' /\ Blamed'
  BY <1>1, <1>2, LookIInv
<1>4. Counters' /\ Sent' /\ Driven' /\ Oscillating'
  BY <1>1, <1>2 DEF IInv, Counters, Sent, Pins, Driven, Oscillating
<1>5. Found'
  BY <1>1, <1>2, CleanStays DEF IInv, Found, Counters
<1>6. (success \/ state >= 20 => Sound)'
  BY <1>1 DEF IInv, Sound, Tested, OptionsChecked
<1>7. QED
  BY <1>3, <1>4, <1>5, <1>6 DEF IInv

\* State 11: all lines are driven low from both ends.
LEMMA DriveAllLowIInv == IInv /\ Straight /\ UNCHANGED boardVars /\ DriveAllLow => IInv'
<1> SUFFICES ASSUME IInv, Straight, UNCHANGED boardVars, DriveAllLow PROVE IInv'
  OBVIOUS
<1>1. /\ state = 10 /\ state' = 11 /\ success' = success /\ boardLow' = Outp
      /\ Command("pins", Lines) /\ UNCHANGED <<verdict, gwLow, osc, pin_iter, outer_iter, board>>
      /\ verdict = None /\ cmdrsp = "idle"
  BY StraightFacts DEF DriveAllLow, Enter, Straight, IInv, TypeOK
<1>2. tcmd' = [op |-> "pins", low |-> Lines] /\ cmdrsp' = "busy"
  BY <1>1 DEF Command
<1>3. TypeOK' /\ Fresh' /\ Obeyed' /\ Blamed'
  <2>1. [op |-> "pins", low |-> Lines] \in Commands
    BY CommandType
  <2>2. QED
    BY <1>1, <2>1, SendIInv
<1>4. Counters' /\ Sent' /\ Driven' /\ Oscillating'
  BY <1>1, <1>2 DEF IInv, Counters, Sent, Pins, Driven, Oscillating
<1>5. Found'
  BY <1>1, <1>2, CleanStays DEF IInv, Found, Counters
<1>6. (success \/ state >= 20 => Sound)'
  BY <1>1 DEF IInv, Sound, Tested, OptionsChecked
<1>7. QED
  BY <1>3, <1>4, <1>5, <1>6 DEF IInv

\* State 18: WDAT was measured, and is to stop.
LEMMA WdatOffIInv == IInv /\ Straight /\ UNCHANGED boardVars /\ WdatOff => IInv'
<1> SUFFICES ASSUME IInv, Straight, UNCHANGED boardVars, WdatOff PROVE IInv'
  OBVIOUS
<1>1. /\ state = 17 /\ state' = 18 /\ success' = success
      /\ UNCHANGED <<boardLow, gwLow, osc, pin_iter, outer_iter, board>>
      /\ verdict = None /\ cmdrsp = "idle"
  BY StraightFacts DEF WdatOff, Enter, Straight, IInv, TypeOK
<1>2. CASE Command("wdat_osc_off", {}) /\ UNCHANGED verdict /\ "osc" \notin board.other
  <2>1. tcmd' = [op |-> "wdat_osc_off", low |-> {}] /\ cmdrsp' = "busy"
    BY <1>2 DEF Command
  <2>2. TypeOK' /\ Fresh' /\ Obeyed' /\ Blamed'
    <3>1. boardLow' \subseteq Outp
      BY <1>1 DEF IInv, TypeOK
    <3>2. QED
      BY <1>2, <3>1, SendIInv, CommandType
  <2>3. Counters' /\ Sent' /\ Driven' /\ Oscillating'
    BY <1>1, <2>1 DEF IInv, Counters, Sent, Pins, Driven, Oscillating
  <2>4. Found'
    BY <1>1, <1>2, CleanStays DEF IInv, Found, OptionsChecked
  <2>5. (success \/ state >= 20 => Sound)'
    BY <1>1 DEF IInv, Sound, Tested, OptionsChecked
  <2>6. QED
    BY <2>2, <2>3, <2>4, <2>5 DEF IInv
<1>3. CASE Error("OSC") /\ NoCommand /\ board.other # {}
  <2>1. TypeOK' /\ Fresh' /\ Obeyed' /\ Blamed'
    BY <1>1, <1>3, LookIInv DEF Error, Errors
  <2>2. verdict' # None
    BY <1>3 DEF Error, Shows, None
  <2>3. Counters' /\ Sent' /\ Driven' /\ Oscillating' /\ Found'
    BY <1>1, <1>3, <2>2 DEF IInv, Counters, Sent, Pins, Driven, Oscillating, Found, NoCommand, linkVars
  <2>4. (success \/ state >= 20 => Sound)'
    BY <1>1 DEF IInv, Sound, Tested, OptionsChecked
  <2>5. QED
    BY <2>1, <2>3, <2>4 DEF IInv
<1>4. osc
  BY <1>1 DEF IInv, Sent, Oscillating
<1>5. QED
  BY <1>2, <1>3, <1>4 DEF WdatOff

\* A board that passes has no defect that the test claims to find (main.c, state 20):
\* in every round every pin was driven alone, and a defect shows in one of them.
LEMMA FoundAll ==
  ASSUME IInv, state = 19, verdict = None
  PROVE  Sound
<1>1. board \in AllBoards
  BY DEF IInv, TypeOK
<1>2. PICK r \in 0 .. MaxOuter + 1 : board.round \in {Always, r}
  BY <1>1 DEF AllBoards, Board, Rounds
<1>3. WiringIn(r) = board.wiring /\ WiringIn(r) \in SUBSET WiringDefects
  BY <1>1, <1>2, WiringType DEF WiringIn
<1>4. ASSUME NEW l \in Lines PROVE LowLines(WiringIn(r), {l}) = {l}
  <2>1. AllClean(inp) /\ AllClean(outp)
    BY DEF IInv, Found
  <2>2. \/ \E i \in DOMAIN inp : l = inp[i]
        \/ \E i \in DOMAIN outp : l = outp[i]
    BY DEF Lines, Outp, Inp
  <2>3. QED
    BY <2>1, <2>2 DEF AllClean, Clean
<1>5. board.wiring = {}
  BY <1>3, <1>4, CleanWiring
<1>6. ASSUME NEW d \in board.other PROVE ~Tested(d)
  <2>1. d \in OtherDefects
    BY <1>1 DEF AllBoards, Board
  <2>2. QED
    BY <2>1 DEF IInv, Found, OtherDefects, Tested
<1>7. QED
  BY <1>5, <1>6 DEF Sound

\* State 20: the drivers are released, the board has passed.
LEMMA FinishIInv == IInv /\ Straight /\ UNCHANGED boardVars /\ Finish => IInv'
<1> SUFFICES ASSUME IInv, Straight, UNCHANGED boardVars, Finish PROVE IInv'
  OBVIOUS
<1>1. /\ state = 19 /\ state' = 20 /\ boardLow' = {}
      /\ Command("pins", {}) /\ UNCHANGED <<verdict, gwLow, osc, pin_iter, outer_iter, board>>
      /\ verdict = None /\ cmdrsp = "idle"
  BY StraightFacts DEF Finish, ReleasedPins, Enter, CmdSetPin
<1>2. tcmd' = [op |-> "pins", low |-> {}] /\ cmdrsp' = "busy"
  BY <1>1 DEF Command
<1>3. TypeOK' /\ Fresh' /\ Obeyed' /\ Blamed'
  <2>1. [op |-> "pins", low |-> {}] \in Commands
    BY CommandType
  <2>2. QED
    BY <1>1, <2>1, SendIInv
<1>4. Counters' /\ Sent' /\ Driven' /\ Oscillating'
  BY <1>1, <1>2 DEF IInv, Counters, Sent, Pins, Driven, Oscillating
<1>5. Found'
  BY <1>1, <1>2, CleanStays DEF IInv, Found, Counters, OptionsChecked
<1>6. (success \/ state >= 20 => Sound)'
  BY <1>1, FoundAll DEF Sound, Tested, OptionsChecked
<1>7. QED
  BY <1>3, <1>4, <1>5, <1>6 DEF IInv

\* The LED blinks for ever (main.c, states 21 and 22).
LEMMA LedLoopIInv == IInv /\ LedLoop /\ UNCHANGED boardVars => IInv'
<1> SUFFICES ASSUME IInv, LedLoop, UNCHANGED boardVars PROVE IInv'
  OBVIOUS
<1>1. /\ state = 21 /\ state' = 20
      /\ UNCHANGED <<verdict, boardLow, gwLow, osc, pin_iter, outer_iter, board, success, rspbuf>>
      /\ tcmd' = [op |-> "led", low |-> {}] /\ cmdrsp' = "busy"
      /\ verdict = None /\ cmdrsp = "idle"
  BY DEF LedLoop, LedOff, Enter, Goto, Command, boardVars
<1>2. TypeOK'
  <2>1. state' \in 0 .. 22 /\ cmdrsp' \in {"idle", "busy", "done"}
    BY <1>1
  <2>2. tcmd' \in Commands
    BY <1>1, CommandType
  <2>3. QED
    BY <1>1, <2>1, <2>2, Zenon DEF IInv, TypeOK
<1>3. Fresh' /\ Obeyed' /\ Blamed'
  BY <1>1 DEF IInv, Fresh, Obeyed, Blamed
<1>4. Counters' /\ Sent' /\ Driven' /\ Oscillating'
  BY <1>1 DEF IInv, Counters, Sent, Pins, Driven, Oscillating
<1>5. Found'
  BY <1>1, CleanStays DEF IInv, Found, OptionsChecked
<1>6. (success \/ state >= 20 => Sound)'
  BY <1>1 DEF IInv, Sound, Tested, OptionsChecked
<1>7. QED
  BY <1>2, <1>3, <1>4, <1>5, <1>6 DEF IInv

\* The head of a loop over a table (main.c, states 4 and 8): the next pin, the next
\* round, or the end, when every pin was driven in every round.
LEMMA IterationFacts ==
  ASSUME TypeOK, NEW pins \in Seq(Nat), pins # <<>>, NEW n, Iteration(pins, n),
         UNCHANGED board, CleanSoFar(pins)
  PROVE  \/ /\ ~RoundsOver(pins) /\ state' = state + 1
            /\ pin_iter' \in 0 .. Len(pins) - 1 /\ outer_iter' \in 0 .. MaxOuter + 1
            /\ Pin(pins) = pins[pin_iter' + 1] /\ CleanSoFar(pins)'
         \/ /\ RoundsOver(pins) /\ state' = n - 1
            /\ pin_iter' = 0 /\ outer_iter' = 0 /\ AllClean(pins)'
<1>1. Len(pins) \in Nat /\ Len(pins) > 0 /\ DOMAIN pins = 1 .. Len(pins)
  OBVIOUS
<1>2. pin_iter \in Nat /\ outer_iter \in 0 .. MaxOuter + 1
  BY Tables DEF TypeOK
<1>3. CASE PinsLeft(pins)
  <2>1. UNCHANGED <<pin_iter, outer_iter>> /\ pin_iter < Len(pins) /\ state' = state + 1
        /\ Pin(pins) = pins[pin_iter + 1] /\ ~RoundsOver(pins)
    BY <1>3 DEF Iteration, PinsLeft, RoundsOver, Iterate, Pin
  <2>2. CleanSoFar(pins)'
    BY <2>1, CleanStays
  <2>3. QED
    BY <1>1, <1>2, <2>1, <2>2
<1>4. CASE ~PinsLeft(pins) /\ ~RoundsOver(pins)
  <2>1. pin_iter >= Len(pins) /\ pin_iter' = 0 /\ outer_iter' = outer_iter + 1
        /\ outer_iter <= MaxOuter /\ state' = state + 1 /\ Pin(pins) = pins[1]
    BY <1>1, <1>2, <1>4 DEF Iteration, PinsLeft, RoundsOver, NextOuter, Pin
  <2>2. CleanSoFar(pins)'
    <3>1. ASSUME NEW r \in 0 .. MaxOuter + 1, NEW i \in DOMAIN pins,
                 r < outer_iter' \/ (r = outer_iter' /\ i <= pin_iter')
          PROVE  Clean(r, pins[i])
      BY <1>1, <1>2, <2>1, <3>1 DEF CleanSoFar
    <3>2. QED
      BY <3>1 DEF CleanSoFar, Clean, WiringIn
  <2>3. QED
    BY <1>1, <1>2, <1>4, <2>1, <2>2
<1>5. CASE RoundsOver(pins)
  <2>1. pin_iter >= Len(pins) /\ pin_iter' = 0 /\ outer_iter' = 0 /\ outer_iter > MaxOuter
        /\ state' = n - 1
    BY <1>1, <1>2, <1>5 DEF Iteration, PinsLeft, RoundsOver, OuterAfter, Goto
  <2>2. ASSUME NEW r \in 0 .. MaxOuter + 1, NEW i \in DOMAIN pins PROVE Clean(r, pins[i])
    BY <1>1, <1>2, <2>1 DEF CleanSoFar
  <2>3. AllClean(pins)'
    BY <2>2 DEF AllClean, Clean, WiringIn
  <2>4. QED
    BY <1>5, <2>1, <2>3
<1>6. QED
  BY <1>3, <1>4, <1>5

\* The check of a pin in the loop (main.c, states 5 and 10).
LEMMA CheckedPin ==
  ASSUME TypeOK, NEW pins \in Seq(Nat), pin_iter < Len(pins), UNCHANGED <<board, outer_iter>>,
         pin_iter' = pin_iter + 1, CleanSoFar(pins), Clean(outer_iter, pins[pin_iter + 1])
  PROVE  CleanSoFar(pins)'
<1>1. Len(pins) \in Nat /\ DOMAIN pins = 1 .. Len(pins)
  OBVIOUS
<1>2. pin_iter \in Nat /\ outer_iter \in 0 .. MaxOuter + 1
  BY Tables DEF TypeOK
<1>3. ASSUME NEW r \in 0 .. MaxOuter + 1, NEW i \in DOMAIN pins,
             r < outer_iter \/ (r = outer_iter /\ i <= pin_iter + 1)
      PROVE  Clean(r, pins[i])
  <2>1. CASE r < outer_iter \/ (r = outer_iter /\ i <= pin_iter)
    BY <2>1 DEF CleanSoFar
  <2>2. CASE r = outer_iter /\ i = pin_iter + 1
    BY <2>2
  <2>3. QED
    BY <1>1, <1>2, <1>3, <2>1, <2>2
<1>4. QED
  BY <1>3 DEF CleanSoFar, Clean, WiringIn

\* State 4: the board drives its next pin low, alone, or a round ends.
LEMMA DriveOutputsIInv == IInv /\ DriveOutputs /\ UNCHANGED boardVars => IInv'
<1> SUFFICES ASSUME IInv, DriveOutputs, UNCHANGED boardVars PROVE IInv'
  OBVIOUS
<1>1. /\ state = 3 /\ verdict = None /\ cmdrsp = "idle" /\ boardLow = {}
      /\ UNCHANGED <<verdict, boardLow, gwLow, osc, board, success>>
  BY DEF DriveOutputs, Enter, boardVars, IInv, Driven
<1>2. TypeOK /\ CleanSoFar(inp)
  BY <1>1 DEF IInv, Found
<1>3. inp \in Seq(Nat) /\ inp # <<>> /\ Iteration(inp, 6)
  BY DEF DriveOutputs
<1>4. CASE /\ ~RoundsOver(inp) /\ state' = 4
           /\ pin_iter' \in 0 .. Len(inp) - 1 /\ outer_iter' \in 0 .. MaxOuter + 1
           /\ Pin(inp) = inp[pin_iter' + 1] /\ CleanSoFar(inp)'
  <2>1. cmdrsp' = "busy" /\ tcmd' = [op |-> "pins", low |-> {inp[pin_iter' + 1]}] /\ UNCHANGED rspbuf
    BY <1>4 DEF DriveOutputs, CmdSetPin, Command
  <2>2. TypeOK'
    <3>1. state' \in 0 .. 22 /\ cmdrsp' \in {"idle", "busy", "done"}
          /\ pin_iter' \in 0 .. Len(outp) + Len(inp)
      BY <1>4, <2>1, Tables
    <3>2. {inp[pin_iter' + 1]} \in SUBSET Lines
      <4>1. pin_iter' + 1 \in DOMAIN inp
        BY <1>4, PinOfTable, Zenon
      <4>2. QED
        BY <4>1, Tables
    <3>3. tcmd' \in Commands
      BY <2>1, <3>2, CommandType
    <3>4. QED
      BY <1>1, <1>2, <1>4, <2>1, <3>1, <3>3, Zenon DEF TypeOK
  <2>3. Fresh' /\ Obeyed' /\ Counters' /\ Sent' /\ Driven' /\ Oscillating'
    BY <1>1, <1>4, <2>1 DEF Fresh, Obeyed, Counters, Sent, Pins, Driven, Oscillating
  <2>4. Found' /\ Blamed'
    BY <1>1, <1>4, <2>1 DEF IInv, Found, Blamed
  <2>5. (success \/ state >= 20 => Sound)'
    BY <1>1, <1>4 DEF IInv, Sound, Tested, OptionsChecked
  <2>6. QED
    BY <2>2, <2>3, <2>4, <2>5 DEF IInv
<1>5. CASE /\ RoundsOver(inp) /\ state' = 5
           /\ pin_iter' = 0 /\ outer_iter' = 0 /\ AllClean(inp)'
  <2>1. UNCHANGED <<cmdrsp, tcmd, rspbuf>>
    BY <1>5 DEF DriveOutputs, NoCommand, linkVars
  <2>2. TypeOK'
    <3>1. state' \in 0 .. 22 /\ pin_iter' \in 0 .. Len(outp) + Len(inp)
          /\ outer_iter' \in 0 .. MaxOuter + 1
      BY <1>5, Tables
    <3>2. QED
      BY <1>1, <1>2, <2>1, <3>1, Zenon DEF TypeOK
  <2>3. Fresh' /\ Counters' /\ Sent' /\ Driven' /\ Oscillating'
    BY <1>1, <1>5, <2>1 DEF Fresh, Counters, Sent, Pins, Driven, Oscillating
  <2>4. Obeyed'
    <3>1. Good' <=> Good
      BY <1>1, <2>1 DEF Good
    <3>2. QED
      BY <1>1, <1>5, <2>1, <3>1 DEF IInv, Obeyed
  <2>5. Found' /\ Blamed'
    BY <1>1, <1>5, <2>1 DEF IInv, Found, Blamed
  <2>6. (success \/ state >= 20 => Sound)'
    BY <1>1, <1>5 DEF IInv, Sound, Tested, OptionsChecked
  <2>7. QED
    BY <2>2, <2>3, <2>4, <2>5, <2>6 DEF IInv
<1>6. QED
  BY <1>1, <1>2, <1>3, <1>4, <1>5, IterationFacts

\* State 8: the test board drives its next pin low, alone, or a round ends.
LEMMA DriveInputsIInv == IInv /\ DriveInputs /\ UNCHANGED boardVars => IInv'
<1> SUFFICES ASSUME IInv, DriveInputs, UNCHANGED boardVars PROVE IInv'
  OBVIOUS
<1>1. /\ state = 7 /\ verdict = None /\ cmdrsp = "idle"
      /\ UNCHANGED <<verdict, gwLow, osc, board, success, cmdrsp, tcmd, rspbuf>>
  BY DEF DriveInputs, Enter, boardVars, NoCommand, linkVars
<1>2. TypeOK /\ CleanSoFar(outp)
  BY <1>1 DEF IInv, Found
<1>3. outp \in Seq(Nat) /\ outp # <<>> /\ Iteration(outp, 11)
  BY DEF DriveInputs
<1>4. Good' <=> Good
  BY <1>1 DEF Good
<1>5. CASE /\ ~RoundsOver(outp) /\ state' = 8
           /\ pin_iter' \in 0 .. Len(outp) - 1 /\ outer_iter' \in 0 .. MaxOuter + 1
           /\ Pin(outp) = outp[pin_iter' + 1] /\ CleanSoFar(outp)'
  <2>1. boardLow' = {outp[pin_iter' + 1]}
    BY <1>5 DEF DriveInputs
  <2>2. TypeOK'
    <3>1. state' \in 0 .. 22 /\ pin_iter' \in 0 .. Len(outp) + Len(inp)
      BY <1>5, Tables
    <3>2. boardLow' \subseteq Outp
      <4>1. pin_iter' + 1 \in DOMAIN outp
        BY <1>5, PinOfTable, Zenon
      <4>2. QED
        BY <2>1, <4>1, Tables
    <3>3. QED
      BY <1>1, <1>2, <1>5, <3>1, <3>2, Zenon DEF TypeOK
  <2>3. Fresh' /\ Counters' /\ Sent' /\ Driven' /\ Oscillating'
    BY <1>1, <1>5, <2>1 DEF Fresh, Counters, Sent, Driven, Oscillating
  <2>4. Obeyed'
    BY <1>1, <1>4, <1>5 DEF IInv, Obeyed
  <2>5. Found' /\ Blamed'
    BY <1>1, <1>5, CleanStays DEF IInv, Found, Blamed
  <2>6. (success \/ state >= 20 => Sound)'
    BY <1>1, <1>5 DEF IInv, Sound, Tested, OptionsChecked
  <2>7. QED
    BY <2>2, <2>3, <2>4, <2>5, <2>6 DEF IInv
<1>6. CASE /\ RoundsOver(outp) /\ state' = 10
           /\ pin_iter' = 0 /\ outer_iter' = 0 /\ AllClean(outp)'
  <2>1. UNCHANGED boardLow
    BY <1>6 DEF DriveInputs
  <2>2. TypeOK'
    <3>1. state' \in 0 .. 22 /\ pin_iter' \in 0 .. Len(outp) + Len(inp)
          /\ outer_iter' \in 0 .. MaxOuter + 1
      BY <1>6, Tables
    <3>2. QED
      BY <1>1, <1>2, <2>1, <3>1, Zenon DEF TypeOK
  <2>3. Fresh' /\ Counters' /\ Sent' /\ Driven' /\ Oscillating'
    BY <1>1, <1>6, <2>1 DEF Fresh, Counters, Sent, Driven, Oscillating
  <2>4. Obeyed'
    BY <1>1, <1>4, <1>6 DEF IInv, Obeyed
  <2>5. Found' /\ Blamed'
    BY <1>1, <1>6, CleanStays DEF IInv, Found, Blamed
  <2>6. (success \/ state >= 20 => Sound)'
    BY <1>1, <1>6 DEF IInv, Sound, Tested, OptionsChecked
  <2>7. QED
    BY <2>2, <2>3, <2>4, <2>5, <2>6 DEF IInv
<1>7. QED
  BY <1>1, <1>2, <1>3, <1>5, <1>6, IterationFacts

\* State 5: after the check, the next pin is driven by the board.
LEMMA CheckOutputsIInv == IInv /\ CheckOutputs /\ UNCHANGED boardVars => IInv'
<1> SUFFICES ASSUME IInv, CheckOutputs, UNCHANGED boardVars PROVE IInv'
  OBVIOUS
<1> DEFINE pin == inp[pin_iter + 1]
<1>1. /\ state = 4 /\ state' = 3 /\ verdict = None /\ cmdrsp = "idle"
      /\ pin_iter' = pin_iter + 1
      /\ UNCHANGED <<boardLow, gwLow, osc, board, success, cmdrsp, tcmd, rspbuf, outer_iter>>
  BY DEF CheckOutputs, EndIteration, Enter, Goto, boardVars, NoCommand, linkVars
<1>2. TypeOK /\ CleanSoFar(inp) /\ pin_iter < Len(inp)
  BY <1>1 DEF IInv, Found, Counters
<1>3. pin \in Inp /\ pin_iter' \in 0 .. Len(inp)
  <2>1. pin_iter + 1 \in DOMAIN inp /\ pin_iter' \in 0 .. Len(inp)
    BY <1>1, <1>2, Tables DEF TypeOK
  <2>2. QED
    BY <2>1, Tables
<1> HIDE DEF pin
<1>4. boardLow \cup gwLow = {pin} /\ rspbuf.low = LowLines(Wiring, {pin}) \cap Outp
  <2>1. tcmd = [op |-> "pins", low |-> {pin}] /\ boardLow = {}
    BY <1>1 DEF IInv, Sent, Pins, Driven, pin
  <2>2. /\ gwLow = {pin} \cap Inp
        /\ rspbuf.low = LowLines(Wiring, boardLow \cup gwLow) \cap Outp
    BY <1>1, <2>1 DEF IInv, Obeyed
  <2>3. boardLow \cup gwLow = {pin}
    BY <1>3, <2>1, <2>2
  <2>4. QED
    BY <2>2, <2>3
<1>5. \/ UNCHANGED verdict /\ Clean(outer_iter, pin)
      \/ verdict' # None /\ \E l \in Lines : /\ verdict' = Shows("P", l)
                                            /\ \E d \in board.wiring : l \in d.lines
  <2>1. board \in AllBoards /\ {pin} \in SUBSET Lines
    BY <1>2, <1>3, Tables DEF TypeOK
  <2>2. CheckPins({pin})
    BY DEF CheckOutputs, EndIteration, pin
  <2>3. Clean(outer_iter, pin) <=> LowLines(Wiring, {pin}) = {pin}
    BY DEF Clean, Wiring
  <2>4. \A l : Shows("P", l) # None
    BY DEF Shows, None
  <2>5. QED
    BY <1>4, <2>1, <2>2, <2>3, <2>4, CheckPinsSound
<1>6. TypeOK'
  <2>1. state' \in 0 .. 22 /\ pin_iter' \in 0 .. Len(outp) + Len(inp)
    BY <1>1, <1>3, Tables
  <2>2. verdict' \in {None} \cup [code : {"P"}, pin : Lines] \cup [code : Errors, pin : {0}]
    BY <1>1, <1>5 DEF Shows
  <2>3. QED
    BY <1>1, <1>2, <2>1, <2>2, Zenon DEF TypeOK
<1>7. Fresh' /\ Counters' /\ Sent' /\ Driven' /\ Oscillating'
  BY <1>1 DEF IInv, Fresh, Counters, Sent, Driven, Oscillating
<1>8. Obeyed'
  <2>1. Good' <=> Good
    BY <1>1 DEF Good
  <2>2. QED
    BY <1>1, <2>1 DEF IInv, Obeyed
<1>9. Blamed'
  BY <1>1, <1>5 DEF IInv, Blamed, Shows, Errors
<1>10. Found'
  <2>1. UNCHANGED verdict => CleanSoFar(inp)'
    BY <1>1, <1>2, <1>5, CheckedPin DEF pin, Shows
  <2>2. verdict' = None => UNCHANGED verdict
    BY <1>1
  <2>3. QED
    BY <1>1, <2>1, <2>2, CleanStays DEF IInv, Found
<1>11. (success \/ state >= 20 => Sound)'
  BY <1>1 DEF IInv, Sound, Tested, OptionsChecked
<1>12. QED
  BY <1>6, <1>7, <1>8, <1>9, <1>10, <1>11 DEF IInv

\* State 10: after the check, the next pin is driven by the test board.
LEMMA CheckInputsIInv == IInv /\ CheckInputs /\ UNCHANGED boardVars => IInv'
<1> SUFFICES ASSUME IInv, CheckInputs, UNCHANGED boardVars PROVE IInv'
  OBVIOUS
<1> DEFINE pin == outp[pin_iter + 1]
<1>1. /\ state = 9 /\ state' = 7 /\ verdict = None /\ cmdrsp = "idle"
      /\ pin_iter' = pin_iter + 1
      /\ UNCHANGED <<boardLow, gwLow, osc, board, success, cmdrsp, tcmd, rspbuf, outer_iter>>
  BY DEF CheckInputs, EndIteration, Enter, Goto, boardVars, NoCommand, linkVars
<1>2. TypeOK /\ CleanSoFar(outp) /\ pin_iter < Len(outp)
  BY <1>1 DEF IInv, Found, Counters
<1>3. pin \in Outp /\ pin_iter' \in 0 .. Len(outp)
  <2>1. pin_iter + 1 \in DOMAIN outp /\ pin_iter' \in 0 .. Len(outp)
    BY <1>1, <1>2, Tables DEF TypeOK
  <2>2. QED
    BY <2>1, Tables
<1> HIDE DEF pin
<1>4. boardLow \cup gwLow = {pin} /\ rspbuf.low = LowLines(Wiring, {pin}) \cap Outp
  <2>1. tcmd = [op |-> "pins", low |-> {}] /\ boardLow = {pin}
    BY <1>1 DEF IInv, Sent, Pins, Driven, pin
  <2>2. /\ gwLow = {} \cap Inp
        /\ rspbuf.low = LowLines(Wiring, boardLow \cup gwLow) \cap Outp
    BY <1>1, <2>1 DEF IInv, Obeyed
  <2>3. boardLow \cup gwLow = {pin}
    BY <1>3, <2>1, <2>2
  <2>4. QED
    BY <2>2, <2>3
<1>5. \/ UNCHANGED verdict /\ Clean(outer_iter, pin)
      \/ verdict' # None /\ \E l \in Lines : /\ verdict' = Shows("P", l)
                                            /\ \E d \in board.wiring : l \in d.lines
  <2>1. board \in AllBoards /\ {pin} \in SUBSET Lines
    BY <1>2, <1>3, Tables DEF TypeOK
  <2>2. CheckPins({pin})
    BY DEF CheckInputs, EndIteration, pin
  <2>3. Clean(outer_iter, pin) <=> LowLines(Wiring, {pin}) = {pin}
    BY DEF Clean, Wiring
  <2>4. \A l : Shows("P", l) # None
    BY DEF Shows, None
  <2>5. QED
    BY <1>4, <2>1, <2>2, <2>3, <2>4, CheckPinsSound
<1>6. TypeOK'
  <2>1. state' \in 0 .. 22 /\ pin_iter' \in 0 .. Len(outp) + Len(inp)
    BY <1>1, <1>3, Tables
  <2>2. verdict' \in {None} \cup [code : {"P"}, pin : Lines] \cup [code : Errors, pin : {0}]
    BY <1>1, <1>5 DEF Shows
  <2>3. QED
    BY <1>1, <1>2, <2>1, <2>2, Zenon DEF TypeOK
<1>7. Fresh' /\ Counters' /\ Sent' /\ Driven' /\ Oscillating'
  BY <1>1 DEF IInv, Fresh, Counters, Sent, Driven, Oscillating
<1>8. Obeyed'
  <2>1. Good' <=> Good
    BY <1>1 DEF Good
  <2>2. QED
    BY <1>1, <2>1 DEF IInv, Obeyed
<1>9. Blamed'
  BY <1>1, <1>5 DEF IInv, Blamed, Shows, Errors
<1>10. Found'
  <2>1. UNCHANGED verdict => CleanSoFar(outp)'
    BY <1>1, <1>2, <1>5, CheckedPin DEF pin, Shows
  <2>2. verdict' = None => UNCHANGED verdict
    BY <1>1
  <2>3. QED
    BY <1>1, <2>1, <2>2, CleanStays DEF IInv, Found
<1>11. (success \/ state >= 20 => Sound)'
  BY <1>1 DEF IInv, Sound, Tested, OptionsChecked
<1>12. QED
  BY <1>6, <1>7, <1>8, <1>9, <1>10, <1>11 DEF IInv

-----------------------------------------------------------------------------
(* The theorems *)

\* The invariant is inductive.
THEOREM Inductive == Spec => []IInv
<1>1. IInv /\ Straight /\ UNCHANGED boardVars => IInv'
  BY GetInfoIInv, CheckInfoIInv, TestModeIInv, CheckOutputsHighIInv,
     CheckAllHighIInv, ReadInputIInv, DriveAllLowIInv, CheckAllLowIInv,
     OptionBytesIInv, CheckOptionBytesIInv, TestHeadersIInv, CheckHeadersIInv,
     WdatOnIInv, WdatOffIInv, UsbCcIInv, FinishIInv,
     LedOnIInv
  DEF Straight
<1>2. IInv /\ Main => IInv'
  BY <1>1, DriveOutputsIInv, CheckOutputsIInv, DriveInputsIInv, CheckInputsIInv, LedLoopIInv DEF Main
<1>3. IInv /\ UNCHANGED vars => IInv'
  <2> SUFFICES ASSUME IInv, UNCHANGED vars PROVE IInv'
    OBVIOUS
  <2> USE DEF IInv, vars, mainVars, linkVars, boardVars
  <2>1. TypeOK' /\ Fresh' /\ Counters' /\ Driven' /\ Oscillating'
    BY DEF TypeOK, Fresh, Counters, Driven, Oscillating
  <2>2. Sent'
    BY DEF Sent, Pins
  <2>3. Obeyed'
    <3>1. Good' <=> Good
      BY DEF Good
    <3>2. QED
      BY <3>1 DEF Obeyed, Wiring, WiringIn
  <2>4. Found' /\ Blamed'
    BY CleanStays DEF Found, Blamed, OptionsChecked
  <2>5. (success \/ state >= 20 => Sound)'
    BY DEF Sound, Tested, OptionsChecked
  <2>6. QED
    BY <2>1, <2>2, <2>3, <2>4, <2>5
<1>4. IInv /\ Next => IInv'
  BY <1>2, <1>3, PlugIInv, TimeoutIInv, HandleResponseIInv, ExecuteIInv DEF Next, Shown
<1>5. QED
  BY <1>3, <1>4, InitIInv, PTL DEF Spec

\* Whatever defects a board has, of its wiring in any round and of its other parts,
\* it does not pass the test if the test claims to find one of them (main.c, state 20).
THEOREM DefectiveFail == Spec => []Passed
<1>1. IInv => Passed
  BY DEF IInv, Passed
<1>2. QED
  BY <1>1, Inductive, PTL

\* A pin that is shown has a wiring defect, and a board without a defect is shown
\* no error of its own (pins.c: pin_error; main.c: check_pins).
THEOREM BlamedRightly == Spec => []Blamed
<1>1. IInv => Blamed
  BY DEF IInv
<1>2. QED
  BY <1>1, Inductive, PTL

\* When the LED blinks no driver is on at either end of the cable and WDAT is quiet
\* (main.c, states 20 to 22).
THEOREM DriversReleased == Spec => []Released
<1>1. IInv => Released
  <2> SUFFICES ASSUME IInv, state > 20 PROVE boardLow = {} /\ gwLow = {} /\ ~osc
    BY DEF Released
  <2>1. state \in 0 .. 22
    BY DEF IInv, TypeOK
  <2>2. QED
    BY <2>1 DEF IInv, Sent, Driven, Oscillating
<1>2. QED
  BY <1>1, Inductive, PTL
=============================================================================
