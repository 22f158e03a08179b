------------------------------ MODULE MCParts ------------------------------
(***************************************************************************)
(* Seven parts of the program that share no state here, side by side: the  *)
(* timer of the control transfers, the console, the display, the functions *)
(* on memory, qsort_p, the rest of the C library and the register layer of *)
(* the OTG core.                                                           *)
(* A behaviour is one of one of them, the others stay as they began: what  *)
(* interleaves lies inside the parts, and is in their modules.             *)
(***************************************************************************)
EXTENDS StkTimer, Console, Display, Memory, Qsort, CLib, OtgCore

Texts_ == {<<"char">>, <<"char", "nl">>, <<"nl", "cr", "nl">>}

\* "usb", "---" and "E05".
Strings_ == {<<30, 28, 11>>, <<Dash, Dash, Dash>>, <<14, 0, 5>>}

Conversions_ ==
  {<<"%", "u">>, <<"%", "0", "2", "u">>, <<"%", "0", "3", "u">>,
   <<"%", "d">>, <<"%", "5", "d">>, <<"%", "0", "5", "i">>,
   <<"%", "0", "4", "x">>, <<"%", "#", "x">>, <<"%", "#", "0", "5", "x">>,
   <<"%", "#", "o">>, <<"%", "5", "o">>, <<"%", "h", "d">>, <<"%", "h", "h", "u">>,
   <<"%", "#", "5", "x">>}

\* A device of full speed and one of low speed.
Kinds_ == {[speed |-> "full", ep0 |-> 64, bulk |-> 64],
           [speed |-> "low", ep0 |-> 8, bulk |-> 16]}

VARIABLE part

allVars == <<part, vars, consoleVars, displayVars, memoryVars, qsortVars, lib, otgVars>>

PartsInit ==
  /\ part \in {"timer", "console", "display", "memory", "sort", "library", "otg"}
  /\ Init /\ ConsoleInit /\ DisplayInit /\ MemoryInit /\ QsortInit /\ LibInit /\ OtgInit
  \* one initial state of each part that is not the one that runs
  /\ part # "timer"   => stk = 0 /\ \A t \in Timeouts : timeout <= t
  /\ part # "console" => cons = 0
  /\ part # "display" => tm1651 /\ regs164[1] = 0
  /\ part # "sort"    => nr = 0
  /\ part # "otg"     => ~present /\ plugged.speed = "full"

PartsNext ==
  /\ UNCHANGED part
  /\ \/ part = "timer" /\ Next
          /\ UNCHANGED <<consoleVars, displayVars, memoryVars, qsortVars, lib, otgVars>>
     \/ part = "console" /\ ConsoleNext
          /\ UNCHANGED <<vars, displayVars, memoryVars, qsortVars, lib, otgVars>>
     \/ part = "display" /\ DisplayNext
          /\ UNCHANGED <<vars, consoleVars, memoryVars, qsortVars, lib, otgVars>>
     \/ part = "memory" /\ MemoryNext
          /\ UNCHANGED <<vars, consoleVars, displayVars, qsortVars, lib, otgVars>>
     \/ part = "sort" /\ QsortNext
          /\ UNCHANGED <<vars, consoleVars, displayVars, memoryVars, lib, otgVars>>
     \/ part = "library" /\ LibNext
          /\ UNCHANGED <<vars, consoleVars, displayVars, memoryVars, qsortVars, otgVars>>
     \/ part = "otg" /\ OtgNext
          /\ UNCHANGED <<vars, consoleVars, displayVars, memoryVars, qsortVars, lib>>

PartsSpec == PartsInit /\ [][PartsNext]_allVars /\ ConsoleFairness
=============================================================================
