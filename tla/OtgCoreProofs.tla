---------------------------- MODULE OtgCoreProofs ----------------------------
(***************************************************************************)
(* Proofs about the register layer, for every device, packet size and FIFO.*)
(* What the program writes into HPRT0 neither disables the port nor takes  *)
(* its power nor swallows a change: PortKept, from the invariant Copied    *)
(* about the copies of HPRT0 that the thread and the handler hold.  And    *)
(* the registers say what the host means: RegistersSound, from Copied and  *)
(* the invariant Steady, which says where the thread is, what the masks    *)
(* let through and which channels are at rest.                             *)
(***************************************************************************)
EXTENDS OtgCore, TLAPS

\* The labels of the thread between reading HPRT0 and its last writing it back.
Holding == {"vbus_write", "reset_on", "reset_off"}

-----------------------------------------------------------------------------
(* The port register *)

\* What ReadHPRT0 returns, and what a write leaves, are values of the register.
LEMMA MaskedType ==
  ASSUME NEW v \in HPRT0s
  PROVE  /\ Masked(v) \in HPRT0s
         /\ Masked(v).pwr = v.pwr /\ Masked(v).rst = v.rst
         /\ ~Masked(v).ena /\ ~Masked(v).conndet /\ ~Masked(v).enchng
  BY DEF Masked, HPRT0s

\* A write leaves a value of the register.
LEMMA WrittenType ==
  ASSUME NEW v \in HPRT0s, hprt \in HPRT0s
  PROVE  /\ Written(v) \in HPRT0s
         /\ Written(v).pwr = v.pwr /\ Written(v).rst = v.rst
  BY DEF Written, HPRT0s

\* The handler's copy: the changes it looked at, and nothing else a 1 clears.
LEMMA AcknowledgedType ==
  ASSUME hprt \in HPRT0s, seen \in HPRT0s
  PROVE  /\ Acknowledged(hprt) \in HPRT0s
         /\ Acknowledged(hprt).pwr = hprt.pwr /\ Acknowledged(hprt).rst = hprt.rst
         /\ ~Acknowledged(hprt).ena
         /\ Acknowledged(hprt).conndet = seen.conndet
         /\ Acknowledged(hprt).enchng = seen.enchng
  BY MaskedType DEF Acknowledged, HPRT0s

\* A step that touches neither the register nor a copy, and does not bring the
\* thread to where it holds one.
LEMMA NoCopy ==
  ASSUME Copied, UNCHANGED <<hprt, hprt0, isrVars>>,
         tpc' \notin Holding, ret' \in {"flush", "process", "open"}
  PROVE  Copied'
  BY DEF Copied, WritableCopy, isrVars, Holding

\* A step of the hardware: power and reset of the register stay as they were.
LEMMA HardwareCopies ==
  ASSUME Copied, hprt' \in HPRT0s, hprt'.pwr = hprt.pwr, hprt'.rst = hprt.rst,
         UNCHANGED <<threadVars, isrVars>>
  PROVE  Copied'
  BY DEF Copied, WritableCopy, isrVars, threadVars

\* Outside the handler no acknowledgement is under way.
LEMMA Returned ==
  ASSUME Copied, ~InHandler \/ ints = {"disconnect"}
  PROVE  port = "hprt0"
  BY DEF Copied, InHandler

-----------------------------------------------------------------------------
(* The copies *)

\* Init clears all of them.
LEMMA CopiedInit == OtgInit => Copied
  BY DEF OtgInit, Copied, Off, HPRT0s

\* The port changes its enable and change bits only.
LEMMA CopiedPort == Copied /\ Port => Copied'
<1> SUFFICES ASSUME Copied, Port PROVE Copied'
  OBVIOUS
<1>0. hprt \in HPRT0s /\ UNCHANGED <<threadVars, isrVars>>
  BY DEF Copied, Port
<1>1. CASE PlugIn
  <2>1. hprt' = [hprt EXCEPT !.conndet = @ \/ hprt.pwr]
    BY <1>1 DEF PlugIn
  <2> QED BY <1>0, <2>1, HardwareCopies DEF HPRT0s
<1>2. CASE PullOut
  <2>1. hprt' = [hprt EXCEPT !.ena = FALSE, !.enchng = @ \/ hprt.ena]
    BY <1>2 DEF PullOut
  <2> QED BY <1>0, <2>1, HardwareCopies DEF HPRT0s
<1>3. CASE EnablePort
  <2>1. hprt' = [hprt EXCEPT !.ena = TRUE, !.enchng = TRUE]
    BY <1>3 DEF EnablePort
  <2> QED BY <1>0, <2>1, HardwareCopies DEF HPRT0s
<1>4. CASE DisablePort
  <2>1. hprt' = [hprt EXCEPT !.ena = FALSE, !.enchng = TRUE]
    BY <1>4 DEF DisablePort
  <2> QED BY <1>0, <2>1, HardwareCopies DEF HPRT0s
<1> QED BY <1>1, <1>2, <1>3, <1>4 DEF Port

\* The handler reads the register twice and writes the second copy back.
LEMMA CopiedHandler == Copied /\ Handler => Copied'
<1> SUFFICES ASSUME Copied, Handler PROVE Copied'
  OBVIOUS
<1>1. CASE IsrEnter
  <2>1. port = "hprt0"
    BY <1>1, Returned DEF IsrEnter
  <2> QED BY <1>1, <2>1 DEF IsrEnter, Copied, WritableCopy, threadVars
<1>2. CASE IsrChannels
  BY <1>2 DEF IsrChannels, Copied, WritableCopy, threadVars
<1>3. CASE IsrPort
  BY <1>3 DEF IsrPort, Copied, WritableCopy, threadVars
<1>4. CASE IsrPortDup
  <2>1. hprt \in HPRT0s /\ seen \in HPRT0s /\ "portintr" \in ints
    BY <1>4 DEF IsrPortDup, Copied
  <2>2. /\ dup' = Acknowledged(hprt) /\ port' = "ack"
        /\ UNCHANGED <<hprt, seen, ints, threadVars>>
    BY <1>4 DEF IsrPortDup
  <2> QED BY <2>1, <2>2, AcknowledgedType DEF Copied, WritableCopy, threadVars
<1>5. CASE IsrPortAck
  <2>1. /\ hprt \in HPRT0s /\ dup \in HPRT0s
        /\ dup.pwr = hprt.pwr /\ dup.rst = hprt.rst
    BY <1>5 DEF IsrPortAck, Copied, WritableCopy
  <2>2. /\ hprt' = Written(dup) /\ port' = "hprt0" /\ seen' = Off /\ dup' = Off
        /\ UNCHANGED threadVars
    BY <1>5 DEF IsrPortAck, WriteHPRT0
  <2>3. hprt' \in HPRT0s /\ hprt'.pwr = hprt.pwr /\ hprt'.rst = hprt.rst
    BY <2>1, <2>2, WrittenType
  <2>4. Off \in HPRT0s
    BY DEF Off, HPRT0s
  <2> QED BY <2>2, <2>3, <2>4 DEF Copied, WritableCopy, threadVars
<1>6. CASE IsrDisconnect
  <2>1. port = "hprt0"
    BY <1>6, Returned DEF IsrDisconnect
  <2> QED BY <1>6, <2>1 DEF IsrDisconnect, Copied, WritableCopy, threadVars
<1> QED BY <1>1, <1>2, <1>3, <1>4, <1>5, <1>6 DEF Handler

\* The thread reads the register before it powers the port and before it resets
\* it; nothing else of bring-up and reset keeps a copy.
LEMMA CopiedBringUp == Copied /\ BringUp => Copied'
<1> SUFFICES ASSUME Copied, BringUp PROVE Copied'
  OBVIOUS
<1>0. hprt \in HPRT0s /\ hprt0 \in HPRT0s /\ Off \in HPRT0s
      /\ ret \in {"flush", "process", "open"}
  BY DEF Copied, Off, HPRT0s
<1>1. CASE HcdInit
  BY <1>0, <1>1, NoCopy DEF HcdInit, Goto, Holding
<1>2. CASE DisableGlobalInt
  BY <1>0, <1>2, NoCopy DEF DisableGlobalInt, Goto, Holding
<1>3. CASE CoreReset
  BY <1>0, <1>3, Returned DEF CoreReset, Runs, Goto, Copied, isrVars
<1>4. CASE SetCurrentMode
  BY <1>0, <1>4, NoCopy DEF SetCurrentMode, Goto, Holding
<1>5. CASE FlushFifos
  BY <1>0, <1>5, NoCopy DEF FlushFifos, Goto, Holding
<1>6. CASE DriveVbus
  <2>1. port = "hprt0"
    BY <1>6, Returned DEF DriveVbus, Runs
  <2>2. hprt0' = Masked(hprt) /\ tpc' = "vbus_write" /\ UNCHANGED <<hprt, ret, isrVars>>
    BY <1>6 DEF DriveVbus, ReadHPRT0, Goto
  <2> QED BY <1>0, <2>1, <2>2, MaskedType DEF Copied, WritableCopy, isrVars
<1>7. CASE DriveVbusWrite
  <2>1. port = "hprt0"
    BY <1>7, Returned DEF DriveVbusWrite, Runs
  <2>2. hprt0' = Off /\ tpc' = "host_int" /\ UNCHANGED <<ret, isrVars>>
    BY <1>7 DEF DriveVbusWrite, Goto
  <2>3. hprt' = hprt \/ hprt' = Written([hprt0 EXCEPT !.pwr = TRUE])
    BY <1>7 DEF DriveVbusWrite, WriteHPRT0
  <2>4. [hprt0 EXCEPT !.pwr = TRUE] \in HPRT0s
    BY <1>0 DEF HPRT0s
  <2>5. hprt' \in HPRT0s
    BY <1>0, <2>3, <2>4, WrittenType
  <2> QED BY <1>0, <2>1, <2>2, <2>5 DEF Copied, isrVars
<1>8. CASE EnableHostInt
  BY <1>0, <1>8, NoCopy DEF EnableHostInt, Goto, Holding
<1>9. CASE EnableGlobalInt
  BY <1>0, <1>9, NoCopy DEF EnableGlobalInt, Goto, Holding
<1> QED BY <1>1, <1>2, <1>3, <1>4, <1>5, <1>6, <1>7, <1>8, <1>9 DEF BringUp

\* The two writes of a port reset change its reset bit.
LEMMA DrivenReset ==
  ASSUME Copied, NEW label, NEW next,
         label \in {"reset_on", "reset_off"}, DriveReset(label, next)
  PROVE  /\ hprt' \in HPRT0s /\ hprt'.pwr = hprt0.pwr /\ port = "hprt0" /\ tpc' = next
         /\ UNCHANGED <<hprt0, ret, isrVars>>
<1>1. hprt \in HPRT0s /\ hprt0 \in HPRT0s
  BY DEF Copied
<1>2. [hprt0 EXCEPT !.rst = (label = "reset_on")] \in HPRT0s /\ [hprt0 EXCEPT !.rst = (label = "reset_on")].pwr = hprt0.pwr
  BY <1>1 DEF HPRT0s
<1>3. hprt' = Written([hprt0 EXCEPT !.rst = (label = "reset_on")])
  BY DEF DriveReset, WriteHPRT0
<1>4. port = "hprt0"
  BY Returned DEF DriveReset, Runs
<1>5. tpc' = next /\ UNCHANGED <<hprt0, ret, isrVars>>
  BY DEF DriveReset, Goto
<1> QED BY <1>1, <1>2, <1>3, <1>4, <1>5, WrittenType

\* USB_OTG_ResetPort: HPRT0 is read, and its copy written twice (usb_core.c).
LEMMA CopiedReset == Copied /\ Reset => Copied'
<1> SUFFICES ASSUME Copied, Reset PROVE Copied'
  OBVIOUS
<1>0. hprt \in HPRT0s /\ hprt0 \in HPRT0s /\ Off \in HPRT0s
  BY DEF Copied, Off, HPRT0s
<1>1. CASE ResetPort
  <2>1. port = "hprt0"
    BY <1>1, Returned DEF ResetPort, Runs
  <2>2. hprt0' = Masked(hprt) /\ tpc' = "reset_on" /\ UNCHANGED <<hprt, ret, isrVars>>
    BY <1>1 DEF ResetPort, ReadHPRT0, Goto
  <2> QED BY <1>0, <2>1, <2>2, MaskedType DEF Copied, WritableCopy, isrVars
<1>2. CASE ResetPortEnd
  <2>1. port = "hprt0"
    BY <1>2, Returned DEF ResetPortEnd, Runs
  <2>2. hprt0' = Off /\ tpc' = ret /\ UNCHANGED <<hprt, ret, isrVars>>
    BY <1>2 DEF ResetPortEnd, Goto
  <2> QED BY <1>0, <2>1, <2>2 DEF Copied, isrVars
<1>3. CASE DriveReset("reset_on", "reset_off")
  <2>1. tpc = "reset_on"
    BY <1>3 DEF DriveReset, Runs
  <2> QED BY <1>3, <2>1, DrivenReset DEF Copied, WritableCopy, isrVars
<1>4. CASE DriveReset("reset_off", "reset_wait")
  <2>1. hprt' \in HPRT0s /\ port = "hprt0"
    BY <1>4, DrivenReset
  <2>2. tpc' = "reset_wait" /\ UNCHANGED <<hprt0, ret, isrVars>>
    BY <1>4, DrivenReset
  <2> QED BY <2>1, <2>2 DEF Copied, isrVars
<1> QED BY <1>1, <1>2, <1>3, <1>4 DEF Reset

\* The rest of the thread leaves HPRT0 alone.
LEMMA CopiedRest ==
  Copied /\ (ChannelInit \/ Transfer \/ Process \/ InterfaceDeInit \/ OpenControl) => Copied'
<1> SUFFICES ASSUME Copied, ChannelInit \/ Transfer \/ Process \/ InterfaceDeInit \/ OpenControl
             PROVE  Copied'
  OBVIOUS
<1>0. ret \in {"flush", "process", "open"}
  BY DEF Copied
<1>1. CASE ChannelInit
  <2>1. UNCHANGED <<hprt, hprt0, ret, isrVars>> /\ tpc' \in {"hc_mask", "hc_char", "hc_init", "process"}
    BY <1>1 DEF ChannelInit, HcInit, HcMask, HcChar, Goto
  <2> QED BY <1>0, <2>1, NoCopy DEF Holding
<1>2. CASE Transfer
  <2>1. UNCHANGED <<hprt, hprt0, ret, isrVars>> /\ tpc' \in {"xfer_data", "process"}
    BY <1>2 DEF Transfer, XferOn, XferData, Goto
  <2> QED BY <1>0, <2>1, NoCopy DEF Holding
<1>3. CASE Process
  <2>1. UNCHANGED <<hprt, hprt0, isrVars>>
    BY <1>3 DEF Process
  <2>2. /\ tpc' \in {"hcd_init", "if_deinit", "port_reset", "hc_init", "xfer_on"}
        /\ ret' \in {ret, "process", "open"}
    BY <1>3 DEF Process, DeInit, IdleHost, Attached, Request, SizeKnown, Addressed,
                InterfaceInit, BulkTransfer, ResetIn, Submit, Open, Modify, Goto
  <2> QED BY <1>0, <2>1, <2>2, NoCopy DEF Holding
<1>4. CASE InterfaceDeInit
  <2>1. UNCHANGED <<hprt, hprt0, ret, isrVars>> /\ tpc' \in {"if_deinit", "hcd_init"}
    BY <1>4 DEF InterfaceDeInit, Goto
  <2> QED BY <1>0, <2>1, NoCopy DEF Holding
<1>5. CASE OpenControl
  <2>1. UNCHANGED <<hprt, hprt0, ret, isrVars>> /\ tpc' = "hc_init"
    BY <1>5 DEF OpenControl, Open, Goto
  <2> QED BY <1>0, <2>1, NoCopy DEF Holding
<1> QED BY <1>1, <1>2, <1>3, <1>4, <1>5

\* Every step leaves copies that are safe to write.
LEMMA CopiedStep == Copied /\ [OtgNext]_otgVars => Copied'
<1> SUFFICES ASSUME Copied, [OtgNext]_otgVars PROVE Copied'
  OBVIOUS
<1>1. CASE UNCHANGED otgVars
  BY <1>1 DEF Copied, WritableCopy, otgVars, threadVars, isrVars
<1>2. CASE Port
  BY <1>2, CopiedPort
<1>3. CASE Bus
  <2>1. UNCHANGED <<hprt, threadVars, isrVars>>
    BY <1>3 DEF Bus
  <2> QED BY <2>1, HardwareCopies DEF Copied
<1>4. CASE Handler
  BY <1>4, CopiedHandler
<1>5. CASE Thread
  BY <1>5, CopiedBringUp, CopiedReset, CopiedRest DEF Thread
<1> QED BY <1>1, <1>2, <1>3, <1>4, <1>5 DEF OtgNext

\* Whoever is about to write HPRT0 holds a copy that is safe to write, in every
\* reachable state.
THEOREM CopiesSafe == OtgSpec => []Copied
  BY CopiedInit, CopiedStep, PTL DEF OtgSpec

-----------------------------------------------------------------------------
(* The property *)

\* Writing a copy with none of the bits that a 1 clears clears none of them.
LEMMA WrittenKeeps ==
  ASSUME NEW v \in HPRT0s, hprt \in HPRT0s, hprt' = Written(v), ~v.ena, v.pwr = hprt.pwr \/ v.pwr
  PROVE  /\ hprt.ena => hprt'.ena
         /\ hprt.pwr => hprt'.pwr
         /\ hprt.conndet => hprt'.conndet \/ v.conndet
         /\ hprt.enchng => hprt'.enchng \/ v.enchng
         /\ hprt'.rst = v.rst
  BY DEF Written, HPRT0s

\* A step that leaves the register alone keeps the port.
LEMMA KeptElsewhere == hprt' = hprt => KeepsPort
  BY DEF KeepsPort

\* So does what is neither a step of the thread nor of the handler.
LEMMA KeptByHardware ==
  UNCHANGED <<tpc, ints, port>> => KeepsPort
  BY DEF KeepsPort

\* The handler clears the changes that it looked at (usb_hcd_int.c:
\* USB_OTG_USBH_handle_port_ISR).
LEMMA KeptByAcknowledge == Copied /\ IsrPortAck => KeepsPort
<1> SUFFICES ASSUME Copied, IsrPortAck PROVE KeepsPort
  OBVIOUS
<1>1. /\ hprt \in HPRT0s /\ dup \in HPRT0s /\ ~dup.ena /\ port = "ack"
      /\ dup.pwr = hprt.pwr /\ dup.rst = hprt.rst
      /\ dup.conndet = seen.conndet /\ dup.enchng = seen.enchng
  BY DEF Copied, WritableCopy, IsrPortAck
<1>2. hprt' = Written(dup)
  BY DEF IsrPortAck, WriteHPRT0
<1>3. /\ hprt.ena => hprt'.ena
      /\ hprt.pwr => hprt'.pwr
      /\ hprt.conndet => hprt'.conndet \/ seen.conndet
      /\ hprt.enchng => hprt'.enchng \/ seen.enchng
      /\ hprt'.rst = hprt.rst
  BY <1>1, <1>2, WrittenKeeps
<1> QED BY <1>1, <1>3 DEF KeepsPort

\* USB_OTG_DriveVbus sets the power from a copy.
LEMMA KeptByPower == Copied /\ DriveVbusWrite => KeepsPort
<1> SUFFICES ASSUME Copied, DriveVbusWrite, hprt' # hprt PROVE KeepsPort
  BY KeptElsewhere
<1> DEFINE v == [hprt0 EXCEPT !.pwr = TRUE]
<1>1. /\ hprt \in HPRT0s /\ hprt0 \in HPRT0s /\ ~hprt0.ena /\ hprt0.rst = hprt.rst
      /\ ~hprt0.conndet /\ ~hprt0.enchng
  BY DEF Copied, WritableCopy, DriveVbusWrite, Runs
<1>2. v \in HPRT0s /\ v.pwr /\ ~v.ena /\ v.rst = hprt.rst /\ ~v.conndet /\ ~v.enchng
  BY <1>1 DEF HPRT0s
<1>3. hprt' = Written(v)
  BY DEF DriveVbusWrite, WriteHPRT0
<1> HIDE DEF v
<1>4. /\ hprt.ena => hprt'.ena
      /\ hprt.pwr => hprt'.pwr
      /\ hprt.conndet => hprt'.conndet
      /\ hprt.enchng => hprt'.enchng
      /\ hprt'.rst = hprt.rst
  BY <1>1, <1>2, <1>3, WrittenKeeps
<1> QED BY <1>4 DEF KeepsPort

\* USB_OTG_ResetPort sets the reset, and takes it away, from copies.
LEMMA KeptByReset ==
  ASSUME Copied, NEW label, NEW next,
         label \in {"reset_on", "reset_off"}, DriveReset(label, next)
  PROVE  KeepsPort
<1> DEFINE v == [hprt0 EXCEPT !.rst = (label = "reset_on")]
<1>1. /\ hprt \in HPRT0s /\ hprt0 \in HPRT0s /\ ~hprt0.ena /\ hprt0.pwr = hprt.pwr
      /\ ~hprt0.conndet /\ ~hprt0.enchng /\ tpc = label
  BY DEF Copied, WritableCopy, DriveReset, Runs
<1>2. v \in HPRT0s /\ v.pwr = hprt.pwr /\ ~v.ena /\ ~v.conndet /\ ~v.enchng
  BY <1>1 DEF HPRT0s
<1>3. hprt' = Written(v)
  BY DEF DriveReset, WriteHPRT0
<1> HIDE DEF v
<1>4. /\ hprt.ena => hprt'.ena
      /\ hprt.pwr => hprt'.pwr
      /\ hprt.conndet => hprt'.conndet
      /\ hprt.enchng => hprt'.enchng
  BY <1>1, <1>2, <1>3, WrittenKeeps
<1> QED BY <1>1, <1>4 DEF KeepsPort

\* No step does anything to the port that PortKept forbids.
LEMMA KeptByStep == Copied /\ [OtgNext]_otgVars => [KeepsPort]_otgVars
<1> SUFFICES ASSUME Copied, OtgNext PROVE KeepsPort
  OBVIOUS
<1>1. CASE Port
  BY <1>1, KeptByHardware DEF Port, threadVars, isrVars
<1>2. CASE Bus
  BY <1>2, KeptByHardware DEF Bus, threadVars, isrVars
<1>3. CASE Handler
  <2>1. IsrPortAck \/ hprt' = hprt
    BY <1>3 DEF Handler, IsrEnter, IsrChannels, IsrPort, IsrPortDup, IsrDisconnect
  <2> QED BY <2>1, KeptByAcknowledge, KeptElsewhere
<1>4. CASE Thread
  <2>1. CASE BringUp
    <3>1. DriveVbusWrite \/ CoreReset \/ hprt' = hprt
      BY <2>1 DEF BringUp, HcdInit, DisableGlobalInt, SetCurrentMode, FlushFifos, DriveVbus,
                  EnableHostInt, EnableGlobalInt
    <3>2. CoreReset => KeepsPort
      BY DEF CoreReset, Runs, KeepsPort
    <3> QED BY <3>1, <3>2, KeptByPower, KeptElsewhere
  <2>2. CASE Reset
    <3>1. \/ DriveReset("reset_on", "reset_off")
          \/ DriveReset("reset_off", "reset_wait")
          \/ hprt' = hprt
      BY <2>2 DEF Reset, ResetPort, ResetPortEnd
    <3> QED BY <3>1, KeptByReset, KeptElsewhere
  <2>3. CASE ChannelInit \/ Transfer \/ Process \/ InterfaceDeInit \/ OpenControl
    <3>1. hprt' = hprt
      BY <2>3 DEF ChannelInit, HcInit, HcMask, HcChar, Transfer, XferOn, XferData, Process,
                  InterfaceDeInit, OpenControl
    <3> QED BY <3>1, KeptElsewhere
  <2> QED BY <1>4, <2>1, <2>2, <2>3 DEF Thread
<1> QED BY <1>1, <1>2, <1>3, <1>4 DEF OtgNext

\* Neither the thread's nor the handler's write disables the port, takes its
\* power or swallows a change that the handler has not looked at.
THEOREM PortStaysKept == OtgSpec => PortKept
  BY CopiesSafe, KeptByStep, PTL DEF OtgSpec, PortKept

-----------------------------------------------------------------------------
(* Steady, and what it takes to keep it *)

USE OtgCoreAssumption

Sound == Copied /\ Steady

-----------------------------------------------------------------------------
(* Small facts *)

\* The channels that a call of USBH_Open_Channel or USBH_Modify_Channel still has
\* to initialise (usbh_hcs.c): the head and the tail of each list there is.
LEMMA Todos ==
  /\ \A s \in CtlTodos : /\ Head(s) \in Ctls /\ ToSet(s) \subseteq Ctls /\ Head(s) \in ToSet(s)
                         /\ Len(s) > 1 => Tail(s) \in CtlTodos
                         /\ \A c \in ToSet(s) : c = Head(s) \/ (Len(s) > 1 /\ c \in ToSet(Tail(s)))
                         /\ ToSet(Tail(s)) \subseteq ToSet(s)
                         /\ Head(s) \notin ToSet(Tail(s))
  /\ \A s \in BulkTodos : /\ Head(s) \in Bulks /\ ToSet(s) \subseteq Bulks /\ Head(s) \in ToSet(s)
                          /\ Len(s) > 1 => Tail(s) \in BulkTodos
                          /\ \A c \in ToSet(s) : c = Head(s) \/ (Len(s) > 1 /\ c \in ToSet(Tail(s)))
                          /\ ToSet(Tail(s)) \subseteq ToSet(s)
                          /\ Head(s) \notin ToSet(Tail(s))
<1>1. ToSet(<<"ctl_out", "ctl_in">>) = Ctls /\ ToSet(<<"ctl_in", "ctl_out">>) = Ctls
  BY DEF ToSet, Ctls
<1>2. ToSet(<<"ctl_out">>) = {"ctl_out"} /\ ToSet(<<"ctl_in">>) = {"ctl_in"}
  BY DEF ToSet
<1>3. ToSet(<<"bulk_out", "bulk_in">>) = Bulks /\ ToSet(<<"bulk_in">>) = {"bulk_in"}
  BY DEF ToSet, Bulks
<1>4. ToSet(<<>>) = {}
  BY DEF ToSet
<1>5. QED
  BY <1>1, <1>2, <1>3, <1>4 DEF CtlTodos, BulkTodos, Ctls, Bulks

\* A packet is not longer than the command (usbh_ioreq.c: USBH_BulkSendData).
LEMMA PacketLength ==
  ASSUME epsize \in Nat
  PROVE  Min({CmdBytes, epsize}) \in Nat /\ Min({CmdBytes, epsize}) <= CmdBytes
<1>1. \E m \in {CmdBytes, epsize} : \A n \in {CmdBytes, epsize} : m <= n
  OBVIOUS
<1>2. QED
  BY <1>1 DEF Min

\* More bytes do not take fewer words of the FIFO (usb_core.c: USB_OTG_WritePacket).
LEMMA WordsGrow ==
  ASSUME NEW m \in Nat, NEW n \in Nat, m <= n
  PROVE  Words(m) \in Nat /\ Words(m) <= Words(n)
  BY DEF Words

-----------------------------------------------------------------------------
(* Types *)

\* The registers after USBH_Init are registers.
LEMMA TypeInit == OtgInit => OtgTypeOK
<1> SUFFICES ASSUME OtgInit PROVE OtgTypeOK
  OBVIOUS
<1> USE DEF OtgInit, OtgTypeOK
<1>1. /\ plugged \in Kinds /\ present \in BOOLEAN /\ enabling \in BOOLEAN
      /\ glbl \in BOOLEAN /\ discint \in BOOLEAN /\ mode \in {"device", "host"}
  BY Zenon
<1>2. /\ {gintmsk, gmask, ints} \subseteq SUBSET {"hcintr", "portintr", "disconnect"}
      /\ haintmsk \subseteq HostChannels
  BY Zenon
<1>3. chan \in [HostChannels -> HCCHARs]
  <2>1. NoChan \in HCCHARs
    BY DEF NoChan, HCCHARs
  <2>2. QED
    BY <2>1, Zenon
<1>4. /\ hcintmsk \in [HostChannels -> SUBSET {"end", "nak", "chhltd"}]
      /\ hcint \in [HostChannels -> {"none", "end", "nak", "chhltd"}]
      /\ fifo \in [HostChannels -> Nat]
  OBVIOUS
<1>5. hc \in [HostChannels -> [dev : Nat, mps : Nat, speed : {"full", "low"}]]
  OBVIOUS
<1>6. /\ gs \in {"HOST_IDLE", "HOST_WAIT_PRT_ENABLED", "HOST_DEV_ATTACHED", "HOST_CLASS"} \cup EnumStates
      /\ address \in {0, 1} /\ speed \in {"full", "low"} /\ ep0size \in Nat /\ epsize \in Nat
      /\ port \in {"hprt0", "hprt0_dup", "ack"}
  BY DEF MAX_EP0_SIZE
<1>7. QED
  BY <1>1, <1>2, <1>3, <1>4, <1>5, <1>6

\* What a step has to show of the types when it leaves the channels alone.
LEMMA TypeFrame ==
  ASSUME OtgTypeOK, UNCHANGED <<plugged, chanVars, hc, gs, address, speed, ep0size, epsize>>,
         present' \in BOOLEAN, enabling' \in BOOLEAN, glbl' \in BOOLEAN, discint' \in BOOLEAN,
         mode' \in {"device", "host"}, port' \in {"hprt0", "hprt0_dup", "ack"},
         {gintmsk', gmask', ints'} \subseteq SUBSET {"hcintr", "portintr", "disconnect"},
         haintmsk' \subseteq HostChannels
  PROVE  OtgTypeOK'
  BY Zenon DEF OtgTypeOK, chanVars

\* Ending a reset enables the port of a device (usb_core.c: USB_OTG_ResetPort).
LEMMA EnablingType ==
  ASSUME NEW v \in HPRT0s, hprt \in HPRT0s, present \in BOOLEAN, enabling \in BOOLEAN, WriteHPRT0(v)
  PROVE  enabling' \in BOOLEAN
  BY Zenon DEF WriteHPRT0, HPRT0s

\* What comes and goes on the port has a kind (usb_hcd_int.c:
\* USB_OTG_USBH_handle_port_ISR).
LEMMA TypePort == OtgTypeOK /\ Copied /\ Port => OtgTypeOK'
<1> SUFFICES ASSUME OtgTypeOK, Copied, Port PROVE OtgTypeOK'
  OBVIOUS
<1>1. plugged' \in Kinds /\ present' \in BOOLEAN /\ enabling' \in BOOLEAN
  BY Zenon DEF Port, PlugIn, PullOut, EnablePort, DisablePort, OtgTypeOK, deviceVars_
<1>2. hprt.pwr \in BOOLEAN
  BY DEF Copied, HPRT0s
<1>3. discint' \in BOOLEAN
  BY <1>2, Zenon DEF Port, PlugIn, PullOut, EnablePort, DisablePort, OtgTypeOK
<1>4. UNCHANGED <<mode, glbl, gintmsk, haintmsk, chan, hcintmsk, hcint, fifo, hc, gs, address,
                  speed, ep0size, epsize, gmask, ints, port>>
  BY Zenon DEF Port, maskVars, chanVars, hostVars, threadVars, isrVars
<1>5. QED
  BY <1>1, <1>3, <1>4, Zenon DEF OtgTypeOK

\* A channel that ends or halts (usb_hcd_int.c: USB_OTG_USBH_handle_hc_n_Out_ISR).
LEMMA TypeBus == OtgTypeOK /\ Bus => OtgTypeOK'
<1> SUFFICES ASSUME OtgTypeOK, NEW c \in HostChannels, Conclude(c) \/ Halted(c), Bus PROVE OtgTypeOK'
  BY DEF Bus
<1>1. /\ chan \in [HostChannels -> HCCHARs] /\ fifo \in [HostChannels -> Nat]
      /\ hcint \in [HostChannels -> {"none", "end", "nak", "chhltd"}]
  BY DEF OtgTypeOK
<1>2. /\ chan' \in [HostChannels -> HCCHARs] /\ fifo' \in [HostChannels -> Nat]
      /\ hcint' \in [HostChannels -> {"none", "end", "nak", "chhltd"}]
  BY <1>1 DEF Conclude, Halted, HCCHARs
<1>3. UNCHANGED <<plugged, present, enabling, glbl, discint, mode, gintmsk, gmask, ints, haintmsk,
                  hcintmsk, hc, gs, address, speed, ep0size, epsize, port>>
  BY Zenon DEF Bus, deviceVars_, maskVars, hostVars, threadVars, isrVars
<1>4. QED
  BY <1>2, <1>3, Zenon DEF OtgTypeOK

\* Serving a channel writes HCCHAR and HCINTMSK (usb_hcd_int.c).
LEMMA ServedType ==
  ASSUME OtgTypeOK, NEW c \in HostChannels
  PROVE  Served(c) \in HCCHARs /\ MaskAfter(c) \in SUBSET {"end", "nak", "chhltd"}
<1>1. chan[c] \in HCCHARs /\ hcintmsk[c] \in SUBSET {"end", "nak", "chhltd"}
  BY DEF OtgTypeOK
<1>2. Halt(chan[c]) \in HCCHARs /\ [chan[c] EXCEPT !.chen = TRUE, !.chdis = FALSE] \in HCCHARs
  BY <1>1 DEF Halt, HCCHARs
<1>3. \/ Served(c) = Halt(chan[c]) \/ Served(c) = [chan[c] EXCEPT !.chen = TRUE, !.chdis = FALSE]
      \/ Served(c) = chan[c]
  BY DEF Served
<1>4. \/ MaskAfter(c) = hcintmsk[c] \cup {"chhltd"} \/ MaskAfter(c) = hcintmsk[c] \ {"chhltd"}
      \/ MaskAfter(c) = hcintmsk[c]
  BY DEF MaskAfter
<1>5. MaskAfter(c) \in SUBSET {"end", "nak", "chhltd"}
  BY <1>1, <1>4
<1>6. QED
  BY <1>1, <1>2, <1>3, <1>5

\* The handler of the OTG core (usb_hcd_int.c: USBH_OTG_ISR_Handler).
LEMMA TypeHandler == OtgTypeOK /\ Copied /\ Handler => OtgTypeOK'
<1> SUFFICES ASSUME OtgTypeOK, Copied, Handler PROVE OtgTypeOK'
  OBVIOUS
<1> USE DEF maskVars, deviceVars_, hostVars, threadVars
<1>0. /\ present \in BOOLEAN /\ enabling \in BOOLEAN /\ glbl \in BOOLEAN /\ discint \in BOOLEAN
      /\ mode \in {"device", "host"} /\ port \in {"hprt0", "hprt0_dup", "ack"}
      /\ {gintmsk, gmask, ints} \subseteq SUBSET {"hcintr", "portintr", "disconnect"}
      /\ haintmsk \subseteq HostChannels
  BY Zenon DEF OtgTypeOK
<1>1. CASE IsrEnter
  <2>1. Pending \subseteq gintmsk
    BY DEF Pending
  <2>2. ints' \in SUBSET {"hcintr", "portintr", "disconnect"}
    BY <1>0, <1>1, <2>1 DEF IsrEnter
  <2>3. QED
    BY <1>0, <1>1, <2>2, TypeFrame DEF IsrEnter
<1>2. CASE IsrChannels
  <2>1. /\ chan' \in [HostChannels -> HCCHARs]
        /\ hcintmsk' \in [HostChannels -> SUBSET {"end", "nak", "chhltd"}]
        /\ hcint' \in [HostChannels -> {"none", "end", "nak", "chhltd"}]
    <3>1. /\ chan \in [HostChannels -> HCCHARs]
          /\ hcintmsk \in [HostChannels -> SUBSET {"end", "nak", "chhltd"}]
          /\ hcint \in [HostChannels -> {"none", "end", "nak", "chhltd"}]
      BY DEF OtgTypeOK
    <3>2. QED
      BY <1>2, <3>1, ServedType, Zenon DEF IsrChannels
  <2>2. ints' \in SUBSET {"hcintr", "portintr", "disconnect"}
    BY <1>0, <1>2 DEF IsrChannels
  <2>3. UNCHANGED <<plugged, present, enabling, glbl, discint, mode, gintmsk, gmask, haintmsk,
                    fifo, hc, gs, address, speed, ep0size, epsize, port>>
    BY <1>2, Zenon DEF IsrChannels
  <2>4. QED
    BY <2>1, <2>2, <2>3, Zenon DEF OtgTypeOK
<1>3. CASE IsrPort
  BY <1>0, <1>3, TypeFrame DEF IsrPort
<1>4. CASE IsrPortDup
  <2>1. gintmsk' \in SUBSET {"hcintr", "portintr", "disconnect"}
    BY <1>0, <1>4 DEF IsrPortDup
  <2>2. UNCHANGED <<plugged, present, enabling, glbl, discint, mode, ints, gmask, haintmsk,
                    chanVars, hc, gs, address, speed, ep0size, epsize>> /\ port' = "ack"
    BY <1>4, Zenon DEF IsrPortDup
  <2>3. QED
    BY <1>0, <2>1, <2>2, TypeFrame
<1>5. CASE IsrPortAck
  <2>1. hprt \in HPRT0s /\ dup \in HPRT0s
    BY DEF Copied
  <2>2. enabling' \in BOOLEAN
    BY <1>0, <1>5, <2>1, EnablingType DEF IsrPortAck
  <2>3. ints' \in SUBSET {"hcintr", "portintr", "disconnect"} /\ port' = "hprt0"
    BY <1>0, <1>5 DEF IsrPortAck
  <2>4. UNCHANGED <<plugged, present, glbl, discint, mode, gintmsk, gmask, haintmsk,
                    chanVars, hc, gs, address, speed, ep0size, epsize>>
    BY <1>5, Zenon DEF IsrPortAck
  <2>5. QED
    BY <1>0, <2>2, <2>3, <2>4, TypeFrame
<1>6. CASE IsrDisconnect
  BY <1>0, <1>6, TypeFrame DEF IsrDisconnect
<1>7. QED
  BY <1>1, <1>2, <1>3, <1>4, <1>5, <1>6 DEF Handler

\* Bringing the core up (usb_core.c, usb_hcd.c: HCD_Init).
LEMMA TypeBringUp == OtgTypeOK /\ Copied /\ BringUp => OtgTypeOK'
<1> SUFFICES ASSUME OtgTypeOK, Copied, BringUp PROVE OtgTypeOK'
  OBVIOUS
<1> USE DEF maskVars, deviceVars_, isrVars
<1>0. /\ present \in BOOLEAN /\ enabling \in BOOLEAN /\ glbl \in BOOLEAN /\ discint \in BOOLEAN
      /\ mode \in {"device", "host"} /\ port \in {"hprt0", "hprt0_dup", "ack"}
      /\ {gintmsk, gmask, ints} \subseteq SUBSET {"hcintr", "portintr", "disconnect"}
      /\ haintmsk \subseteq HostChannels
  BY Zenon DEF OtgTypeOK
<1>1. CASE HcdInit
  <2>1. hc \in [HostChannels -> [dev : Nat, mps : Nat, speed : {"full", "low"}]]
    BY DEF OtgTypeOK
  <2>2. hc' \in [HostChannels -> [dev : Nat, mps : Nat, speed : {"full", "low"}]]
    BY <1>1, <2>1 DEF HcdInit
  <2>3. UNCHANGED <<plugged, present, enabling, glbl, discint, mode, gintmsk, gmask, ints,
                    haintmsk, chan, hcintmsk, hcint, fifo, gs, address, speed, ep0size, epsize, port>>
    BY <1>1, Zenon DEF HcdInit, chanVars
  <2>4. QED
    BY <2>2, <2>3, Zenon DEF OtgTypeOK
<1>2. CASE DisableGlobalInt
  BY <1>0, <1>2, TypeFrame DEF DisableGlobalInt, hostVars
<1>3. CASE CoreReset
  <2>1. NoChan \in HCCHARs
    BY DEF NoChan, HCCHARs
  <2>2. /\ chan' \in [HostChannels -> HCCHARs]
        /\ hcintmsk' \in [HostChannels -> SUBSET {"end", "nak", "chhltd"}]
        /\ hcint' \in [HostChannels -> {"none", "end", "nak", "chhltd"}]
    BY <1>3, <2>1, Zenon DEF CoreReset
  <2>3. fifo' \in [HostChannels -> Nat]
    BY <1>3 DEF CoreReset
  <2>4. /\ enabling' = FALSE /\ mode' = "device" /\ discint' = FALSE
        /\ gintmsk' = {} /\ haintmsk' = {}
        /\ UNCHANGED <<plugged, present, glbl, gmask, ints, hc, gs, address, speed, ep0size, epsize, port>>
    BY <1>3, Zenon DEF CoreReset, hostVars
  <2>5. QED
    BY <1>0, <2>2, <2>3, <2>4, Zenon DEF OtgTypeOK
<1>4. CASE SetCurrentMode
  BY <1>0, <1>4, TypeFrame DEF SetCurrentMode, hostVars
<1>5. CASE FlushFifos
  <2>1. /\ fifo' \in [HostChannels -> Nat]
        /\ hcintmsk' \in [HostChannels -> SUBSET {"end", "nak", "chhltd"}]
        /\ hcint' \in [HostChannels -> {"none", "end", "nak", "chhltd"}]
    BY <1>5 DEF FlushFifos
  <2>2. UNCHANGED <<plugged, present, enabling, glbl, discint, mode, gintmsk, gmask, ints,
                    haintmsk, chan, hc, gs, address, speed, ep0size, epsize, port>>
    BY <1>5, Zenon DEF FlushFifos, hostVars
  <2>3. QED
    BY <2>1, <2>2, Zenon DEF OtgTypeOK
<1>6. CASE DriveVbus
  BY <1>0, <1>6, TypeFrame DEF DriveVbus, hostVars
<1>7. CASE DriveVbusWrite
  <2>1. [hprt0 EXCEPT !.pwr = TRUE] \in HPRT0s /\ hprt \in HPRT0s
    BY DEF Copied, HPRT0s
  <2>2. enabling' \in BOOLEAN
    BY <1>0, <1>7, <2>1, EnablingType DEF DriveVbusWrite
  <2>3. UNCHANGED <<plugged, present, glbl, discint, mode, gintmsk, gmask, ints, haintmsk,
                    chanVars, hc, gs, address, speed, ep0size, epsize, port>>
    BY <1>7, Zenon DEF DriveVbusWrite, hostVars
  <2>4. QED
    BY <1>0, <2>2, <2>3, TypeFrame
<1>8. CASE EnableHostInt
  BY <1>0, <1>8, TypeFrame DEF EnableHostInt, hostVars
<1>9. CASE EnableGlobalInt
  BY <1>0, <1>9, TypeFrame DEF EnableGlobalInt, hostVars
<1>10. QED
  BY <1>1, <1>2, <1>3, <1>4, <1>5, <1>6, <1>7, <1>8, <1>9 DEF BringUp

\* Resetting the port (usb_core.c: USB_OTG_ResetPort).
LEMMA TypeReset == OtgTypeOK /\ Copied /\ Reset => OtgTypeOK'
<1> SUFFICES ASSUME OtgTypeOK, Copied, Reset PROVE OtgTypeOK'
  OBVIOUS
<1>0. /\ present \in BOOLEAN /\ enabling \in BOOLEAN /\ glbl \in BOOLEAN /\ discint \in BOOLEAN
      /\ mode \in {"device", "host"} /\ port \in {"hprt0", "hprt0_dup", "ack"}
      /\ {gintmsk, gmask, ints} \subseteq SUBSET {"hcintr", "portintr", "disconnect"}
      /\ haintmsk \subseteq HostChannels
  BY Zenon DEF OtgTypeOK
<1>1. enabling' \in BOOLEAN
  <2>1. [hprt0 EXCEPT !.rst = TRUE] \in HPRT0s /\ [hprt0 EXCEPT !.rst = FALSE] \in HPRT0s
        /\ hprt \in HPRT0s
    BY DEF Copied, HPRT0s
  <2>2. ("reset_on" = "reset_on") = TRUE /\ ("reset_off" = "reset_on") = FALSE
    OBVIOUS
  <2>3. \/ enabling' = enabling \/ WriteHPRT0([hprt0 EXCEPT !.rst = TRUE])
        \/ WriteHPRT0([hprt0 EXCEPT !.rst = FALSE])
    BY <2>2 DEF Reset, ResetPort, ResetPortEnd, DriveReset, deviceVars_
  <2>4. QED
    BY <1>0, <2>1, <2>3, EnablingType
<1>2. UNCHANGED <<plugged, present, glbl, discint, mode, gintmsk, gmask, ints, haintmsk,
                  chanVars, hc, gs, address, speed, ep0size, epsize, port>>
  BY Zenon DEF Reset, ResetPort, ResetPortEnd, DriveReset, hostVars, maskVars, deviceVars_, isrVars
<1>3. QED
  BY <1>0, <1>1, <1>2, TypeFrame

\* Initialising a channel (usb_core.c: USB_OTG_HC_Init).
LEMMA TypeChannelInit == OtgTypeOK /\ Place /\ ChannelInit => OtgTypeOK'
<1> SUFFICES ASSUME OtgTypeOK, Place, ChannelInit PROVE OtgTypeOK'
  OBVIOUS
<1> USE DEF maskVars, deviceVars_, isrVars, chanVars, hostVars
<1>0. /\ chan \in [HostChannels -> HCCHARs] /\ haintmsk \subseteq HostChannels
      /\ hcintmsk \in [HostChannels -> SUBSET {"end", "nak", "chhltd"}]
      /\ hcint \in [HostChannels -> {"none", "end", "nak", "chhltd"}]
      /\ hc \in [HostChannels -> [dev : Nat, mps : Nat, speed : {"full", "low"}]]
      /\ {gintmsk, gmask} \subseteq SUBSET {"hcintr", "portintr", "disconnect"}
  BY Zenon DEF OtgTypeOK
<1>1. Head(todo) \in HostChannels
  <2>1. todo \in CtlTodos \/ todo \in BulkTodos
    BY DEF ChannelInit, HcInit, HcMask, HcChar, Runs, Place, InitLabels
  <2>2. QED
    BY <2>1, Todos DEF Ctls, Bulks, HostChannels
<1>2. CASE HcInit
  <2>1. /\ hcintmsk' \in [HostChannels -> SUBSET {"end", "nak", "chhltd"}]
        /\ hcint' \in [HostChannels -> {"none", "end", "nak", "chhltd"}]
        /\ haintmsk' \subseteq HostChannels
    BY <1>0, <1>1, <1>2 DEF HcInit
  <2>2. gmask' = gintmsk /\
        UNCHANGED <<plugged, present, enabling, glbl, discint, mode, gintmsk, ints,
                    chan, fifo, hc, gs, address, speed, ep0size, epsize, port>>
    BY <1>2, Zenon DEF HcInit
  <2>3. QED
    BY <2>1, <2>2, Zenon DEF OtgTypeOK
<1>3. CASE HcMask
  <2>1. gintmsk' \in SUBSET {"hcintr", "portintr", "disconnect"} /\ gmask' = {}
    BY <1>0, <1>3 DEF HcMask
  <2>2. UNCHANGED <<plugged, present, enabling, glbl, discint, mode, ints, haintmsk,
                    chanVars, hc, gs, address, speed, ep0size, epsize, port>>
    BY <1>3, Zenon DEF HcMask
  <2>3. QED
    BY <2>1, <2>2, Zenon DEF OtgTypeOK
<1>4. CASE HcChar
  <2>1. chan' \in [HostChannels -> HCCHARs]
    BY <1>0, <1>1, <1>4 DEF HcChar, HCCHARs
  <2>2. UNCHANGED <<plugged, present, enabling, glbl, discint, mode, gintmsk, gmask, ints, haintmsk,
                    hcintmsk, hcint, fifo, hc, gs, address, speed, ep0size, epsize, port>>
    BY <1>4, Zenon DEF HcChar
  <2>3. QED
    BY <2>1, <2>2, Zenon DEF OtgTypeOK
<1>5. QED
  BY <1>2, <1>3, <1>4 DEF ChannelInit

\* Starting a transfer (usb_core.c: USB_OTG_HC_StartXfer): there is space for it in
\* the FIFO, so the interrupt of an empty one is not unmasked.
LEMMA FifoSpace ==
  ASSUME OtgTypeOK, Starting, OnePacket, Place, \A c \in HostChannels : Channel(c), tpc = "xfer_data"
  PROVE  /\ xfer.c \in Outs /\ xfer.len \in Nat /\ Words(xfer.len) \in Nat
         /\ Words(xfer.len) <= Space
         /\ xfer.c = "ctl_out" => Words(xfer.len) <= Words(USBH_SETUP_PKT_SIZE) /\ fifo["bulk_out"] = 0
         /\ xfer.c = "bulk_out" => Words(xfer.len) <= Words(CmdBytes) /\ fifo["ctl_out"] = 0
<1>1. /\ xfer.c \in Outs /\ xfer.len \in Nat /\ fifo[xfer.c] = 0 /\ Using(xfer.c)
      /\ gs = "HOST_CLASS" => xfer.c \in Bulks
      /\ xfer.c = "ctl_out" => xfer.len <= USBH_SETUP_PKT_SIZE
      /\ xfer.c = "bulk_out" => xfer.len <= CmdBytes
  BY DEF Starting, XferLabels
<1>2. \A c \in HostChannels : Spared(c) => fifo[c] = 0
  BY DEF Channel, AtRest
<1>3. CASE xfer.c = "ctl_out"
  <2>1. gs \in EnumStates
    BY <1>1, <1>3 DEF Using, Bulks
  <2>2. Spared("bulk_out")
    BY <2>1 DEF Spared, Bulks
  <2>3. fifo["bulk_out"] = 0 /\ fifo["ctl_out"] = 0
    BY <1>1, <1>2, <1>3, <2>2 DEF HostChannels
  <2>4. Words(xfer.len) \in Nat /\ Words(xfer.len) <= Words(USBH_SETUP_PKT_SIZE)
    BY <1>1, <1>3, WordsGrow DEF USBH_SETUP_PKT_SIZE
  <2>5. Words(USBH_SETUP_PKT_SIZE) \in Nat
    BY WordsGrow DEF USBH_SETUP_PKT_SIZE
  <2>6. QED
    BY <1>1, <1>3, <2>3, <2>4, <2>5 DEF Space
<1>4. CASE xfer.c = "bulk_out"
  <2>1. gs = "HOST_CLASS"
    BY <1>1, <1>4 DEF Using, Ctls
  <2>2. Spared("ctl_out")
    BY <2>1 DEF Spared, Ctls
  <2>3. fifo["bulk_out"] = 0 /\ fifo["ctl_out"] = 0
    BY <1>1, <1>2, <1>4, <2>2 DEF HostChannels
  <2>4. Words(xfer.len) \in Nat /\ Words(xfer.len) <= Words(CmdBytes)
    BY <1>1, <1>4, WordsGrow
  <2>5. Words(CmdBytes) \in Nat
    BY WordsGrow
  <2>6. QED
    BY <1>1, <1>4, <2>3, <2>4, <2>5 DEF Space
<1>5. QED
  BY <1>1, <1>3, <1>4 DEF Outs

\* Starting a transfer (usb_core.c: USB_OTG_HC_StartXfer).
LEMMA TypeTransfer == Sound /\ Transfer => OtgTypeOK'
<1> SUFFICES ASSUME Sound, Transfer PROVE OtgTypeOK'
  OBVIOUS
<1> USE DEF maskVars, deviceVars_, isrVars, chanVars, hostVars
<1>0. /\ chan \in [HostChannels -> HCCHARs] /\ fifo \in [HostChannels -> Nat]
      /\ gintmsk \in SUBSET {"hcintr", "portintr", "disconnect"}
      /\ OtgTypeOK
  BY Zenon DEF OtgTypeOK, Sound, Steady
<1>1. CASE XferOn
  <2>1. xfer.c \in HostChannels /\ xfer.char \in HCCHARs
    BY <1>1 DEF XferOn, Runs, Sound, Steady, Starting, XferLabels
  <2>2. [xfer.char EXCEPT !.chen = TRUE, !.chdis = FALSE] \in HCCHARs
    BY <2>1 DEF HCCHARs
  <2>3. chan' \in [HostChannels -> HCCHARs]
    BY <1>0, <1>1, <2>1, <2>2 DEF XferOn
  <2>4. UNCHANGED <<plugged, present, enabling, glbl, discint, mode, gintmsk, gmask, ints, haintmsk,
                    hcintmsk, hcint, fifo, hc, gs, address, speed, ep0size, epsize, port>>
    BY <1>1, Zenon DEF XferOn
  <2>5. QED
    BY <1>0, <2>3, <2>4, Zenon DEF OtgTypeOK
<1>2. CASE XferData
  <2>1. xfer.c \in Outs /\ Words(xfer.len) \in Nat /\ Words(xfer.len) <= Space
    BY <1>2, FifoSpace DEF XferData, Runs, Sound, Steady
  <2>2. fifo["ctl_out"] \in Nat /\ fifo["bulk_out"] \in Nat
    BY <1>0 DEF HostChannels
  <2>3. ~(Words(xfer.len) > Space)
    BY <2>1, <2>2 DEF Space
  <2>4. gintmsk' = gintmsk
    BY <1>2, <2>3 DEF XferData
  <2>5. fifo' \in [HostChannels -> Nat]
    BY <1>0, <1>2, <2>1 DEF XferData, Outs, HostChannels
  <2>6. UNCHANGED <<plugged, present, enabling, glbl, discint, mode, gmask, ints, haintmsk,
                    chan, hcintmsk, hcint, hc, gs, address, speed, ep0size, epsize, port>>
    BY <1>2, Zenon DEF XferData
  <2>7. QED
    BY <1>0, <2>4, <2>5, <2>6, Zenon DEF OtgTypeOK
<1>3. QED
  BY <1>1, <1>2 DEF Transfer

\* Modifying channels writes pdev->host.hc (usbh_hcs.c: USBH_Modify_Channel).
LEMMA ModifyType ==
  ASSUME NEW cs, NEW d \in Nat, NEW m \in Nat,
         hc \in [HostChannels -> [dev : Nat, mps : Nat, speed : {"full", "low"}]],
         Modify(cs, d, m)
  PROVE  hc' \in [HostChannels -> [dev : Nat, mps : Nat, speed : {"full", "low"}]]
  BY DEF Modify

\* What a call of USBH_Process is (usbh_core.c).
ProcessCases == DeInit \/ IdleHost \/ Attached \/ Request \/ SizeKnown \/ Addressed
                \/ InterfaceInit \/ BulkTransfer

\* A step of USBH_Process is one of its states, and leaves the core alone.
LEMMA ProcessSplit ==
  Process => /\ Runs("process") /\ ProcessCases
             /\ UNCHANGED <<plugged, present, enabling, hprt, mode, discint, glbl, gintmsk, haintmsk,
                            chan, hcintmsk, hcint, fifo, ConnStat, PortOn, hprt0, gmask,
                            ints, seen, dup, port>>
  BY Zenon DEF Process, ProcessCases, deviceVars_, maskVars, chanVars, isrVars

\* The states of USBH_Process.
LEMMA TypeProcess == OtgTypeOK /\ Process => OtgTypeOK'
<1> SUFFICES ASSUME OtgTypeOK, Process PROVE OtgTypeOK'
  OBVIOUS
<1> DEFINE HcType == [HostChannels -> [dev : Nat, mps : Nat, speed : {"full", "low"}]]
           GsType == {"HOST_IDLE", "HOST_WAIT_PRT_ENABLED", "HOST_DEV_ATTACHED", "HOST_CLASS"}
                     \cup EnumStates
<1>0. /\ hc \in HcType /\ gs \in GsType
      /\ address \in {0, 1} /\ speed \in {"full", "low"} /\ ep0size \in Nat /\ epsize \in Nat
      /\ plugged.speed \in {"full", "low"} /\ plugged.ep0 \in Nat \ {0} /\ plugged.bulk \in Nat \ {0}
  BY DEF OtgTypeOK, OtgCoreAssumption
<1>1. /\ hc' \in HcType /\ gs' \in GsType
      /\ address' \in {0, 1} /\ speed' \in {"full", "low"} /\ ep0size' \in Nat /\ epsize' \in Nat
  <2>1. CASE DeInit
    BY <1>0, <2>1 DEF DeInit, MAX_EP0_SIZE
  <2>2. CASE IdleHost \/ Attached
    BY <1>0, <2>2 DEF IdleHost, Attached, ResetIn
  <2>3. CASE Request \/ BulkTransfer
    BY <1>0, <2>3 DEF Request, BulkTransfer, hostVars
  <2>4. CASE SizeKnown
    <3>1. hc' \in HcType
      BY <1>0, <2>4, ModifyType DEF SizeKnown
    <3>2. QED
      BY <1>0, <2>4, <3>1 DEF SizeKnown, EnumStates
  <2>5. CASE Addressed
    <3>1. hc' \in HcType
      BY <1>0, <2>5, ModifyType DEF Addressed
    <3>2. QED
      BY <1>0, <2>5, <3>1 DEF Addressed, EnumStates
  <2>6. CASE InterfaceInit
    <3>0. /\ Open(<<"bulk_out", "bulk_in">>, address, speed, plugged.bulk)
          /\ address \in Nat /\ plugged.bulk \in Nat
      BY <1>0, <2>6 DEF InterfaceInit
    <3>1. hc' \in HcType
      BY <1>0, <3>0 DEF Open
    <3>2. QED
      BY <1>0, <2>6, <3>1 DEF InterfaceInit
  <2>7. QED
    BY <2>1, <2>2, <2>3, <2>4, <2>5, <2>6, ProcessSplit DEF ProcessCases
<1>2. UNCHANGED <<plugged, present, enabling, glbl, discint, mode, gintmsk, gmask, ints, haintmsk,
                  chan, hcintmsk, hcint, fifo, port>>
  BY ProcessSplit
<1>3. QED
  BY <1>1, <1>2, Zenon DEF OtgTypeOK

\* De-initialising the class halts its channels (usbh_cdc.c: USBH_CDC_InterfaceDeInit).
LEMMA TypeInterfaceDeInit == OtgTypeOK /\ Place /\ InterfaceDeInit => OtgTypeOK'
<1> SUFFICES ASSUME OtgTypeOK, Place, InterfaceDeInit PROVE OtgTypeOK'
  OBVIOUS
<1>1. todo \in BulkTodos
  BY DEF InterfaceDeInit, Runs, Place
<1>2. Head(todo) \in HostChannels
  BY <1>1, Todos DEF Bulks, HostChannels
<1>3. chan \in [HostChannels -> HCCHARs]
  BY DEF OtgTypeOK
<1>4. chan' \in [HostChannels -> HCCHARs]
  BY <1>2, <1>3 DEF InterfaceDeInit, Halt, HCCHARs
<1>5. UNCHANGED <<plugged, present, enabling, glbl, discint, mode, gintmsk, gmask, ints, haintmsk,
                  hcintmsk, hcint, fifo, hc, gs, address, speed, ep0size, epsize, port>>
  BY Zenon DEF InterfaceDeInit, maskVars, deviceVars_, isrVars, hostVars
<1>6. QED
  BY <1>4, <1>5, Zenon DEF OtgTypeOK

\* Opening the control channels (usbh_core.c: USBH_Process).
LEMMA TypeOpenControl == OtgTypeOK /\ OpenControl => OtgTypeOK'
<1> SUFFICES ASSUME OtgTypeOK, OpenControl PROVE OtgTypeOK'
  OBVIOUS
<1>1. /\ hc \in [HostChannels -> [dev : Nat, mps : Nat, speed : {"full", "low"}]]
      /\ address \in Nat /\ ep0size \in Nat /\ plugged.speed \in {"full", "low"}
  BY DEF OtgTypeOK, OtgCoreAssumption
<1>2. hc' \in [HostChannels -> [dev : Nat, mps : Nat, speed : {"full", "low"}]]
  <2>1. Open(<<"ctl_in", "ctl_out">>, address, plugged.speed, ep0size)
    BY DEF OpenControl
  <2>2. QED
    BY <1>1, <2>1 DEF Open
<1>3. gs' \in EnumStates /\ speed' \in {"full", "low"}
  BY <1>1 DEF OpenControl, EnumStates
<1>4. UNCHANGED <<plugged, present, enabling, glbl, discint, mode, gintmsk, gmask, ints, haintmsk,
                  chan, hcintmsk, hcint, fifo, address, ep0size, epsize, port>>
  BY Zenon DEF OpenControl, maskVars, deviceVars_, isrVars, chanVars
<1>5. gs' \in {"HOST_IDLE", "HOST_WAIT_PRT_ENABLED", "HOST_DEV_ATTACHED", "HOST_CLASS"} \cup EnumStates
  BY <1>3
<1>6. QED
  BY <1>2, <1>3, <1>4, <1>5, Zenon DEF OtgTypeOK

\* Every step keeps the types.
LEMMA TypeStep == Sound /\ OtgNext => OtgTypeOK'
<1> SUFFICES ASSUME Sound, OtgNext PROVE OtgTypeOK'
  OBVIOUS
<1>1. OtgTypeOK /\ Copied /\ Place
  BY DEF Sound, Steady
<1>2. CASE Port \/ Bus \/ Handler
  BY <1>1, <1>2, TypePort, TypeBus, TypeHandler
<1>3. CASE Thread
  BY <1>1, <1>3, TypeBringUp, TypeReset, TypeChannelInit, TypeTransfer, TypeProcess,
     TypeInterfaceDeInit, TypeOpenControl DEF Thread
<1>4. QED
  BY <1>2, <1>3 DEF OtgNext

-----------------------------------------------------------------------------
(* Where the thread is *)

\* A step that moves neither the thread nor its state machine.
LEMMA PlaceFrame ==
  ASSUME Place, UNCHANGED <<tpc, gs, ret, todo>>
  PROVE  Place'
  BY DEF Place

\* The labels of the thread and the state of USBH_Process go together
\* (usbh_core.c).
LEMMA PlaceStep == Sound /\ OtgNext => Place'
<1> SUFFICES ASSUME Sound, OtgNext PROVE Place'
  OBVIOUS
<1>0. Place
  BY DEF Sound, Steady
<1> USE DEF DownLabels, ResetLabels, InitLabels, XferLabels, EnumStates, Goto, Runs
<1>1. CASE Port \/ Bus \/ Handler
  <2>1. UNCHANGED <<threadVars, hostVars>>
    BY <1>1, Zenon DEF Port, Bus, Handler, IsrEnter, IsrChannels, IsrPort, IsrPortDup, IsrPortAck,
                IsrDisconnect
  <2>2. QED
    BY <1>0, <2>1, PlaceFrame, Zenon DEF threadVars, hostVars
<1>2. CASE BringUp
  <2>1. UNCHANGED <<gs, todo>>
    BY <1>2, Zenon DEF BringUp, HcdInit, DisableGlobalInt, CoreReset, SetCurrentMode, FlushFifos,
                DriveVbus, DriveVbusWrite, EnableHostInt, EnableGlobalInt, hostVars
  <2>2. /\ tpc \in {"hcd_init", "disable", "core_reset", "set_mode"} \cup DownLabels
        /\ \/ tpc' \in {"disable", "core_reset", "set_mode", "process"} \cup DownLabels
           \/ tpc' = "port_reset" /\ ret' = "flush"
    BY <1>2 DEF BringUp, HcdInit, DisableGlobalInt, CoreReset, SetCurrentMode, FlushFifos,
                DriveVbus, DriveVbusWrite, EnableHostInt, EnableGlobalInt
  <2>3. QED
    BY <1>0, <2>1, <2>2 DEF Place
<1>3. CASE Reset
  <2>1. UNCHANGED <<gs, todo, ret>> /\ tpc \in ResetLabels
    BY <1>3 DEF Reset, ResetPort, ResetPortEnd, DriveReset, hostVars
  <2>2. tpc' \in ResetLabels \/ tpc' = ret
    BY <1>3 DEF Reset, ResetPort, ResetPortEnd, DriveReset
  <2>3. QED
    BY <1>0, <2>1, <2>2 DEF Place
<1>4. CASE ChannelInit
  <2>1. UNCHANGED gs /\ tpc \in InitLabels
    BY <1>4 DEF ChannelInit, HcInit, HcMask, HcChar, hostVars
  <2>2. todo \in IF gs = "HOST_CLASS" THEN BulkTodos ELSE CtlTodos
    BY <1>0, <2>1 DEF Place
  <2>3. CASE HcInit \/ HcMask
    <3>1. tpc' \in {"hc_mask", "hc_char"} /\ todo' = todo
      BY <2>3 DEF HcInit, HcMask
    <3>2. QED
      BY <1>0, <2>1, <3>1 DEF Place
  <2>4. CASE HcChar
    <3>1. todo' = Tail(todo) /\ (IF Len(todo) > 1 THEN tpc' = "hc_init" ELSE tpc' = "process")
      BY <2>4 DEF HcChar
    <3>2. Len(todo) > 1 => todo' \in IF gs = "HOST_CLASS" THEN BulkTodos ELSE CtlTodos
      BY <2>2, <3>1, Todos, Zenon
    <3>3. CASE Len(todo) > 1
      BY <1>0, <2>1, <3>1, <3>2, <3>3 DEF Place
    <3>4. CASE ~(Len(todo) > 1)
      BY <1>0, <2>1, <3>1, <3>4 DEF Place
    <3>5. QED
      BY <3>3, <3>4
  <2>5. QED
    BY <1>4, <2>3, <2>4 DEF ChannelInit
<1>5. CASE Transfer
  <2>1. UNCHANGED <<gs, todo>> /\ tpc \in XferLabels /\ tpc' \in {"xfer_data", "process"}
    BY <1>5 DEF Transfer, XferOn, XferData, hostVars
  <2>2. QED
    BY <1>0, <2>1 DEF Place
<1>6. CASE Process
  <2>0. tpc = "process" /\ ProcessCases
    BY <1>6, ProcessSplit
  <2>1. CASE DeInit
    <3>1. gs' = "HOST_IDLE" /\ \/ tpc' = "hcd_init"
                               \/ tpc' = "if_deinit" /\ todo' = <<"bulk_out", "bulk_in">>
      BY <2>1 DEF DeInit
    <3>2. QED
      BY <3>1 DEF Place, BulkTodos
  <2>2. CASE IdleHost
    BY <2>2 DEF IdleHost, ResetIn, Place
  <2>3. CASE Attached
    BY <2>3 DEF Attached, ResetIn, Place
  <2>4. CASE Request \/ BulkTransfer
    <3>1. gs' = gs /\ tpc' = "xfer_on" /\ gs \in EnumStates \cup {"HOST_CLASS"}
      BY <2>4 DEF Request, BulkTransfer, Submit, hostVars
    <3>2. QED
      BY <3>1 DEF Place
  <2>5. CASE SizeKnown \/ Addressed
    <3>1. /\ gs' \in EnumStates /\ tpc' = "hc_init"
          /\ todo' \in {<<"ctl_out", "ctl_in">>, <<"ctl_in", "ctl_out">>}
      BY <2>5 DEF SizeKnown, Addressed, Modify
    <3>2. QED
      BY <3>1 DEF Place, CtlTodos
  <2>6. CASE InterfaceInit
    <3>1. gs' = "HOST_CLASS" /\ tpc' = "hc_init" /\ todo' = <<"bulk_out", "bulk_in">>
      BY <2>6 DEF InterfaceInit, Open
    <3>2. QED
      BY <3>1 DEF Place, BulkTodos
  <2>7. QED
    BY <2>0, <2>1, <2>2, <2>3, <2>4, <2>5, <2>6 DEF ProcessCases
<1>7. CASE InterfaceDeInit
  <2>1. todo \in BulkTodos /\ gs = "HOST_IDLE" /\ gs' = gs /\ todo' = Tail(todo)
        /\ (IF Len(todo) > 1 THEN tpc' = "if_deinit" ELSE tpc' = "hcd_init")
    BY <1>0, <1>7 DEF InterfaceDeInit, Place, hostVars
  <2>2. Len(todo) > 1 => todo' \in BulkTodos
    BY <2>1, Todos, Zenon
  <2>3. tpc' = "hcd_init" \/ (tpc' = "if_deinit" /\ todo' \in BulkTodos)
    BY <2>1, <2>2, Zenon
  <2>4. QED
    BY <2>1, <2>3 DEF Place
<1>8. CASE OpenControl
  <2>1. gs' = "ENUM_IDLE" /\ tpc' = "hc_init" /\ todo' = <<"ctl_in", "ctl_out">>
    BY <1>8 DEF OpenControl, Open
  <2>2. QED
    BY <2>1 DEF Place, CtlTodos
<1>9. QED
  BY <1>1, <1>2, <1>3, <1>4, <1>5, <1>6, <1>7, <1>8 DEF OtgNext, Thread

-----------------------------------------------------------------------------
(* The masks *)

\* What the port does to HPRT0 (usb_hcd_int.c: USB_OTG_USBH_handle_port_ISR): it
\* enables itself only at the end of a reset.
LEMMA PortEnables ==
  ASSUME Copied, OtgTypeOK, Port
  PROVE  /\ hprt'.pwr = hprt.pwr /\ (enabling' => enabling)
         /\ hprt'.ena => hprt.ena \/ (EnablePort /\ enabling)
         /\ hprt'.ena => (hprt'.enchng = hprt.enchng) \/ EnablePort
<1>1. hprt \in HPRT0s /\ enabling \in BOOLEAN
  BY DEF Copied, OtgTypeOK
<1>2. CASE PlugIn
  BY <1>1, <1>2 DEF PlugIn, HPRT0s
<1>3. CASE PullOut
  BY <1>1, <1>3 DEF PullOut, HPRT0s
<1>4. CASE EnablePort
  BY <1>1, <1>4 DEF EnablePort, HPRT0s
<1>5. CASE DisablePort
  BY <1>1, <1>5 DEF DisablePort, HPRT0s, deviceVars_
<1>6. QED
  BY <1>2, <1>3, <1>4, <1>5 DEF Port

\* The port changes of its own accord: the masks stay.
LEMMA MasksPort == Sound /\ Port => Masks'
<1> SUFFICES ASSUME Sound, Port PROVE Masks'
  OBVIOUS
<1>1. Masks /\ Copied /\ OtgTypeOK
  BY DEF Sound, Steady
<1>2. UNCHANGED <<mode, glbl, gintmsk, tpc, gs, ints, gmask>>
  BY Zenon DEF Port, maskVars, hostVars, threadVars, isrVars
<1>3. /\ hprt'.pwr = hprt.pwr /\ (enabling' => enabling)
      /\ hprt'.ena => hprt.ena \/ enabling
  BY <1>1, PortEnables
<1>4. (Down' <=> Down) /\ (InHandler' <=> InHandler)
  BY <1>2 DEF Down, InHandler
<1>5. tpc = "hc_mask" => ~enabling
  BY <1>1 DEF Masks
<1>6. QED
  BY <1>1, <1>2, <1>3, <1>4, <1>5 DEF Masks

\* A channel ends on the bus.
LEMMA MasksBus == Sound /\ Bus => Masks'
<1> SUFFICES ASSUME Sound, Bus PROVE Masks'
  OBVIOUS
<1>1. Masks
  BY DEF Sound, Steady
<1>2. UNCHANGED <<hprt, enabling, mode, glbl, gintmsk, tpc, gs, ints, gmask>>
  BY Zenon DEF Bus, deviceVars_, maskVars, hostVars, threadVars, isrVars
<1>3. QED
  BY <1>1, <1>2 DEF Masks, Down, InHandler

\* Acknowledging the port's changes leaves its power, its reset and its enable
\* (usb_hcd_int.c: USB_OTG_USBH_handle_port_ISR).
LEMMA Acknowledges ==
  ASSUME Copied, OtgTypeOK, IsrPortAck
  PROVE  /\ hprt'.pwr = hprt.pwr /\ enabling' = enabling
         /\ (hprt'.ena <=> hprt.ena) /\ (hprt'.enchng <=> hprt.enchng /\ ~seen.enchng)
<1>1. /\ hprt \in HPRT0s /\ dup \in HPRT0s /\ ~dup.ena /\ dup.pwr = hprt.pwr /\ dup.rst = hprt.rst
      /\ dup.enchng = seen.enchng
  BY DEF Copied, WritableCopy, IsrPortAck
<1>2. hprt' = Written(dup) /\ enabling' = (IF hprt.rst /\ ~dup.rst THEN hprt.pwr /\ present ELSE enabling)
  BY DEF IsrPortAck, WriteHPRT0
<1>3. QED
  BY <1>1, <1>2 DEF Written, HPRT0s

\* The handler: it masks everything when the device is gone.
LEMMA MasksHandler == Sound /\ Handler => Masks'
<1> SUFFICES ASSUME Sound, Handler PROVE Masks'
  OBVIOUS
<1>1. Masks /\ Copied /\ OtgTypeOK
  BY DEF Sound, Steady
<1>2. UNCHANGED <<mode, tpc, gs, gmask>>
  BY Zenon DEF Handler, IsrEnter, IsrChannels, IsrPort, IsrPortDup, IsrPortAck, IsrDisconnect,
               hostVars, threadVars
<1>3. (Down' <=> Down)
  BY <1>2 DEF Down
<1>4. glbl
  BY <1>1 DEF Handler, IsrEnter, IsrChannels, IsrPort, IsrPortDup, IsrPortAck, IsrDisconnect,
              IrqPending, Masks, InHandler, Copied
<1>5. CASE IsrDisconnect
  <2>1. glbl' = FALSE /\ ints' = {} /\ UNCHANGED <<hprt, enabling>>
    BY <1>5 DEF IsrDisconnect, deviceVars_
  <2>2. tpc # "enable"
    BY <1>1, <1>4 DEF Masks, Down, DownLabels
  <2>3. QED
    BY <1>1, <1>2, <1>3, <2>1, <2>2 DEF Masks, InHandler
<1>6. CASE IsrPortAck
  <2>1. hprt'.pwr = hprt.pwr /\ enabling' = enabling /\ (hprt'.ena <=> hprt.ena)
    BY <1>1, <1>6, Acknowledges
  <2>2. UNCHANGED <<glbl, gintmsk>>
    BY <1>6 DEF IsrPortAck, maskVars
  <2>3. QED
    BY <1>1, <1>2, <1>3, <1>4, <2>1, <2>2 DEF Masks
<1>7. CASE IsrEnter \/ IsrChannels \/ IsrPort \/ IsrPortDup
  <2>1. /\ UNCHANGED <<hprt, enabling, glbl>>
        /\ gintmsk' = gintmsk \/ gintmsk' = gintmsk \cup {"disconnect"}
    BY <1>7 DEF IsrEnter, IsrChannels, IsrPort, IsrPortDup, maskVars, deviceVars_
  <2>2. QED
    BY <1>1, <1>2, <1>3, <1>4, <2>1 DEF Masks
<1>8. QED
  BY <1>5, <1>6, <1>7 DEF Handler

\* The mask over all is closed from HCD_Init to its end (usb_hcd.c).
LEMMA MasksBringUp == Sound /\ BringUp => Masks'
<1> SUFFICES ASSUME Sound, BringUp PROVE Masks'
  OBVIOUS
<1>1. Masks /\ Copied /\ Place /\ OtgTypeOK
  BY DEF Sound, Steady
<1>2. ~InHandler /\ ints' = ints /\ gs' = gs /\ gs = "HOST_IDLE"
  BY <1>1 DEF BringUp, HcdInit, DisableGlobalInt, CoreReset, SetCurrentMode, FlushFifos, DriveVbus,
              DriveVbusWrite, EnableHostInt, EnableGlobalInt, Runs, hostVars, isrVars, Place, DownLabels
<1>3. ~InHandler'
  BY <1>2 DEF InHandler
<1>4. enabling \in BOOLEAN /\ (tpc # "reset_wait" => enabling = FALSE)
  BY <1>1 DEF Masks, OtgTypeOK
<1> USE DEF Down, DownLabels, ResetLabels, Runs, Goto, maskVars, deviceVars_
<1>5. CASE HcdInit \/ DisableGlobalInt
  <2>1. /\ tpc \in {"hcd_init", "disable"} /\ (tpc = "disable" => glbl' = FALSE)
        /\ tpc' = IF tpc = "hcd_init" THEN "disable" ELSE "core_reset"
        /\ UNCHANGED <<enabling, mode, gintmsk>> /\ (glbl' = glbl \/ glbl' = FALSE)
    BY <1>5 DEF HcdInit, DisableGlobalInt
  <2>2. QED
    BY <1>1, <1>3, <1>4, <2>1 DEF Masks
<1>6. CASE CoreReset
  <2>1. /\ tpc = "core_reset" /\ tpc' = "set_mode" /\ hprt' = Off /\ enabling' = FALSE /\ glbl' = glbl
    BY <1>6 DEF CoreReset
  <2>2. ~glbl
    BY <1>1, <2>1 DEF Masks
  <2>3. QED
    BY <1>3, <2>1, <2>2 DEF Masks, Off
<1>7. CASE SetCurrentMode
  <2>1. /\ tpc = "set_mode" /\ tpc' = "port_reset" /\ mode' = "host"
        /\ UNCHANGED <<hprt, enabling, glbl, gintmsk>>
    BY <1>7 DEF SetCurrentMode
  <2>2. QED
    BY <1>1, <1>2, <1>3, <1>4, <2>1 DEF Masks
<1>8. CASE FlushFifos \/ DriveVbus
  <2>1. /\ tpc \in {"flush", "vbus"} /\ tpc' \in {"vbus", "vbus_write"}
        /\ UNCHANGED <<hprt, enabling, glbl, gintmsk, mode>>
    BY <1>8 DEF FlushFifos, DriveVbus
  <2>2. QED
    BY <1>1, <1>2, <1>3, <1>4, <2>1 DEF Masks
<1>9. CASE DriveVbusWrite
  <2>1. /\ tpc = "vbus_write" /\ tpc' = "host_int" /\ UNCHANGED <<glbl, gintmsk, mode>>
        /\ (UNCHANGED <<hprt, enabling>> \/ WriteHPRT0([hprt0 EXCEPT !.pwr = TRUE]))
    BY <1>9 DEF DriveVbusWrite
  <2>2. ~glbl /\ ~hprt.ena /\ mode = "host" /\ enabling = FALSE
    BY <1>1, <2>1 DEF Masks
  <2>3. ~hprt'.ena /\ ~enabling'
    <3>1. hprt \in HPRT0s /\ hprt0 \in HPRT0s /\ hprt0.rst = hprt.rst
      BY <1>1, <2>1 DEF Copied
    <3> DEFINE v == [hprt0 EXCEPT !.pwr = TRUE]
    <3>2. v.rst = hprt.rst /\ v \in HPRT0s
      BY <3>1 DEF HPRT0s
    <3>3. UNCHANGED <<hprt, enabling>> \/ WriteHPRT0(v)
      BY <2>1
    <3> HIDE DEF v
    <3>4. WriteHPRT0(v) => enabling' = enabling
      BY <3>2 DEF WriteHPRT0
    <3>5. WriteHPRT0(v) => ~hprt'.ena
      BY <2>2, <3>1, <3>2 DEF WriteHPRT0, Written, HPRT0s
    <3>6. QED
      BY <2>2, <3>3, <3>4, <3>5
  <2>4. QED
    BY <1>3, <2>1, <2>2, <2>3 DEF Masks
<1>10. CASE EnableHostInt
  <2>1. /\ tpc = "host_int" /\ tpc' = "enable" /\ gintmsk' = {"hcintr", "portintr"}
        /\ UNCHANGED <<hprt, enabling, glbl, mode>>
    BY <1>10 DEF EnableHostInt
  <2>2. QED
    BY <1>1, <1>3, <1>4, <2>1 DEF Masks
<1>11. CASE EnableGlobalInt
  <2>1. /\ tpc = "enable" /\ tpc' = "process" /\ glbl' = TRUE
        /\ UNCHANGED <<hprt, enabling, gintmsk, mode>>
    BY <1>11 DEF EnableGlobalInt
  <2>2. QED
    BY <1>1, <1>3, <1>4, <2>1 DEF Masks
<1>12. QED
  BY <1>5, <1>6, <1>7, <1>8, <1>9, <1>10, <1>11 DEF BringUp

\* Driving and ending a reset leaves the power and the enable of the port
\* (usb_core.c: USB_OTG_ResetPort).
LEMMA DrivesReset ==
  ASSUME Copied, NEW label \in {"reset_on", "reset_off"}, NEW next, DriveReset(label, next)
  PROVE  /\ tpc = label /\ tpc' = next /\ hprt'.pwr = hprt.pwr
         /\ (hprt'.ena <=> hprt.ena) /\ (hprt'.enchng <=> hprt.enchng)
         /\ label = "reset_on" => enabling' = enabling
         /\ enabling' = enabling \/ (enabling' <=> hprt.pwr /\ present)
<1> DEFINE v == [hprt0 EXCEPT !.rst = (label = "reset_on")]
<1>1. /\ hprt \in HPRT0s /\ hprt0 \in HPRT0s /\ ~hprt0.ena /\ hprt0.pwr = hprt.pwr
      /\ ~hprt0.conndet /\ ~hprt0.enchng /\ tpc = label
  BY DEF Copied, WritableCopy, DriveReset, Runs
<1>2. v \in HPRT0s /\ v.pwr = hprt.pwr /\ ~v.ena /\ ~v.enchng /\ (label = "reset_on" => v.rst)
  BY <1>1 DEF HPRT0s
<1>3. WriteHPRT0(v) /\ tpc' = next
  BY DEF DriveReset, Goto
<1> HIDE DEF v
<1>4. hprt' = Written(v) /\ enabling' = IF hprt.rst /\ ~v.rst THEN hprt.pwr /\ present ELSE enabling
  BY <1>3 DEF WriteHPRT0
<1>5. QED
  BY <1>1, <1>2, <1>3, <1>4 DEF Written, HPRT0s

\* The port is reset from copies (usb_core.c: USB_OTG_ResetPort).
LEMMA MasksReset == Sound /\ Reset => Masks'
<1> SUFFICES ASSUME Sound, Reset PROVE Masks'
  OBVIOUS
<1>1. Masks /\ Copied /\ Place /\ OtgTypeOK
  BY DEF Sound, Steady
<1>2. UNCHANGED <<mode, glbl, gintmsk, gs, ints>>
  BY Zenon DEF Reset, ResetPort, ResetPortEnd, DriveReset, hostVars, maskVars, isrVars
<1>3. (InHandler' <=> InHandler)
  BY <1>2 DEF InHandler
<1> USE DEF Down, DownLabels, ResetLabels
<1>4. CASE ResetPort
  <2>1. tpc = "port_reset" /\ tpc' = "reset_on" /\ UNCHANGED <<hprt, enabling>>
    BY <1>4 DEF ResetPort, Runs, Goto, deviceVars_
  <2>2. QED
    BY <1>1, <1>2, <1>3, <2>1 DEF Masks
<1>5. CASE ResetPortEnd
  <2>1. tpc = "reset_wait" /\ tpc' = ret /\ ~enabling /\ UNCHANGED <<hprt, enabling>>
    BY <1>5 DEF ResetPortEnd, Runs, Goto, deviceVars_, Waits20ms
  <2>2. \/ gs = "HOST_IDLE" /\ ret = "flush"
        \/ gs = "HOST_WAIT_PRT_ENABLED" /\ ret = "process"
        \/ gs = "HOST_DEV_ATTACHED" /\ ret = "open"
    BY <1>1, <2>1 DEF Place
  <2>3. QED
    BY <1>1, <1>2, <1>3, <2>1, <2>2 DEF Masks
<1>6. CASE DriveReset("reset_on", "reset_off")
  <2>1. /\ tpc = "reset_on" /\ tpc' = "reset_off" /\ hprt'.pwr = hprt.pwr
        /\ (hprt'.ena <=> hprt.ena) /\ enabling' = enabling
    BY <1>1, <1>6, DrivesReset
  <2>2. QED
    BY <1>1, <1>2, <1>3, <2>1 DEF Masks
<1>7. CASE DriveReset("reset_off", "reset_wait")
  <2>1. /\ tpc = "reset_off" /\ tpc' = "reset_wait" /\ hprt'.pwr = hprt.pwr
        /\ (hprt'.ena <=> hprt.ena) /\ (enabling' => enabling \/ hprt.pwr)
    BY <1>1, <1>7, DrivesReset
  <2>2. ~enabling
    BY <1>1, <2>1 DEF Masks
  <2>3. QED
    BY <1>1, <1>2, <1>3, <2>1, <2>2 DEF Masks
<1>8. QED
  BY <1>4, <1>5, <1>6, <1>7 DEF Reset

\* A step of the thread that leaves the masks and the port alone, outside bring-up
\* and reset.
LEMMA MasksFrame ==
  ASSUME Masks, UNCHANGED <<hprt, enabling, mode, glbl, gintmsk, ints>>, ~Down', ~enabling,
         tpc' \notin {"core_reset", "enable", "hc_mask"}
  PROVE  Masks'
  BY DEF Masks, InHandler

\* HAINTMSK and GINTMSK (usb_core.c: USB_OTG_HC_Init): with the mask over all open
\* nothing of the port is pending when GINTMSK is read, so an enabled port has
\* been heard of.
LEMMA MasksChannelInit == Sound /\ ChannelInit => Masks'
<1> SUFFICES ASSUME Sound, ChannelInit PROVE Masks'
  OBVIOUS
<1>1. Masks /\ Copied /\ Place /\ OtgTypeOK /\ Hearing
  BY DEF Sound, Steady
<1>2. UNCHANGED <<hprt, enabling, mode, glbl, gs, ints>>
  BY Zenon DEF ChannelInit, HcInit, HcMask, HcChar, hostVars, maskVars, isrVars, deviceVars_
<1>3. /\ tpc \in InitLabels /\ ~InHandler /\ ~IrqPending
      /\ tpc' \in InitLabels \cup {"process"}
  BY DEF ChannelInit, HcInit, HcMask, HcChar, Runs, InitLabels, Goto
<1>4. gs \in EnumStates \cup {"HOST_CLASS"}
  BY <1>1, <1>3 DEF Place
<1>5. ~Down /\ ~Down' /\ tpc' \notin {"core_reset", "enable"} /\ tpc # "reset_wait"
  BY <1>2, <1>3, <1>4 DEF Down, DownLabels, ResetLabels, InitLabels, EnumStates
<1>6. ~InHandler'
  BY <1>2, <1>3 DEF InHandler
<1>7. ~enabling
  BY <1>1, <1>5 DEF Masks
<1>8. CASE HcInit
  <2>1. gmask' = gintmsk /\ gintmsk' = gintmsk /\ tpc' = "hc_mask"
    BY <1>8 DEF HcInit, Goto
  <2>2. glbl => "portintr" \in gintmsk /\ (hprt.ena => "disconnect" \in gintmsk)
    <3>1. port = "hprt0"
      BY <1>1, <1>3, Returned
    <3>2. glbl => {"hcintr", "portintr"} \subseteq gintmsk
      BY <1>1 DEF Masks
    <3>3. glbl => ~hprt.enchng
      BY <1>3, <3>2 DEF IrqPending, Pending
    <3>4. QED
      BY <1>1, <3>1, <3>2, <3>3 DEF Hearing
  <2>3. QED
    BY <1>1, <1>2, <1>5, <1>6, <1>7, <2>1, <2>2 DEF Masks
<1>9. CASE HcMask
  <2>1. gintmsk' = gmask \cup {"hcintr"} /\ tpc = "hc_mask" /\ tpc' = "hc_char"
    BY <1>9 DEF HcMask, Goto, Runs
  <2>2. QED
    BY <1>1, <1>2, <1>5, <1>6, <1>7, <2>1 DEF Masks
<1>10. CASE HcChar
  <2>1. gintmsk' = gintmsk /\ tpc' \in {"hc_init", "process"}
    BY <1>10 DEF HcChar, Goto, maskVars
  <2>2. QED
    BY <1>1, <1>2, <1>5, <1>7, <2>1, MasksFrame
<1>11. QED
  BY <1>8, <1>9, <1>10 DEF ChannelInit

\* The rest of the thread (usbh_core.c: USBH_Process) leaves the masks alone.
LEMMA MasksRest ==
  Sound /\ (Transfer \/ Process \/ InterfaceDeInit \/ OpenControl) => Masks'
<1> SUFFICES ASSUME Sound, Transfer \/ Process \/ InterfaceDeInit \/ OpenControl PROVE Masks'
  OBVIOUS
<1>1. Masks /\ Place /\ OtgTypeOK
  BY DEF Sound, Steady
<1>2. tpc \in {"xfer_on", "xfer_data", "process", "if_deinit", "open"}
  BY DEF Transfer, XferOn, XferData, Process, InterfaceDeInit, OpenControl, Runs
<1>3. ~enabling
  BY <1>1, <1>2 DEF Masks
<1>4. UNCHANGED <<hprt, enabling, mode, glbl, ints>>
  BY Zenon DEF Transfer, XferOn, XferData, Process, InterfaceDeInit, OpenControl, maskVars, isrVars,
               deviceVars_
<1>5. gintmsk' = gintmsk
  <2>1. CASE XferData
    <3>1. Words(xfer.len) <= Space /\ Words(xfer.len) \in Nat
      BY <2>1, FifoSpace DEF XferData, Runs, Sound, Steady
    <3>2. fifo["ctl_out"] \in Nat /\ fifo["bulk_out"] \in Nat
      BY <1>1 DEF HostChannels, OtgTypeOK
    <3>3. ~(Words(xfer.len) > Space)
      BY <3>1, <3>2 DEF Space
    <3>4. QED
      BY <2>1, <3>3 DEF XferData
  <2>2. CASE XferOn \/ Process \/ InterfaceDeInit \/ OpenControl
    BY <2>2, Zenon DEF XferOn, Process, InterfaceDeInit, OpenControl, maskVars
  <2>3. QED
    BY <2>1, <2>2 DEF Transfer
<1>6. ~Down' /\ tpc' \notin {"core_reset", "enable", "hc_mask"}
  <2> USE DEF Down, DownLabels, ResetLabels, Goto
  <2>1. CASE Transfer
    BY <2>1 DEF Transfer, XferOn, XferData
  <2>2. CASE Process
    <3>1. ProcessCases
      BY <2>2, ProcessSplit
    <3>2. tpc' \in {"hcd_init", "if_deinit", "xfer_on", "hc_init"}
          \/ (tpc' = "port_reset" /\ gs' # "HOST_IDLE")
      BY <3>1 DEF ProcessCases, DeInit, IdleHost, Attached, Request, SizeKnown, Addressed,
                  InterfaceInit, BulkTransfer, ResetIn, Submit, Open, Modify
    <3>3. QED
      BY <3>2
  <2>3. CASE InterfaceDeInit
    BY <2>3 DEF InterfaceDeInit
  <2>4. CASE OpenControl
    BY <2>4 DEF OpenControl, Open
  <2>5. QED
    BY <2>1, <2>2, <2>3, <2>4
<1>7. QED
  BY <1>1, <1>3, <1>4, <1>5, <1>6, MasksFrame

\* Every step keeps what the masks have to say.
LEMMA MasksStep == Sound /\ OtgNext => Masks'
  BY MasksPort, MasksBus, MasksHandler, MasksBringUp, MasksReset, MasksChannelInit, MasksRest
     DEF OtgNext, Thread

-----------------------------------------------------------------------------
(* What the handler has heard of the port *)

\* What the port does raises the interrupt that the handler hears it by.
LEMMA HearingPort == Sound /\ Port => Hearing'
<1> SUFFICES ASSUME Sound, Port PROVE Hearing'
  OBVIOUS
<1>1. Masks /\ Copied /\ OtgTypeOK /\ Hearing
  BY DEF Sound, Steady
<1>2. UNCHANGED <<glbl, gintmsk, ints, port, seen>>
  BY Zenon DEF Port, maskVars, isrVars
<1>3. (InHandler' <=> InHandler)
  BY <1>2 DEF InHandler
<1>4. CASE EnablePort
  <2>1. ~InHandler /\ hprt'.enchng
    BY <1>1, <1>4 DEF EnablePort, Copied, HPRT0s
  <2>2. port = "hprt0"
    BY <1>1, <2>1, Returned
  <2>3. QED
    BY <1>2, <1>3, <2>1, <2>2 DEF Hearing
<1>5. CASE ~EnablePort
  <2>1. hprt'.ena => hprt.ena /\ hprt'.enchng = hprt.enchng
    BY <1>1, <1>5, PortEnables
  <2>2. QED
    BY <1>1, <1>2, <1>3, <2>1 DEF Hearing
<1>6. QED
  BY <1>4, <1>5

\* The handler reads, acknowledges and unmasks, with the port's changes first
\* (usb_hcd_int.c).
LEMMA HearingHandler == Sound /\ Handler => Hearing'
<1> SUFFICES ASSUME Sound, Handler PROVE Hearing'
  OBVIOUS
<1>1. Masks /\ Copied /\ OtgTypeOK /\ Hearing
  BY DEF Sound, Steady
<1>2. CASE IsrEnter
  <2>1. UNCHANGED <<glbl, hprt, port, seen, gintmsk>> /\ ints' = Pending /\ ~InHandler
    BY <1>2 DEF IsrEnter, maskVars
  <2>2. port = "hprt0"
    BY <1>1, <2>1, Returned
  <2>3. glbl /\ hprt.enchng => "portintr" \in Pending
    BY <1>1 DEF Masks, Pending
  <2>4. QED
    BY <1>1, <2>1, <2>2, <2>3 DEF Hearing
<1>3. CASE IsrChannels
  <2>1. UNCHANGED <<glbl, hprt, port, seen, gintmsk>> /\ ints' = ints \ {"hcintr"} /\ "hcintr" \in ints
    BY <1>3 DEF IsrChannels, maskVars
  <2>2. QED
    BY <1>1, <2>1 DEF Hearing, InHandler
<1>4. CASE IsrPort
  <2>1. UNCHANGED <<glbl, hprt, ints, gintmsk>> /\ port = "hprt0" /\ port' = "hprt0_dup" /\ seen' = hprt
    BY <1>4 DEF IsrPort, maskVars
  <2>2. QED
    BY <1>1, <2>1 DEF Hearing, InHandler
<1>5. CASE IsrPortDup
  <2>1. UNCHANGED <<glbl, hprt, ints, seen>> /\ port = "hprt0_dup" /\ port' = "ack"
        /\ gintmsk' = IF seen.enchng /\ seen.ena THEN gintmsk \cup {"disconnect"} ELSE gintmsk
    BY <1>5 DEF IsrPortDup
  <2>2. QED
    BY <1>1, <2>1 DEF Hearing, InHandler
<1>6. CASE IsrPortAck
  <2>1. UNCHANGED <<glbl, gintmsk>> /\ port = "ack" /\ port' = "hprt0"
    BY <1>6 DEF IsrPortAck, maskVars
  <2>2. (hprt'.ena <=> hprt.ena) /\ (hprt'.enchng <=> hprt.enchng /\ ~seen.enchng)
    BY <1>1, <1>6, Acknowledges
  <2>3. QED
    BY <1>1, <2>1, <2>2 DEF Hearing
<1>7. CASE IsrDisconnect
  BY <1>7 DEF IsrDisconnect, Hearing
<1>8. QED
  BY <1>2, <1>3, <1>4, <1>5, <1>6, <1>7 DEF Handler

\* Nothing the thread does makes the handler deaf to an enabled port.
LEMMA HearingThread == Sound /\ Thread => Hearing'
<1> SUFFICES ASSUME Sound, Thread PROVE Hearing'
  OBVIOUS
<1>1. Masks /\ Copied /\ OtgTypeOK /\ Hearing
  BY DEF Sound, Steady
<1>2. CASE BringUp
  <2>1. CASE EnableGlobalInt
    <3>1. ~hprt'.ena
      BY <1>1, <2>1 DEF EnableGlobalInt, Runs, Masks, Down, DownLabels
    <3>2. QED
      BY <3>1 DEF Hearing
  <2>2. CASE HcdInit
    BY <1>1, <2>2 DEF HcdInit, Hearing, maskVars, isrVars, InHandler
  <2>3. CASE ~EnableGlobalInt /\ ~HcdInit
    <3>1. tpc \in {"disable", "core_reset", "set_mode"} \cup DownLabels
          /\ (tpc = "disable" => ~glbl') /\ (tpc # "disable" => glbl' = glbl)
      BY <1>2, <2>3 DEF BringUp, DisableGlobalInt, CoreReset, SetCurrentMode, FlushFifos, DriveVbus,
                        DriveVbusWrite, EnableHostInt, Runs, maskVars, DownLabels
    <3>2. ~glbl'
      BY <1>1, <3>1 DEF Masks, Down
    <3>3. QED
      BY <3>2 DEF Hearing
  <2>4. QED
    BY <2>1, <2>2, <2>3
<1>3. CASE Reset
  <2>1. UNCHANGED <<glbl, gintmsk, ints, port, seen>>
    BY <1>3, Zenon DEF Reset, ResetPort, ResetPortEnd, DriveReset, maskVars, isrVars
  <2>2. (hprt'.ena <=> hprt.ena) /\ (hprt'.enchng <=> hprt.enchng)
    <3>1. CASE ResetPort \/ ResetPortEnd
      BY <3>1 DEF ResetPort, ResetPortEnd
    <3>2. CASE DriveReset("reset_on", "reset_off") \/ DriveReset("reset_off", "reset_wait")
      BY <1>1, <3>2, DrivesReset
    <3>3. QED
      BY <1>3, <3>1, <3>2 DEF Reset
  <2>3. port = "hprt0"
    BY <1>1, <1>3, Returned DEF Reset, ResetPort, ResetPortEnd, DriveReset, Runs
  <2>4. QED
    BY <1>1, <2>1, <2>2, <2>3 DEF Hearing, InHandler
<1>4. CASE HcMask
  <2>1. UNCHANGED <<glbl, hprt, ints, port, seen>> /\ tpc = "hc_mask" /\ ~InHandler
        /\ gintmsk' = gmask \cup {"hcintr"}
    BY <1>4 DEF HcMask, Runs, isrVars
  <2>2. port = "hprt0"
    BY <1>1, <2>1, Returned
  <2>3. glbl /\ hprt.ena => "disconnect" \in gintmsk'
    BY <1>1, <2>1 DEF Masks
  <2>4. QED
    BY <2>1, <2>2, <2>3 DEF Hearing, InHandler
<1>5. CASE HcInit \/ HcChar \/ Transfer \/ Process \/ InterfaceDeInit \/ OpenControl
  <2>1. UNCHANGED <<glbl, hprt, ints, port, seen>>
    BY <1>5, Zenon DEF HcInit, HcChar, Transfer, XferOn, XferData, Process, InterfaceDeInit, OpenControl,
                 maskVars, isrVars
  <2>2. gintmsk \subseteq gintmsk'
    BY <1>5 DEF HcInit, HcChar, Transfer, XferOn, XferData, Process, InterfaceDeInit, OpenControl,
                maskVars
  <2>3. QED
    BY <1>1, <2>1, <2>2 DEF Hearing, InHandler
<1>6. QED
  BY <1>2, <1>3, <1>4, <1>5 DEF Thread, ChannelInit

\* Every step leaves an enabled port heard of.
LEMMA HearingStep == Sound /\ OtgNext => Hearing'
<1>1. Sound /\ Bus => Hearing'
  <2>1. Bus => UNCHANGED <<glbl, hprt, gintmsk, ints, port, seen>>
    BY Zenon DEF Bus, maskVars, isrVars
  <2>2. QED
    BY <2>1 DEF Sound, Steady, Hearing, InHandler
<1>2. QED
  BY <1>1, HearingPort, HearingHandler, HearingThread DEF OtgNext

-----------------------------------------------------------------------------
(* The channels *)

\* A step that leaves a channel and its user alone.
LEMMA ChannelFrame ==
  ASSUME NEW c \in HostChannels, Channel(c),
         UNCHANGED <<chanVars, haintmsk, tpc, todo, xfer, hostVars>>
  PROVE  Channel(c)'
<1>1. UNCHANGED <<chan, hcintmsk, hcint, fifo, haintmsk, tpc, todo, xfer, hc, gs, address, speed,
                  ep0size, epsize>>
  BY DEF chanVars, hostVars
<1>2. UNCHANGED <<Spared(c), AtRest(c), Using(c), Ready(c), Begun(c), Unmasked(c), Endpoint(c)>>
  BY <1>1, Zenon DEF Spared, AtRest, Using, Ready, Begun, Unmasked, Endpoint, Down
<1>3. QED
  BY <1>1, <1>2 DEF Channel, ForEndpoint

\* A step of the thread that leaves the registers of the channels alone: what it
\* has to show of its new place.
LEMMA ChannelMoves ==
  ASSUME NEW c \in HostChannels, Channel(c), UNCHANGED <<chanVars, haintmsk>>,
         Spared(c)' => AtRest(c),
         Using(c)' => ForEndpoint(hc[c], c)',
         Ready(c)' => ForEndpoint(chan[c], c)' /\ Unmasked(c),
         Begun(c)' => Unmasked(c),
         gs' # "HOST_IDLE" => gs # "HOST_IDLE" \/ AtRest(c)
  PROVE  Channel(c)'
<1>1. UNCHANGED <<chan, hcintmsk, hcint, fifo, haintmsk>>
  BY DEF chanVars
<1>2. UNCHANGED <<AtRest(c), Unmasked(c)>>
  BY <1>1, Zenon DEF AtRest, Unmasked
<1>3. AtRest(c) => ~chan[c].chdis
  BY DEF AtRest
<1>4. QED
  BY <1>1, <1>2, <1>3 DEF Channel

\* What a channel ends or halts with (usb_hcd_int.c: the channels' handlers).
LEMMA ChannelBus ==
  ASSUME Sound, Bus, NEW c \in HostChannels
  PROVE  Channel(c)'
<1>1. Channel(c) /\ OtgTypeOK
  BY DEF Sound, Steady
<1>2. PICK d \in HostChannels : Conclude(d) \/ Halted(d)
  BY DEF Bus
<1>3. UNCHANGED <<hcintmsk, haintmsk, tpc, todo, xfer, hc, gs, address, speed, ep0size, epsize>>
  BY Zenon DEF Bus, maskVars, threadVars, hostVars
<1>4. UNCHANGED <<Spared(c), Using(c), Ready(c), Begun(c), Unmasked(c), Endpoint(c)>>
  BY <1>3, Zenon DEF Spared, Using, Ready, Begun, Unmasked, Endpoint, Down
<1>5. chan[c] \in HCCHARs /\ hcint \in [HostChannels -> {"none", "end", "nak", "chhltd"}]
      /\ chan \in [HostChannels -> HCCHARs] /\ fifo \in [HostChannels -> Nat]
  BY <1>1 DEF OtgTypeOK
<1>6. CASE c # d
  <2>1. chan'[c] = chan[c] /\ hcint'[c] = hcint[c] /\ fifo'[c] = fifo[c]
    BY <1>2, <1>5, <1>6 DEF Conclude, Halted
  <2>2. QED
    BY <1>1, <1>3, <1>4, <2>1 DEF Channel, AtRest, ForEndpoint
<1>7. CASE c = d /\ Conclude(d)
  <2>1. /\ chan[c].chen /\ ~chan[c].chdis /\ chan'[c] = chan[c] /\ hcint'[c] \in {"end", "nak"}
    BY <1>5, <1>7 DEF Conclude
  <2>2. ~Spared(c)
    BY <1>1, <2>1 DEF Channel, AtRest
  <2>3. QED
    BY <1>1, <1>3, <1>4, <2>1, <2>2 DEF Channel, AtRest, ForEndpoint
<1>8. CASE c = d /\ Halted(d)
  <2>1. /\ chan[c].chen /\ hcint'[c] = "chhltd" /\ fifo'[c] = 0
        /\ chan'[c] = [chan[c] EXCEPT !.chen = FALSE, !.chdis = FALSE]
    BY <1>5, <1>8 DEF Halted
  <2>2. ~Spared(c)
    BY <1>1, <2>1 DEF Channel, AtRest
  <2>3. /\ ~chan'[c].chen /\ ~chan'[c].chdis
        /\ \A f \in {"dev", "mps", "speed"} : chan'[c][f] = chan[c][f]
    BY <1>5, <2>1 DEF HCCHARs
  <2>4. QED
    BY <1>1, <1>3, <1>4, <2>1, <2>2, <2>3 DEF Channel, AtRest, ForEndpoint
<1>9. QED
  BY <1>2, <1>6, <1>7, <1>8

\* Serving the channels (usb_hcd_int.c): an end, which only a channel at work has,
\* unmasks the halt and asks for it.
LEMMA ChannelServed ==
  ASSUME Sound, IsrChannels, NEW c \in HostChannels
  PROVE  Channel(c)'
<1>1. Channel(c) /\ OtgTypeOK
  BY DEF Sound, Steady
<1>2. UNCHANGED <<fifo, haintmsk, tpc, todo, xfer, hc, gs, address, speed, ep0size, epsize>>
  BY Zenon DEF IsrChannels, maskVars, threadVars, hostVars
<1>3. UNCHANGED <<Spared(c), Using(c), Ready(c), Begun(c), Endpoint(c)>>
  BY <1>2, Zenon DEF Spared, Using, Ready, Begun, Endpoint, Down
<1>4. /\ chan[c] \in HCCHARs /\ hcint[c] \in {"none", "end", "nak", "chhltd"}
      /\ hcintmsk[c] \in SUBSET {"end", "nak", "chhltd"}
  BY <1>1 DEF OtgTypeOK
<1>5. /\ chan'[c] = IF c \in ChannelInts THEN Served(c) ELSE chan[c]
      /\ hcintmsk'[c] = IF c \in ChannelInts THEN MaskAfter(c) ELSE hcintmsk[c]
      /\ hcint'[c] = IF c \in ChannelInts THEN "none" ELSE hcint[c]
  BY DEF IsrChannels
<1>6. CASE c \notin ChannelInts
  <2>1. chan'[c] = chan[c] /\ hcintmsk'[c] = hcintmsk[c] /\ hcint'[c] = hcint[c]
    BY <1>5, <1>6
  <2>2. QED
    BY <1>1, <1>2, <1>3, <2>1 DEF Channel, AtRest, ForEndpoint, Unmasked
<1>7. CASE c \in ChannelInts
  <2>0. hcint[c] \in {"end", "nak", "chhltd"} /\ ~Spared(c)
    <3>1. hcint[c] \in hcintmsk[c]
      BY <1>7 DEF ChannelInts
    <3>2. hcint[c] # "none"
      BY <1>4, <3>1
    <3>3. QED
      BY <1>1, <1>4, <3>2 DEF Channel, AtRest
  <2>1. CASE hcint[c] = "end"
    <3>1. /\ chan'[c] = Halt(chan[c]) /\ hcintmsk'[c] = hcintmsk[c] \cup {"chhltd"}
          /\ hcint'[c] = "none"
      BY <1>5, <1>7, <2>1 DEF Served, MaskAfter
    <3>2. /\ chan'[c].chen /\ \A f \in {"dev", "mps", "speed"} : chan'[c][f] = chan[c][f]
      BY <1>4, <3>1 DEF Halt, HCCHARs
    <3>3. chan[c].chen
      BY <1>1, <2>1 DEF Channel
    <3>4. QED
      BY <1>1, <1>2, <1>3, <2>0, <3>1, <3>2, <3>3 DEF Channel, ForEndpoint, Unmasked
  <2>2. CASE hcint[c] = "nak"
    <3>1. /\ chan'[c] = [chan[c] EXCEPT !.chen = TRUE, !.chdis = FALSE]
          /\ hcintmsk'[c] = hcintmsk[c] /\ hcint'[c] = "none"
      BY <1>5, <1>7, <2>2 DEF Served, MaskAfter
    <3>2. /\ chan'[c].chen /\ ~chan'[c].chdis
          /\ \A f \in {"dev", "mps", "speed"} : chan'[c][f] = chan[c][f]
      BY <1>4, <3>1 DEF HCCHARs
    <3>3. chan[c].chen
      BY <1>1, <2>2 DEF Channel
    <3>4. QED
      BY <1>1, <1>2, <1>3, <2>0, <3>1, <3>2, <3>3 DEF Channel, ForEndpoint, Unmasked
  <2>3. CASE hcint[c] = "chhltd"
    <3>1. /\ chan'[c] = chan[c] /\ hcintmsk'[c] = hcintmsk[c] \ {"chhltd"}
          /\ hcint'[c] = "none"
      BY <1>5, <1>7, <2>3 DEF Served, MaskAfter
    <3>2. gs # "HOST_IDLE" => ~chan[c].chdis
      BY <1>1, <2>3 DEF Channel
    <3>3. QED
      BY <1>1, <1>2, <1>3, <2>0, <3>1, <3>2 DEF Channel, ForEndpoint, Unmasked
  <2>4. QED
    BY <2>0, <2>1, <2>2, <2>3
<1>8. QED
  BY <1>6, <1>7

\* During bring-up the host is idle: the core's reset puts all channels at rest
\* (usb_core.c: USB_OTG_CoreReset), and they stay so until the first is opened.
LEMMA ChannelBringUp ==
  ASSUME Sound, BringUp, NEW c \in HostChannels
  PROVE  Channel(c)'
<1>1. Channel(c) /\ OtgTypeOK /\ Place
  BY DEF Sound, Steady
<1>2. gs = "HOST_IDLE" /\ gs' = gs
  BY <1>1 DEF BringUp, HcdInit, DisableGlobalInt, CoreReset, SetCurrentMode, FlushFifos, DriveVbus,
              DriveVbusWrite, EnableHostInt, EnableGlobalInt, Runs, hostVars, Place, DownLabels
<1>3. /\ tpc \in {"hcd_init", "disable", "core_reset", "set_mode"} \cup DownLabels
      /\ tpc' \in {"disable", "core_reset", "set_mode", "port_reset", "process"} \cup DownLabels
  BY DEF BringUp, HcdInit, DisableGlobalInt, CoreReset, SetCurrentMode, FlushFifos, DriveVbus,
         DriveVbusWrite, EnableHostInt, EnableGlobalInt, Runs, Goto, DownLabels
<1>4. ~Using(c)' /\ ~Ready(c)' /\ ~Begun(c)'
  BY <1>2, <1>3 DEF Using, Ready, Begun, EnumStates, DownLabels
<1>5. CASE HcdInit \/ DisableGlobalInt
  <2>1. UNCHANGED <<chanVars, haintmsk>> /\ tpc' \in {"disable", "core_reset"}
    BY <1>5 DEF HcdInit, DisableGlobalInt, maskVars, Goto
  <2>2. ~Spared(c)'
    BY <1>2, <2>1 DEF Spared, Down, DownLabels, ResetLabels, InitLabels, EnumStates
  <2>3. QED
    BY <1>1, <1>2, <1>4, <2>1, <2>2, ChannelMoves
<1>6. CASE CoreReset
  <2>1. chan'[c] = NoChan /\ hcint'[c] = "none" /\ fifo'[c] = 0
    BY <1>6 DEF CoreReset
  <2>2. QED
    BY <1>2, <1>4, <2>1 DEF Channel, AtRest, NoChan
<1>7. CASE FlushFifos
  <2>1. UNCHANGED <<chan, haintmsk>> /\ hcint'[c] = "none" /\ fifo'[c] = 0 /\ tpc = "flush"
    BY <1>7 DEF FlushFifos, maskVars, Runs
  <2>2. Spared(c)
    BY <2>1 DEF Spared, Down, DownLabels
  <2>3. QED
    BY <1>1, <1>2, <1>4, <2>1, <2>2 DEF Channel, AtRest
<1>8. CASE SetCurrentMode \/ DriveVbus \/ DriveVbusWrite \/ EnableHostInt \/ EnableGlobalInt
  <2>1. UNCHANGED <<chanVars, haintmsk>>
    BY <1>8, Zenon DEF SetCurrentMode, DriveVbus, DriveVbusWrite, EnableHostInt, EnableGlobalInt, maskVars
  <2>2. Spared(c)
    BY <1>8 DEF SetCurrentMode, DriveVbus, DriveVbusWrite, EnableHostInt, EnableGlobalInt, Runs, Spared,
                Down, DownLabels
  <2>3. AtRest(c)
    BY <1>1, <2>2 DEF Channel
  <2>4. QED
    BY <1>1, <1>2, <1>4, <2>1, <2>3, ChannelMoves
<1>9. QED
  BY <1>5, <1>6, <1>7, <1>8 DEF BringUp

\* While the port is reset no channel is open (usbh_core.c: USBH_Process).
LEMMA ChannelReset ==
  ASSUME Sound, Reset, NEW c \in HostChannels
  PROVE  Channel(c)'
<1>1. Channel(c) /\ Place
  BY DEF Sound, Steady
<1>2. UNCHANGED <<chanVars, haintmsk, gs>>
  BY Zenon DEF Reset, ResetPort, ResetPortEnd, DriveReset, maskVars, hostVars
<1>3. tpc \in ResetLabels /\ (tpc' \in ResetLabels \/ tpc' = ret)
  BY DEF Reset, ResetPort, ResetPortEnd, DriveReset, Runs, Goto, ResetLabels
<1>4. \/ gs = "HOST_IDLE" /\ ret = "flush"
      \/ gs = "HOST_WAIT_PRT_ENABLED" /\ ret = "process"
      \/ gs = "HOST_DEV_ATTACHED" /\ ret = "open"
  BY <1>1, <1>3 DEF Place
<1>5. Spared(c)
  BY <1>3, <1>4 DEF Spared, Down
<1>6. AtRest(c)
  BY <1>1, <1>5 DEF Channel
<1>7. ~Using(c)' /\ ~Ready(c)'
  BY <1>2, <1>4 DEF Using, Ready, EnumStates
<1>8. ~Begun(c)'
  BY <1>3, <1>4 DEF Begun, ResetLabels
<1>9. QED
  BY <1>1, <1>2, <1>6, <1>7, <1>8, ChannelMoves

\* USB_OTG_HC_Init opens the masks of a channel at rest, and then says in HCCHAR
\* which endpoint it is for (usb_core.c).
LEMMA ChannelInitialised ==
  ASSUME Sound, ChannelInit, NEW c \in HostChannels
  PROVE  Channel(c)'
<1>1. Channel(c) /\ Place /\ OtgTypeOK
  BY DEF Sound, Steady
<1>2. UNCHANGED <<fifo, hc, gs, address, speed, ep0size, epsize, xfer>>
  BY Zenon DEF ChannelInit, HcInit, HcMask, HcChar, hostVars, chanVars
<1>3. tpc \in InitLabels /\ tpc' \in InitLabels \cup {"process"}
  BY DEF ChannelInit, HcInit, HcMask, HcChar, Runs, Goto, InitLabels
<1>4. gs \in EnumStates \cup {"HOST_CLASS"} /\ todo \in IF gs = "HOST_CLASS" THEN BulkTodos ELSE CtlTodos
  BY <1>1, <1>3 DEF Place
<1>5. /\ Head(todo) \in HostChannels /\ Head(todo) \in ToSet(todo)
      /\ ToSet(Tail(todo)) \subseteq ToSet(todo)
      /\ c \in ToSet(todo) => c = Head(todo) \/ (Len(todo) > 1 /\ c \in ToSet(Tail(todo)))
  BY <1>4, Todos DEF Ctls, Bulks, HostChannels
<1>6. (Using(c)' <=> Using(c)) /\ UNCHANGED Endpoint(c)
  BY <1>2, Zenon DEF Using, Endpoint
<1>7. /\ chan \in [HostChannels -> HCCHARs]
      /\ hcintmsk \in [HostChannels -> SUBSET {"end", "nak", "chhltd"}]
      /\ hcint \in [HostChannels -> {"none", "end", "nak", "chhltd"}]
      /\ chan[c].chen \in BOOLEAN
  BY <1>1 DEF OtgTypeOK, HCCHARs
<1> USE DEF InitLabels
<1>8. ~Down' /\ gs # "HOST_IDLE" /\ gs \notin {"HOST_WAIT_PRT_ENABLED", "HOST_DEV_ATTACHED"}
  BY <1>2, <1>3, <1>4 DEF Down, DownLabels, ResetLabels, EnumStates
<1>9. CASE HcInit
  <2>1. /\ hcint' = [hcint EXCEPT ![Head(todo)] = "none"]
        /\ hcintmsk' = [hcintmsk EXCEPT ![Head(todo)] = {"end", "nak"}]
        /\ haintmsk' = haintmsk \cup {Head(todo)} /\ chan' = chan /\ todo' = todo
        /\ tpc' = "hc_mask" /\ tpc = "hc_init"
    BY <1>9 DEF HcInit, Goto, Runs
  <2>2. (Spared(c)' <=> Spared(c)) /\ (Ready(c)' <=> Ready(c))
    BY <1>2, <1>3, <1>6, <1>8, <2>1 DEF Spared, Down, DownLabels, ResetLabels, Ready
  <2>3. CASE c = Head(todo)
    <3>1. AtRest(c)
      BY <1>1, <1>5, <2>1, <2>3 DEF Spared, Channel
    <3>2. hcint'[c] = "none" /\ hcintmsk'[c] = {"end", "nak"} /\ c \in haintmsk'
      BY <1>7, <2>1, <2>3
    <3>3. ~Ready(c)
      BY <1>5, <2>1, <2>3 DEF Ready
    <3>4. QED
      BY <1>1, <1>2, <1>6, <2>1, <2>2, <3>1, <3>2, <3>3 DEF Channel, AtRest, Unmasked, ForEndpoint
  <2>4. CASE c # Head(todo)
    <3>1. hcint'[c] = hcint[c] /\ hcintmsk'[c] = hcintmsk[c] /\ (c \in haintmsk' <=> c \in haintmsk)
      BY <1>5, <1>7, <2>1, <2>4
    <3>2. ~Begun(c)'
      BY <2>1, <2>4 DEF Begun
    <3>3. QED
      BY <1>1, <1>2, <1>6, <2>1, <2>2, <3>1, <3>2 DEF Channel, AtRest, Unmasked, ForEndpoint
  <2>5. QED
    BY <2>3, <2>4
<1>10. CASE HcMask
  <2>1. UNCHANGED <<chanVars, haintmsk, todo>> /\ tpc' = "hc_char" /\ tpc = "hc_mask"
    BY <1>10 DEF HcMask, Goto, Runs
  <2>2. /\ (Spared(c)' <=> Spared(c)) /\ (Ready(c)' <=> Ready(c)) /\ (Begun(c)' <=> Begun(c))
    BY <1>2, <1>6, <1>8, <2>1 DEF Spared, Down, DownLabels, ResetLabels, Ready, Begun
  <2>3. UNCHANGED <<chan, hc>>
    BY <1>2, <2>1 DEF chanVars
  <2>4. QED
    BY <1>1, <1>6, <1>8, <2>1, <2>2, <2>3, ChannelMoves DEF Channel, ForEndpoint
<1>11. CASE HcChar
  <2>1. /\ chan' = [chan EXCEPT ![Head(todo)] =
                      [dev |-> hc[Head(todo)].dev, mps |-> hc[Head(todo)].mps,
                       speed |-> hc[Head(todo)].speed, chen |-> FALSE, chdis |-> FALSE]]
        /\ todo' = Tail(todo) /\ UNCHANGED <<haintmsk, hcintmsk, hcint>>
        /\ tpc' = (IF Len(todo) > 1 THEN "hc_init" ELSE "process") /\ tpc = "hc_char"
    BY <1>11 DEF HcChar, Goto, Runs, maskVars
  <2>2. (Spared(c)' => Spared(c)) /\ ~Begun(c)'
    BY <1>2, <1>3, <1>5, <1>8, <2>1 DEF Spared, Begun
  <2>3. CASE c = Head(todo)
    <3>1. AtRest(c) /\ Unmasked(c)
      BY <1>1, <1>5, <2>1, <2>3 DEF Spared, Channel, Begun
    <3>2. /\ ~chan'[c].chen /\ ~chan'[c].chdis
          /\ \A f \in {"dev", "mps", "speed"} : chan'[c][f] = hc[c][f]
      BY <1>7, <2>1, <2>3
    <3>3. QED
      BY <1>1, <1>2, <1>6, <2>1, <2>2, <3>1, <3>2 DEF Channel, AtRest, Unmasked, ForEndpoint, Ready
  <2>4. CASE c # Head(todo)
    <3>1. chan'[c] = chan[c]
      BY <1>5, <1>7, <2>1, <2>4
    <3>2. Ready(c)' => Ready(c)
      BY <1>5, <1>6, <2>1, <2>4 DEF Ready
    <3>3. QED
      BY <1>1, <1>2, <1>6, <2>1, <2>2, <3>1, <3>2 DEF Channel, AtRest, Unmasked, ForEndpoint
  <2>5. QED
    BY <2>3, <2>4
<1>12. QED
  BY <1>9, <1>10, <1>11 DEF ChannelInit

\* A transfer is started on a channel that is initialised (usb_core.c:
\* USB_OTG_HC_StartXfer).
LEMMA ChannelTransfer ==
  ASSUME Sound, Transfer, NEW c \in HostChannels
  PROVE  Channel(c)'
<1>1. Channel(c) /\ Place /\ OtgTypeOK /\ Starting
  BY DEF Sound, Steady
<1>2. UNCHANGED <<haintmsk, hcintmsk, hcint, hc, gs, address, speed, ep0size, epsize, todo>>
  BY Zenon DEF Transfer, XferOn, XferData, hostVars, maskVars
<1>3. tpc \in XferLabels /\ tpc' \in {"xfer_data", "process"}
  BY DEF Transfer, XferOn, XferData, Runs, Goto, XferLabels
<1>4. gs \in EnumStates \cup {"HOST_CLASS"}
  BY <1>1, <1>3 DEF Place
<1>5. /\ UNCHANGED <<Using(c), Endpoint(c)>> /\ (Ready(c)' <=> Using(c)) /\ (Ready(c) <=> Using(c))
      /\ ~Begun(c)' /\ gs # "HOST_IDLE"
  BY <1>2, <1>3, <1>4 DEF Using, Endpoint, Ready, Begun, InitLabels, XferLabels, EnumStates
<1>6. /\ Spared(c)' => Spared(c)
      /\ Using(c) /\ (gs = "HOST_CLASS" => c \in Bulks) => ~Spared(c)'
  BY <1>2, <1>3, <1>4 DEF Spared, Down, DownLabels, ResetLabels, InitLabels, EnumStates, Using, Ctls, Bulks
<1>7. /\ xfer.c \in HostChannels /\ Using(xfer.c) /\ (gs = "HOST_CLASS" => xfer.c \in Bulks)
      /\ tpc = "xfer_on" => xfer.char \in HCCHARs /\ ForEndpoint(xfer.char, xfer.c)
      /\ tpc = "xfer_data" => chan[xfer.c].chen
  BY <1>1, <1>3 DEF Starting
<1>8. chan \in [HostChannels -> HCCHARs] /\ fifo \in [HostChannels -> Nat]
  BY <1>1 DEF OtgTypeOK
<1>9. CASE XferOn
  <2>1. /\ tpc = "xfer_on" /\ fifo' = fifo
        /\ chan' = [chan EXCEPT ![xfer.c] = [xfer.char EXCEPT !.chen = TRUE, !.chdis = FALSE]]
    BY <1>9 DEF XferOn, Runs
  <2>2. CASE c = xfer.c
    <3>1. chan'[c] = [xfer.char EXCEPT !.chen = TRUE, !.chdis = FALSE]
      BY <1>8, <2>1, <2>2
    <3>2. /\ chan'[c].chen /\ ~chan'[c].chdis
          /\ \A f \in {"dev", "mps", "speed"} : chan'[c][f] = xfer.char[f]
      <4>1. xfer.char \in HCCHARs
        BY <1>7, <2>1
      <4>2. \A v \in HCCHARs : /\ [v EXCEPT !.chen = TRUE, !.chdis = FALSE].chen
                               /\ ~[v EXCEPT !.chen = TRUE, !.chdis = FALSE].chdis
                               /\ \A f \in {"dev", "mps", "speed"} :
                                    [v EXCEPT !.chen = TRUE, !.chdis = FALSE][f] = v[f]
        BY DEF HCCHARs
      <4>3. QED
        BY <3>1, <4>1, <4>2
    <3>3. ~Spared(c)' /\ Using(c) /\ ForEndpoint(xfer.char, c)
      BY <1>6, <1>7, <2>1, <2>2
    <3>4. QED
      BY <1>1, <1>2, <1>5, <2>1, <3>2, <3>3 DEF Channel, ForEndpoint, Unmasked
  <2>3. CASE c # xfer.c
    <3>1. chan'[c] = chan[c]
      BY <1>7, <1>8, <2>1, <2>3
    <3>2. QED
      BY <1>1, <1>2, <1>5, <1>6, <2>1, <3>1 DEF Channel, AtRest, ForEndpoint, Unmasked
  <2>4. QED
    BY <2>2, <2>3
<1>10. CASE XferData
  <2>1. /\ tpc = "xfer_data" /\ chan' = chan
        /\ fifo' = [fifo EXCEPT ![xfer.c] = @ + Words(xfer.len)]
    BY <1>10 DEF XferData, Runs
  <2>2. ~chan[c].chen => fifo'[c] = fifo[c]
    BY <1>7, <1>8, <2>1
  <2>3. QED
    BY <1>1, <1>2, <1>5, <1>6, <2>1, <2>2 DEF Channel, AtRest, ForEndpoint, Unmasked
<1>11. QED
  BY <1>9, <1>10 DEF Transfer

\* What Free says of a channel of a session (usb_hcd.c: HCD_GetURB_State).
LEMMA FreeAtRest ==
  ASSUME Sound, NEW c \in Free, gs # "HOST_IDLE"
  PROVE  AtRest(c)
<1>1. Channel(c) /\ c \in HostChannels
  BY DEF Sound, Steady, Free
<1>2. QED
  BY <1>1 DEF Channel, Free, Busy, AtRest

\* The states of USBH_Process start no channel before it is programmed.
LEMMA ChannelProcess ==
  ASSUME Sound, Process, NEW c \in HostChannels
  PROVE  Channel(c)'
<1>1. Channel(c) /\ Place /\ OtgTypeOK
  BY DEF Sound, Steady
<1>2. UNCHANGED <<chanVars, haintmsk>> /\ UNCHANGED chan /\ tpc = "process" /\ ProcessCases
  BY ProcessSplit, Zenon DEF chanVars, Runs
<1>3. (Ready(c) <=> Using(c)) /\ (gs = "HOST_IDLE" => AtRest(c))
  BY <1>1, <1>2 DEF Ready, InitLabels, Spared, Channel
<1>4. gs # "HOST_IDLE" /\ c \in Free => AtRest(c)
  BY FreeAtRest
<1>5. HostChannels = Ctls \cup Bulks /\ Ctls \cap Bulks = {}
  BY DEF HostChannels, Ctls, Bulks
<1>6. /\ ToSet(<<"ctl_out", "ctl_in">>) = Ctls /\ ToSet(<<"ctl_in", "ctl_out">>) = Ctls
      /\ ToSet(<<"bulk_out", "bulk_in">>) = Bulks
  BY DEF ToSet, Ctls, Bulks
<1> USE DEF InitLabels, EnumStates, Goto
<1>7. CASE DeInit
  <2>1. gs' = "HOST_IDLE" /\ gs # "HOST_IDLE"
        /\ IF gs = "HOST_CLASS" THEN tpc' = "if_deinit" ELSE tpc' = "hcd_init"
    BY <1>7 DEF DeInit
  <2>2. ~Spared(c)' /\ ~Using(c)' /\ ~Ready(c)'
    BY <2>1 DEF Spared, Down, DownLabels, ResetLabels, Using, Ready
  <2>3. Begun(c)' => Unmasked(c)
    BY <1>1, <1>3, <2>1 DEF Begun, Channel, Using
  <2>4. QED
    BY <1>1, <1>2, <2>1, <2>2, <2>3, ChannelMoves
<1>8. CASE IdleHost \/ Attached
  <2>1. /\ gs' \in {"HOST_WAIT_PRT_ENABLED", "HOST_DEV_ATTACHED"} /\ tpc' = "port_reset"
        /\ gs \in {"HOST_IDLE", "HOST_WAIT_PRT_ENABLED"}
    BY <1>8 DEF IdleHost, Attached, ResetIn
  <2>2. AtRest(c)
    BY <1>1, <1>2, <2>1 DEF Spared, Channel
  <2>3. ~Using(c)' /\ ~Ready(c)' /\ ~Begun(c)'
    BY <2>1 DEF Using, Ready, Begun
  <2>4. QED
    BY <1>1, <1>2, <2>2, <2>3, ChannelMoves
<1>9. CASE Request \/ BulkTransfer
  <2>1. /\ UNCHANGED <<hc, gs, address, speed, ep0size, epsize, todo>> /\ tpc' = "xfer_on"
        /\ gs \in EnumStates \cup {"HOST_CLASS"}
        /\ xfer'.c \in Outs => xfer'.c \in Free
    BY <1>9 DEF Request, BulkTransfer, Submit, hostVars, Outs
  <2>2. UNCHANGED <<Using(c), Endpoint(c)>>
    BY <2>1, Zenon DEF Using, Endpoint
  <2>3. Spared(c)' => AtRest(c)
    BY <1>1, <1>4, <2>1 DEF Spared, Channel, Down, DownLabels, ResetLabels
  <2>4. ~Begun(c)' /\ (Ready(c)' <=> Using(c)) /\ gs # "HOST_IDLE"
    BY <2>1, <2>2 DEF Begun, Ready
  <2>5. QED
    BY <1>1, <1>2, <1>3, <2>1, <2>2, <2>3, <2>4, ChannelMoves DEF Channel, ForEndpoint
<1>10. CASE SizeKnown \/ Addressed
  <2>1. /\ gs \in EnumStates /\ gs' \in EnumStates /\ Ctls \subseteq Free /\ tpc' = "hc_init"
        /\ ToSet(todo') = Ctls
    BY <1>6, <1>10 DEF SizeKnown, Addressed, Modify, Ctls
  <2>2. AtRest(c)
    BY <1>1, <1>4, <1>5, <2>1 DEF Spared, Channel
  <2>3. ~Begun(c)' /\ ~Ready(c)'
    BY <2>1 DEF Begun, Ready, Using
  <2>4. c \in Ctls => ForEndpoint(hc[c], c)
    BY <1>1, <2>1 DEF Channel, Using
  <2>5. c \in Ctls => ForEndpoint(hc[c], c)'
    <3>1. hc[c] \in [dev : Nat, mps : Nat, speed : {"full", "low"}] /\ plugged.ep0 \in Nat \ {0}
      BY <1>1 DEF OtgTypeOK, OtgCoreAssumption
    <3>2. CASE SizeKnown
      <4>1. /\ ep0size' = plugged.ep0 /\ UNCHANGED <<address, speed>>
            /\ c \in Ctls => hc'[c] = [hc[c] EXCEPT !.dev = @, !.mps = plugged.ep0]
        BY <1>6, <3>1, <3>2 DEF SizeKnown, Modify, Ctls
      <4>2. QED
        BY <2>4, <3>1, <4>1 DEF ForEndpoint, Endpoint, Ctls
    <3>3. CASE Addressed
      <4>1. /\ address' = 1 /\ UNCHANGED <<ep0size, speed>>
        BY <3>3 DEF Addressed
      <4>2. c \in Ctls => hc'[c] = [hc[c] EXCEPT !.dev = IF 1 # 0 THEN 1 ELSE @,
                                                !.mps = IF 0 # 0 THEN 0 ELSE @]
        BY <1>6, <3>3 DEF Addressed, Modify
      <4>3. c \in Ctls => /\ hc'[c].dev = 1 /\ hc'[c].mps = hc[c].mps /\ hc'[c].speed = hc[c].speed
        <5>1. ASSUME NEW v \in [dev : Nat, mps : Nat, speed : {"full", "low"}], NEW w,
                     w = [v EXCEPT !.dev = IF 1 # 0 THEN 1 ELSE @, !.mps = IF 0 # 0 THEN 0 ELSE @]
              PROVE  w.dev = 1 /\ w.mps = v.mps /\ w.speed = v.speed
          BY <5>1
        <5>2. QED
          BY <3>1, <4>2, <5>1, Zenon
      <4>4. QED
        BY <2>4, <4>1, <4>3 DEF ForEndpoint, Endpoint, Ctls
    <3>4. QED
      BY <1>10, <3>2, <3>3
  <2>6. Using(c)' => ForEndpoint(hc[c], c)'
    BY <2>1, <2>5 DEF Using
  <2>7. QED
    BY <1>1, <1>2, <2>2, <2>3, <2>6, ChannelMoves
<1>11. CASE InterfaceInit
  <2>1. /\ gs = "ENUM_GET_CFG_DESC" /\ gs' = "HOST_CLASS" /\ Ctls \subseteq Free /\ tpc' = "hc_init"
        /\ ToSet(todo') = Bulks /\ UNCHANGED <<address, speed, ep0size>> /\ epsize' = plugged.bulk
        /\ hc'[c] = IF c \in Bulks THEN [dev |-> address, mps |-> plugged.bulk, speed |-> speed]
                    ELSE hc[c]
    BY <1>6, <1>11 DEF InterfaceInit, Open, Ctls
  <2>2. AtRest(c)
    BY <1>1, <1>4, <1>5, <2>1 DEF Spared, Channel
  <2>3. ~Begun(c)' /\ (Ready(c)' => c \in Ctls)
    BY <1>5, <2>1 DEF Begun, Ready
  <2>4. c \in Ctls => Endpoint(c)' = Endpoint(c)
    BY <2>1 DEF Endpoint, Ctls
  <2>5. c \in Ctls => ForEndpoint(hc[c], c) /\ ForEndpoint(chan[c], c) /\ Unmasked(c)
    BY <1>1, <1>3, <2>1 DEF Channel, Using
  <2>6. Using(c)' => ForEndpoint(hc[c], c)'
    <3>1. CASE c \in Ctls
      BY <1>5, <2>1, <2>4, <2>5, <3>1 DEF ForEndpoint
    <3>2. CASE c \in Bulks
      BY <2>1, <3>2 DEF ForEndpoint, Endpoint, Bulks
    <3>3. QED
      BY <1>5, <3>1, <3>2
  <2>7. Ready(c)' => ForEndpoint(chan[c], c)' /\ Unmasked(c)
    BY <1>2, <2>3, <2>4, <2>5 DEF ForEndpoint
  <2>8. QED
    BY <1>1, <1>2, <2>2, <2>3, <2>6, <2>7, ChannelMoves
<1>12. QED
  BY <1>2, <1>7, <1>8, <1>9, <1>10, <1>11 DEF ProcessCases

\* Halting a channel leaves its end unmasked (usbh_cdc.c: USBH_CDC_InterfaceDeInit).
LEMMA ChannelDeInit ==
  ASSUME Sound, InterfaceDeInit, NEW c \in HostChannels
  PROVE  Channel(c)'
<1>1. Channel(c) /\ Place /\ OtgTypeOK
  BY DEF Sound, Steady
<1>2. tpc = "if_deinit" /\ tpc' \in {"if_deinit", "hcd_init"}
  BY DEF InterfaceDeInit, Runs, Goto
<1>3. /\ UNCHANGED <<hcintmsk, hcint, fifo, haintmsk, gs>>
      /\ chan' = [chan EXCEPT ![Head(todo)] = Halt(@)]
  BY DEF InterfaceDeInit, hostVars, maskVars
<1>4. gs = "HOST_IDLE" /\ todo \in BulkTodos
  BY <1>1, <1>2 DEF Place
<1>5. ~Spared(c)' /\ ~Using(c)' /\ ~Ready(c)'
  BY <1>2, <1>3, <1>4 DEF Spared, Down, DownLabels, ResetLabels, InitLabels, EnumStates, Using, Ready
<1>6. Begun(c)' => Begun(c)
  BY <1>2 DEF Begun
<1>7. Head(todo) \in Bulks
  BY <1>4, Todos
<1>8. chan \in [HostChannels -> HCCHARs]
  BY <1>1 DEF OtgTypeOK
<1>9. CASE c = Head(todo)
  <2>1. chan'[c].chen
    BY <1>3, <1>8, <1>9 DEF Halt, HCCHARs
  <2>2. Unmasked(c)
    BY <1>1, <1>2, <1>7, <1>9 DEF Channel, Begun
  <2>3. QED
    BY <1>1, <1>3, <1>4, <1>5, <2>1, <2>2 DEF Channel, Unmasked
<1>10. CASE c # Head(todo)
  <2>1. chan'[c] = chan[c]
    BY <1>3, <1>8, <1>10
  <2>2. QED
    BY <1>1, <1>3, <1>4, <1>5, <1>6, <2>1 DEF Channel, Unmasked
<1>11. QED
  BY <1>9, <1>10

\* The control channels are opened for the device that is there, all of them at
\* rest (usbh_core.c: USBH_Process, HOST_DEV_ATTACHED).
LEMMA ChannelOpened ==
  ASSUME Sound, OpenControl, NEW c \in HostChannels
  PROVE  Channel(c)'
<1>1. Channel(c) /\ Place
  BY DEF Sound, Steady
<1>2. UNCHANGED <<chanVars, haintmsk>>
  BY DEF OpenControl, maskVars
<1>3. gs = "HOST_DEV_ATTACHED"
  BY <1>1 DEF OpenControl, Runs, Place
<1>4. AtRest(c)
  BY <1>1, <1>3 DEF Channel, Spared
<1>5. ToSet(<<"ctl_in", "ctl_out">>) = Ctls
  BY DEF ToSet, Ctls
<1>6. /\ gs' = "ENUM_IDLE" /\ tpc' = "hc_init" /\ ToSet(todo') = Ctls
      /\ speed' = plugged.speed /\ UNCHANGED <<address, ep0size>>
      /\ c \in Ctls => hc'[c] = [dev |-> address, mps |-> ep0size, speed |-> plugged.speed]
  BY <1>5 DEF OpenControl, Open, Goto
<1>7. ~Begun(c)' /\ ~Ready(c)'
  BY <1>6 DEF Begun, Ready, Using, InitLabels
<1>8. Using(c)' => ForEndpoint(hc[c], c)'
  BY <1>6 DEF Using, ForEndpoint, Endpoint, Ctls
<1>9. QED
  BY <1>1, <1>2, <1>3, <1>4, <1>7, <1>8, ChannelMoves

\* Every step keeps what is true of each channel.
LEMMA ChannelStep ==
  ASSUME Sound, OtgNext, NEW c \in HostChannels
  PROVE  Channel(c)'
<1>1. CASE Port \/ IsrEnter \/ IsrPort \/ IsrPortDup \/ IsrPortAck \/ IsrDisconnect
  <2>1. UNCHANGED <<chanVars, haintmsk, tpc, todo, xfer, hostVars>>
    BY <1>1, Zenon DEF Port, IsrEnter, IsrPort, IsrPortDup, IsrPortAck, IsrDisconnect, maskVars, threadVars
  <2>2. QED
    BY <2>1, ChannelFrame DEF Sound, Steady
<1>2. QED
  BY <1>1, ChannelBus, ChannelServed, ChannelBringUp, ChannelReset, ChannelInitialised, ChannelTransfer,
     ChannelProcess, ChannelDeInit, ChannelOpened DEF OtgNext, Handler, Thread

-----------------------------------------------------------------------------
(* The FIFO *)

\* What is in the FIFO is gone when its channel ends or the FIFO is flushed, and
\* what comes in is a packet (usb_core.c: USB_OTG_HC_StartXfer).
LEMMA OnePacketStep == Sound /\ OtgNext => OnePacket'
<1> SUFFICES ASSUME Sound, OtgNext PROVE OnePacket'
  OBVIOUS
<1>1. OnePacket /\ OtgTypeOK /\ fifo \in [HostChannels -> Nat]
  BY DEF Sound, Steady, OtgTypeOK
<1>2. Words(USBH_SETUP_PKT_SIZE) \in Nat /\ Words(CmdBytes) \in Nat
  BY WordsGrow DEF USBH_SETUP_PKT_SIZE
<1>3. CASE fifo' = fifo
  BY <1>1, <1>3 DEF OnePacket
<1>4. CASE CoreReset \/ FlushFifos
  BY <1>2, <1>4 DEF CoreReset, FlushFifos, OnePacket, HostChannels
<1>5. CASE Bus
  <2>1. PICK d \in HostChannels : fifo' = [fifo EXCEPT ![d] = 0]
    BY <1>5 DEF Bus, Conclude, Halted
  <2>2. QED
    BY <1>1, <1>2, <2>1 DEF OnePacket, HostChannels
<1>6. CASE XferData
  <2>1. /\ xfer.c \in Outs /\ Words(xfer.len) \in Nat /\ fifo[xfer.c] = 0
        /\ xfer.c = "ctl_out" => Words(xfer.len) <= Words(USBH_SETUP_PKT_SIZE) /\ fifo["bulk_out"] = 0
        /\ xfer.c = "bulk_out" => Words(xfer.len) <= Words(CmdBytes) /\ fifo["ctl_out"] = 0
    <3>1. tpc = "xfer_data" /\ Sound
      BY <1>6 DEF XferData, Runs
    <3>2. fifo[xfer.c] = 0
      BY <3>1 DEF Sound, Steady, Starting, XferLabels
    <3>3. QED
      BY <3>1, <3>2, FifoSpace DEF Sound, Steady
  <2>2. fifo' = [fifo EXCEPT ![xfer.c] = @ + Words(xfer.len)]
    BY <1>6 DEF XferData
  <2>3. CASE xfer.c = "ctl_out"
    <3>1. fifo'["ctl_out"] = Words(xfer.len) /\ fifo'["bulk_out"] = 0
      BY <1>1, <2>1, <2>2, <2>3 DEF HostChannels
    <3>2. QED
      BY <1>2, <2>1, <2>3, <3>1 DEF OnePacket
  <2>4. CASE xfer.c = "bulk_out"
    <3>1. fifo'["bulk_out"] = Words(xfer.len) /\ fifo'["ctl_out"] = 0
      BY <1>1, <2>1, <2>2, <2>4 DEF HostChannels
    <3>2. QED
      BY <1>2, <2>1, <2>4, <3>1 DEF OnePacket
  <2>5. QED
    BY <2>1, <2>3, <2>4 DEF Outs
<1>7. CASE Port \/ Handler
  <2>1. fifo' = fifo
    BY <1>7, Zenon DEF Port, Handler, IsrEnter, IsrChannels, IsrPort, IsrPortDup, IsrPortAck, IsrDisconnect,
                chanVars
  <2>2. QED
    BY <1>3, <2>1
<1>8. CASE Thread
  <2>1. CoreReset \/ FlushFifos \/ XferData \/ fifo' = fifo
    BY <1>8, Zenon DEF Thread, BringUp, HcdInit, DisableGlobalInt, SetCurrentMode, DriveVbus, DriveVbusWrite,
                EnableHostInt, EnableGlobalInt, Reset, ResetPort, ResetPortEnd, DriveReset, ChannelInit,
                HcInit, HcMask, HcChar, Transfer, XferOn, Process, InterfaceDeInit, OpenControl, chanVars
  <2>2. QED
    BY <1>3, <1>4, <1>6, <2>1
<1>9. QED
  BY <1>5, <1>7, <1>8 DEF OtgNext

-----------------------------------------------------------------------------
(* The transfer that is being started *)

\* A step that leaves the transfer under way alone.
LEMMA StartingFrame ==
  ASSUME Starting, UNCHANGED <<chan, hcint, fifo, tpc, xfer, gs, address, speed, ep0size, epsize>>
  PROVE  Starting'
<1>1. UNCHANGED <<Using(xfer.c), Endpoint(xfer.c)>>
  BY Zenon DEF Using, Endpoint
<1>2. QED
  BY <1>1 DEF Starting, ForEndpoint

\* While the thread starts a transfer its channel is at work with its data still
\* to come, so the bus does not end it, and the handler has nothing to serve.
LEMMA StartingAsync ==
  ASSUME Sound, Bus \/ IsrChannels
  PROVE  Starting'
<1>1. Starting /\ OtgTypeOK
  BY DEF Sound, Steady
<1>2. UNCHANGED <<tpc, xfer, gs, address, speed, ep0size, epsize>>
  BY Zenon DEF Bus, IsrChannels, threadVars, hostVars
<1>3. UNCHANGED <<Using(xfer.c), Endpoint(xfer.c)>>
  BY <1>2, Zenon DEF Using, Endpoint
<1>4. /\ chan \in [HostChannels -> HCCHARs] /\ fifo \in [HostChannels -> Nat]
      /\ hcint \in [HostChannels -> {"none", "end", "nak", "chhltd"}]
      /\ hcintmsk \in [HostChannels -> SUBSET {"end", "nak", "chhltd"}]
  BY <1>1 DEF OtgTypeOK
<1>5. CASE tpc # "xfer_data"
  BY <1>1, <1>2, <1>3, <1>5 DEF Starting, ForEndpoint
<1>6. CASE tpc = "xfer_data"
  <2>1. /\ xfer.c \in HostChannels /\ fifo[xfer.c] = 0
        /\ chan[xfer.c].chen /\ ~chan[xfer.c].chdis /\ hcint[xfer.c] = "none"
    BY <1>1, <1>6 DEF Starting, XferLabels
  <2>2. chan'[xfer.c] = chan[xfer.c] /\ hcint'[xfer.c] = "none" /\ fifo'[xfer.c] = 0
    <3>1. CASE Bus
      <4>1. PICK d \in HostChannels : Conclude(d) \/ Halted(d)
        BY <3>1 DEF Bus
      <4>2. d # xfer.c
        BY <1>6, <2>1, <4>1 DEF Conclude, Halted
      <4>3. QED
        BY <1>4, <2>1, <4>1, <4>2 DEF Conclude, Halted
    <3>2. CASE IsrChannels
      <4>1. xfer.c \notin ChannelInts
        <5>1. "none" \notin hcintmsk[xfer.c]
          BY <1>4, <2>1
        <5>2. QED
          BY <2>1, <5>1 DEF ChannelInts
      <4>2. QED
        BY <2>1, <3>2, <4>1, Zenon DEF IsrChannels
    <3>3. QED
      BY <3>1, <3>2
  <2>3. QED
    BY <1>1, <1>2, <1>3, <1>6, <2>2 DEF Starting, ForEndpoint
<1>7. QED
  BY <1>5, <1>6

\* A transfer is submitted on a channel that is initialised, with a packet that
\* is not longer than a SETUP packet or a command (usbh_ioreq.c).
LEMMA StartingSubmit ==
  ASSUME Sound, Process, Request \/ BulkTransfer
  PROVE  Starting'
<1>1. OtgTypeOK /\ \A c \in HostChannels : Channel(c)
  BY DEF Sound, Steady
<1>2. tpc = "process" /\ chan' = chan
  BY ProcessSplit DEF Runs
<1>3. UNCHANGED <<gs, address, speed, ep0size, epsize>> /\ tpc' = "xfer_on"
  BY DEF Request, BulkTransfer, Submit, hostVars, Goto
<1>4. PICK c \in HostChannels, len \in Nat :
        /\ xfer' = [c |-> c, len |-> len, char |-> chan[c]]
        /\ Using(c) /\ (gs = "HOST_CLASS" => c \in Bulks)
        /\ c = "ctl_out" => len <= USBH_SETUP_PKT_SIZE
        /\ c = "bulk_out" => len <= CmdBytes
  <2>1. CASE Request
    <3>1. gs \in EnumStates
      BY <2>1 DEF Request, EnumStates
    <3>2. \/ \E len \in {0, USBH_SETUP_PKT_SIZE} : xfer' = [c |-> "ctl_out", len |-> len, char |-> chan["ctl_out"]]
          \/ xfer' = [c |-> "ctl_in", len |-> 0, char |-> chan["ctl_in"]]
      BY <2>1 DEF Request, Submit
    <3>3. Using("ctl_out") /\ Using("ctl_in") /\ gs # "HOST_CLASS" /\ {"ctl_out", "ctl_in"} \subseteq HostChannels
      BY <3>1 DEF Using, Ctls, EnumStates, HostChannels
    <3>4. CASE xfer' = [c |-> "ctl_in", len |-> 0, char |-> chan["ctl_in"]]
      BY <3>3, <3>4
    <3>5. CASE \E len \in {0, USBH_SETUP_PKT_SIZE} : xfer' = [c |-> "ctl_out", len |-> len, char |-> chan["ctl_out"]]
      <4>1. \A len \in {0, USBH_SETUP_PKT_SIZE} : len \in Nat /\ len <= USBH_SETUP_PKT_SIZE
        BY DEF USBH_SETUP_PKT_SIZE
      <4>2. QED
        BY <3>3, <3>5, <4>1
    <3>6. QED
      BY <3>2, <3>4, <3>5
  <2>2. CASE BulkTransfer
    <3>1. gs = "HOST_CLASS"
      BY <2>2 DEF BulkTransfer
    <3>2. Min({CmdBytes, epsize}) \in Nat /\ Min({CmdBytes, epsize}) <= CmdBytes
      BY <1>1, PacketLength DEF OtgTypeOK
    <3>3. \/ xfer' = [c |-> "bulk_out", len |-> Min({CmdBytes, epsize}), char |-> chan["bulk_out"]]
          \/ xfer' = [c |-> "bulk_in", len |-> 0, char |-> chan["bulk_in"]]
      BY <2>2 DEF BulkTransfer, Submit
    <3>4. Using("bulk_out") /\ Using("bulk_in") /\ {"bulk_out", "bulk_in"} \subseteq HostChannels
          /\ {"bulk_out", "bulk_in"} \subseteq Bulks
      BY <3>1 DEF Using, Bulks, HostChannels
    <3>5. CASE xfer' = [c |-> "bulk_out", len |-> Min({CmdBytes, epsize}), char |-> chan["bulk_out"]]
      BY <3>2, <3>4, <3>5
    <3>6. CASE xfer' = [c |-> "bulk_in", len |-> 0, char |-> chan["bulk_in"]]
      BY <3>4, <3>6
    <3>7. QED
      BY <3>3, <3>5, <3>6
  <2>3. QED
    BY <2>1, <2>2
<1>5. ForEndpoint(chan[c], c) /\ chan[c] \in HCCHARs
  <2>1. Ready(c)
    BY <1>2, <1>4 DEF Ready, InitLabels
  <2>2. QED
    BY <1>1, <2>1 DEF Channel, OtgTypeOK
<1>6. UNCHANGED <<Using(c), Endpoint(c)>>
  BY <1>3, Zenon DEF Using, Endpoint
<1>7. xfer'.c = c /\ xfer'.len = len /\ xfer'.char = chan[c]
  BY <1>4
<1>8. Using(xfer.c)' /\ ForEndpoint(xfer.char, xfer.c)'
  <2>1. Using(xfer.c)'
    BY <1>3, <1>4, <1>7 DEF Using
  <2>2. ForEndpoint(xfer.char, xfer.c)'
    BY <1>3, <1>5, <1>7 DEF ForEndpoint, Endpoint
  <2>3. QED
    BY <2>1, <2>2
<1>9. QED
  BY <1>3, <1>4, <1>5, <1>7, <1>8 DEF Starting

\* Enabling the channel keeps it at work until the data follows (usb_core.c:
\* USB_OTG_HC_StartXfer).
LEMMA StartingOn == Sound /\ XferOn => Starting'
<1> SUFFICES ASSUME Sound, XferOn PROVE Starting'
  OBVIOUS
<1>1. Starting /\ OtgTypeOK /\ \A c \in HostChannels : Channel(c)
  BY DEF Sound, Steady
<1>2. UNCHANGED <<gs, address, speed, ep0size, epsize, hcint, fifo>> /\ tpc = "xfer_on"
  BY DEF XferOn, Runs, hostVars
<1>3. CASE xfer.c \in Outs /\ xfer.len > 0
  <2>1. tpc' = "xfer_data" /\ xfer' = xfer
        /\ chan' = [chan EXCEPT ![xfer.c] = [xfer.char EXCEPT !.chen = TRUE, !.chdis = FALSE]]
    BY <1>3 DEF XferOn, Goto
  <2>2. /\ xfer.c \in HostChannels /\ xfer.char \in HCCHARs /\ chan \in [HostChannels -> HCCHARs]
    BY <1>1, <1>2 DEF Starting, XferLabels, OtgTypeOK
  <2>3. chan'[xfer.c].chen /\ ~chan'[xfer.c].chdis
    <3>1. \A v \in HCCHARs : /\ [v EXCEPT !.chen = TRUE, !.chdis = FALSE].chen
                             /\ ~[v EXCEPT !.chen = TRUE, !.chdis = FALSE].chdis
      BY DEF HCCHARs
    <3>2. QED
      BY <2>1, <2>2, <3>1
  <2>4. AtRest(xfer.c) /\ fifo[xfer.c] = 0
    <3>1. Spared(xfer.c)
      BY <1>2, <1>3 DEF Spared
    <3>2. QED
      BY <1>1, <2>2, <3>1 DEF Channel, AtRest
  <2>5. Using(xfer.c)' /\ Using(xfer.c)
    BY <1>1, <1>2, <2>1 DEF Starting, XferLabels, Using
  <2>6. QED
    BY <1>1, <1>2, <1>3, <2>1, <2>2, <2>3, <2>4, <2>5 DEF Starting, AtRest, XferLabels
<1>4. CASE ~(xfer.c \in Outs /\ xfer.len > 0)
  <2>1. tpc' = "process"
    BY <1>4 DEF XferOn, Goto
  <2>2. QED
    BY <2>1 DEF Starting, XferLabels
<1>5. QED
  BY <1>3, <1>4

\* Every step keeps what is true of the transfer being started.
LEMMA StartingStep == Sound /\ OtgNext => Starting'
<1> SUFFICES ASSUME Sound, OtgNext PROVE Starting'
  OBVIOUS
<1>1. CASE Port \/ IsrEnter \/ IsrPort \/ IsrPortDup \/ IsrPortAck \/ IsrDisconnect
  <2>1. UNCHANGED <<chan, hcint, fifo, tpc, xfer, gs, address, speed, ep0size, epsize>>
    BY <1>1, Zenon DEF Port, IsrEnter, IsrPort, IsrPortDup, IsrPortAck, IsrDisconnect, chanVars, threadVars,
                hostVars
  <2>2. QED
    BY <2>1, StartingFrame DEF Sound, Steady
<1>2. CASE Bus \/ IsrChannels
  BY <1>2, StartingAsync
<1>3. CASE Process /\ (Request \/ BulkTransfer)
  BY <1>3, StartingSubmit
<1>4. CASE XferOn
  BY <1>4, StartingOn
<1>5. CASE BringUp \/ Reset \/ ChannelInit \/ XferData \/ InterfaceDeInit \/ OpenControl
  <2>1. Place
    BY DEF Sound, Steady
  <2>2. tpc' \notin XferLabels
    <3> USE DEF XferLabels, Goto
    <3>1. CASE BringUp
      BY <3>1 DEF BringUp, HcdInit, DisableGlobalInt, CoreReset, SetCurrentMode, FlushFifos, DriveVbus,
                  DriveVbusWrite, EnableHostInt, EnableGlobalInt
    <3>2. CASE Reset
      <4>1. tpc' \in ResetLabels \/ tpc' = ret
        BY <3>2 DEF Reset, ResetPort, ResetPortEnd, DriveReset, ResetLabels
      <4>2. ret \in {"flush", "process", "open"}
        BY DEF Sound, Copied
      <4>3. QED
        BY <4>1, <4>2 DEF ResetLabels
    <3>3. CASE ChannelInit
      BY <3>3 DEF ChannelInit, HcInit, HcMask, HcChar
    <3>4. CASE XferData \/ InterfaceDeInit \/ OpenControl
      BY <3>4 DEF XferData, InterfaceDeInit, OpenControl, Open
    <3>5. QED
      BY <1>5, <3>1, <3>2, <3>3, <3>4
  <2>3. QED
    BY <2>2 DEF Starting
<1>6. CASE Process /\ ~(Request \/ BulkTransfer)
  <2>1. DeInit \/ IdleHost \/ Attached \/ SizeKnown \/ Addressed \/ InterfaceInit
    BY <1>6, ProcessSplit DEF ProcessCases
  <2>2. tpc' \notin XferLabels
    BY <2>1 DEF DeInit, IdleHost, Attached, SizeKnown, Addressed, InterfaceInit, ResetIn, Open, Modify,
                Goto, XferLabels
  <2>3. QED
    BY <2>2 DEF Starting
<1>7. QED
  BY <1>1, <1>2, <1>3, <1>4, <1>5, <1>6 DEF OtgNext, Handler, Thread, Transfer

-----------------------------------------------------------------------------
(* The invariant *)

\* After a reset the core does nothing and the thread is about to bring it up.
LEMMA SoundInit == OtgInit => Sound
<1> SUFFICES ASSUME OtgInit PROVE Sound
  OBVIOUS
<1>1. OtgTypeOK /\ Copied
  BY TypeInit, CopiedInit
<1>2. Place /\ Masks /\ Hearing /\ Starting
  BY DEF OtgInit, Place, Masks, Hearing, Starting, Down, DownLabels, ResetLabels, InitLabels, XferLabels,
         InHandler, Off
<1>3. ASSUME NEW c \in HostChannels PROVE Channel(c)
  <2>1. /\ chan[c] = NoChan /\ hcint[c] = "none" /\ fifo[c] = 0
        /\ gs = "HOST_IDLE" /\ tpc = "hcd_init"
    BY DEF OtgInit
  <2>2. QED
    BY <2>1 DEF Channel, NoChan, AtRest, Using, Ready, Begun, EnumStates
<1>4. OnePacket
  <2>1. Words(USBH_SETUP_PKT_SIZE) \in Nat /\ Words(CmdBytes) \in Nat
    BY WordsGrow DEF USBH_SETUP_PKT_SIZE
  <2>2. QED
    BY <2>1 DEF OtgInit, OnePacket, HostChannels
<1>5. QED
  BY <1>1, <1>2, <1>3, <1>4 DEF Sound, Steady

\* Every step keeps the invariant.
LEMMA SoundStep == Sound /\ [OtgNext]_otgVars => Sound'
<1> SUFFICES ASSUME Sound, [OtgNext]_otgVars PROVE Sound'
  OBVIOUS
<1>1. CASE OtgNext
  <2>1. Copied'
    BY <1>1, CopiedStep DEF Sound
  <2>2. \A c \in HostChannels : Channel(c)'
    BY <1>1, ChannelStep
  <2>3. QED
    BY <1>1, <2>1, <2>2, TypeStep, PlaceStep, MasksStep, HearingStep, OnePacketStep, StartingStep
       DEF Sound, Steady
<1>2. CASE UNCHANGED otgVars
  <2>1. Copied'
    BY <1>2, CopiedStep DEF Sound
  <2>2. UNCHANGED <<deviceVars_, hprt, mode, discint, maskVars, chanVars, hostVars, threadVars, isrVars>>
    BY <1>2 DEF otgVars
  <2>3. OtgTypeOK'
    BY <2>2, Zenon DEF Sound, Steady, OtgTypeOK, deviceVars_, maskVars, chanVars, hostVars, threadVars, isrVars
  <2>4. Place' /\ Masks' /\ Hearing'
    BY <2>2 DEF Sound, Steady, Place, Masks, Hearing, Down, InHandler, deviceVars_, maskVars, hostVars,
                threadVars, isrVars
  <2>5. ASSUME NEW c \in HostChannels PROVE Channel(c)'
    BY <2>2, ChannelFrame DEF Sound, Steady, maskVars, threadVars
  <2>6. OnePacket' /\ Starting'
    BY <2>2, StartingFrame DEF Sound, Steady, OnePacket, chanVars, hostVars, threadVars
  <2>7. QED
    BY <2>1, <2>3, <2>4, <2>5, <2>6 DEF Sound, Steady
<1>3. QED
  BY <1>1, <1>2

-----------------------------------------------------------------------------
(* The parts *)

\* The port's loss is heard (usb_hcd_int.c): an enabled port is one the handler
\* has unmasked DISCINT for, or is about to.
LEMMA LossHeard == Sound => Heard
<1> SUFFICES ASSUME Sound, hprt.ena, glbl, ~InHandler PROVE IrqPending \/ "disconnect" \in gintmsk
  BY DEF Heard
<1>1. Masks /\ Hearing /\ Copied
  BY DEF Sound, Steady
<1>2. port = "hprt0" /\ "portintr" \in gintmsk
  BY <1>1, Returned DEF Masks
<1>3. QED
  BY <1>1, <1>2 DEF Hearing, IrqPending, Pending

\* A channel that is enabled is used: it speaks to its endpoint, and its end is
\* unmasked (usb_core.c: USB_OTG_HC_Init).
LEMMA EnabledUsed ==
  ASSUME Sound, NEW c \in HostChannels, chan[c].chen, gs # "HOST_IDLE"
  PROVE  Ready(c)
<1>1. Channel(c) /\ OtgTypeOK
  BY DEF Sound, Steady
<1>2. ~Spared(c)
  BY <1>1 DEF Channel, AtRest
<1>3. gs \in EnumStates \cup {"HOST_CLASS"}
  BY <1>1, <1>2 DEF OtgTypeOK, Spared
<1>4. QED
  BY <1>2, <1>3 DEF Spared, Ready, Using, Ctls, Bulks, HostChannels

\* A channel at work is programmed for the endpoint that the host means.
LEMMA AllProgrammed == Sound => Programmed
<1> SUFFICES ASSUME Sound, NEW c \in HostChannels, chan[c].chen, gs # "HOST_IDLE"
             PROVE  ForEndpoint(chan[c], c)
  BY DEF Programmed, ForEndpoint
<1>1. Ready(c) /\ Channel(c)
  BY EnabledUsed DEF Sound, Steady
<1>2. QED
  BY <1>1 DEF Channel

\* The end of a channel at work is unmasked at every level.
LEMMA EndsHeard == Sound => Ends
<1> SUFFICES ASSUME Sound, NEW c \in HostChannels, chan[c].chen, glbl
             PROVE  /\ mode = "host" /\ "hcintr" \in gintmsk /\ c \in haintmsk
                    /\ "end" \in hcintmsk[c]
                    /\ (chan[c].chdis /\ gs # "HOST_IDLE" => "chhltd" \in hcintmsk[c])
  BY DEF Ends
<1>1. Masks /\ Channel(c)
  BY DEF Sound, Steady
<1>2. QED
  BY <1>1 DEF Masks, Channel, Unmasked

\* What a transfer puts into a FIFO has space there.
LEMMA FifoFits == Sound => Fits
<1> SUFFICES ASSUME Sound PROVE Fits
  OBVIOUS
<1>1. OnePacket /\ fifo["ctl_out"] \in Nat /\ fifo["bulk_out"] \in Nat
      /\ gintmsk \in SUBSET {"hcintr", "portintr", "disconnect"}
  BY DEF Sound, Steady, OtgTypeOK, HostChannels
<1>2. Words(USBH_SETUP_PKT_SIZE) \in Nat /\ Words(CmdBytes) \in Nat
  BY WordsGrow DEF USBH_SETUP_PKT_SIZE
<1>3. Space >= 0
  BY <1>1, <1>2 DEF OnePacket, Space
<1>4. QED
  BY <1>1, <1>3 DEF Fits

\* Whatever the thread, the handler and the core do between each other's accesses:
\* the loss of an enabled port is heard, a channel at work speaks to the endpoint
\* the host means and its end is heard, and the FIFO has space for what is sent.
THEOREM RegistersAreSound == OtgSpec => []RegistersSound
<1>1. Sound => RegistersSound
  BY LossHeard, AllProgrammed, EndsHeard, FifoFits DEF RegistersSound, Sound
<1>2. QED
  BY <1>1, SoundInit, SoundStep, PTL DEF OtgSpec
=============================================================================
