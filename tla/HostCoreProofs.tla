--------------------------- MODULE HostCoreProofs ---------------------------
(***************************************************************************)
(* Proofs, for every number of plugs, bounces and glitches and for both    *)
(* readings of DropIsJoint, that the main loop never tests another device  *)
(* than the one it enumerated, and that no session keeps a channel.        *)
(***************************************************************************)
EXTENDS HostCore, FiniteSetTheorems, TLAPS

USE HostCoreAssumption

\* USBH_Alloc_Channel returns a channel number or HC_ERROR, whatever is taken
\* (usbh_hcs.c): the search of USBH_GetFreeChannel stops at the first free one.
LEMMA GetFreeChannelType ==
  ASSUME NEW used \in [Channels -> BOOLEAN]
  PROVE  GetFreeChannel(used) \in HcNums
<1> DEFINE First(i) == ~used[i] /\ \A j \in Channels : j < i => used[j]
<1>1. CASE \A i \in Channels : used[i]
  BY <1>1 DEF GetFreeChannel, HcNums
<1>2. CASE \E i \in Channels : ~used[i]
  <2>1. \E i \in Channels : First(i)
    <3>1. Channels = {0, 1, 2, 3, 4, 5, 6, 7}
      BY DEF Channels, HC_MAX
    <3>2. QED
      BY <1>2, <3>1
  <2>2. (CHOOSE i \in Channels : First(i)) \in Channels
    BY <2>1, Zenon
  <2>3. QED
    BY <1>2, <2>2 DEF GetFreeChannel, HcNums
<1>3. QED
  BY <1>1, <1>2

\* Taking and freeing a channel leave one used bit per channel (usbh_hcs.c).
LEMMA ChannelBitsType ==
  ASSUME NEW used \in [Channels -> BOOLEAN], NEW hc
  PROVE  /\ Allocate(used, hc) \in [Channels -> BOOLEAN]
         /\ Free(used, hc) \in [Channels -> BOOLEAN]
BY DEF Allocate, Free

\* Which channels are taken when the first n are (usbh_hcs.c).
LEMMA FirstChannels ==
  ASSUME NEW n \in 0 .. HC_MAX, NEW used, used = [i \in Channels |-> i < n], NEW i \in Channels
  PROVE  used[i] <=> i < n
<1>1. used[i] = (i < n)
  BY Zenon
<1>2. QED
  BY <1>1

\* None is when all the bits are cleared (usbh_hcs.c: USBH_DeAllocate_AllChannel).
LEMMA NoChannelTaken ==
  \A used : (used = [i \in Channels |-> FALSE]) <=> (used = [i \in Channels |-> i < 0])
<1>1. \A i \in Channels : (i < 0) = FALSE
  BY DEF Channels
<1>2. QED
  BY <1>1, Zenon

\* With the first n channels taken the next one is n (usbh_hcs.c:
\* USBH_GetFreeChannel, USBH_Alloc_Channel).
LEMMA NextChannel ==
  ASSUME NEW n \in 0 .. HC_MAX - 1, NEW used, used = [i \in Channels |-> i < n]
  PROVE  /\ GetFreeChannel(used) = n
         /\ Allocate(used, n) = [i \in Channels |-> i < n + 1]
<1> USE DEF HC_MAX, Channels
<1>1. ~used[n] /\ \A j \in Channels : used[j] <=> j < n
  <2>1. n \in 0 .. HC_MAX /\ n \in Channels
    OBVIOUS
  <2>2. \A j \in Channels : used[j] <=> j < n
    BY <2>1, FirstChannels
  <2>3. QED
    BY <2>1, <2>2
<1>2. GetFreeChannel(used) = n
  <2>1. \A i \in Channels : ~used[i] /\ (\A j \in Channels : j < i => used[j]) <=> i = n
    BY <1>1
  <2>2. QED
    BY <1>1, <2>1 DEF GetFreeChannel
<1>3. Allocate(used, n) = [i \in Channels |-> i < n + 1]
  <2>1. \A i \in Channels : (used[i] \/ i = n) <=> i < n + 1
    BY <1>1
  <2>2. \A i \in Channels : (used[i] \/ i = n) = (i < n + 1)
    BY <2>1, <1>1
  <2>3. QED
    BY <2>2, Zenon DEF Allocate
<1>4. QED
  BY <1>2, <1>3

\* A session takes two channels one after the other (usbh_core.c
\* HOST_DEV_ATTACHED, usbh_cdc.c USBH_CDC_InterfaceInit).
LEMMA TwoChannels ==
  ASSUME NEW n \in {0, 2}, FirstTaken(n)
  PROVE  LET out  == GetFreeChannel(channel)
             used == Allocate(channel, out)
             in   == GetFreeChannel(used)
         IN  out = n /\ in = n + 1 /\ Allocate(used, in) = [i \in Channels |-> i < n + 2]
<1> DEFINE used == Allocate(channel, n)
<1>1. GetFreeChannel(channel) = n /\ used = [i \in Channels |-> i < n + 1]
  BY NextChannel DEF FirstTaken, HC_MAX
<1>2. GetFreeChannel(used) = n + 1 /\ Allocate(used, n + 1) = [i \in Channels |-> i < n + 1 + 1]
  BY <1>1, NextChannel DEF HC_MAX
<1>3. QED
  BY <1>1, <1>2

-----------------------------------------------------------------------------
(* The parties' steps.  What a party leaves alone is listed in the tuples    *)
(* its actions leave UNCHANGED.                                              *)

\* Power on establishes the invariant (main.c, usbh_core.c: USBH_Init).
LEMMA InitIInv == Init => IInv
<1> SUFFICES ASSUME Init PROVE IInv
  OBVIOUS
<1>1. PortTypeOK /\ RegTypeOK
  BY DEF Init, PortTypeOK, RegTypeOK
<1>2. CountTypeOK
  BY DEF Init, CountTypeOK
<1>3. HostTypeOK /\ AppTypeOK
  BY DEF Init, HostTypeOK, AppTypeOK, HostStates, Labels
<1>4. ChannelTypeOK
  <2>1. channel \in [Channels -> BOOLEAN]
    BY DEF Init
  <2>2. QED
    BY <2>1 DEF Init, ChannelTypeOK, HcNums, Channels, HC_MAX
<1>5. ThreadInv /\ PortInv /\ SessionInv
  BY DEF Init, ThreadInv, PortInv, SessionInv, Enumerating, Configured
<1>6. ChannelInv
  <2>1. FirstTaken(0)
    BY NoChannelTaken DEF Init, FirstTaken
  <2>2. QED
    BY <2>1 DEF Init, ChannelInv, Enumerating
<1>7. QED
  BY <1>1, <1>2, <1>3, <1>4, <1>5, <1>6 DEF IInv, TypeOK

\* The world's steps: every unplugging is latched while the port is powered
\* (the OTG core, as usb_hcd_int.c reads it).
LEMMA WorldIInv == IInv /\ World => IInv'
<1> SUFFICES ASSUME IInv, World PROVE IInv'
  OBVIOUS
<1> USE DEF hwVars, isrVars, hostVars, chanVars, appVars, history
<1>1. TypeOK'
  <2> USE DEF World, Plug, Unplug, PortDrop, HcISR, IInv, TypeOK
  <2>1. PortTypeOK'     BY DEF PortTypeOK
  <2>2. RegTypeOK'      BY DEF RegTypeOK
  <2>3. CountTypeOK'    BY DEF CountTypeOK
  <2>4. HostTypeOK'     BY DEF HostTypeOK
  <2>5. ChannelTypeOK'  BY DEF ChannelTypeOK
  <2>6. AppTypeOK'      BY DEF AppTypeOK
  <2>7. QED             BY <2>1, <2>2, <2>3, <2>4, <2>5, <2>6
<1>2. ThreadInv'
  BY DEF World, Plug, Unplug, PortDrop, HcISR, IInv, ThreadInv
<1>3. PortInv'
  BY DEF World, Plug, Unplug, PortDrop, HcISR, IInv, PortInv
<1>4. SessionInv'
  <2> USE DEF IInv, PortInv, SessionInv, Enumerating, Configured
  <2>1. CASE Plug      BY <2>1 DEF Plug
  <2>2. CASE Unplug    BY <2>2 DEF Unplug
  <2>3. CASE PortDrop  BY <2>3 DEF PortDrop
  <2>4. CASE HcISR     BY <2>4 DEF HcISR, IrqPending, TypeOK, RegTypeOK
  <2>5. QED            BY <2>1, <2>2, <2>3, <2>4 DEF World
<1>5. ChannelInv'
  BY DEF World, Plug, Unplug, PortDrop, HcISR, IInv, ChannelInv, FirstTaken
<1>6. QED
  BY <1>1, <1>2, <1>3, <1>4, <1>5 DEF IInv

\* The handler's step (usb_hcd_int.c: USBH_OTG_ISR_Handler).
LEMMA IsrIInv == IInv /\ ISR => IInv'
<1> SUFFICES ASSUME IInv, ISR PROVE IInv'
  OBVIOUS
<1> USE DEF ISR, Disconnect, NextConnSts, NextPortEnabled, hostVars, chanVars, appVars, history, IInv, TypeOK
<1>1. TypeOK'
  <2>1. PortTypeOK'     BY DEF PortTypeOK
  <2>2. RegTypeOK'      BY DEF RegTypeOK
  <2>3. CountTypeOK'    BY DEF CountTypeOK
  <2>4. HostTypeOK'     BY DEF HostTypeOK
  <2>5. ChannelTypeOK'  BY DEF ChannelTypeOK
  <2>6. AppTypeOK'      BY DEF AppTypeOK
  <2>7. QED             BY <2>1, <2>2, <2>3, <2>4, <2>5, <2>6
<1>2. ThreadInv'
  BY DEF ThreadInv
<1>3. PortInv'
  BY DEF PortInv, IrqPending, RegTypeOK
<1>4. SessionInv'
  BY DEF PortInv, SessionInv, IrqPending, RegTypeOK, Enumerating, Configured
<1>5. ChannelInv'
  BY DEF ChannelInv, FirstTaken
<1>6. QED
  BY <1>1, <1>2, <1>3, <1>4, <1>5

\* A reset puts every variable but the world's where Init has it (main.c).
LEMMA SystemResetIInv == IInv /\ SystemReset => IInv'
<1> SUFFICES ASSUME IInv, SystemReset PROVE IInv'
  OBVIOUS
<1> USE DEF SystemReset, Goto, history
<1>1. TypeOK'
  <2> USE DEF IInv, TypeOK
  <2>1. PortTypeOK'     BY DEF PortTypeOK
  <2>2. RegTypeOK'      BY DEF RegTypeOK
  <2>3. CountTypeOK'    BY DEF CountTypeOK
  <2>4. HostTypeOK'     BY DEF HostTypeOK, HostStates
  <2>5. ChannelTypeOK'
    <3>1. channel' \in [Channels -> BOOLEAN]
      OBVIOUS
    <3>2. QED
      BY <3>1 DEF ChannelTypeOK, HcNums, Channels, HC_MAX
  <2>6. AppTypeOK'      BY DEF AppTypeOK, Labels
  <2>7. QED             BY <2>1, <2>2, <2>3, <2>4, <2>5, <2>6
<1>2. ThreadInv' /\ PortInv' /\ SessionInv'
  BY DEF ThreadInv, PortInv, SessionInv, Enumerating, Configured
<1>3. ChannelInv'
  <2>1. FirstTaken(0)'
    BY NoChannelTaken DEF FirstTaken
  <2>2. QED
    BY <2>1 DEF ChannelInv, Enumerating
<1>4. QED
  BY <1>1, <1>2, <1>3 DEF IInv

\* USBH_Process leaves every variable in its type: the channel operators are
\* all it needs to be told about.
LEMMA ProcessType == TypeOK /\ Process => TypeOK'
<1> SUFFICES ASSUME TypeOK, Process PROVE TypeOK'
  OBVIOUS
<1> USE DEF hwVars, isrVars, hostVars, chanVars, appVars, history, Goto,
            Process, CheckPort, PortLost, HostIdle, HostWaitPortEnabled, HostDevAttached,
            ResetPort, ResetPortEnd, HostEnumeration, HostCtrlXfer,
            HostUsrInput, HostClassRequest, HostClass, HostDevDisconnected,
            DeviceDisconnected, DeInit, HcdInit, CoreReset, CoreInitHost
<1>1. PortTypeOK'   BY DEF TypeOK, PortTypeOK
<1>2. RegTypeOK'    BY DEF TypeOK, RegTypeOK
<1>3. CountTypeOK'  BY DEF TypeOK, CountTypeOK
<1>4. HostTypeOK'   BY DEF TypeOK, HostTypeOK, HostStates
<1>5. ChannelTypeOK'
  <2>1. CASE HostDevAttached
    <3>1. GetFreeChannel(channel) \in HcNums
      BY GetFreeChannelType DEF TypeOK, ChannelTypeOK
    <3>2. Allocate(channel, GetFreeChannel(channel)) \in [Channels -> BOOLEAN]
      BY ChannelBitsType DEF TypeOK, ChannelTypeOK
    <3>3. hc_num_out' \in HcNums /\ hc_num_in' \in HcNums
      BY <2>1, <3>1, <3>2, GetFreeChannelType
    <3>4. channel' \in [Channels -> BOOLEAN]
      BY <2>1, <3>2, ChannelBitsType
    <3>5. QED
      BY <2>1, <3>3, <3>4 DEF TypeOK, ChannelTypeOK
  <2>2. CASE \E isCdc \in BOOLEAN : HostUsrInput(isCdc)
    <3>1. GetFreeChannel(channel) \in HcNums
      BY GetFreeChannelType DEF TypeOK, ChannelTypeOK
    <3>2. Allocate(channel, GetFreeChannel(channel)) \in [Channels -> BOOLEAN]
      BY ChannelBitsType DEF TypeOK, ChannelTypeOK
    <3>3. OutPipe' \in HcNums /\ InPipe' \in HcNums
      BY <2>2, <3>1, <3>2, GetFreeChannelType DEF TypeOK, ChannelTypeOK
    <3>4. channel' \in [Channels -> BOOLEAN]
      BY <2>2, <3>2, ChannelBitsType DEF TypeOK, ChannelTypeOK
    <3>5. QED
      BY <2>2, <3>3, <3>4 DEF TypeOK, ChannelTypeOK
  <2>3. CASE HostDevDisconnected
    <3>1. channel' \in [Channels -> BOOLEAN]
      BY <2>3, ChannelBitsType DEF TypeOK, ChannelTypeOK
    <3>2. QED
      BY <2>3, <3>1 DEF TypeOK, ChannelTypeOK, HcNums, Channels, HC_MAX
  <2>4. CASE UNCHANGED chanVars
    BY <2>4 DEF TypeOK, ChannelTypeOK
  <2>5. QED
    BY <2>1, <2>2, <2>3, <2>4
<1>6. AppTypeOK'    BY DEF TypeOK, AppTypeOK, Labels
<1>7. QED
  BY <1>1, <1>2, <1>3, <1>4, <1>5, <1>6 DEF TypeOK

\* The steps of USBH_Process (usbh_core.c).
LEMMA ProcessInv ==
  IInv /\ Process => (ThreadInv /\ PortInv /\ SessionInv)'
<1> SUFFICES ASSUME IInv, Process
             PROVE  ThreadInv' /\ PortInv' /\ SessionInv'
  OBVIOUS
<1> USE DEF hwVars, isrVars, hostVars, chanVars, appVars, history, Goto, Runs
<1> USE DEF IInv, TypeOK, RegTypeOK, PortTypeOK, ThreadInv, PortInv, SessionInv,
            Enumerating, Configured
<1>1. CASE CheckPort
  BY <1>1 DEF CheckPort, PortLost
<1>2. CASE HostIdle
  BY <1>2 DEF HostIdle
<1>3. CASE HostWaitPortEnabled
  BY <1>3 DEF HostWaitPortEnabled
<1>4. CASE HostDevAttached
  BY <1>4 DEF HostDevAttached
<1>5. CASE ResetPort
  BY <1>5 DEF ResetPort
<1>6. CASE ResetPortEnd
  BY <1>6 DEF ResetPortEnd
<1>7. CASE HostEnumeration
  BY <1>7 DEF HostEnumeration
<1>8. CASE \E configured \in BOOLEAN : HostCtrlXfer(configured)
  BY <1>8 DEF HostCtrlXfer
<1>9. CASE \E isCdc \in BOOLEAN : HostUsrInput(isCdc)
  BY <1>9 DEF HostUsrInput
<1>10. CASE HostClassRequest
  BY <1>10 DEF HostClassRequest
<1>11. CASE HostClass
  BY <1>11 DEF HostClass
<1>12. CASE HostDevDisconnected
  BY <1>12 DEF HostDevDisconnected, DeviceDisconnected, DeInit
<1>13. CASE HcdInit
  BY <1>13 DEF HcdInit
<1>14. CASE CoreReset
  BY <1>14 DEF CoreReset
<1>15. CASE CoreInitHost
  BY <1>15 DEF CoreInitHost
<1>16. QED
  BY <1>1, <1>2, <1>3, <1>4, <1>5, <1>6, <1>7, <1>8, <1>9, <1>10,
     <1>11, <1>12, <1>13, <1>14, <1>15 DEF Process

\* The channels over the steps of USBH_Process: two are taken for the control
\* pipe, two more for a CDC interface, and a disconnect frees them.
LEMMA ProcessChannels == IInv /\ Process => ChannelInv'
<1> SUFFICES ASSUME IInv, Process PROVE ChannelInv'
  OBVIOUS
<1> USE DEF hwVars, isrVars, hostVars, chanVars, appVars, history, Goto, Runs
<1>1. ThreadInv /\ ChannelInv /\ channel \in [Channels -> BOOLEAN]
  BY DEF IInv, TypeOK, ChannelTypeOK
<1>2. CASE HostDevAttached
  <2>1. FirstTaken(0)
    BY <1>1, <1>2 DEF HostDevAttached, ChannelInv
  <2>2. hc_num_out' = 0 /\ hc_num_in' = 0 + 1 /\ channel' = [i \in Channels |-> i < 0 + 2]
    BY <1>2, <2>1, TwoChannels DEF HostDevAttached
  <2>3. FirstTaken(2)' /\ hc_num_in' = 1
    BY <2>2 DEF FirstTaken
  <2>4. QED
    BY <1>2, <2>2, <2>3 DEF HostDevAttached, ChannelInv
<1>3. CASE HostUsrInput(TRUE)
  <2>1. FirstTaken(2)
    BY <1>1, <1>3 DEF HostUsrInput, ChannelInv
  <2>2. OutPipe' = 2 /\ InPipe' = 2 + 1 /\ channel' = [i \in Channels |-> i < 2 + 2]
    BY <1>3, <2>1, TwoChannels DEF HostUsrInput
  <2>3. FirstTaken(4)' /\ InPipe' = 3
    BY <2>2 DEF FirstTaken
  <2>4. hc_num_out = 0 /\ hc_num_in = 1
    <3>1. ~FirstTaken(0)
      <4>1. 0 \in Channels /\ 0 \in 0 .. HC_MAX /\ 2 \in 0 .. HC_MAX
        BY DEF Channels, HC_MAX
      <4>2. channel[0]
        BY <2>1, <4>1, FirstChannels DEF FirstTaken
      <4>3. FirstTaken(0) => ~channel[0]
        BY <4>1, FirstChannels DEF FirstTaken
      <4>4. QED
        BY <4>2, <4>3
    <3>2. QED
      BY <1>1, <3>1 DEF ChannelInv
  <2>5. QED
    BY <1>3, <2>2, <2>3, <2>4 DEF HostUsrInput, ChannelInv, Enumerating
<1>4. CASE HostUsrInput(FALSE)
  BY <1>1, <1>4 DEF HostUsrInput, ChannelInv, FirstTaken, Enumerating
<1>5. CASE HostDevDisconnected
  <2>1. FirstTaken(0) \/ (hc_num_out = 0 /\ hc_num_in = 1)
    BY <1>1 DEF ChannelInv
  <2>2. FirstTaken(0)'
    <3> DEFINE ctl == Free(Free(channel, hc_num_in), hc_num_out)
               out == IF OutPipe # 0 THEN Free(ctl, OutPipe) ELSE ctl
               all == IF InPipe # 0 THEN Free(out, InPipe) ELSE out
    <3>1. \A i \in Channels : i < 2 => ~ctl[i]
      <4>1. CASE FirstTaken(0)
        <5>1. \A i \in Channels : ~channel[i]
          <6>1. 0 \in 0 .. HC_MAX /\ \A i \in Channels : ~(i < 0)
            BY DEF Channels, HC_MAX
          <6>2. QED
            BY <4>1, <6>1, FirstChannels DEF FirstTaken
        <5>2. QED
          BY <5>1 DEF Free
      <4>2. CASE hc_num_out = 0 /\ hc_num_in = 1
        <5>1. \A i \in Channels : i < 2 => i = hc_num_in \/ i = hc_num_out
          BY <4>2 DEF Channels, HC_MAX
        <5>2. \A i \in Channels : ctl[i] = ((channel[i] /\ i # hc_num_in) /\ i # hc_num_out)
          BY Zenon DEF Free
        <5>3. \A i \in Channels : i = hc_num_in \/ i = hc_num_out => ~ctl[i]
          BY <5>2, Zenon
        <5>4. QED
          BY <5>1, <5>3, Zenon
      <4>3. QED
        BY <2>1, <4>1, <4>2
    <3>2. \A i \in Channels : ctl[i] = FALSE => all[i] = FALSE
      BY DEF Free
    <3>3. channel' = [i \in Channels |-> i < 2 /\ all[i]]
      BY <1>5 DEF HostDevDisconnected
    <3>4. \A i \in Channels : (i < 2 /\ all[i]) = (i < 0)
      <4>1. \A i \in Channels : ~(i < 0)
        BY DEF Channels, HC_MAX
      <4>2. \A i \in Channels : i < 2 => all[i] = FALSE
        BY <3>1, <3>2 DEF Free
      <4>3. QED
        BY <4>1, <4>2
    <3>5. QED
      BY <3>3, <3>4, Zenon DEF FirstTaken
  <2>3. gState' = "HOST_IDLE"
    BY <1>5 DEF HostDevDisconnected, DeInit
  <2>4. QED
    BY <2>2, <2>3 DEF ChannelInv, Enumerating
<1>6. CASE HostIdle
  BY <1>1, <1>6 DEF HostIdle, ChannelInv, FirstTaken, Enumerating
<1>7. CASE CheckPort
  BY <1>1, <1>7 DEF CheckPort, PortLost, ChannelInv, FirstTaken, Enumerating
<1>8. CASE HostWaitPortEnabled
  BY <1>1, <1>8 DEF HostWaitPortEnabled, ChannelInv, FirstTaken, Enumerating
<1>9. CASE ResetPort \/ ResetPortEnd
  BY <1>1, <1>9 DEF ResetPort, ResetPortEnd, ChannelInv, FirstTaken, Enumerating
<1>10. CASE HostEnumeration \/ \E configured \in BOOLEAN : HostCtrlXfer(configured)
  BY <1>1, <1>10 DEF HostEnumeration, HostCtrlXfer, ChannelInv, ThreadInv, FirstTaken, Enumerating
<1>11. CASE HostClassRequest \/ HostClass
  BY <1>1, <1>11 DEF HostClassRequest, HostClass, ChannelInv, FirstTaken, Enumerating
<1>12. CASE HcdInit \/ CoreReset \/ CoreInitHost
  BY <1>1, <1>12 DEF HcdInit, CoreReset, CoreInitHost, ChannelInv, ThreadInv, FirstTaken, Enumerating
<1>13. CASE \E isCdc \in BOOLEAN : HostUsrInput(isCdc)
  BY <1>3, <1>4, <1>13
<1>14. QED
  BY <1>2, <1>5, <1>6, <1>7, <1>8, <1>9, <1>10, <1>11, <1>12, <1>13 DEF Process

\* One step of USBH_Process (usbh_core.c).
LEMMA ProcessIInv == IInv /\ Process => IInv'
BY ProcessType, ProcessInv, ProcessChannels DEF IInv

\* When main's loop finds the connection good, the device that was enumerated
\* is still the one on the port.
LEMMA ConnectedDevice ==
  IInv /\ Runs("loop") /\ Connected => gState = "HOST_CLASS" /\ plugged /\ dev = enumDev
BY DEF IInv, ThreadInv, SessionInv, Configured, Runs, Connected, IrqPending

\* The steps of main's loop and of _error (main.c).
LEMMA MainIInv == IInv /\ Main => IInv'
<1> SUFFICES ASSUME IInv, Main PROVE IInv'
  OBVIOUS
<1>1. CASE SystemReset
  BY <1>1, SystemResetIInv
<1>2. CASE LoopNotConnected /\ state = 0
  <2> USE <1>2 DEF LoopNotConnected, TestUnderWay, Runs, Goto, hwVars, isrVars, hostVars,
          chanVars, appVars, history, IInv
  <2>1. TypeOK'
    BY DEF TypeOK, PortTypeOK, RegTypeOK, CountTypeOK, HostTypeOK,
           ChannelTypeOK, AppTypeOK, Labels
  <2>2. ThreadInv' /\ PortInv' /\ SessionInv'
    BY DEF ThreadInv, PortInv, SessionInv
  <2>3. ChannelInv'
    BY DEF ChannelInv, FirstTaken
  <2>4. QED
    BY <2>1, <2>2, <2>3
<1>3. CASE \E failed \in BOOLEAN : LoopConnected(failed)
  <2>1. gState = "HOST_CLASS" /\ plugged /\ dev = enumDev
    BY <1>3, ConnectedDevice DEF LoopConnected
  <2> USE <1>3 DEF LoopConnected, Runs, Goto, hwVars, isrVars, hostVars,
          chanVars, IInv
  <2>2. TypeOK'
    BY DEF TypeOK, PortTypeOK, RegTypeOK, CountTypeOK, HostTypeOK,
           ChannelTypeOK, AppTypeOK, Labels
  <2>3. ThreadInv' /\ PortInv'
    BY <2>1 DEF ThreadInv, PortInv
  <2>4. SessionInv'
    BY <2>1 DEF SessionInv, Configured, Enumerating
  <2>5. ChannelInv'
    BY <2>1 DEF ChannelInv, FirstTaken, Enumerating
  <2>6. QED
    BY <2>2, <2>3, <2>4, <2>5
<1>4. QED
  BY <1>1, <1>2, <1>3 DEF Main, LoopNotConnected, TestUnderWay, ErrorLoop

-----------------------------------------------------------------------------
(* The theorems                                                              *)

\* The invariant holds in every reachable state of host, handler and port.
THEOREM Inductive == Spec => []IInv
<1>1. IInv /\ [Next]_vars => IInv'
  <2> SUFFICES ASSUME IInv, [Next]_vars PROVE IInv'
    OBVIOUS
  <2>1. CASE UNCHANGED vars
    BY <2>1 DEF vars, hwVars, isrVars, hostVars, chanVars, appVars, history,
       IInv, TypeOK, PortTypeOK, RegTypeOK, CountTypeOK, HostTypeOK,
       ChannelTypeOK, AppTypeOK, ThreadInv, PortInv, SessionInv, ChannelInv, FirstTaken
  <2>2. QED
    BY <2>1, WorldIInv, IsrIInv, ProcessIInv, MainIInv DEF Next, Thread
<1>2. QED
  BY InitIInv, <1>1, PTL DEF Spec

\* Type correctness of the host model.
THEOREM TypeCorrect == Spec => []TypeOK
BY Inductive, PTL DEF IInv

\* The main loop never takes a test step on another device than the one that
\* was reset, enumerated and found when the test began (main.c: the loop's
\* usbh_cdc_connected; usbh_core.c; usb_hcd_int.c).
THEOREM SessionSafety == Spec => []SameDevice
<1>1. IInv => SameDevice
  <2> SUFFICES ASSUME IInv, Runs("loop"), Connected
               PROVE  plugged /\ dev = enumDev /\ (state # 0 => testDev = dev)
    BY DEF SameDevice
  <2>1. gState = "HOST_CLASS" /\ plugged /\ dev = enumDev
    BY ConnectedDevice
  <2>2. QED
    BY <2>1 DEF IInv, SessionInv
<1>2. QED
  BY Inductive, <1>1, PTL

\* A session holds two channels, or four with a CDC interface, all different and
\* no other is taken; none is while the host waits for a device, however the last
\* session ended (usbh_hcs.c, usbh_core.c USBH_DeInit, usbh_cdc.c).
THEOREM NoChannelLost == Spec => []ChannelsSound
<1> DEFINE pipes == {hc_num_out, hc_num_in} \cup (IF supported THEN {OutPipe, InPipe} ELSE {})
<1>1. ASSUME NEW n \in {2, 4}, FirstTaken(n)
      PROVE  /\ channel[0] /\ channel[1] /\ ~FirstTaken(0)
             /\ {i \in Channels : channel[i]} = 0 .. n - 1
  <2>1. \A i \in Channels : channel[i] <=> i < n
    BY <1>1, FirstChannels DEF FirstTaken, HC_MAX
  <2>2. FirstTaken(0) => ~channel[0]
    BY FirstChannels DEF FirstTaken, Channels, HC_MAX
  <2>3. QED
    BY <2>1, <2>2 DEF Channels, HC_MAX
<1>2. ASSUME FirstTaken(0), NEW i \in Channels
      PROVE  ~channel[i]
  <2>1. channel[i] <=> i < 0
    BY <1>2, FirstChannels DEF FirstTaken, HC_MAX
  <2>2. QED
    BY <2>1 DEF Channels
<1>3. Cardinality(0 .. 1) = 2 /\ Cardinality(0 .. 3) = 4
  <2>1. 0 \in Int /\ 1 \in Int /\ 3 \in Int
    OBVIOUS
  <2>2. /\ Cardinality(0 .. 1) = IF 0 > 1 THEN 0 ELSE 1 - 0 + 1
        /\ Cardinality(0 .. 3) = IF 0 > 3 THEN 0 ELSE 3 - 0 + 1
    BY <2>1, FS_Interval, Zenon
  <2>3. QED
    BY <2>2
<1>4. ASSUME ChannelInv, gState \in {"HOST_ENUMERATION", "HOST_CTRL_XFER", "HOST_USR_INPUT"}
      PROVE  hc_num_out # hc_num_in /\ channel[hc_num_out] /\ channel[hc_num_in]
  <2>1. FirstTaken(2)
    BY <1>4 DEF ChannelInv, Enumerating
  <2>2. QED
    BY <1>1, <1>4, <2>1 DEF ChannelInv
<1>5. ASSUME ChannelInv, supported \in BOOLEAN, gState = "HOST_CLASS"
      PROVE  /\ Cardinality(pipes) = IF supported THEN 4 ELSE 2
             /\ {i \in Channels : channel[i]} = pipes
  <2>1. CASE supported
    <3>1. FirstTaken(4) /\ OutPipe = 2 /\ InPipe = 3
      BY <1>5, <2>1 DEF ChannelInv
    <3>2. hc_num_out = 0 /\ hc_num_in = 1
      BY <1>1, <1>5, <3>1 DEF ChannelInv
    <3>3. pipes = 0 .. 3
      BY <2>1, <3>1, <3>2
    <3>4. QED
      BY <1>1, <1>3, <2>1, <3>1, <3>3
  <2>2. CASE ~supported
    <3>1. FirstTaken(2)
      BY <1>5, <2>2 DEF ChannelInv
    <3>2. hc_num_out = 0 /\ hc_num_in = 1
      BY <1>1, <1>5, <3>1 DEF ChannelInv
    <3>3. pipes = 0 .. 1
      BY <2>2, <3>2
    <3>4. QED
      BY <1>1, <1>3, <2>2, <3>1, <3>3
  <2>3. QED
    BY <2>1, <2>2
<1>6. ASSUME ChannelInv, gState \in {"HOST_IDLE", "HOST_WAIT_PRT_ENABLED"}, NEW i \in Channels
      PROVE  ~channel[i]
  BY <1>2, <1>6 DEF ChannelInv
<1>7. IInv => ChannelsSound
  BY <1>4, <1>5, <1>6 DEF IInv, TypeOK, AppTypeOK, ChannelsSound
<1>8. QED
  BY <1>7, Inductive, PTL

\* The port reports a new device only after the glue has let go of the old one
\* (usbh_core.c HOST_DEV_DISCONNECTED, usb_hcd.c HCD_Init, usbh_glue.c).
THEOREM ConnectionFresh == Spec => NoStaleConnection
<1>1. IInv /\ [Next]_vars
        => [ConnSts = 0 /\ ConnSts' = 1 => ~cdc_device_connected]_vars
  <2> SUFFICES ASSUME IInv, Next, ConnSts = 0, ConnSts' = 1
               PROVE  ~cdc_device_connected
    OBVIOUS
  <2>1. CASE ISR
    BY <2>1 DEF ISR, Disconnect, NextConnSts, IrqPending, IInv, ThreadInv, PortInv
  <2>2. CASE World
    BY <2>2 DEF World, Plug, Unplug, PortDrop, HcISR, isrVars
  <2>3. CASE Process
    BY <2>3 DEF Process, CheckPort, HostIdle, HostWaitPortEnabled,
       HostDevAttached, ResetPort, ResetPortEnd, HostEnumeration, HostCtrlXfer,
       HostUsrInput, HostClassRequest, HostClass, HostDevDisconnected, HcdInit,
       CoreReset, CoreInitHost, isrVars
  <2>4. CASE Main
    BY <2>4 DEF Main, LoopNotConnected, LoopConnected, ErrorLoop, SystemReset,
       isrVars
  <2>5. QED
    BY <2>1, <2>2, <2>3, <2>4 DEF Next, Thread
<1>2. QED
  BY Inductive, <1>1, PTL DEF Spec, NoStaleConnection
=============================================================================
