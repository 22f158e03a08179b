------------------------------ MODULE HostCore ------------------------------
(***************************************************************************)
(* The USB host state machine (USBH_Process, usbh_core.c), the interrupt   *)
(* handler that runs under it (usb_hcd_int.c), the port of the OTG core    *)
(* both of them talk to, and the main loop that supervises a test of the   *)
(* device on that port (main.c).                                           *)
(*                                                                         *)
(* Three parties take steps.  The world plugs and pulls devices, and the   *)
(* core raises interrupts.  The handler pre-empts the thread: the thread   *)
(* takes no step while an unmasked interrupt is pending (IRQ_usb has       *)
(* priority over thread mode and nothing masks it for long).  The thread   *)
(* is main's loop, cut where a delay or a register access lets the world   *)
(* or the handler in between; pc says where it is.                         *)
(***************************************************************************)
EXTENDS Integers, FiniteSets

CONSTANTS
  MaxPlugs,     \* bound: how many times a device is plugged in
  MaxGlitches,  \* bound: how many times the core drops PRTENA by itself
  MaxBounces,   \* bound: how many times a device is pulled while the port is
                \* up but DISCINT still masked (before the port is enabled)
  DropIsJoint   \* TRUE: at a disconnect PRTENA falls as DISCINT rises;
                \* FALSE: PRTENA may fall at any time after DISCINT

ASSUME HostCoreAssumption ==
  /\ MaxPlugs \in Nat
  /\ MaxGlitches \in Nat
  /\ MaxBounces \in Nat
  /\ DropIsJoint \in BOOLEAN

VARIABLES
  plugged,   \* a device is on the port
  dev,       \* which device that is, or was: counts the plugs
  glitches,  \* how many times the core has dropped PRTENA by itself
  bounces,   \* how many times a device was pulled with DISCINT masked
  power,     \* HPRT0.PRTPWR, set again after each soft reset of the core
  conndet,   \* HPRT0.PRTCONNDET
  prtena,    \* HPRT0.PRTENA
  enchng,    \* HPRT0.PRTENCHNG
  disc,      \* GINTSTS.DISCINT
  irq,       \* what is unmasked: "off", "port", or "all" (port and DISCINT)
  ConnSts, PortEnabled,           \* pdev->host, written by the handler
  gState, gStateBkp, EnumState,   \* phost
  channel,   \* the HC_USED bit of pdev->host.channel[]
  hc_num_out, hc_num_in,          \* phost->Control
  OutPipe, InPipe,                \* _CDC_Handle.DataItf
  urb,       \* the control transfer under way has been answered
  supported, \* the interface found by InterfaceInit is a CDC one
  cdc_device_connected,           \* usbh_glue.c
  state,     \* main.c's step counter: 0 (no test) or 1 (a test is under way)
  pc,        \* where the thread is
  enumDev,   \* history: the device present at the reset before enumeration
  testDev    \* history: the device present when the test began

hwVars   == <<plugged, dev, glitches, bounces, power, conndet, prtena, enchng,
              disc, irq>>
isrVars  == <<ConnSts, PortEnabled>>
hostVars == <<gState, gStateBkp, EnumState, urb>>
chanVars == <<channel, hc_num_out, hc_num_in, OutPipe, InPipe>>
appVars  == <<supported, cdc_device_connected, state>>
history  == <<enumDev, testDev>>
vars == <<hwVars, isrVars, hostVars, chanVars, appVars, pc, history>>

-----------------------------------------------------------------------------
(* Types *)

HC_MAX   == 8
HC_ERROR == 255         \* 0xFFFF, cut to the uint8_t Alloc_Channel returns
Channels == 0 .. HC_MAX - 1
HcNums   == Channels \cup {HC_ERROR}

HostStates == {"HOST_IDLE", "HOST_WAIT_PRT_ENABLED", "HOST_DEV_ATTACHED",
               "HOST_DEV_DISCONNECTED", "HOST_ENUMERATION", "HOST_CTRL_XFER",
               "HOST_USR_INPUT", "HOST_CLASS_REQUEST", "HOST_CLASS"}
Labels == {"check", "switch", "reset", "reset_end", "hcd_init", "core_reset",
           "core_host", "loop", "error"}

PortTypeOK ==
  /\ plugged \in BOOLEAN /\ power \in BOOLEAN /\ conndet \in BOOLEAN
  /\ prtena \in BOOLEAN /\ enchng \in BOOLEAN /\ disc \in BOOLEAN
RegTypeOK ==
  /\ irq \in {"off", "port", "all"}
  /\ ConnSts \in {0, 1} /\ PortEnabled \in {0, 1}
CountTypeOK ==
  /\ dev \in Nat /\ glitches \in Nat /\ bounces \in Nat
  /\ enumDev \in Nat /\ testDev \in Nat
HostTypeOK ==
  /\ gState \in HostStates
  /\ gStateBkp \in {"HOST_IDLE", "HOST_ENUMERATION"}
  /\ EnumState \in {"ENUM_IDLE", "ENUM_DEV_CONFIGURED"}
  /\ urb \in BOOLEAN
ChannelTypeOK ==
  /\ channel \in [Channels -> BOOLEAN]
  /\ hc_num_out \in HcNums /\ hc_num_in \in HcNums
  /\ OutPipe \in HcNums /\ InPipe \in HcNums
AppTypeOK ==
  /\ supported \in BOOLEAN /\ cdc_device_connected \in BOOLEAN
  /\ state \in {0, 1}
  /\ pc \in Labels

TypeOK == /\ PortTypeOK /\ RegTypeOK /\ CountTypeOK
          /\ HostTypeOK /\ ChannelTypeOK /\ AppTypeOK

-----------------------------------------------------------------------------
(* The port of the OTG core, and the hand that plugs devices into it *)

IrqPending ==
  \/ irq # "off" /\ (conndet \/ enchng)
  \/ irq = "all" /\ disc

\* A device is plugged in.  A hand is slower than the core: the port it left
\* has dropped PRTENA by then.
Plug ==
  /\ ~plugged /\ ~prtena /\ dev < MaxPlugs
  /\ plugged' = TRUE
  /\ dev' = dev + 1
  /\ conndet' = (conndet \/ power)
  /\ UNCHANGED <<glitches, bounces, power, prtena, enchng, disc, irq, isrVars, hostVars,
                 chanVars, appVars, pc, history>>

\* The device is pulled: DISCINT is raised whether or not it is unmasked.
Unplug ==
  /\ plugged
  /\ plugged' = FALSE
  /\ IF irq = "port" THEN bounces < MaxBounces /\ bounces' = bounces + 1
                     ELSE UNCHANGED bounces
  /\ disc' = (disc \/ power)
  /\ IF prtena /\ DropIsJoint
       THEN prtena' = FALSE /\ enchng' = TRUE
       ELSE UNCHANGED <<prtena, enchng>>
  /\ UNCHANGED <<dev, glitches, power, conndet, irq, isrVars, hostVars,
                 chanVars, appVars, pc, history>>

\* PRTENA falls: the device is gone, or the core saw babble or a port error.
PortDrop ==
  /\ prtena
  /\ \/ ~plugged /\ UNCHANGED glitches
     \/ plugged /\ glitches < MaxGlitches /\ glitches' = glitches + 1
  /\ prtena' = FALSE
  /\ enchng' = TRUE
  /\ UNCHANGED <<plugged, dev, bounces, power, conndet, disc, irq, isrVars,
                 hostVars, chanVars, appVars, pc, history>>

\* The device answers the control transfer under way, and the channel's
\* interrupt makes its URB_State URB_DONE.
HcISR ==
  /\ irq # "off" /\ ~IrqPending
  /\ gState = "HOST_CTRL_XFER" /\ ~urb
  /\ plugged /\ prtena
  /\ urb' = TRUE
  /\ UNCHANGED <<hwVars, isrVars, gState, gStateBkp, EnumState, chanVars,
                 appVars, pc, history>>

World == Plug \/ Unplug \/ PortDrop \/ HcISR

-----------------------------------------------------------------------------
(* The interrupt handler *)

\* USBH_OTG_ISR_Handler: the port first, then the disconnect, from one reading
\* of GINTSTS & GINTMSK.  A port that is enabled unmasks DISCINT; a disconnect
\* masks everything and clears GINTSTS.
Disconnect == irq = "all" /\ disc

\* ConnSts after USBH_Connected, then USBH_Disconnected, were called or not.
ConnStsConnectWins ==                            \* mutant
  IF conndet THEN 1 ELSE IF Disconnect THEN 0 ELSE ConnSts
NextConnSts ==
  IF Disconnect THEN 0 ELSE IF conndet THEN 1 ELSE ConnSts

\* PortEnabled follows PRTENA when that has changed.
NextPortEnabled ==
  IF enchng THEN (IF prtena THEN 1 ELSE 0) ELSE PortEnabled

ISR ==
  /\ IrqPending
  /\ PortEnabled' = NextPortEnabled
  /\ ConnSts' = NextConnSts
  /\ irq' = IF Disconnect THEN "off"
            ELSE IF enchng /\ prtena THEN "all" ELSE irq
  /\ disc' = (disc /\ ~Disconnect)
  /\ conndet' = FALSE
  /\ enchng' = FALSE
  /\ UNCHANGED <<plugged, dev, glitches, bounces, power, prtena, hostVars, chanVars,
                 appVars, pc, history>>

-----------------------------------------------------------------------------
(* The thread: USBH_Process *)

Runs(label) == pc = label /\ ~IrqPending
Goto(label) == pc' = label

\* usbh_cdc_connected
Connected == cdc_device_connected /\ ConnSts = 1

\* USBH_GetFreeChannel, through USBH_Alloc_Channel's uint8_t result.
GetFreeChannel(used) ==
  IF \A i \in Channels : used[i]
    THEN HC_ERROR
    ELSE CHOOSE i \in Channels : ~used[i] /\ \A j \in Channels : j < i => used[j]

\* The bits after USBH_Alloc_Channel has returned hc, and after
\* USBH_Free_Channel(hc).
Allocate(used, hc) == [i \in Channels |-> used[i] \/ i = hc]
FreeNothing(used, hc) == used                    \* mutant
Free(used, hc)     == [i \in Channels |-> used[i] /\ i # hc]

\* The check for port events at the head of USBH_Process.
PortLostIfDisconnected == ConnSts = 0            \* mutant
PortLost == ConnSts = 0 \/ PortEnabled = 0

CheckPort ==
  /\ Runs("check")
  /\ gState' = IF PortLost /\ gState # "HOST_IDLE"
                 THEN "HOST_DEV_DISCONNECTED" ELSE gState
  /\ Goto("switch")
  /\ UNCHANGED <<hwVars, isrVars, gStateBkp, EnumState, urb, chanVars, appVars,
                 history>>

\* HOST_IDLE: a device was detected; debounce it, then reset the port.
HostIdle ==
  /\ Runs("switch") /\ gState = "HOST_IDLE"
  /\ IF ConnSts = 1
       THEN gState' = "HOST_WAIT_PRT_ENABLED" /\ Goto("reset")
       ELSE Goto("loop") /\ UNCHANGED gState
  /\ UNCHANGED <<hwVars, isrVars, gStateBkp, EnumState, urb, chanVars, appVars,
                 history>>

\* HOST_WAIT_PRT_ENABLED
HostWaitPortEnabled ==
  /\ Runs("switch") /\ gState = "HOST_WAIT_PRT_ENABLED"
  /\ gState' = IF PortEnabled = 1 THEN "HOST_DEV_ATTACHED" ELSE gState
  /\ Goto("loop")
  /\ UNCHANGED <<hwVars, isrVars, gStateBkp, EnumState, urb, chanVars, appVars,
                 history>>

\* HOST_DEV_ATTACHED, up to the second port reset: the control channels.
HostDevAttached ==
  /\ Runs("switch") /\ gState = "HOST_DEV_ATTACHED"
  /\ LET out  == GetFreeChannel(channel)
         used == Allocate(channel, out)
         in   == GetFreeChannel(used)
     IN /\ hc_num_out' = out
        /\ hc_num_in' = in
        /\ channel' = Allocate(used, in)
  /\ Goto("reset")
  /\ UNCHANGED <<hwVars, isrVars, hostVars, OutPipe, InPipe, appVars, history>>

\* HCD_ResetPort: PRTRST is driven, which may drop an enabled port first ...
ResetPort ==
  /\ Runs("reset")
  /\ \/ prtena /\ prtena' = FALSE /\ enchng' = TRUE
     \/ UNCHANGED <<prtena, enchng>>
  /\ Goto("reset_end")
  /\ UNCHANGED <<plugged, dev, glitches, bounces, power, conndet, disc, irq, isrVars,
                 hostVars, chanVars, appVars, history>>

\* ... and released, which enables the port of a device that is there.  The
\* callers in HOST_IDLE and HOST_DEV_ATTACHED then return; the second of them
\* moves on to the enumeration.
ResetPortEnd ==
  /\ Runs("reset_end")
  /\ IF plugged THEN prtena' = TRUE /\ enchng' = TRUE
                ELSE UNCHANGED <<prtena, enchng>>
  /\ IF gState = "HOST_DEV_ATTACHED"
       THEN gState' = "HOST_ENUMERATION" /\ enumDev' = dev
       ELSE UNCHANGED <<gState, enumDev>>
  /\ Goto("loop")
  /\ UNCHANGED <<plugged, dev, glitches, bounces, power, conndet, disc, irq, isrVars,
                 gStateBkp, EnumState, urb, chanVars, appVars, testDev>>

\* HOST_ENUMERATION: USBH_HandleEnum submits its next control request, or
\* reports that the device is configured.  The requests are told apart in
\* module Enumeration; here the last one is the one that configures.
HostEnumerationSavesNewState ==                  \* mutant
  /\ Runs("switch") /\ gState = "HOST_ENUMERATION"
  /\ EnumState = "ENUM_IDLE"
  /\ gState' = "HOST_CTRL_XFER"
  /\ gStateBkp' = gState'
  /\ urb' = FALSE
  /\ Goto("loop")
  /\ UNCHANGED <<hwVars, isrVars, EnumState, chanVars, appVars, history>>

HostEnumeration ==
  /\ Runs("switch") /\ gState = "HOST_ENUMERATION"
  /\ IF EnumState = "ENUM_DEV_CONFIGURED"
       THEN gState' = "HOST_USR_INPUT" /\ UNCHANGED <<gStateBkp, urb>>
       ELSE /\ gState' = "HOST_CTRL_XFER"
            /\ gStateBkp' = gState
            /\ urb' = FALSE
  /\ Goto("loop")
  /\ UNCHANGED <<hwVars, isrVars, EnumState, chanVars, appVars, history>>

\* HOST_CTRL_XFER: wait for the answer, or give the request up; an answered
\* request brings the enumeration to its next step, the last of them
\* (configured) to its end.
HostCtrlXfer(configured) ==
  /\ Runs("switch") /\ gState = "HOST_CTRL_XFER"
  /\ \/ ~configured /\ UNCHANGED gState
     \/ ~configured /\ gState' = gStateBkp
     \/ configured /\ urb /\ gState' = gStateBkp
  /\ EnumState' = IF configured THEN "ENUM_DEV_CONFIGURED" ELSE EnumState
  /\ Goto("loop")
  /\ UNCHANGED <<hwVars, isrVars, gStateBkp, urb, chanVars, appVars, history>>

\* HOST_USR_INPUT: USBH_CDC_InterfaceInit takes two bulk pipes for a CDC
\* interface, none for any other, and returns USBH_OK for both.
HostUsrInput(isCdc) ==
  /\ Runs("switch") /\ gState = "HOST_USR_INPUT"
  /\ supported' = isCdc
  /\ IF isCdc
       THEN LET out  == GetFreeChannel(channel)
                used == Allocate(channel, out)
                in   == GetFreeChannel(used)
            IN /\ OutPipe' = out
               /\ InPipe' = in
               /\ channel' = Allocate(used, in)
       ELSE UNCHANGED <<OutPipe, InPipe, channel>>
  /\ gState' = "HOST_CLASS_REQUEST"
  /\ Goto("loop")
  /\ UNCHANGED <<hwVars, isrVars, gStateBkp, EnumState, urb, hc_num_out,
                 hc_num_in, cdc_device_connected, state, history>>

\* HOST_CLASS_REQUEST: USBH_CDC_ClassRequest tells the application.
HostClassRequest ==
  /\ Runs("switch") /\ gState = "HOST_CLASS_REQUEST"
  /\ cdc_device_connected' = TRUE
  /\ gState' = "HOST_CLASS"
  /\ Goto("loop")
  /\ UNCHANGED <<hwVars, isrVars, gStateBkp, EnumState, urb, chanVars,
                 supported, state, history>>

\* HOST_CLASS: USBH_CDC_Handle moves data (module CdcLink) and returns USBH_OK
\* or USBH_BUSY, which USBH_ErrorHandle ignores.
HostClass ==
  /\ Runs("switch") /\ gState = "HOST_CLASS"
  /\ Goto("loop")
  /\ UNCHANGED <<hwVars, isrVars, hostVars, chanVars, appVars, history>>

\* USBH_DeInit, with the channels it frees.
DeInit ==
  /\ gState' = "HOST_IDLE"
  /\ gStateBkp' = "HOST_IDLE"
  /\ EnumState' = "ENUM_IDLE"
  /\ UNCHANGED <<urb, hc_num_out, hc_num_in>>

\* HOST_DEV_DISCONNECTED, up to HCD_Init: the application is told
\* (usbh_glue.c), the host and the class are de-initialised (a pipe number 0
\* stands for "no pipe"), every channel but the first two is cleared.
DeviceStaysConnected == UNCHANGED cdc_device_connected   \* mutant
DeviceDisconnected   == cdc_device_connected' = FALSE

HostDevDisconnected ==
  /\ Runs("switch") /\ gState = "HOST_DEV_DISCONNECTED"
  /\ DeviceDisconnected
  /\ DeInit
  /\ LET ctlFreed  == Free(Free(channel, hc_num_in), hc_num_out)
         outFreed  == IF OutPipe # 0 THEN Free(ctlFreed, OutPipe) ELSE ctlFreed
         pipeFreed == IF InPipe # 0 THEN Free(outFreed, InPipe) ELSE outFreed
     IN channel' = [i \in Channels |-> i < 2 /\ pipeFreed[i]]
  /\ OutPipe' = 0
  /\ InPipe' = 0
  /\ Goto("hcd_init")
  /\ UNCHANGED <<hwVars, isrVars, supported, state, history>>

\* HCD_Init: ConnSts is cleared while the handler can still run ...
HcdInit ==
  /\ Runs("hcd_init")
  /\ ConnSts' = 0
  /\ Goto("core_reset")
  /\ UNCHANGED <<hwVars, PortEnabled, hostVars, chanVars, appVars, history>>

\* ... then interrupts are disabled and the core is reset, which clears HPRT0
\* and takes the port's power away ...
CoreReset ==
  /\ Runs("core_reset")
  /\ irq' = "off"
  /\ power' = FALSE
  /\ conndet' = FALSE /\ prtena' = FALSE /\ enchng' = FALSE
  /\ Goto("core_host")
  /\ UNCHANGED <<plugged, dev, glitches, bounces, disc, isrVars, hostVars, chanVars,
                 appVars, history>>

\* ... and USB_OTG_CoreInitHost powers the port, which detects a device that is
\* there, clears GINTSTS and unmasks the port interrupt but not DISCINT.
CoreInitHost ==
  /\ Runs("core_host")
  /\ power' = TRUE
  /\ conndet' = plugged
  /\ disc' = FALSE
  /\ irq' = "port"
  /\ Goto("loop")
  /\ UNCHANGED <<plugged, dev, glitches, bounces, prtena, enchng, isrVars, hostVars,
                 chanVars, appVars, history>>

-----------------------------------------------------------------------------
(* The thread: main's loop *)

\* system_reset: the chip restarts, main clears the BSS and USBH_Init runs from
\* the top (USBH_DeInit changes nothing then).
SystemReset ==
  /\ irq' = "off" /\ power' = FALSE
  /\ conndet' = FALSE /\ prtena' = FALSE /\ enchng' = FALSE /\ disc' = FALSE
  /\ ConnSts' = 0 /\ PortEnabled' = 0
  /\ gState' = "HOST_IDLE" /\ gStateBkp' = "HOST_IDLE"
  /\ EnumState' = "ENUM_IDLE" /\ urb' = FALSE
  /\ channel' = [i \in Channels |-> FALSE]
  /\ hc_num_out' = 0 /\ hc_num_in' = 0 /\ OutPipe' = 0 /\ InPipe' = 0
  /\ supported' = FALSE /\ cdc_device_connected' = FALSE /\ state' = 0
  /\ Goto("hcd_init")
  /\ UNCHANGED <<plugged, dev, glitches, bounces, history>>

\* Not connected: a test that was under way ends in a reset.
NeverUnderWay == FALSE                           \* mutant
TestUnderWay  == state # 0

LoopNotConnected ==
  /\ Runs("loop") /\ ~Connected
  /\ IF TestUnderWay
       THEN SystemReset
       ELSE /\ Goto("check")
            /\ UNCHANGED <<hwVars, isrVars, hostVars, chanVars, appVars, history>>

\* Connected: the test begins (state++), goes on, or fails (_error).
LoopConnected(failed) ==
  /\ Runs("loop") /\ Connected
  /\ failed => state # 0
  /\ state' = 1
  /\ testDev' = IF state = 0 THEN dev ELSE testDev
  /\ IF failed THEN Goto("error") ELSE Goto("check")
  /\ UNCHANGED <<hwVars, isrVars, hostVars, chanVars, supported,
                 cdc_device_connected, enumDev>>

\* _error: the code is displayed until the device is gone; USBH_Process is not
\* called from here.
ErrorLoop ==
  /\ Runs("error")
  /\ ~Connected
  /\ SystemReset

Process ==
  \/ CheckPort \/ HostIdle \/ HostWaitPortEnabled \/ HostDevAttached
  \/ ResetPort \/ ResetPortEnd
  \/ HostEnumeration
  \/ \E configured \in BOOLEAN : HostCtrlXfer(configured)
  \/ \E isCdc \in BOOLEAN : HostUsrInput(isCdc)
  \/ HostClassRequest \/ HostClass \/ HostDevDisconnected
  \/ HcdInit \/ CoreReset \/ CoreInitHost

Main ==
  \/ LoopNotConnected
  \/ \E failed \in BOOLEAN : LoopConnected(failed)
  \/ ErrorLoop

Thread == Process \/ Main

-----------------------------------------------------------------------------

\* Power on, with or without a device on the port.
Init ==
  /\ plugged \in BOOLEAN /\ dev = 0 /\ glitches = 0
  /\ bounces = 0
  /\ power = FALSE /\ conndet = FALSE /\ prtena = FALSE /\ enchng = FALSE
  /\ disc = FALSE /\ irq = "off"
  /\ ConnSts = 0 /\ PortEnabled = 0
  /\ gState = "HOST_IDLE" /\ gStateBkp = "HOST_IDLE"
  /\ EnumState = "ENUM_IDLE" /\ urb = FALSE
  /\ channel = [i \in Channels |-> FALSE]
  /\ hc_num_out = 0 /\ hc_num_in = 0 /\ OutPipe = 0 /\ InPipe = 0
  /\ supported = FALSE /\ cdc_device_connected = FALSE /\ state = 0
  /\ pc = "hcd_init"
  /\ enumDev = 0 /\ testDev = 0

Next == World \/ ISR \/ Thread

Spec == Init /\ [][Next]_vars

-----------------------------------------------------------------------------
(* Fairness and properties *)

\* The handler and the thread keep running, and an unplugged port drops PRTENA.
\* A device that is there answers a request that is retried for ever, and the
\* thread does not give up every answered request: USBH_HandleControl gives one
\* up only on an error.  This leaves out the devices that a control request hangs
\* with, for which Recovers or StatusTaken of module Enumeration fails.
Fairness ==
  /\ WF_vars(ISR)
  /\ WF_vars(Thread)
  /\ WF_vars(~plugged /\ PortDrop)
  /\ SF_vars(HcISR)
  /\ SF_vars(HostCtrlXfer(TRUE))

FairSpec == Spec /\ Fairness

\* Whenever main's loop looks at the connection and finds it good, the device
\* on the port is the very one that was reset and enumerated, and the one the
\* test began on: no unplugging and replugging, at whatever moment of
\* USBH_Process, HCD_Init or a test step, goes unnoticed.
SameDevice ==
  Runs("loop") /\ Connected =>
    /\ plugged
    /\ dev = enumDev
    /\ state # 0 => testDev = dev

\* ConnSts is never raised again while the glue still holds the old device
\* connected: HOST_DEV_DISCONNECTED clears cdc_device_connected before HCD_Init
\* lets the port detect another.
NoStaleConnection ==
  [][ConnSts = 0 /\ ConnSts' = 1 => ~cdc_device_connected]_vars

\* The channels a session holds are taken and distinct, and none is left over
\* when the host waits for a device, however the last session ended.
ChannelsSound ==
  LET pipes == {hc_num_out, hc_num_in}
                 \cup IF supported THEN {OutPipe, InPipe} ELSE {}
  IN /\ gState \in {"HOST_ENUMERATION", "HOST_CTRL_XFER", "HOST_USR_INPUT"} =>
          hc_num_out # hc_num_in /\ channel[hc_num_out] /\ channel[hc_num_in]
     /\ gState = "HOST_CLASS" =>
          /\ Cardinality(pipes) = IF supported THEN 4 ELSE 2
          /\ {i \in Channels : channel[i]} = pipes
     /\ gState \in {"HOST_IDLE", "HOST_WAIT_PRT_ENABLED"} =>
          \A i \in Channels : ~channel[i]

\* A device that is pulled during a test is noticed, even when another takes
\* its place at once: the test is given up by a reset.
UnplugNoticed == (state = 1 /\ ~plugged) ~> (state = 0)

\* pdev->host.PortEnabled does not stay set for ever on a port that is not
\* enabled.
PortTrue == []<>(PortEnabled = 1 => prtena)

\* With no device any more the host comes to rest, ready for the next one,
\* unless it holds a stale PortEnabled for ever.
Quiesces ==
  <>[]~plugged /\ PortTrue =>
    <>[](gState = "HOST_IDLE" /\ ConnSts = 0 /\ state = 0)

\* A device that stays is enumerated and handed to the test, whatever happened
\* on the port before, unless the host holds a stale PortEnabled for ever.
Enumerated == <>[]plugged /\ PortTrue => <>[]Connected

\* The same without that condition: "Re-Initialize Host for new Enumeration"
\* (usbh_core.c:375).  It does not hold: HOST_DEV_DISCONNECTED leaves
\* PortEnabled as it is.
Reenumerated == <>[]plugged => <>[]Connected

-----------------------------------------------------------------------------
(* Why SameDevice and ChannelsSound hold: the invariant that every step      *)
(* preserves.  Its parts are proved in module HostCoreProofs.                *)

Enumerating == {"HOST_ENUMERATION", "HOST_CTRL_XFER"}
Configured  == {"HOST_USR_INPUT", "HOST_CLASS_REQUEST", "HOST_CLASS"}

\* Where the thread is tells what gState can be.
ThreadInv ==
  /\ pc \in {"hcd_init", "core_reset", "core_host"} => gState = "HOST_IDLE"
  /\ pc \in {"reset", "reset_end"} =>
       gState \in {"HOST_WAIT_PRT_ENABLED", "HOST_DEV_ATTACHED"}
  /\ pc = "error" => gState = "HOST_CLASS"
  /\ gState = "HOST_DEV_DISCONNECTED" => pc = "switch"
  /\ gState = "HOST_CTRL_XFER" => gStateBkp = "HOST_ENUMERATION"
  /\ cdc_device_connected => gState \in {"HOST_CLASS", "HOST_DEV_DISCONNECTED"}
  /\ gState \in {"HOST_IDLE", "HOST_WAIT_PRT_ENABLED", "HOST_DEV_ATTACHED"} =>
       EnumState = "ENUM_IDLE"

\* The port and the interrupt masks.  While anything is unmasked the port is
\* powered, so a disconnect is latched; an enabled port whose interrupt the
\* handler has seen has DISCINT unmasked.
PortInv ==
  /\ irq # "off" => power
  /\ prtena => power
  /\ power => pc # "core_host"
  /\ ~power => pc \in {"hcd_init", "core_reset", "core_host"}
  /\ prtena /\ irq = "port" => enchng
  /\ irq = "off" /\ ConnSts = 1 => pc = "core_host"
  /\ ConnSts = 0 /\ gState # "HOST_IDLE" => irq = "off"

\* The session: an enabled port belongs to the device that was reset; once it
\* has answered, that device is still there or its disconnect is pending.
SessionInv ==
  /\ gState \in Enumerating \cup Configured /\ prtena => dev = enumDev
  /\ /\ \/ gState \in Configured
        \/ gState = "HOST_CTRL_XFER" /\ urb
        \/ gState \in Enumerating /\ EnumState = "ENUM_DEV_CONFIGURED"
     /\ ConnSts = 1
     => irq = "all" /\ (disc \/ (plugged /\ dev = enumDev))
  /\ state # 0 =>
       \/ gState \in {"HOST_CLASS", "HOST_DEV_DISCONNECTED"} /\ testDev = enumDev
       \/ gState = "HOST_IDLE"
            /\ pc \in {"hcd_init", "core_reset", "core_host", "loop"}

\* The channels: the first free one is always the next, so that a session takes
\* them in order and gives all of them back.
FirstTaken(n) == channel = [i \in Channels |-> i < n]

ChannelInv ==
  /\ \/ gState \in {"HOST_IDLE", "HOST_WAIT_PRT_ENABLED"}
     \/ gState = "HOST_DEV_ATTACHED" /\ pc \notin {"reset", "reset_end"}
     => FirstTaken(0)
  /\ \/ gState \in Enumerating \cup {"HOST_USR_INPUT"}
     \/ gState = "HOST_DEV_ATTACHED" /\ pc \in {"reset", "reset_end"}
     => FirstTaken(2)
  /\ gState \in {"HOST_CLASS_REQUEST", "HOST_CLASS"} =>
       IF supported THEN FirstTaken(4) /\ OutPipe = 2 /\ InPipe = 3
                    ELSE FirstTaken(2)
  /\ FirstTaken(0) \/ (hc_num_out = 0 /\ hc_num_in = 1)

IInv == TypeOK /\ ThreadInv /\ PortInv /\ SessionInv /\ ChannelInv
=============================================================================
