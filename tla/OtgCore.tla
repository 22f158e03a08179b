------------------------------- MODULE OtgCore ------------------------------
(***************************************************************************)
(* The register layer of the OTG core (usb_core.c, usbh_hcs.c, usb_hcd.c): *)
(* bring-up, the port register, the interrupt masks, the host channels and *)
(* the transmit FIFO, one register access at a time.                       *)
(*                                                                         *)
(* The thread calls the layer the way USBH_Process does and is pre-empted  *)
(* by the handler (usb_hcd_int.c) between any two accesses; the hardware   *)
(* acts between any two accesses of either.  HPRT0 is why the order of     *)
(* accesses matters: writing a change bit back as 1 clears it, and writing *)
(* PRTENA back as 1 disables the port.  HostCore takes the handler as one  *)
(* step and looks at what the host makes of it.                            *)
(***************************************************************************)
EXTENDS Integers, SequencesExt

CONSTANTS
  Kinds,    \* the devices: records of speed, ep0 and bulk (packet sizes)
  CmdBytes, \* bytes of a command on the bulk pipe
  NpDepth   \* TXH_NP_FS_FIFOSIZ, in words (96)

USBH_SETUP_PKT_SIZE == 8
MAX_EP0_SIZE == 64
Words(len) == (len + 3) \div 4

\* No packet size of a device is 0, and the FIFO has space for a SETUP packet and
\* for a command.
ASSUME OtgCoreAssumption ==
  /\ \A k \in Kinds : k.speed \in {"full", "low"} /\ {k.ep0, k.bulk} \subseteq Nat \ {0}
  /\ CmdBytes \in Nat /\ NpDepth \in Nat
  /\ Words(USBH_SETUP_PKT_SIZE) <= NpDepth /\ Words(CmdBytes) <= NpDepth

VARIABLES
  plugged,  \* the device on the port, or the last one: its kind
  present,  \* it is there
  hprt,     \* HPRT0
  enabling, \* the core will enable the port: a reset of a device has ended
  mode,     \* what GUSBCFG forces the core to be
  glbl,     \* GAHBCFG.GINTMSK, the mask over everything
  gintmsk,  \* GINTMSK
  discint,  \* GINTSTS.DISCINT
  haintmsk, \* HAINTMSK
  chan,     \* HCCHAR of each channel
  hcintmsk, \* HCINTMSK of each channel
  hcint,    \* HCINT of each channel
  fifo,     \* words of each channel in the non-periodic transmit FIFO
  hc,       \* pdev->host.hc
  ConnStat, PortOn,             \* pdev->host.ConnSts and PortEnabled
  gs,       \* how far USBH_Process has come
  address, speed, ep0size,      \* phost->device_prop and Control
  epsize,   \* the packet size of the bulk pipes
  tpc,      \* where the thread is
  ret,      \* where it goes on after a port reset
  hprt0,    \* its copy of HPRT0
  gmask,    \* its copy of GINTMSK
  todo,     \* the channels it has to initialise
  xfer,     \* the transfer it is starting
  ints,     \* what the handler has read of GINTSTS & GINTMSK and not served
  seen, dup,\* its two copies of HPRT0
  port      \* which of them it has to take next, or "ack"

deviceVars_ == <<plugged, present, enabling>>
maskVars    == <<glbl, gintmsk, haintmsk>>
chanVars    == <<chan, hcintmsk, hcint, fifo>>
hostVars    == <<hc, gs, address, speed, ep0size, epsize>>
threadVars  == <<tpc, ret, hprt0, gmask, todo, xfer>>
isrVars     == <<ints, seen, dup, port>>
otgVars == <<deviceVars_, hprt, mode, discint, maskVars, chanVars, ConnStat, PortOn,
             hostVars, threadVars, isrVars>>

HostChannels == {"ctl_out", "ctl_in", "bulk_out", "bulk_in"}
Outs == {"ctl_out", "bulk_out"}

HPRT0s == [pwr : BOOLEAN, rst : BOOLEAN, ena : BOOLEAN, conndet : BOOLEAN, enchng : BOOLEAN]
Off == [pwr |-> FALSE, rst |-> FALSE, ena |-> FALSE, conndet |-> FALSE, enchng |-> FALSE]
NoChan == [dev |-> 0, mps |-> 0, speed |-> "full", chen |-> FALSE, chdis |-> FALSE]
NoXfer == [c |-> "ctl_out", len |-> 0, char |-> NoChan]

-----------------------------------------------------------------------------
(* The hardware *)

\* Writing HPRT0: power and reset are set, the others are cleared by a 1.
Written(v) ==
  [pwr |-> v.pwr, rst |-> v.rst, ena |-> hprt.ena /\ ~v.ena,
   conndet |-> (hprt.conndet /\ ~v.conndet) \/ (v.pwr /\ ~hprt.pwr /\ present),
   enchng |-> hprt.enchng /\ ~v.enchng]

WriteHPRT0(v) ==
  /\ hprt' = Written(v)
  /\ enabling' = IF hprt.rst /\ ~v.rst THEN hprt.pwr /\ present ELSE enabling

ChannelInts == {c \in haintmsk : hcint[c] \in hcintmsk[c]}

\* USB_OTG_ReadCoreItr
Pending ==
  gintmsk \cap (   (IF ChannelInts # {} THEN {"hcintr"} ELSE {})
              \cup (IF hprt.conndet \/ hprt.enchng THEN {"portintr"} ELSE {})
              \cup (IF discint THEN {"disconnect"} ELSE {}))

IrqPending == glbl /\ Pending # {}
InHandler  == ints # {}

\* A device comes, slowly: the port it finds is disabled.
PlugIn ==
  /\ ~present /\ ~hprt.ena
  /\ plugged' \in Kinds
  /\ present' = TRUE
  /\ hprt' = [hprt EXCEPT !.conndet = @ \/ hprt.pwr]
  /\ UNCHANGED <<enabling, discint>>

PullOut ==
  /\ present
  /\ present' = FALSE
  /\ hprt' = [hprt EXCEPT !.ena = FALSE, !.enchng = @ \/ hprt.ena]
  /\ enabling' = FALSE
  /\ discint' = (discint \/ hprt.pwr)
  /\ UNCHANGED plugged

\* The reset is over and the device has a port: much later than the handler
\* needs to hear that the reset took the port away.
EnablePort ==
  /\ enabling /\ ~IrqPending /\ ~InHandler
  /\ hprt' = [hprt EXCEPT !.ena = TRUE, !.enchng = TRUE]
  /\ enabling' = FALSE
  /\ UNCHANGED <<plugged, present, discint>>

\* A reset, babble or an error on the port disables it.
DisablePort ==
  /\ hprt.ena
  /\ hprt' = [hprt EXCEPT !.ena = FALSE, !.enchng = TRUE]
  /\ UNCHANGED <<deviceVars_, discint>>

Port ==
  /\ PlugIn \/ PullOut \/ EnablePort \/ DisablePort
  /\ UNCHANGED <<mode, maskVars, chanVars, ConnStat, PortOn, hostVars, threadVars, isrVars>>

\* A channel comes to an end (done, refused, not answered), and what it had
\* in the FIFO is gone; an IN channel may be told to wait.
Conclude(c) ==
  /\ hprt.ena /\ chan[c].chen /\ ~chan[c].chdis /\ hcint[c] = "none"
  /\ ~(tpc = "xfer_data" /\ xfer.c = c)
  /\ \E int \in {"end"} \cup (IF c \in Outs THEN {} ELSE {"nak"}) :
       hcint' = [hcint EXCEPT ![c] = int]
  /\ fifo' = [fifo EXCEPT ![c] = 0]
  /\ UNCHANGED chan

\* A channel that was disabled has halted.
Halted(c) ==
  /\ chan[c].chen /\ chan[c].chdis /\ hcint[c] = "none"
  /\ chan' = [chan EXCEPT ![c].chen = FALSE, ![c].chdis = FALSE]
  /\ hcint' = [hcint EXCEPT ![c] = "chhltd"]
  /\ fifo' = [fifo EXCEPT ![c] = 0]

Bus ==
  /\ \E c \in HostChannels : Conclude(c) \/ Halted(c)
  /\ UNCHANGED <<hcintmsk, deviceVars_, hprt, mode, discint, maskVars, ConnStat, PortOn, hostVars,
                 threadVars, isrVars>>

-----------------------------------------------------------------------------
(* The handler *)

IsrEnter ==
  /\ ~InHandler /\ IrqPending /\ mode = "host"
  /\ ints' = Pending
  /\ UNCHANGED <<deviceVars_, hprt, mode, discint, maskVars, chanVars, ConnStat, PortOn,
                 hostVars, threadVars, seen, dup, port>>

\* USB_OTG_HC_Halt
Halt(ch) == [ch EXCEPT !.chdis = TRUE, !.chen = TRUE]

\* What the handlers of the channels make of them: an end unmasks CHH and halts
\* the channel, a NAK of an IN channel re-activates it, a halt masks CHH again.
Served(c) ==
  CASE hcint[c] = "end" -> Halt(chan[c])
    [] hcint[c] = "nak" -> [chan[c] EXCEPT !.chen = TRUE, !.chdis = FALSE]
    [] OTHER            -> chan[c]

MaskAfter(c) ==
  CASE hcint[c] = "end"    -> hcintmsk[c] \cup {"chhltd"}
    [] hcint[c] = "chhltd" -> hcintmsk[c] \ {"chhltd"}
    [] OTHER               -> hcintmsk[c]

IsrChannels ==
  /\ "hcintr" \in ints
  /\ LET served == ChannelInts
     IN /\ chan' = [c \in HostChannels |-> IF c \in served THEN Served(c) ELSE chan[c]]
        /\ hcintmsk' = [c \in HostChannels |-> IF c \in served THEN MaskAfter(c)
                                               ELSE hcintmsk[c]]
        /\ hcint' = [c \in HostChannels |-> IF c \in served THEN "none" ELSE hcint[c]]
  /\ ints' = ints \ {"hcintr"}
  /\ UNCHANGED <<deviceVars_, hprt, mode, discint, maskVars, fifo, ConnStat, PortOn,
                 hostVars, threadVars, seen, dup, port>>

\* The port, after the channels: HPRT0 is read once to look at ...
IsrPort ==
  /\ "portintr" \in ints /\ "hcintr" \notin ints /\ port = "hprt0"
  /\ seen' = hprt
  /\ port' = "hprt0_dup"
  /\ UNCHANGED <<deviceVars_, hprt, mode, discint, maskVars, chanVars, ConnStat, PortOn,
                 hostVars, threadVars, ints, dup>>

\* ... and once to write back, without the bits a 1 clears, and with those of
\* the changes that were looked at.
ReadBack(v) == [v EXCEPT !.ena = FALSE]          \* mutant
Masked(v) == [v EXCEPT !.ena = FALSE, !.conndet = FALSE, !.enchng = FALSE]
Acknowledged(v) == [Masked(v) EXCEPT !.conndet = seen.conndet, !.enchng = seen.enchng]

IsrPortDup ==
  /\ port = "hprt0_dup"
  /\ dup' = Acknowledged(hprt)
  /\ ConnStat' = IF seen.conndet THEN 1 ELSE ConnStat
  /\ PortOn' = IF seen.enchng THEN (IF seen.ena THEN 1 ELSE 0) ELSE PortOn
  /\ gintmsk' = IF seen.enchng /\ seen.ena THEN gintmsk \cup {"disconnect"} ELSE gintmsk
  /\ port' = "ack"
  /\ UNCHANGED <<deviceVars_, hprt, mode, discint, glbl, haintmsk, chanVars, hostVars,
                 threadVars, ints, seen>>

IsrPortAck ==
  /\ port = "ack"
  /\ WriteHPRT0(dup)
  /\ ints' = ints \ {"portintr"}
  /\ seen' = Off /\ dup' = Off /\ port' = "hprt0"
  /\ UNCHANGED <<plugged, present, mode, discint, maskVars, chanVars, ConnStat, PortOn,
                 hostVars, threadVars>>

\* USBH_Disconnected: everything is masked until the core is brought up again.
IsrDisconnect ==
  /\ ints = {"disconnect"}
  /\ gintmsk' = {} /\ discint' = FALSE /\ glbl' = FALSE
  /\ ConnStat' = 0
  /\ ints' = {}
  /\ UNCHANGED <<deviceVars_, hprt, mode, haintmsk, chanVars, PortOn, hostVars,
                 threadVars, seen, dup, port>>

Handler == IsrEnter \/ IsrChannels \/ IsrPort \/ IsrPortDup \/ IsrPortAck \/ IsrDisconnect

-----------------------------------------------------------------------------
(* The thread: bring-up *)

Runs(label) == tpc = label /\ ~InHandler /\ ~IrqPending
Goto(label) == tpc' = label

\* HCD_Init: the copies are cleared, the mask over all interrupts is closed ...
HcdInit ==
  /\ Runs("hcd_init")
  /\ ConnStat' = 0
  /\ hc' = [hc EXCEPT !["ctl_out"].mps = 8]
  /\ Goto("disable")
  /\ UNCHANGED <<deviceVars_, hprt, mode, discint, maskVars, chanVars, PortOn, gs, address,
                 speed, ep0size, epsize, ret, hprt0, gmask, todo, xfer, isrVars>>

DisableGlobalInt ==
  /\ Runs("disable")
  /\ glbl' = FALSE
  /\ Goto("core_reset")
  /\ UNCHANGED <<deviceVars_, hprt, mode, discint, gintmsk, haintmsk, chanVars, ConnStat,
                 PortOn, hostVars, ret, hprt0, gmask, todo, xfer, isrVars>>

\* ... the core is reset and its registers with it ...
CoreReset ==
  /\ Runs("core_reset")
  /\ hprt' = Off /\ enabling' = FALSE /\ mode' = "device" /\ discint' = FALSE
  /\ gintmsk' = {} /\ haintmsk' = {}
  /\ chan' = [c \in HostChannels |-> NoChan]
  /\ hcintmsk' = [c \in HostChannels |-> {}]
  /\ hcint' = [c \in HostChannels |-> "none"]
  /\ fifo' = [c \in HostChannels |-> 0]
  /\ Goto("set_mode")
  /\ UNCHANGED <<plugged, present, glbl, ConnStat, PortOn, hostVars, ret, hprt0, gmask,
                 todo, xfer, isrVars>>

\* ... it is made a host, and its port is reset, without power yet ...
SetCurrentMode ==
  /\ Runs("set_mode")
  /\ mode' = "host"
  /\ ret' = "flush" /\ Goto("port_reset")
  /\ UNCHANGED <<deviceVars_, hprt, discint, maskVars, chanVars, ConnStat, PortOn, hostVars,
                 hprt0, gmask, todo, xfer, isrVars>>

\* ... the FIFOs are laid out and flushed, the channels' interrupts cleared ...
FlushFifos ==
  /\ Runs("flush")
  /\ fifo' = [c \in HostChannels |-> 0]
  /\ hcint' = [c \in HostChannels |-> "none"]
  /\ hcintmsk' = [c \in HostChannels |-> {}]
  /\ Goto("vbus")
  /\ UNCHANGED <<deviceVars_, hprt, mode, discint, maskVars, chan, ConnStat, PortOn, hostVars,
                 ret, hprt0, gmask, todo, xfer, isrVars>>

\* USB_OTG_ReadHPRT0 clears in the copy the bits that writing a 1 clears.
ReadHPRT0 == hprt0' = Masked(hprt)

\* ... the port is powered (USB_OTG_DriveVbus) ...
DriveVbus ==
  /\ Runs("vbus")
  /\ ReadHPRT0
  /\ Goto("vbus_write")
  /\ UNCHANGED <<deviceVars_, hprt, mode, discint, maskVars, chanVars, ConnStat, PortOn,
                 hostVars, ret, gmask, todo, xfer, isrVars>>

DriveVbusWrite ==
  /\ Runs("vbus_write")
  /\ IF hprt0.pwr THEN UNCHANGED <<hprt, enabling>> ELSE WriteHPRT0([hprt0 EXCEPT !.pwr = TRUE])
  /\ hprt0' = Off
  /\ Goto("host_int")
  /\ UNCHANGED <<plugged, present, mode, discint, maskVars, chanVars, ConnStat, PortOn,
                 hostVars, ret, gmask, todo, xfer, isrVars>>

\* ... what is latched is cleared, the interrupts of a host are unmasked, but
\* not yet that of a disconnect ...
EnableHostInt ==
  /\ Runs("host_int")
  /\ discint' = FALSE
  /\ gintmsk' = {"hcintr", "portintr"}
  /\ Goto("enable")
  /\ UNCHANGED <<deviceVars_, hprt, mode, glbl, haintmsk, chanVars, ConnStat, PortOn,
                 hostVars, ret, hprt0, gmask, todo, xfer, isrVars>>

\* ... and the mask over all of them is opened.
EnableGlobalInt ==
  /\ Runs("enable")
  /\ glbl' = TRUE
  /\ Goto("process")
  /\ UNCHANGED <<deviceVars_, hprt, mode, discint, gintmsk, haintmsk, chanVars, ConnStat,
                 PortOn, hostVars, ret, hprt0, gmask, todo, xfer, isrVars>>

BringUp ==
  \/ HcdInit \/ DisableGlobalInt \/ CoreReset \/ SetCurrentMode \/ FlushFifos
  \/ DriveVbus \/ DriveVbusWrite \/ EnableHostInt \/ EnableGlobalInt

-----------------------------------------------------------------------------
(* The thread: USB_OTG_ResetPort *)

\* HPRT0 is read once for two writes, 100 ms apart ...
ResetPort ==
  /\ Runs("port_reset")
  /\ ReadHPRT0
  /\ Goto("reset_on")
  /\ UNCHANGED <<deviceVars_, hprt, mode, discint, maskVars, chanVars, ConnStat, PortOn,
                 hostVars, ret, gmask, todo, xfer, isrVars>>

DriveReset(label, next) ==
  /\ Runs(label)
  /\ WriteHPRT0([hprt0 EXCEPT !.rst = (label = "reset_on")])
  /\ Goto(next)
  /\ UNCHANGED <<plugged, present, mode, discint, maskVars, chanVars, ConnStat, PortOn,
                 hostVars, ret, hprt0, gmask, todo, xfer, isrVars>>

\* ... and 20 ms later the core has enabled the port of a device.
WaitsNot == TRUE                                 \* mutant
Waits20ms == ~enabling

ResetPortEnd ==
  /\ Runs("reset_wait") /\ Waits20ms
  /\ hprt0' = Off
  /\ Goto(ret)
  /\ UNCHANGED <<deviceVars_, hprt, mode, discint, maskVars, chanVars, ConnStat, PortOn,
                 hostVars, ret, gmask, todo, xfer, isrVars>>

Reset ==
  \/ ResetPort \/ ResetPortEnd
  \/ DriveReset("reset_on", "reset_off") \/ DriveReset("reset_off", "reset_wait")

-----------------------------------------------------------------------------
(* The thread: USB_OTG_HC_Init, for the channels in todo *)

\* The channel's own interrupts are cleared and unmasked, its bit in HAINTMSK
\* set: one step, because HCINT and HCINTMSK are written whole and nothing else
\* changes HAINTMSK, so that what comes between two of the accesses may as well come
\* before the first or after the last.  GINTMSK is read, changed and written back ...
HcInit ==
  /\ Runs("hc_init")
  /\ LET c == Head(todo)
     IN /\ hcint' = [hcint EXCEPT ![c] = "none"]
        /\ hcintmsk' = [hcintmsk EXCEPT ![c] = {"end", "nak"}]
        /\ haintmsk' = haintmsk \cup {c}
  /\ gmask' = gintmsk
  /\ Goto("hc_mask")
  /\ UNCHANGED <<deviceVars_, hprt, mode, discint, glbl, gintmsk, chan, fifo, ConnStat,
                 PortOn, hostVars, ret, hprt0, todo, xfer, isrVars>>

HcMask ==
  /\ Runs("hc_mask")
  /\ gintmsk' = gmask \cup {"hcintr"}
  /\ gmask' = {}
  /\ Goto("hc_char")
  /\ UNCHANGED <<deviceVars_, hprt, mode, discint, glbl, haintmsk, chanVars, ConnStat,
                 PortOn, hostVars, ret, hprt0, todo, xfer, isrVars>>

\* ... and HCCHAR gets what pdev->host.hc says, the channel not enabled.
HcChar ==
  /\ Runs("hc_char")
  /\ LET c == Head(todo)
     IN chan' = [chan EXCEPT ![c] = [dev |-> hc[c].dev, mps |-> hc[c].mps,
                                     speed |-> hc[c].speed, chen |-> FALSE, chdis |-> FALSE]]
  /\ todo' = Tail(todo)
  /\ Goto(IF Len(todo) > 1 THEN "hc_init" ELSE "process")
  /\ UNCHANGED <<deviceVars_, hprt, mode, discint, maskVars, hcintmsk, hcint, fifo,
                 ConnStat, PortOn, hostVars, ret, hprt0, gmask, xfer, isrVars>>

\* USBH_Open_Channel and USBH_Modify_Channel, for two channels: the first sets
\* everything, the second what is not 0.
Open(cs, d, s, m) ==
  /\ hc' = [c \in HostChannels |->
              IF c \in ToSet(cs) THEN [dev |-> d, mps |-> m, speed |-> s] ELSE hc[c]]
  /\ todo' = cs /\ Goto("hc_init")

Modify(cs, d, m) ==
  /\ hc' = [c \in HostChannels |->
              IF c \in ToSet(cs)
                THEN [hc[c] EXCEPT !.dev = IF d # 0 THEN d ELSE @,
                                   !.mps = IF m # 0 THEN m ELSE @]
                ELSE hc[c]]
  /\ todo' = cs /\ Goto("hc_init")

ChannelInit == HcInit \/ HcMask \/ HcChar

-----------------------------------------------------------------------------
(* The thread: HCD_SubmitRequest *)

\* USB_OTG_HC_StartXfer: HCTSIZ is written and HCCHAR read ...
Submit(c, len) ==
  /\ xfer' = [c |-> c, len |-> len, char |-> chan[c]]
  /\ Goto("xfer_on")

\* ... and written back with the channel enabled, before ...
XferOn ==
  /\ Runs("xfer_on")
  /\ chan' = [chan EXCEPT ![xfer.c] =
                [xfer.char EXCEPT !.chen = TRUE, !.chdis = FALSE]]
  /\ IF xfer.c \in Outs /\ xfer.len > 0
       THEN Goto("xfer_data") /\ UNCHANGED xfer
       ELSE Goto("process") /\ xfer' = NoXfer
  /\ UNCHANGED <<deviceVars_, hprt, mode, discint, maskVars, hcintmsk, hcint, fifo,
                 ConnStat, PortOn, hostVars, ret, hprt0, gmask, todo, isrVars>>

\* ... the data goes into the FIFO, with or without the space for it: without
\* it, the interrupt of an empty FIFO is unmasked as well.
Space == NpDepth - (fifo["ctl_out"] + fifo["bulk_out"])

XferData ==
  /\ Runs("xfer_data")
  /\ gintmsk' = IF Words(xfer.len) > Space THEN gintmsk \cup {"nptxfempty"} ELSE gintmsk
  /\ fifo' = [fifo EXCEPT ![xfer.c] = @ + Words(xfer.len)]
  /\ xfer' = NoXfer
  /\ Goto("process")
  /\ UNCHANGED <<deviceVars_, hprt, mode, discint, glbl, haintmsk, chan, hcintmsk, hcint,
                 ConnStat, PortOn, hostVars, ret, hprt0, gmask, todo, isrVars>>

Transfer == XferOn \/ XferData

-----------------------------------------------------------------------------
(* The thread: what USBH_Process does with the layer *)

\* A channel whose transfer has not come to its end.
Busy(c) == chan[c].chen \/ hcint[c] # "none"
Free    == {c \in HostChannels : ~Busy(c)}

\* The port is lost: the host is de-initialised, the core brought up again.
DeInit ==
  /\ gs # "HOST_IDLE" /\ (ConnStat = 0 \/ PortOn = 0)
  /\ gs' = "HOST_IDLE"
  /\ address' = 0 /\ speed' = "full" /\ ep0size' = MAX_EP0_SIZE
  /\ IF gs = "HOST_CLASS"
       THEN todo' = <<"bulk_out", "bulk_in">> /\ Goto("if_deinit")
       ELSE Goto("hcd_init") /\ UNCHANGED todo
  /\ UNCHANGED <<hc, epsize, ret, xfer>>

ResetIn(from, to, cont) ==
  /\ gs = from
  /\ gs' = to
  /\ ret' = cont /\ Goto("port_reset")
  /\ UNCHANGED <<hc, address, speed, ep0size, epsize, todo, xfer>>

IdleHost == ConnStat = 1 /\ ResetIn("HOST_IDLE", "HOST_WAIT_PRT_ENABLED", "process")
Attached ==
  PortOn = 1 /\ ResetIn("HOST_WAIT_PRT_ENABLED", "HOST_DEV_ATTACHED", "open")

\* The enumeration's use of the control channels: a packet out, one in, and,
\* after a request that was answered, what the answer says of them.
Request ==
  /\ gs \in {"ENUM_IDLE", "ENUM_GET_FULL_DEV_DESC", "ENUM_GET_CFG_DESC"}
  /\ "ctl_out" \in Free
  /\ \/ \E len \in {0, USBH_SETUP_PKT_SIZE} : Submit("ctl_out", len)
     \/ Submit("ctl_in", 0)
  /\ UNCHANGED <<hostVars, ret, todo>>

SizeKnown ==
  /\ gs = "ENUM_IDLE" /\ {"ctl_out", "ctl_in"} \subseteq Free
  /\ gs' = "ENUM_GET_FULL_DEV_DESC"
  /\ ep0size' = plugged.ep0
  /\ Modify(<<"ctl_out", "ctl_in">>, 0, plugged.ep0)
  /\ UNCHANGED <<address, speed, epsize, ret, xfer>>

Addressed ==
  /\ gs = "ENUM_GET_FULL_DEV_DESC" /\ {"ctl_out", "ctl_in"} \subseteq Free
  /\ gs' = "ENUM_GET_CFG_DESC"
  /\ address' = 1
  /\ Modify(<<"ctl_in", "ctl_out">>, 1, 0)
  /\ UNCHANGED <<speed, ep0size, epsize, ret, xfer>>

InterfaceInit ==
  /\ gs = "ENUM_GET_CFG_DESC" /\ {"ctl_out", "ctl_in"} \subseteq Free
  /\ gs' = "HOST_CLASS"
  /\ epsize' = plugged.bulk
  /\ Open(<<"bulk_out", "bulk_in">>, address, speed, plugged.bulk)
  /\ UNCHANGED <<address, speed, ep0size, ret, xfer>>

\* The CDC class driver's use of the bulk channels: at most a packet at a time.
BulkTransfer ==
  /\ gs = "HOST_CLASS"
  /\ \/ "bulk_out" \in Free /\ Submit("bulk_out", Min({CmdBytes, epsize}))
     \/ "bulk_in" \in Free /\ Submit("bulk_in", 0)
  /\ UNCHANGED <<hostVars, ret, todo>>

Process ==
  /\ Runs("process")
  /\ \/ DeInit
     \/ gs = "HOST_IDLE" /\ IdleHost
     \/ ConnStat = 1 /\ PortOn = 1
        /\ (Attached \/ Request \/ SizeKnown \/ Addressed \/ InterfaceInit \/ BulkTransfer)
  /\ UNCHANGED <<deviceVars_, hprt, mode, discint, maskVars, chanVars, ConnStat, PortOn,
                 hprt0, gmask, isrVars>>

\* Between the two: USBH_CDC_InterfaceDeInit halts the bulk channels, active or not.
InterfaceDeInit ==
  /\ Runs("if_deinit")
  /\ chan' = [chan EXCEPT ![Head(todo)] = Halt(@)]
  /\ todo' = Tail(todo)
  /\ Goto(IF Len(todo) > 1 THEN "if_deinit" ELSE "hcd_init")
  /\ UNCHANGED <<deviceVars_, hprt, mode, discint, maskVars, hcintmsk, hcint, fifo,
                 ConnStat, PortOn, hostVars, ret, hprt0, gmask, xfer, isrVars>>

\* HOST_DEV_ATTACHED, after the port reset: the speed is read, the control
\* channels are opened.
OpenControl ==
  /\ Runs("open")
  /\ gs' = "ENUM_IDLE"
  /\ speed' = plugged.speed
  /\ Open(<<"ctl_in", "ctl_out">>, address, plugged.speed, ep0size)
  /\ UNCHANGED <<deviceVars_, hprt, mode, discint, maskVars, chanVars, ConnStat, PortOn,
                 address, ep0size, epsize, ret, hprt0, gmask, xfer, isrVars>>

Thread == BringUp \/ Reset \/ ChannelInit \/ Transfer \/ Process \/ InterfaceDeInit \/ OpenControl

-----------------------------------------------------------------------------

OtgInit ==
  /\ plugged \in Kinds /\ present \in BOOLEAN
  /\ hprt = Off /\ enabling = FALSE /\ mode = "device" /\ discint = FALSE
  /\ glbl = FALSE /\ gintmsk = {} /\ haintmsk = {}
  /\ chan = [c \in HostChannels |-> NoChan]
  /\ hcintmsk = [c \in HostChannels |-> {}]
  /\ hcint = [c \in HostChannels |-> "none"]
  /\ fifo = [c \in HostChannels |-> 0]
  /\ hc = [c \in HostChannels |-> [dev |-> 0, mps |-> 0, speed |-> "full"]]
  /\ ConnStat = 0 /\ PortOn = 0
  /\ gs = "HOST_IDLE" /\ address = 0 /\ speed = "full" /\ ep0size = MAX_EP0_SIZE
  /\ epsize = 0
  /\ tpc = "hcd_init" /\ ret = "flush" /\ hprt0 = Off /\ gmask = {} /\ todo = <<>>
  /\ xfer = NoXfer
  /\ ints = {} /\ seen = Off /\ dup = Off /\ port = "hprt0"

OtgNext == Port \/ Bus \/ Handler \/ Thread

OtgSpec == OtgInit /\ [][OtgNext]_otgVars

-----------------------------------------------------------------------------
(* Properties *)

\* What the program writes into HPRT0, out of copies it read before, neither
\* disables the port nor takes its power, acknowledges no change bit that the
\* handler has not found set, and only the thread drives and ends a reset.  A second
\* change of the same bit, between that look and the acknowledge, is lost (told).
KeepsPort ==
  LET program == tpc' # tpc \/ ints' # ints \/ port' # port
      told(bit) == port = "ack" /\ seen[bit]
  IN program /\ tpc # "core_reset" =>
       /\ hprt.ena => hprt'.ena
       /\ hprt.pwr => hprt'.pwr
       /\ \A bit \in {"conndet", "enchng"} : hprt[bit] => hprt'[bit] \/ told(bit)
       /\ hprt'.rst # hprt.rst => tpc \in {"reset_on", "reset_off"}

\* No step of the program or the hardware does otherwise.
PortKept == [][KeepsPort]_otgVars

\* The port's loss is heard: DISCINT is unmasked while the port is enabled.
Heard == hprt.ena /\ glbl /\ ~InHandler => IrqPending \/ "disconnect" \in gintmsk

\* A channel that is enabled speaks to the endpoint the host means ...
Endpoint(c) ==
  [dev |-> address, speed |-> speed,
   mps |-> IF c \in {"ctl_out", "ctl_in"} THEN ep0size ELSE epsize]
Programmed ==
  \A c \in HostChannels : chan[c].chen /\ gs # "HOST_IDLE" =>
    \A f \in {"dev", "mps", "speed"} : chan[c][f] = Endpoint(c)[f]

\* ... and its end is heard, at each of the masks ...
Ends ==
  \A c \in HostChannels : chan[c].chen /\ glbl =>
    /\ mode = "host" /\ "hcintr" \in gintmsk /\ c \in haintmsk
    /\ "end" \in hcintmsk[c] /\ (chan[c].chdis /\ gs # "HOST_IDLE" => "chhltd" \in hcintmsk[c])

\* ... and the FIFO has space for what is sent, so the interrupt of an empty
\* FIFO, whose handler would send it a second time, stays masked.
Fits == Space >= 0 /\ "nptxfempty" \notin gintmsk

\* What PortKept rests on: a copy of HPRT0 that will be written has the bits that
\* a 1 clears taken out, or is the handler's, which sets those it looked at; it
\* has the power and, unless it drives the reset, the reset bit of HPRT0.  The
\* handler is not left in the middle, and a port reset does not return into one.
WritableCopy(v) == v.pwr = hprt.pwr /\ ~v.ena
Copied ==
  /\ {hprt, hprt0, seen, dup} \subseteq HPRT0s
  /\ tpc \in {"vbus_write", "reset_on", "reset_off"} =>
       WritableCopy(hprt0) /\ ~hprt0.conndet /\ ~hprt0.enchng
  /\ tpc = "vbus_write" => hprt0.rst = hprt.rst
  /\ ret \in {"flush", "process", "open"}
  /\ port # "hprt0" => "portintr" \in ints
  /\ port = "ack" => /\ WritableCopy(dup) /\ dup.rst = hprt.rst
                     /\ dup.conndet = seen.conndet /\ dup.enchng = seen.enchng

-----------------------------------------------------------------------------
(* What the parts rest on *)

Ctls  == {"ctl_out", "ctl_in"}
Bulks == {"bulk_out", "bulk_in"}

ResetLabels == {"port_reset", "reset_on", "reset_off", "reset_wait"}
InitLabels  == {"hc_init", "hc_mask", "hc_char"}
XferLabels  == {"xfer_on", "xfer_data"}
DownLabels  == {"flush", "vbus", "vbus_write", "host_int", "enable"}
EnumStates  == {"ENUM_IDLE", "ENUM_GET_FULL_DEV_DESC", "ENUM_GET_CFG_DESC"}

\* From the core's reset to the opening of the mask.
Down == tpc \in DownLabels \cup {"set_mode"} \/ (tpc \in ResetLabels /\ gs = "HOST_IDLE")

HCCHARs == [dev : Nat, mps : Nat, speed : {"full", "low"}, chen : BOOLEAN, chdis : BOOLEAN]
CtlTodos  == {<<"ctl_out", "ctl_in">>, <<"ctl_in", "ctl_out">>, <<"ctl_in">>, <<"ctl_out">>}
BulkTodos == {<<"bulk_out", "bulk_in">>, <<"bulk_in">>}

OtgTypeOK ==
  /\ plugged \in Kinds /\ present \in BOOLEAN /\ enabling \in BOOLEAN
  /\ glbl \in BOOLEAN /\ discint \in BOOLEAN /\ mode \in {"device", "host"}
  /\ {gintmsk, gmask, ints} \subseteq SUBSET {"hcintr", "portintr", "disconnect"}
  /\ haintmsk \subseteq HostChannels
  /\ chan \in [HostChannels -> HCCHARs]
  /\ hcintmsk \in [HostChannels -> SUBSET {"end", "nak", "chhltd"}]
  /\ hcint \in [HostChannels -> {"none", "end", "nak", "chhltd"}]
  /\ fifo \in [HostChannels -> Nat]
  /\ hc \in [HostChannels -> [dev : Nat, mps : Nat, speed : {"full", "low"}]]
  /\ gs \in {"HOST_IDLE", "HOST_WAIT_PRT_ENABLED", "HOST_DEV_ATTACHED", "HOST_CLASS"} \cup EnumStates
  /\ address \in {0, 1} /\ speed \in {"full", "low"} /\ ep0size \in Nat /\ epsize \in Nat
  /\ port \in {"hprt0", "hprt0_dup", "ack"}

\* Where the thread is says what the host is doing.
Place ==
  /\ tpc \in {"hcd_init", "disable", "core_reset", "set_mode", "if_deinit"} \cup DownLabels
       => gs = "HOST_IDLE"
  /\ tpc \in ResetLabels => \/ gs = "HOST_IDLE" /\ ret = "flush"
                            \/ gs = "HOST_WAIT_PRT_ENABLED" /\ ret = "process"
                            \/ gs = "HOST_DEV_ATTACHED" /\ ret = "open"
  /\ gs = "HOST_DEV_ATTACHED" => tpc \in ResetLabels \cup {"open"}
  /\ tpc = "open" => gs = "HOST_DEV_ATTACHED"
  /\ tpc \in InitLabels \cup XferLabels => gs \in EnumStates \cup {"HOST_CLASS"}
  /\ tpc \in InitLabels => todo \in IF gs = "HOST_CLASS" THEN BulkTodos ELSE CtlTodos
  /\ tpc = "if_deinit" => todo \in BulkTodos

\* The masks, and the port under them.
Masks ==
  /\ tpc = "core_reset" \/ Down => ~glbl
  /\ Down => ~hprt.ena /\ ~enabling
  /\ Down /\ tpc \notin {"host_int", "enable"} => ~hprt.pwr
  /\ (Down /\ tpc # "set_mode") \/ glbl => mode = "host"
  /\ tpc = "enable" \/ glbl => {"hcintr", "portintr"} \subseteq gintmsk
  /\ enabling => tpc = "reset_wait"
  /\ InHandler => glbl
  /\ tpc = "hc_mask" /\ glbl => /\ "portintr" \in gmask
                                /\ hprt.ena => "disconnect" \in gmask

\* An enabled port is one the handler has heard of, or will.
Hearing ==
  glbl /\ hprt.ena =>
    /\ port = "hprt0" => hprt.enchng \/ "disconnect" \in gintmsk
    /\ port = "hprt0_dup" => seen.ena /\ (seen.enchng \/ "disconnect" \in gintmsk)
    /\ port = "ack" => "disconnect" \in gintmsk
    /\ port # "hprt0" => seen.enchng = hprt.enchng
    /\ hprt.enchng => "portintr" \in ints \/ ~InHandler

\* The channels the thread uses, of those it uses those it has initialised, and
\* those whose masks it has opened.
Using(c) == gs = "HOST_CLASS" \/ (gs \in EnumStates /\ c \in Ctls)
Ready(c) == Using(c) /\ ~(tpc \in InitLabels /\ c \in ToSet(todo))
Begun(c) == (tpc \in {"hc_mask", "hc_char"} /\ c = Head(todo)) \/ (tpc = "if_deinit" /\ c \in Bulks)

\* Those that are not at work: before the enumeration all, then those of the
\* other pair, those to be initialised and the OUT channel to be started.  (The
\* control IN channel may be started again while it is still at work.)
Spared(c) ==
  \/ Down \/ gs \in {"HOST_WAIT_PRT_ENABLED", "HOST_DEV_ATTACHED"}
  \/ gs = "HOST_IDLE" /\ tpc = "process"
  \/ gs \in EnumStates /\ c \in Bulks
  \/ gs = "HOST_CLASS" /\ c \in Ctls
  \/ tpc \in InitLabels /\ c \in ToSet(todo)
  \/ tpc = "xfer_on" /\ c = xfer.c /\ c \in Outs

AtRest(c) == ~chan[c].chen /\ ~chan[c].chdis /\ hcint[c] = "none"
Unmasked(c) == c \in haintmsk /\ "end" \in hcintmsk[c]
ForEndpoint(v, c) == \A f \in {"dev", "mps", "speed"} : v[f] = Endpoint(c)[f]

\* A channel is used for its endpoint, its end is served before it is halted,
\* and what is in the FIFO is that of a channel at work.
Channel(c) ==
  /\ Spared(c) => AtRest(c)
  /\ Using(c) => ForEndpoint(hc[c], c)
  /\ Ready(c) => ForEndpoint(chan[c], c)
  /\ Ready(c) \/ Begun(c) \/ chan[c].chen => Unmasked(c)
  /\ hcint[c] \in {"end", "nak"} => chan[c].chen
  /\ gs # "HOST_IDLE" /\ chan[c].chdis =>
       chan[c].chen /\ hcint[c] = "none" /\ "chhltd" \in hcintmsk[c]
  /\ ~chan[c].chen => fifo[c] = 0

\* One pipe at a time has something in the FIFO, and not more than a packet.
OnePacket ==
  /\ fifo["ctl_out"] = 0 \/ fifo["bulk_out"] = 0
  /\ fifo["ctl_out"] <= Words(USBH_SETUP_PKT_SIZE) /\ fifo["bulk_out"] <= Words(CmdBytes)

\* The transfer that the thread is starting: its copy of HCCHAR is for the
\* endpoint, and the channel does not end before its data is in the FIFO.
Starting ==
  tpc \in XferLabels =>
    /\ xfer.c \in HostChannels /\ xfer.len \in Nat /\ Using(xfer.c)
    /\ gs = "HOST_CLASS" => xfer.c \in Bulks
    /\ xfer.c = "ctl_out" => xfer.len <= USBH_SETUP_PKT_SIZE
    /\ xfer.c = "bulk_out" => xfer.len <= CmdBytes
    /\ tpc = "xfer_on" => xfer.char \in HCCHARs /\ ForEndpoint(xfer.char, xfer.c)
    /\ tpc = "xfer_data" => /\ xfer.c \in Outs /\ fifo[xfer.c] = 0
                            /\ chan[xfer.c].chen /\ ~chan[xfer.c].chdis /\ hcint[xfer.c] = "none"

Steady ==
  /\ OtgTypeOK /\ Place /\ Masks /\ Hearing
  /\ \A c \in HostChannels : Channel(c)
  /\ OnePacket /\ Starting

\* The registers say what the host means, whenever the thread, the handler and
\* the core interleave: see the parts.
RegistersSound == Heard /\ Programmed /\ Ends /\ Fits /\ Copied /\ Steady
=============================================================================
