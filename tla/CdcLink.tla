------------------------------ MODULE CdcLink -------------------------------
(***************************************************************************)
(* The command/response link while a device stays connected: main.c's      *)
(* cmdrsp state machine, the CDC class driver below it (usbh_cdc.c), the   *)
(* two bulk channels and their interrupts (usb_hcd_int.c, usb_hcd.c), the  *)
(* bus, and the device at its other end.                                   *)
(*                                                                         *)
(* The thread runs CDC_ProcessTransmission, CDC_ProcessReception and one   *)
(* pass of main's loop in turn; pc says which is next.  The handler        *)
(* pre-empts it.  A command is CmdPackets packets on the wire, a response  *)
(* is one; a response is represented by the number of its command.         *)
(***************************************************************************)
EXTENDS Naturals, Sequences

CONSTANTS
  MaxCmds,     \* bound: the number of commands the test issues
  CmdPackets,  \* packets per command: TxDataLength over OutEpSize, rounded up
  Faults       \* what the bus and the device may do wrong

AllFaults == {"nak",       \* the device is not ready for a packet
              "stall",     \* it halts the endpoint
              "lost",      \* a packet is lost on its way to the device
              "ack_lost",  \* a handshake is lost on its way back
              "silent",    \* a command is executed but not answered
              "zlp",       \* a zero-length packet follows a response
              "babble"}    \* the device sends more than the channel expects

ASSUME CdcLinkAssumption ==
  /\ MaxCmds \in Nat
  /\ CmdPackets \in Nat \ {0}
  /\ Faults \subseteq AllFaults

VARIABLES
  pc,             \* the thread: "tx", "rx", "main" or "error"
  cmdrsp,         \* cmdrsp.state
  late,           \* more time than allowed has passed since cmdrsp.time
  compared,       \* cmdrsp.rsp is not NULL: the response will be compared
  cmdNo,          \* how many commands were issued
  err,            \* the number error() was called with, or 0
  cdc,            \* _CDC_Handle.state
  data_tx_state, data_rx_state,
  txLeft,         \* packets of the command not yet sent (TxDataLength)
  rspbuf,         \* the response in the buffer, 0 before the first
  XferCnt,        \* XferCnt[InPipe] # 0
  URB_State, HC_Status,    \* of the "out" and the "in" channel
  toggle,         \* toggle_out of the "out" and toggle_in of the "in" channel
  chan,           \* the channel in hardware: "off", "on" or "halting"
  hcint,          \* the interrupt a channel has pending, or "none"
  devToggle,      \* the device: the toggle it expects, and the one it sends
  devPackets,     \* the packets it has of the command under way
  executed,       \* how many commands it has executed
  answers,        \* the packets it has to send, 0 is a zero-length one
  fifo,           \* the packet received last, 0 if zero-length
  answered        \* history: the response accepted last

threadVars  == <<pc, cmdrsp, late, compared, cmdNo, err, answered>>
cdcVars     == <<cdc, data_tx_state, data_rx_state, txLeft>>
softVars    == <<rspbuf, XferCnt, URB_State, HC_Status, toggle>>
deviceVars  == <<devToggle, devPackets, executed, answers, fifo>>
vars == <<threadVars, cdcVars, softVars, chan, hcint, deviceVars>>

Pipes == {"out", "in"}

TypeOK ==
  /\ pc \in {"tx", "rx", "main", "error"}
  /\ cmdrsp \in {"IDLE", "TX_BUSY", "TX_DONE", "RX_BUSY", "RX_DONE"}
  /\ late \in BOOLEAN /\ compared \in BOOLEAN
  /\ cmdNo \in 0 .. MaxCmds
  /\ err \in {0, 10, 11, 20, 21, 30}
  /\ cdc \in {"CDC_IDLE_STATE", "CDC_TRANSFER_DATA"}
  /\ data_tx_state \in {"CDC_IDLE", "CDC_SEND_DATA", "CDC_SEND_DATA_WAIT"}
  /\ data_rx_state \in {"CDC_IDLE", "CDC_RECEIVE_DATA", "CDC_RECEIVE_DATA_WAIT"}
  /\ txLeft \in 0 .. CmdPackets
  /\ rspbuf \in 0 .. MaxCmds /\ XferCnt \in BOOLEAN
  /\ URB_State \in [Pipes -> {"URB_IDLE", "URB_DONE", "URB_NOTREADY",
                              "URB_ERROR", "URB_STALL"}]
  /\ HC_Status \in [Pipes -> {"HC_IDLE", "HC_XFRC", "HC_NAK", "HC_STALL",
                              "HC_XACTERR", "HC_DATATGLERR"}]
  /\ toggle \in [Pipes -> {0, 1}]
  /\ chan \in [Pipes -> {"off", "on", "halting"}]
  /\ hcint \in [Pipes -> {"none", "rxflvl", "xfercompl", "nak", "stall",
                          "xacterr", "datatglerr", "bblerr", "chhltd"}]
  /\ devToggle \in [Pipes -> {0, 1}]
  /\ devPackets \in 0 .. CmdPackets
  /\ executed \in 0 .. MaxCmds
  /\ answers \in Seq(0 .. MaxCmds) /\ fifo \in 0 .. MaxCmds
  /\ answered \in 0 .. MaxCmds

-----------------------------------------------------------------------------
(* The thread *)

IrqPending == \E p \in Pipes : hcint[p] # "none"
Runs(label) == pc = label /\ ~IrqPending

\* error: the number is displayed and the thread goes no further.
Error(nr) == err' = nr /\ pc' = "error"

\* HCD_SubmitRequest: the URB is idle again and the channel is enabled; neither
\* XferCnt nor HC_Status is touched.
StartXfer(p) == chan' = [chan EXCEPT ![p] = "on"]

SubmitRequest(p) ==
  /\ URB_State' = [URB_State EXCEPT ![p] = "URB_IDLE"]
  /\ StartXfer(p)

\* The packet's toggle is the channel's at that time (module variable toggle).
BulkSendData    == SubmitRequest("out")
BulkReceiveData == SubmitRequest("in")

\* USBH_CDC_Handle calls CDC_ProcessTransmission ...
TxSend ==
  /\ data_tx_state = "CDC_SEND_DATA"
  /\ BulkSendData
  /\ data_tx_state' = "CDC_SEND_DATA_WAIT"
  /\ pc' = "rx"
  /\ UNCHANGED <<cmdrsp, err, txLeft>>

\* (on URB_DONE: the next packet, or USBH_CDC_TransmitCallback)
MorePacketsAtZero == txLeft > 0                  \* mutant
MorePackets == txLeft > 1

TxDone ==
  /\ data_tx_state = "CDC_SEND_DATA_WAIT" /\ URB_State["out"] = "URB_DONE"
  /\ txLeft' = txLeft - 1
  /\ IF MorePackets
       THEN data_tx_state' = "CDC_SEND_DATA" /\ pc' = "rx" /\ UNCHANGED <<cmdrsp, err>>
       ELSE /\ data_tx_state' = "CDC_IDLE"
            /\ IF cmdrsp # "TX_BUSY"
                 THEN Error(11) /\ UNCHANGED cmdrsp
                 ELSE cmdrsp' = "TX_DONE" /\ pc' = "rx" /\ UNCHANGED err
  /\ UNCHANGED <<URB_State, chan>>

\* (on URB_NOTREADY the packet is sent again; URB_ERROR and URB_STALL are not
\* looked at)
TxOther ==
  /\ ~(data_tx_state = "CDC_SEND_DATA")
  /\ ~(data_tx_state = "CDC_SEND_DATA_WAIT" /\ URB_State["out"] = "URB_DONE")
  /\ data_tx_state' =
       IF data_tx_state = "CDC_SEND_DATA_WAIT" /\ URB_State["out"] = "URB_NOTREADY"
         THEN "CDC_SEND_DATA" ELSE data_tx_state
  /\ pc' = "rx"
  /\ UNCHANGED <<cmdrsp, err, txLeft, URB_State, chan>>

ProcessTransmission ==
  /\ Runs("tx")
  /\ IF cdc = "CDC_TRANSFER_DATA"
       THEN TxSend \/ TxDone \/ TxOther
       ELSE /\ pc' = "rx"
            /\ UNCHANGED <<data_tx_state, txLeft, cmdrsp, err, URB_State, chan>>
  /\ UNCHANGED <<late, compared, cmdNo, answered, cdc, data_rx_state, rspbuf,
                 XferCnt, HC_Status, toggle, hcint, deviceVars>>

\* ... and CDC_ProcessReception.
RxReceive ==
  /\ data_rx_state = "CDC_RECEIVE_DATA"
  /\ BulkReceiveData
  /\ data_rx_state' = "CDC_RECEIVE_DATA_WAIT"
  /\ pc' = "main"
  /\ UNCHANGED <<cmdrsp, err>>

\* (on URB_DONE: receive again if HCD_GetXferCnt is 0, else
\* USBH_CDC_ReceiveCallback)
RxDone ==
  /\ data_rx_state = "CDC_RECEIVE_DATA_WAIT" /\ URB_State["in"] = "URB_DONE"
  /\ IF ~XferCnt
       THEN data_rx_state' = "CDC_RECEIVE_DATA" /\ pc' = "main" /\ UNCHANGED <<cmdrsp, err>>
       ELSE /\ data_rx_state' = "CDC_IDLE"
            /\ IF cmdrsp # "RX_BUSY"
                 THEN Error(21) /\ UNCHANGED cmdrsp
                 ELSE cmdrsp' = "RX_DONE" /\ pc' = "main" /\ UNCHANGED err
  /\ UNCHANGED <<URB_State, chan>>

RxOther ==
  /\ ~(data_rx_state = "CDC_RECEIVE_DATA")
  /\ ~(data_rx_state = "CDC_RECEIVE_DATA_WAIT" /\ URB_State["in"] = "URB_DONE")
  /\ pc' = "main"
  /\ UNCHANGED <<data_rx_state, cmdrsp, err, URB_State, chan>>

ProcessReception ==
  /\ Runs("rx")
  /\ IF cdc = "CDC_TRANSFER_DATA"
       THEN RxReceive \/ RxDone \/ RxOther
       ELSE pc' = "main" /\ UNCHANGED <<data_rx_state, cmdrsp, err, URB_State, chan>>
  /\ UNCHANGED <<late, compared, cmdNo, answered, cdc, data_tx_state, txLeft,
                 rspbuf, XferCnt, HC_Status, toggle, hcint, deviceVars>>

\* main's loop steps on only when no command is outstanding.
MayIssueUnlessSending == cmdrsp # "TX_BUSY"      \* mutant
MayIssue == cmdrsp = "IDLE"

\* command_response: USBH_CDC_Transmit and the start of the 500 ms.
Issue(compare) ==
  /\ Runs("main") /\ MayIssue /\ cmdNo < MaxCmds
  /\ cmdNo' = cmdNo + 1
  /\ cdc' = "CDC_TRANSFER_DATA"
  /\ data_tx_state' = "CDC_SEND_DATA"
  /\ txLeft' = CmdPackets
  /\ cmdrsp' = "TX_BUSY"
  /\ late' = FALSE
  /\ compared' = compare
  /\ pc' = "tx"
  /\ UNCHANGED <<err, answered, data_rx_state, softVars, chan, hcint, deviceVars>>

\* A step of the test that sends no command.
Idle ==
  /\ Runs("main") /\ cmdrsp = "IDLE"
  /\ pc' = "tx"
  /\ UNCHANGED <<cmdrsp, late, compared, cmdNo, err, answered, cdcVars,
                 softVars, chan, hcint, deviceVars>>

\* command_response_handle, one case of cmdrsp.state each.
HandleTxBusyGivesUpCommand ==                    \* mutant
  /\ Runs("main") /\ cmdrsp = "TX_BUSY"
  /\ cmdrsp' = IF late THEN "IDLE" ELSE cmdrsp
  /\ pc' = "tx"
  /\ UNCHANGED <<err, late, compared, cmdNo, answered, cdcVars, softVars,
                 chan, hcint, deviceVars>>

HandleTxBusy ==
  /\ Runs("main") /\ cmdrsp = "TX_BUSY"
  /\ IF late THEN Error(10) ELSE pc' = "tx" /\ UNCHANGED err
  /\ UNCHANGED <<cmdrsp, late, compared, cmdNo, answered, cdcVars, softVars,
                 chan, hcint, deviceVars>>

HandleTxDone ==
  /\ Runs("main") /\ cmdrsp = "TX_DONE"
  /\ cdc' = "CDC_TRANSFER_DATA"
  /\ data_rx_state' = "CDC_RECEIVE_DATA"
  /\ cmdrsp' = "RX_BUSY"
  /\ late' = FALSE
  /\ pc' = "tx"
  /\ UNCHANGED <<compared, cmdNo, err, answered, data_tx_state, txLeft,
                 softVars, chan, hcint, deviceVars>>

HandleRxBusyForEver ==                           \* mutant
  /\ Runs("main") /\ cmdrsp = "RX_BUSY"
  /\ pc' = "tx"
  /\ UNCHANGED <<err, cmdrsp, late, compared, cmdNo, answered, cdcVars, softVars,
                 chan, hcint, deviceVars>>

HandleRxBusy ==
  /\ Runs("main") /\ cmdrsp = "RX_BUSY"
  /\ IF late THEN Error(20) ELSE pc' = "tx" /\ UNCHANGED err
  /\ UNCHANGED <<cmdrsp, late, compared, cmdNo, answered, cdcVars, softVars,
                 chan, hcint, deviceVars>>

\* A response is compared only where the command gave one to expect; the device
\* may answer with any status, and two responses may be equal, so a comparison
\* may fail or succeed for any of them.
HandleRxDone(mismatch) ==
  /\ Runs("main") /\ cmdrsp = "RX_DONE"
  /\ IF compared /\ mismatch
       THEN Error(30) /\ UNCHANGED <<cmdrsp, answered>>
       ELSE /\ cmdrsp' = "IDLE"
            /\ answered' = rspbuf
            /\ pc' = "tx"
            /\ UNCHANGED err
  /\ UNCHANGED <<late, compared, cmdNo, cdcVars, softVars, chan, hcint, deviceVars>>

\* _error displays the number for as long as the device is there.
ErrorLoop ==
  /\ Runs("error")
  /\ UNCHANGED vars

Thread ==
  \/ ProcessTransmission \/ ProcessReception
  \/ \E compare \in BOOLEAN : Issue(compare)
  \/ Idle \/ HandleTxBusy \/ HandleTxDone \/ HandleRxBusy
  \/ \E mismatch \in BOOLEAN : HandleRxDone(mismatch)
  \/ ErrorLoop

\* The time allowed, 500 ms for TX_BUSY and 5000 ms for RX_BUSY, is over.
Tick ==
  /\ cmdrsp \in {"TX_BUSY", "RX_BUSY"} /\ ~late
  /\ late' = TRUE
  /\ UNCHANGED <<pc, cmdrsp, compared, cmdNo, err, answered, cdcVars, softVars,
                 chan, hcint, deviceVars>>

-----------------------------------------------------------------------------
(* The bus and the device: one transaction of an enabled channel *)

\* What the device does with a packet of a command: a packet with the wrong
\* toggle is a repetition, acknowledged and dropped; the last packet makes it
\* execute the command and queue the response.
Take ==
  IF toggle["out"] # devToggle["out"]
    THEN UNCHANGED deviceVars
    ELSE /\ devToggle' = [devToggle EXCEPT !["out"] = 1 - @]
         /\ IF devPackets + 1 < CmdPackets
              THEN devPackets' = devPackets + 1 /\ UNCHANGED <<executed, answers>>
              ELSE /\ devPackets' = 0
                   /\ executed' = executed + 1
                   /\ \/ answers' = Append(answers, executed + 1)
                      \/ "silent" \in Faults /\ UNCHANGED answers
                      \/ "zlp" \in Faults /\ answers' = answers \o <<executed + 1, 0>>
         /\ UNCHANGED fifo

Active(p)     == chan[p] = "on" /\ hcint[p] = "none"
Raise(p, int) == hcint' = [hcint EXCEPT ![p] = int]

OutTransaction ==
  /\ Active("out")
  /\ \/ Take /\ Raise("out", "xfercompl")
     \/ "ack_lost" \in Faults /\ Take /\ Raise("out", "xacterr")
     \/ UNCHANGED deviceVars
          /\ \/ "nak" \in Faults /\ Raise("out", "nak")
             \/ "stall" \in Faults /\ Raise("out", "stall")
             \/ "lost" \in Faults /\ Raise("out", "xacterr")
  /\ UNCHANGED <<threadVars, cdcVars, softVars, chan>>

\* The device sends the first packet it has, and sends it again unless it sees
\* the acknowledgement.  Data goes through the receive FIFO ("rxflvl", from
\* there to the channel's own interrupt); a zero-length packet does not.
Send(acked) ==
  /\ answers # <<>>
  /\ IF toggle["in"] # devToggle["in"]
       THEN Raise("in", "datatglerr") /\ UNCHANGED fifo
       ELSE /\ Raise("in", IF Head(answers) > 0 THEN "rxflvl" ELSE "xfercompl")
            /\ fifo' = Head(answers)
  /\ IF acked
       THEN /\ answers' = Tail(answers)
            /\ devToggle' = [devToggle EXCEPT !["in"] = 1 - @]
       ELSE UNCHANGED <<answers, devToggle>>
  /\ UNCHANGED <<devPackets, executed>>

InTransaction ==
  /\ Active("in")
  /\ \/ Send(TRUE)
     \/ "ack_lost" \in Faults /\ Send(FALSE)
     \/ UNCHANGED deviceVars
          /\ \/ Raise("in", "nak")
             \/ "stall" \in Faults /\ Raise("in", "stall")
             \/ "lost" \in Faults /\ Raise("in", "xacterr")
             \/ "babble" \in Faults /\ Raise("in", "bblerr")
  /\ UNCHANGED <<threadVars, cdcVars, softVars, chan>>

\* A channel that was told to halt does so.
Halted ==
  \E p \in Pipes :
    /\ chan[p] = "halting"
    /\ chan' = [chan EXCEPT ![p] = "off"]
    /\ Raise(p, "chhltd")
    /\ UNCHANGED <<threadVars, cdcVars, softVars, deviceVars>>

-----------------------------------------------------------------------------
(* The interrupt handler *)

Clear(p)        == Raise(p, "none")
Flip(p)         == toggle' = [toggle EXCEPT ![p] = 1 - @]
SetStatus(p, s) == HC_Status' = [HC_Status EXCEPT ![p] = s]
SetURB(p, u)    == URB_State' = [URB_State EXCEPT ![p] = u]
Halt(p)         == chan' = [chan EXCEPT ![p] = "halting"]

\* USB_OTG_USBH_handle_rx_qlvl_ISR: the packet is copied out of the FIFO.
RxQlvlISR ==
  /\ hcint["in"] = "rxflvl"
  /\ rspbuf' = fifo
  /\ XferCnt' = TRUE
  /\ Raise("in", "xfercompl")
  /\ UNCHANGED <<URB_State, HC_Status, toggle, chan>>

\* USB_OTG_USBH_handle_hc_n_Out_ISR and ..._In_ISR: the cause is noted and the
\* channel halted ...
StatusOfNoStall == [xfercompl |-> "HC_XFRC", nak |-> "HC_NAK",   \* mutant
                    xacterr |-> "HC_XACTERR", datatglerr |-> "HC_DATATGLERR"]
StatusOf == [xfercompl |-> "HC_XFRC", nak |-> "HC_NAK", stall |-> "HC_STALL",
             xacterr |-> "HC_XACTERR", datatglerr |-> "HC_DATATGLERR"]

\* Data that was received flips the toggle at once, data that was sent only
\* when the channel has halted.
NeverFlipsAtCause(p) == FALSE                    \* mutant
FlipsAtCause(p) == p = "in" /\ hcint[p] = "xfercompl"
AlwaysFlipsAtHalt(p) == p = "out"                \* mutant
FlipsAtHalt(p) == p = "out" /\ HC_Status[p] = "HC_XFRC"

CauseISR(p) ==
  /\ hcint[p] \in DOMAIN StatusOf
  /\ SetStatus(p, StatusOf[hcint[p]])
  /\ IF FlipsAtCause(p) THEN Flip(p) ELSE UNCHANGED toggle
  /\ IF p = "in" /\ hcint[p] = "nak" THEN UNCHANGED chan ELSE Halt(p)
  /\ Clear(p)
  /\ UNCHANGED <<rspbuf, XferCnt, URB_State>>

\* ... and once it is, the noted cause gives the URB its state.
HaltedISR(p) ==
  /\ hcint[p] = "chhltd"
  /\ CASE HC_Status[p] = "HC_XFRC"    -> SetURB(p, "URB_DONE")
       [] HC_Status[p] = "HC_STALL"   -> SetURB(p, "URB_STALL")
       [] HC_Status[p] = "HC_XACTERR" -> SetURB(p, "URB_ERROR")
       [] HC_Status[p] = "HC_NAK" /\ p = "out" -> SetURB(p, "URB_NOTREADY")
       [] HC_Status[p] = "HC_DATATGLERR" /\ p = "in" -> SetURB(p, "URB_ERROR")
       [] OTHER -> UNCHANGED URB_State
  /\ IF FlipsAtHalt(p) THEN Flip(p) ELSE UNCHANGED toggle
  /\ Clear(p)
  /\ UNCHANGED <<rspbuf, XferCnt, HC_Status, chan>>

\* A babble error is unmasked (USB_OTG_HC_Init), but the handler has no case
\* for it and leaves it pending.
BabbleISR == hcint["in"] = "bblerr" /\ UNCHANGED <<softVars, chan, hcint>>

ISR ==
  /\ \/ RxQlvlISR \/ BabbleISR
     \/ \E p \in Pipes : CauseISR(p) \/ HaltedISR(p)
  /\ UNCHANGED <<threadVars, cdcVars, deviceVars>>

-----------------------------------------------------------------------------

\* The device was enumerated and main's loop has just found it connected.
Init ==
  /\ pc = "main" /\ cmdrsp = "IDLE" /\ late = FALSE /\ compared = FALSE
  /\ cmdNo = 0 /\ err = 0 /\ answered = 0
  /\ cdc = "CDC_IDLE_STATE"
  /\ data_tx_state = "CDC_IDLE" /\ data_rx_state = "CDC_IDLE" /\ txLeft = 0
  /\ rspbuf = 0 /\ XferCnt = FALSE
  /\ URB_State = [p \in Pipes |-> "URB_IDLE"]
  /\ HC_Status = [p \in Pipes |-> "HC_IDLE"]
  /\ toggle = [p \in Pipes |-> 0]
  /\ chan = [p \in Pipes |-> "off"] /\ hcint = [p \in Pipes |-> "none"]
  /\ devToggle = [p \in Pipes |-> 0]
  /\ devPackets = 0 /\ executed = 0 /\ answers = <<>> /\ fifo = 0

Bus == OutTransaction \/ InTransaction \/ Halted

Next == Thread \/ Tick \/ Bus \/ ISR

Spec == Init /\ [][Next]_vars

\* The thread, the handler and the hardware keep going and time passes.  The
\* thread is strongly fair: a device that answers every IN token with NAK
\* interrupts it again and again, but between two interrupts it runs.
Fairness == SF_vars(Thread) /\ WF_vars(ISR) /\ WF_vars(Tick) /\ WF_vars(Halted)

FairSpec == Spec /\ Fairness

-----------------------------------------------------------------------------
(* Properties *)

\* ERR_TX_BAD_CALLBACK and ERR_RX_BAD_CALLBACK are never displayed: the class
\* driver reports the end of a transfer only to a command that waits for it.
NoBadCallback == err \notin {11, 21}

\* A transmission that is reported done was taken by the device to its last
\* packet, once, whatever was refused and sent again on the way: exactly the
\* commands issued so far were executed.
Delivered == cmdrsp \in {"TX_DONE", "RX_BUSY", "RX_DONE"} => executed = cmdNo

\* The response that is compared, and that the test then uses, is the one to
\* the command under way: never that of an earlier command, repeated by the
\* device or left over in the buffer.
FreshResponse == cmdrsp = "RX_DONE" => rspbuf = cmdNo

\* HCD_GetXferCnt returns the "No. of data bytes transferred" (usb_hcd.c): zero
\* exactly when the transfer that is done carried no data.
XferCntTrue == URB_State["in"] = "URB_DONE" => (XferCnt <=> fifo # 0)

\* The handler clears what it was called for (usb_hcd_int.c: "Clear appropriate
\* bits in HCINTn to clear the interrupt bit in GINTSTS"): the thread always
\* gets to run again.
InterruptsCleared == []<>~IrqPending

\* But for a babble error.
Babble == hcint["in"] = "bblerr"
OtherInterruptsCleared == []<>(IrqPending => Babble)

\* The link is what the test program needs of it: module CmdRsp, where a
\* command is outstanding from its issue until its response is accepted.
Abs == INSTANCE CmdRsp WITH
         phase <- IF err # 0 THEN "failed"
                  ELSE IF cmdrsp = "IDLE" THEN "idle" ELSE "busy",
         issued <- cmdNo

\* One command at a time, executed in order and at most once, and answered with
\* its own response.
ImplementsCmdRsp == Abs!SafeSpec

\* No command stays outstanding: with a device that does not answer, refuses,
\* or loses packets, a timeout ends the test.
Resolved == InterruptsCleared => Abs!Resolves

-----------------------------------------------------------------------------
(* The inductive invariant *)

\* The class driver is at work for the command under way, and for no other reason.
Control ==
  /\ err # 0 <=> pc = "error"
  /\ data_tx_state # "CDC_IDLE" <=> cmdrsp = "TX_BUSY"
  /\ data_rx_state # "CDC_IDLE" <=> cmdrsp = "RX_BUSY"
  /\ cmdrsp # "IDLE" => cmdNo > 0

\* A channel at rest, and one whose transaction has ended in a status that the
\* thread has not been told of.
Resting(p)  == chan[p] = "off" /\ hcint[p] = "none"
Ended(p, s) ==
  \/ chan[p] = "on" /\ hcint[p] \in DOMAIN StatusOf /\ StatusOf[hcint[p]] = s
  \/ chan[p] = "halting" /\ hcint[p] = "none" /\ HC_Status[p] = s
  \/ chan[p] = "off" /\ hcint[p] = "chhltd" /\ HC_Status[p] = s

InStep(p) == toggle[p] = devToggle[p]

\* The OUT channel is out of step with the device from when it takes a packet to
\* when the channel has halted; after an error it may stay so.
Outgoing ==
  IF data_tx_state # "CDC_SEND_DATA_WAIT"
    THEN Resting("out") /\ InStep("out")
    ELSE \/ /\ URB_State["out"] = "URB_IDLE"
            /\ \/ Active("out") /\ InStep("out")
               \/ Ended("out", "HC_XFRC") /\ ~InStep("out")
               \/ (Ended("out", "HC_NAK") \/ Ended("out", "HC_STALL")) /\ InStep("out")
               \/ Ended("out", "HC_XACTERR")
         \/ /\ Resting("out")
            /\ \/ URB_State["out"] \in {"URB_DONE", "URB_NOTREADY", "URB_STALL"} /\ InStep("out")
               \/ URB_State["out"] = "URB_ERROR"

Incoming ==
  IF data_rx_state # "CDC_RECEIVE_DATA_WAIT"
    THEN Resting("in")
    ELSE \/ /\ URB_State["in"] = "URB_IDLE"
            /\ \/ chan["in"] = "on" /\ hcint["in"] \in {"none", "nak", "rxflvl", "bblerr"}
               \/ \E s \in {"HC_XFRC", "HC_STALL", "HC_XACTERR", "HC_DATATGLERR"} : Ended("in", s)
         \/ Resting("in") /\ URB_State["in"] \in {"URB_DONE", "URB_STALL", "URB_ERROR"}

\* The device has taken the packet that is being sent.
Taken == \/ ~InStep("out")
         \/ data_tx_state = "CDC_SEND_DATA_WAIT" /\ URB_State["out"] = "URB_DONE"

\* The device has as many packets as the class driver believes.
Packets ==
  IF data_tx_state = "CDC_IDLE"
    THEN devPackets = 0 /\ executed = cmdNo
    ELSE /\ txLeft > 0
         /\ IF Taken /\ txLeft = 1
              THEN devPackets = 0 /\ executed = cmdNo
              ELSE /\ devPackets + txLeft = IF Taken THEN CmdPackets + 1 ELSE CmdPackets
                   /\ executed + 1 = cmdNo

\* The response is in the buffer.
Arrived ==
  \/ cmdrsp = "RX_DONE"
  \/ /\ data_rx_state = "CDC_RECEIVE_DATA_WAIT"
     /\ URB_State["in"] = "URB_DONE" \/ (URB_State["in"] = "URB_IDLE" /\ Ended("in", "HC_XFRC"))

\* No data, or data that the host does not yet have, is on its way.
Awaited ==
  cmdrsp # "RX_BUSY" \/ data_rx_state = "CDC_RECEIVE_DATA"
    \/ (chan["in"] = "on" /\ hcint["in"] \in {"none", "nak", "bblerr"})

\* What the device has to send of which the host has nothing yet: the response to
\* the command under way once it is executed, and nothing when no command is.
Unread(q) ==
  \/ q = <<>>
  \/ q = <<cmdNo>> /\ executed = cmdNo /\ cmdrsp \in {"TX_BUSY", "TX_DONE", "RX_BUSY"}

\* Out of step, the first packet is one that the host has.
Answers(step) ==
  IF step THEN Unread(answers) ELSE answers # <<>> /\ Unread(Tail(answers))

Responses ==
  /\ Awaited => Answers(InStep("in"))
  /\ hcint["in"] = "rxflvl" => fifo = cmdNo
  /\ Arrived => rspbuf = cmdNo /\ XferCnt
  /\ hcint["in"] \in {"rxflvl", "xfercompl"} \/ Arrived =>
       IF InStep("in") <=> hcint["in"] \in {"rxflvl", "xfercompl"}
         THEN answers # <<>> /\ Tail(answers) = <<>>
         ELSE answers = <<>>

IInv ==
  /\ TypeOK /\ NoBadCallback /\ Control /\ Outgoing /\ Incoming /\ Packets
  /\ "zlp" \notin Faults => Responses
=============================================================================
