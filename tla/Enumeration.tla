---------------------------- MODULE Enumeration ----------------------------
(***************************************************************************)
(* The enumeration of a device that stays on an enabled port:              *)
(* USBH_HandleEnum over USBH_CtlReq over USBH_HandleControl (usbh_core.c,  *)
(* usbh_ioreq.c), the control transfer's timer (usb_bsp.c), the two        *)
(* channels of the control pipe and the device's end of it.                *)
(*                                                                         *)
(* A request is named by the enumeration state that makes it.  The two     *)
(* interrupts that end a channel's transfer are one step here; module      *)
(* CdcLink takes them apart.                                               *)
(***************************************************************************)
EXTENDS Naturals, Sequences

CONSTANTS
  Faults,     \* what the bus and the device may do wrong
  MaxFaults,  \* bound: how often they do; a "nak" is not counted
  ErrorCounts \* errorcount counts modulo this (256: it is a uint8_t)

AllFaults == {"lost",       \* a packet from the host is lost
              "ack_lost",   \* the handshake that answers it is lost
              "in_lost",    \* a packet from the device is lost
              "in_ack_lost",\* the handshake that answers that one is lost
              "nak",        \* the device is not ready for a packet, or never is
              "stall",      \* it refuses a request, at its data or status stage
              "slow",       \* it takes longer than the timer allows
              "hasty"}      \* it answers before the host waits for it

ASSUME EnumerationAssumption ==
  /\ Faults \subseteq AllFaults
  /\ MaxFaults \in Nat
  /\ ErrorCounts \in Nat /\ ErrorCounts > 3

Steps == <<"ENUM_IDLE", "ENUM_GET_FULL_DEV_DESC", "ENUM_SET_ADDR",
           "ENUM_GET_CFG_DESC", "ENUM_GET_FULL_CFG_DESC",
           "ENUM_GET_MFC_STRING_DESC", "ENUM_GET_PRODUCT_STRING_DESC",
           "ENUM_GET_SERIALNUM_STRING_DESC", "ENUM_SET_CONFIGURATION",
           "ENUM_DEV_CONFIGURED">>

Strings == {"ENUM_GET_MFC_STRING_DESC", "ENUM_GET_PRODUCT_STRING_DESC",
            "ENUM_GET_SERIALNUM_STRING_DESC"}
Sets    == {"ENUM_SET_ADDR", "ENUM_SET_CONFIGURATION"}
Gets    == {Steps[i] : i \in 1 .. 9} \ Sets

VARIABLES
  gState, EnumState, RequestState,   \* phost
  ctl,          \* phost->Control.state
  errorcount,   \* phost->Control.errorcount
  address,      \* the channels' dev_addr
  fired,        \* the timer of USBH_HandleControl has run out
  URB_State,    \* of the control pipe's channels
  chan,         \* which of them are enabled
  buf,          \* whose answer is in Cfg_Rx_Buffer
  devAddress, devConfigured,  \* the device
  devReq,       \* the request it received last
  devStage,     \* what it expects: "idle", "data", "status_in", "status_out"
  strings,      \* the strings it has
  config,       \* its configuration descriptor
  faults        \* how many faults there were

hostVars   == <<gState, EnumState, RequestState, ctl, errorcount, address>>
urbVars    == <<URB_State, chan>>
deviceVars == <<devAddress, devConfigured, devReq, devStage>>
given      == <<strings, config>>
vars == <<hostVars, fired, urbVars, buf, deviceVars, given, faults>>

Pipes == {"out", "in"}

TypeOK ==
  /\ gState \in {"HOST_ENUMERATION", "HOST_CTRL_XFER", "HOST_USR_INPUT"}
  /\ EnumState \in {Steps[i] : i \in DOMAIN Steps}
  /\ RequestState \in {"CMD_SEND", "CMD_WAIT"}
  /\ ctl \in {"CTRL_IDLE", "CTRL_SETUP", "CTRL_SETUP_WAIT", "CTRL_DATA_IN",
              "CTRL_DATA_IN_WAIT", "CTRL_STATUS_IN", "CTRL_STATUS_IN_WAIT",
              "CTRL_STATUS_OUT", "CTRL_STATUS_OUT_WAIT", "CTRL_ERROR",
              "CTRL_STALLED", "CTRL_COMPLETE"}
  /\ errorcount \in 0 .. ErrorCounts - 1
  /\ address \in {0, 1} /\ fired \in BOOLEAN
  /\ URB_State \in [Pipes -> {"URB_IDLE", "URB_DONE", "URB_NOTREADY",
                              "URB_ERROR", "URB_STALL"}]
  /\ chan \in [Pipes -> BOOLEAN]
  /\ buf \in Gets \cup {"none"} /\ devReq \in Gets \cup Sets \cup {"none"}
  /\ devAddress \in {0, 1} /\ devConfigured \in BOOLEAN
  /\ devStage \in {"idle", "data", "status_in", "status_out"}
  /\ strings \subseteq Strings
  /\ config \in {"ok", "too_long", "unsupported"}
  /\ faults \in 0 .. MaxFaults

-----------------------------------------------------------------------------
(* USBH_HandleEnum and USBH_CtlReq *)

Position(s) == CHOOSE i \in DOMAIN Steps : Steps[i] = s
NextStep    == EnumState' = Steps[Position(EnumState) + 1]

\* A string the device does not have is not asked for.
Wanted == EnumState \notin Strings \ strings

Enumerating == gState = "HOST_ENUMERATION" /\ EnumState # "ENUM_DEV_CONFIGURED"

\* CMD_SEND: USBH_SubmitSetupRequest.
Submit ==
  /\ Enumerating /\ Wanted /\ RequestState = "CMD_SEND"
  /\ gState' = "HOST_CTRL_XFER"
  /\ ctl' = "CTRL_SETUP"
  /\ RequestState' = "CMD_WAIT"
  /\ UNCHANGED <<EnumState, errorcount, address, fired, urbVars, buf,
                 deviceVars, given, faults>>

\* What USBH_HandleEnum does with the answer: the 9 bytes of the configuration
\* descriptor may announce too much, the whole of it may not be supported.
Satisfied ==
  /\ ~(EnumState = "ENUM_GET_CFG_DESC" /\ config = "too_long")
  /\ ~(EnumState = "ENUM_GET_FULL_CFG_DESC" /\ config = "unsupported")

AddressAfter == IF EnumState = "ENUM_SET_ADDR" THEN 1 ELSE address

\* CMD_WAIT, CTRL_COMPLETE: the request was answered.
Answered ==
  /\ Enumerating /\ RequestState = "CMD_WAIT" /\ ctl = "CTRL_COMPLETE"
  /\ RequestState' = "CMD_SEND"
  /\ ctl' = "CTRL_IDLE"
  /\ IF Satisfied THEN NextStep ELSE UNCHANGED EnumState
  /\ address' = AddressAfter
  /\ UNCHANGED <<gState, errorcount, fired, urbVars, buf, deviceVars, given,
                 faults>>

UnansweredSkips ==  \* mutant: what the device refuses is given up
  /\ Enumerating /\ RequestState = "CMD_WAIT"
  /\ ctl \in {"CTRL_ERROR", "CTRL_STALLED"}
  /\ RequestState' = "CMD_SEND"
  /\ IF ctl = "CTRL_STALLED" THEN NextStep ELSE UNCHANGED EnumState
  /\ UNCHANGED <<gState, ctl, errorcount, address, fired, urbVars, buf,
                 deviceVars, given, faults>>

UnansweredStays ==  \* mutant: a refusal leaves the request in CMD_WAIT
  /\ Enumerating /\ RequestState = "CMD_WAIT"
  /\ ctl \in {"CTRL_ERROR", "CTRL_STALLED"}
  /\ RequestState' = IF ctl = "CTRL_STALLED" THEN "CMD_WAIT" ELSE "CMD_SEND"
  /\ UNCHANGED <<gState, EnumState, ctl, errorcount, address, fired, urbVars,
                 buf, deviceVars, given, faults>>

\* CMD_WAIT, CTRL_ERROR or CTRL_STALLED: it is made again.
Unanswered ==
  /\ Enumerating /\ RequestState = "CMD_WAIT"
  /\ ctl \in {"CTRL_ERROR", "CTRL_STALLED"}
  /\ RequestState' = "CMD_SEND"
  /\ UNCHANGED <<gState, EnumState, ctl, errorcount, address, fired, urbVars,
                 buf, deviceVars, given, faults>>

SkipString ==
  /\ Enumerating /\ ~Wanted
  /\ NextStep
  /\ UNCHANGED <<gState, RequestState, ctl, errorcount, address, fired,
                 urbVars, buf, deviceVars, given, faults>>

Finish ==
  /\ gState = "HOST_ENUMERATION" /\ EnumState = "ENUM_DEV_CONFIGURED"
  /\ gState' = "HOST_USR_INPUT"
  /\ UNCHANGED <<EnumState, RequestState, ctl, errorcount, address, fired,
                 urbVars, buf, deviceVars, given, faults>>

HandleEnum == Submit \/ Answered \/ Unanswered \/ SkipString \/ Finish

-----------------------------------------------------------------------------
(* USBH_HandleControl, one action per state *)

In(state) == gState = "HOST_CTRL_XFER" /\ ctl = state

SubmitRequestKeepsURB(p) ==  \* mutant: URB_State is not set to URB_IDLE
  /\ UNCHANGED URB_State
  /\ chan' = [chan EXCEPT ![p] = TRUE]

\* HCD_SubmitRequest; a channel that is still enabled from an earlier transfer
\* stays so.
SubmitRequest(p) ==
  /\ URB_State' = [URB_State EXCEPT ![p] = "URB_IDLE"]
  /\ chan' = [chan EXCEPT ![p] = TRUE]

\* CTRL_SETUP, CTRL_DATA_IN, CTRL_STATUS_IN, CTRL_STATUS_OUT: start the
\* transfer (USBH_CtlSendSetup, USBH_CtlReceiveData, USBH_CtlSendData).
Start(state, p, wait) ==
  /\ In(state)
  /\ SubmitRequest(p)
  /\ ctl' = wait
  /\ UNCHANGED <<gState, EnumState, RequestState, errorcount, address, fired,
                 buf, deviceVars, given, faults>>

CtrlStart ==
  \/ Start("CTRL_SETUP", "out", "CTRL_SETUP_WAIT")
  \/ Start("CTRL_DATA_IN", "in", "CTRL_DATA_IN_WAIT")
  \/ Start("CTRL_STATUS_IN", "in", "CTRL_STATUS_IN_WAIT")
  \/ Start("CTRL_STATUS_OUT", "out", "CTRL_STATUS_OUT_WAIT")

SetupHalted == URB_State["out"] # "URB_IDLE"  \* mutant: any end is taken for success
SetupTaken == URB_State["out"] = "URB_DONE"

\* CTRL_SETUP_WAIT: the stage that follows, and its timer.
SetupWait ==
  /\ In("CTRL_SETUP_WAIT")
  /\ CASE SetupTaken ->
            /\ ctl' = IF EnumState \in Gets THEN "CTRL_DATA_IN" ELSE "CTRL_STATUS_IN"
            /\ fired' = FALSE
       [] URB_State["out"] = "URB_ERROR" -> ctl' = "CTRL_ERROR" /\ UNCHANGED fired
       [] OTHER -> UNCHANGED <<ctl, fired>>
  /\ UNCHANGED <<gState, EnumState, RequestState, errorcount, address, urbVars,
                 buf, deviceVars, given, faults>>

\* A stage in which the device answers has failed.
InFailed == URB_State["in"] = "URB_ERROR" \/ fired

\* CTRL_DATA_IN_WAIT: the checks for an error, the timer's among them, also
\* follow a transfer that is done.
DataInWait ==
  /\ In("CTRL_DATA_IN_WAIT")
  /\ CASE URB_State["in"] = "URB_STALL" ->
            gState' = "HOST_ENUMERATION" /\ ctl' = "CTRL_STALLED"
       [] URB_State["in"] # "URB_STALL" /\ InFailed ->
            ctl' = "CTRL_ERROR" /\ UNCHANGED gState
       [] URB_State["in"] = "URB_DONE" /\ ~InFailed ->
            ctl' = "CTRL_STATUS_OUT" /\ UNCHANGED gState
       [] OTHER -> UNCHANGED <<ctl, gState>>
  /\ UNCHANGED <<EnumState, RequestState, errorcount, address, fired, urbVars,
                 buf, deviceVars, given, faults>>

\* CTRL_STATUS_IN_WAIT: a transfer that is done comes first here.
StatusInWait ==
  /\ In("CTRL_STATUS_IN_WAIT")
  /\ CASE URB_State["in"] = "URB_DONE" ->
            gState' = "HOST_ENUMERATION" /\ ctl' = "CTRL_COMPLETE"
       [] URB_State["in"] # "URB_DONE" /\ InFailed ->
            ctl' = "CTRL_ERROR" /\ UNCHANGED gState
       [] URB_State["in"] = "URB_STALL" /\ ~InFailed ->
            gState' = "HOST_ENUMERATION" /\ ctl' = "CTRL_STALLED"
       [] OTHER -> UNCHANGED <<ctl, gState>>
  /\ UNCHANGED <<EnumState, RequestState, errorcount, address, fired, urbVars,
                 buf, deviceVars, given, faults>>

OutRefusedNever == FALSE  \* mutant: a refused packet is not sent again
OutRefused == URB_State["out"] = "URB_NOTREADY"

\* CTRL_STATUS_OUT_WAIT has no timer and no case for URB_STALL: after a STALL it
\* is left only when the device is unplugged.
StatusOutWait ==
  /\ In("CTRL_STATUS_OUT_WAIT")
  /\ CASE URB_State["out"] = "URB_DONE" ->
            gState' = "HOST_ENUMERATION" /\ ctl' = "CTRL_COMPLETE"
       [] OutRefused ->
            ctl' = "CTRL_STATUS_OUT" /\ UNCHANGED gState
       [] URB_State["out"] = "URB_ERROR" ->
            ctl' = "CTRL_ERROR" /\ UNCHANGED gState
       [] OTHER -> UNCHANGED <<ctl, gState>>
  /\ UNCHANGED <<EnumState, RequestState, errorcount, address, fired, urbVars,
                 buf, deviceVars, given, faults>>

\* CTRL_ERROR: from the SETUP packet again, at most USBH_MAX_ERROR_COUNT times
\* in all; errorcount is never cleared.
MaxErrorCount == 2

Counted == (errorcount + 1) % ErrorCounts

CtrlError ==
  /\ In("CTRL_ERROR")
  /\ errorcount' = Counted
  /\ IF errorcount' <= MaxErrorCount
       THEN ctl' = "CTRL_SETUP" /\ UNCHANGED gState
       ELSE gState' = "HOST_ENUMERATION" /\ UNCHANGED ctl
  /\ UNCHANGED <<EnumState, RequestState, address, fired, urbVars, buf,
                 deviceVars, given, faults>>

HandleControl ==
  \/ CtrlStart \/ SetupWait \/ DataInWait \/ StatusInWait \/ StatusOutWait
  \/ CtrlError

Process == HandleEnum \/ HandleControl

-----------------------------------------------------------------------------
(* The bus and the device *)

Fault(f) ==
  /\ f \in Faults /\ faults < MaxFaults
  /\ faults' = faults + 1

NoFault == UNCHANGED faults

\* The transfer of a channel ends, and the handler has told the thread.
End(p, urb) ==
  /\ chan[p]
  /\ URB_State' = [URB_State EXCEPT ![p] = urb]
  /\ chan' = [chan EXCEPT ![p] = FALSE]

\* A device listens to its own address only.
Heard == address = devAddress

TakeSetup ==
  /\ devReq' = EnumState
  /\ devStage' = IF EnumState \in Gets THEN "data" ELSE "status_in"
  /\ UNCHANGED <<devAddress, devConfigured>>

\* The status packet of the host ends a request, in whatever stage it is.
TakeStatus ==
  /\ devStage' = "idle"
  /\ UNCHANGED <<devAddress, devConfigured, devReq>>

Take == IF ctl = "CTRL_SETUP_WAIT" THEN TakeSetup ELSE TakeStatus

\* The device is not ready for the status packet of the host, however often it is
\* sent; a SETUP packet is never refused.
RefuseStatus ==
  /\ Heard /\ ctl # "CTRL_SETUP_WAIT"
  /\ "nak" \in Faults /\ NoFault
  /\ End("out", "URB_NOTREADY")
  /\ UNCHANGED deviceVars

\* It reports an error of the request there.
StallStatus ==
  /\ Heard /\ ctl # "CTRL_SETUP_WAIT"
  /\ Fault("stall")
  /\ End("out", "URB_STALL")
  /\ devStage' = "idle"
  /\ UNCHANGED <<devAddress, devConfigured, devReq>>

OutTransfer ==
  /\ \/ Heard /\ End("out", "URB_DONE") /\ Take /\ NoFault
     \/ Heard /\ End("out", "URB_ERROR") /\ Take /\ Fault("ack_lost")
     \/ End("out", "URB_ERROR") /\ UNCHANGED deviceVars
          /\ IF Heard THEN Fault("lost") ELSE NoFault
     \/ RefuseStatus
     \/ StallStatus
  /\ UNCHANGED <<hostVars, fired, buf, given>>

\* The device has seen the end of its request: it takes the address or the
\* configuration it was given.
Conclude ==
  /\ devAddress' = IF devReq = "ENUM_SET_ADDR" THEN 1 ELSE devAddress
  /\ devConfigured' = (devConfigured \/ devReq = "ENUM_SET_CONFIGURATION")
  /\ devStage' = "idle"
  /\ UNCHANGED devReq

SendData(acked) ==
  /\ devStage = "data"
  /\ End("in", "URB_DONE")
  /\ buf' = devReq
  /\ devStage' = IF acked THEN "status_out" ELSE devStage
  /\ UNCHANGED <<devAddress, devConfigured, devReq>>

SendStatus(acked) ==
  /\ devStage = "status_in"
  /\ End("in", "URB_DONE")
  /\ IF acked THEN Conclude ELSE UNCHANGED deviceVars
  /\ UNCHANGED buf

Waiting == ctl \in {"CTRL_DATA_IN_WAIT", "CTRL_STATUS_IN_WAIT"}

\* An enabled IN channel is answered whichever attempt of the host enabled it: a
\* transfer that timed out is not halted, so the answer may come before the
\* host has started the next one.
InTransfer ==
  /\ \/ Heard /\ (SendData(TRUE) \/ SendStatus(TRUE))
          /\ IF Waiting THEN NoFault ELSE Fault("hasty")
     \/ Heard /\ (SendData(FALSE) \/ SendStatus(FALSE)) /\ Fault("in_ack_lost")
     \/ End("in", "URB_ERROR") /\ UNCHANGED <<deviceVars, buf>>
          /\ IF Heard THEN Fault("in_lost") ELSE NoFault
     \/ Heard /\ End("in", "URB_STALL") /\ Fault("stall")
          /\ devStage' = "idle"
          /\ UNCHANGED <<devAddress, devConfigured, devReq, buf>>
  /\ UNCHANGED <<hostVars, fired, given>>

\* The timer runs out on a device that has nothing to send, or on a slow one.
Expire ==
  /\ Waiting /\ ~fired
  /\ IF chan["in"] /\ Heard /\ devStage \notin {"data", "status_in"}
       THEN NoFault ELSE Fault("slow")
  /\ fired' = TRUE
  /\ UNCHANGED <<hostVars, urbVars, buf, deviceVars, given>>

World == OutTransfer \/ InTransfer \/ Expire

-----------------------------------------------------------------------------

\* The port was just reset for the second time (HOST_DEV_ATTACHED).
Init ==
  /\ gState = "HOST_ENUMERATION" /\ EnumState = "ENUM_IDLE"
  /\ RequestState = "CMD_SEND" /\ ctl = "CTRL_SETUP" /\ errorcount = 0
  /\ address = 0 /\ fired = FALSE
  /\ URB_State = [p \in Pipes |-> "URB_IDLE"]
  /\ chan = [p \in Pipes |-> FALSE]
  /\ buf = "none"
  /\ devAddress = 0 /\ devConfigured = FALSE /\ devReq = "none"
  /\ devStage = "idle"
  /\ strings \in SUBSET Strings
  /\ config \in {"ok", "too_long", "unsupported"}
  /\ faults = 0

Terminated == gState = "HOST_USR_INPUT" /\ UNCHANGED vars

Next == Process \/ World \/ Terminated

Spec == Init /\ [][Next]_vars

\* The thread keeps running, the bus ends what is enabled unless the device has
\* nothing to say, and the timer runs.
Fairness ==
  WF_vars(Process) /\ WF_vars(OutTransfer) /\ WF_vars(InTransfer) /\ WF_vars(Expire)

FairSpec == Spec /\ Fairness

-----------------------------------------------------------------------------
(* Properties *)

\* What USBH_HandleEnum parses when a request completes is the answer to that
\* very request, not one left in Cfg_Rx_Buffer by an earlier attempt or request.
RightAnswer ==
  RequestState = "CMD_WAIT" /\ ctl = "CTRL_COMPLETE" /\ EnumState \in Gets
    => buf = EnumState

\* Host and device agree on what was set: once the host is past SET_ADDRESS or
\* SET_CONFIGURATION the device has carried it out.
Agreed ==
  /\ Position(EnumState) > Position("ENUM_SET_ADDR") => devAddress = 1
  /\ EnumState = "ENUM_DEV_CONFIGURED" => devConfigured

\* The status stage OUT has neither a timer nor a case for URB_STALL
\* (usbh_core.c:818-834): a request ends only with a device that does not stall that
\* stage, as it may, and does not refuse its packet for ever.
StatusTaken ==
  /\ []~(In("CTRL_STATUS_OUT_WAIT") /\ URB_State["out"] = "URB_STALL")
  /\ <>[][~RefuseStatus]_vars

\* No control request stays under way for ever, whatever packets and handshakes are
\* lost and whatever else the device stalls or is late with, unless it is one that
\* StatusTaken fails for: that request hangs until the device is unplugged.
RequestEnds == StatusTaken => []<>(gState # "HOST_CTRL_XFER")

\* The host does not go on for ever with SETUP packets that the device does not
\* accept (the comment on CTRL_ERROR, usbh_core.c:841).
Recovers == []<>(address = devAddress)

\* A device with a good configuration is configured in the end, however the
\* faults it met fell, unless it is one that Recovers or StatusTaken fails for.
Configures ==
  config = "ok" /\ Recovers /\ StatusTaken => <>(gState = "HOST_USR_INPUT")

-----------------------------------------------------------------------------
(* The inductive invariant *)

DataStage   == {"CTRL_DATA_IN", "CTRL_DATA_IN_WAIT", "CTRL_STATUS_OUT", "CTRL_STATUS_OUT_WAIT"}
StatusStage == {"CTRL_STATUS_IN", "CTRL_STATUS_IN_WAIT"}

\* A control transfer is under way for the request that is waited for, and only for
\* one that was wanted; its stages are those of the request, and the OUT channel
\* is enabled in two of them only.
Control ==
  /\ gState # "HOST_CTRL_XFER" => ctl \in {"CTRL_SETUP", "CTRL_IDLE", "CTRL_ERROR",
                                          "CTRL_STALLED", "CTRL_COMPLETE"}
  /\ RequestState = "CMD_SEND" => gState # "HOST_CTRL_XFER" /\ ctl # "CTRL_COMPLETE"
  /\ EnumState = "ENUM_DEV_CONFIGURED" \/ ~Wanted => RequestState = "CMD_SEND"
  /\ ctl \in DataStage => EnumState \in Gets
  /\ ctl \in StatusStage => EnumState \in Sets
  /\ chan["out"] =>
       ctl \in {"CTRL_SETUP_WAIT", "CTRL_STATUS_OUT_WAIT"} /\ URB_State["out"] = "URB_IDLE"

\* From when it took the SETUP packet the device is at the request of the host.
SameRequest ==
  /\ \/ ctl \in DataStage \cup StatusStage \cup {"CTRL_COMPLETE"}
     \/ ctl = "CTRL_SETUP_WAIT" /\ URB_State["out"] = "URB_DONE"
     => devReq = EnumState
  /\ devStage = "data" => devReq \in Gets
  /\ devStage = "status_in" => devReq \in Sets

\* The data stage is over, and the status stage of a request that sets something.
DataDone ==
  \/ ctl = "CTRL_DATA_IN_WAIT" /\ URB_State["in"] = "URB_DONE"
  \/ ctl \in {"CTRL_STATUS_OUT", "CTRL_STATUS_OUT_WAIT"}
  \/ ctl = "CTRL_COMPLETE" /\ EnumState \in Gets
StatusDone ==
  \/ ctl = "CTRL_STATUS_IN_WAIT" /\ URB_State["in"] = "URB_DONE"
  \/ ctl = "CTRL_COMPLETE" /\ EnumState \in Sets

\* The device has carried out what the host saw the end of.
CarriedOut ==
  StatusDone =>
    /\ EnumState = "ENUM_SET_ADDR" => devAddress = 1
    /\ EnumState = "ENUM_SET_CONFIGURATION" => devConfigured

IInv ==
  /\ TypeOK /\ Control /\ SameRequest
  /\ DataDone => buf = EnumState
  /\ "in_ack_lost" \notin Faults => CarriedOut /\ Agreed
=============================================================================
