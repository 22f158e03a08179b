--------------------------- MODULE CdcLinkProofs ---------------------------
(***************************************************************************)
(* Proofs about the command/response link: for any number of commands, any *)
(* number of packets in a command and any set of faults, and, where a      *)
(* response is concerned, a device that sends no zero-length packet after  *)
(* one, the link is what the test program needs of it (CmdRsp).            *)
(***************************************************************************)
EXTENDS CdcLink, SequenceTheorems, TLAPS

USE CdcLinkAssumption

-----------------------------------------------------------------------------
(* Types *)

\* The test begins with the channels halted and no command sent.
LEMMA InitIInv == Init => IInv
<1> SUFFICES ASSUME Init PROVE IInv
  OBVIOUS
<1> USE DEF Init, Pipes
<1>1. TypeOK
  <2>1. cmdNo \in 0 .. MaxCmds /\ rspbuf \in 0 .. MaxCmds /\ executed \in 0 .. MaxCmds
        /\ answered \in 0 .. MaxCmds /\ fifo \in 0 .. MaxCmds
        /\ txLeft \in 0 .. CmdPackets /\ devPackets \in 0 .. CmdPackets
        /\ answers \in Seq(0 .. MaxCmds) /\ err \in {0, 10, 11, 20, 21, 30}
    OBVIOUS
  <2>2. late \in BOOLEAN /\ compared \in BOOLEAN /\ XferCnt \in BOOLEAN
    BY Zenon
  <2>3. /\ URB_State \in [Pipes -> {"URB_IDLE", "URB_DONE", "URB_NOTREADY",
                                    "URB_ERROR", "URB_STALL"}]
        /\ HC_Status \in [Pipes -> {"HC_IDLE", "HC_XFRC", "HC_NAK", "HC_STALL",
                                    "HC_XACTERR", "HC_DATATGLERR"}]
        /\ toggle \in [Pipes -> {0, 1}]
        /\ chan \in [Pipes -> {"off", "on", "halting"}]
        /\ hcint \in [Pipes -> {"none", "rxflvl", "xfercompl", "nak", "stall",
                                "xacterr", "datatglerr", "bblerr", "chhltd"}]
        /\ devToggle \in [Pipes -> {0, 1}]
    OBVIOUS
  <2>4. /\ pc \in {"tx", "rx", "main", "error"}
        /\ cmdrsp \in {"IDLE", "TX_BUSY", "TX_DONE", "RX_BUSY", "RX_DONE"}
        /\ cdc \in {"CDC_IDLE_STATE", "CDC_TRANSFER_DATA"}
        /\ data_tx_state \in {"CDC_IDLE", "CDC_SEND_DATA", "CDC_SEND_DATA_WAIT"}
        /\ data_rx_state \in {"CDC_IDLE", "CDC_RECEIVE_DATA", "CDC_RECEIVE_DATA_WAIT"}
    OBVIOUS
  <2>5. QED
    BY <2>1, <2>2, <2>3, <2>4, Zenon DEF TypeOK
<1>2. NoBadCallback /\ Control /\ Outgoing /\ Incoming /\ Packets
  BY DEF NoBadCallback, Control, Outgoing, Incoming, Packets, Resting, InStep
<1>3. Responses
  BY DEF Responses, Awaited, Answers, Unread, Arrived, InStep
<1>4. QED
  BY <1>1, <1>2, <1>3 DEF IInv

\* The time allowed for a command is over.
LEMMA TickIInv == IInv /\ Tick => IInv'
<1> SUFFICES ASSUME IInv, Tick PROVE IInv'
  OBVIOUS
<1> USE DEF IInv, Tick, cdcVars, softVars, deviceVars
<1>1. TypeOK'
  <2>1. late' \in BOOLEAN
    BY Zenon
  <2>2. QED
    BY <2>1 DEF TypeOK
<1>2. NoBadCallback' /\ Control' /\ Outgoing' /\ Incoming' /\ Packets'
  BY DEF NoBadCallback, Control, Outgoing, Incoming, Packets, Resting, InStep, Active, Ended, Taken
<1>3. Responses => Responses'
  BY DEF Responses, Awaited, Answers, Unread, Arrived, InStep, Ended
<1>4. QED
  BY <1>1, <1>2, <1>3

\* command_response_handle, TX_BUSY: the 500 ms.
LEMMA HandleTxBusyIInv == IInv /\ HandleTxBusy => IInv'
<1> SUFFICES ASSUME IInv, HandleTxBusy PROVE IInv'
  OBVIOUS
<1> USE DEF IInv, Runs, Error, threadVars, cdcVars, softVars, deviceVars, HandleTxBusy
<1>1. TypeOK'
  BY DEF TypeOK
<1>2. NoBadCallback' /\ Control'
  BY DEF NoBadCallback, Control
<1>3. Outgoing' /\ Incoming'
  BY DEF Control, Outgoing, Incoming, Resting, InStep, Active, Ended, TypeOK, Pipes
<1>4. Packets'
  BY DEF TypeOK, Control, Packets, InStep, Taken, Outgoing, Pipes
<1>5. Responses => Responses'
  BY DEF Control, Incoming, Resting, Responses, Awaited, Answers, Unread, Arrived, InStep, Ended
<1>6. QED
  BY <1>1, <1>2, <1>3, <1>4, <1>5

\* command_response_handle, RX_BUSY: the 5000 ms.
LEMMA HandleRxBusyIInv == IInv /\ HandleRxBusy => IInv'
<1> SUFFICES ASSUME IInv, HandleRxBusy PROVE IInv'
  OBVIOUS
<1> USE DEF IInv, Runs, Error, threadVars, cdcVars, softVars, deviceVars, HandleRxBusy
<1>1. TypeOK'
  BY DEF TypeOK
<1>2. NoBadCallback' /\ Control'
  BY DEF NoBadCallback, Control
<1>3. Outgoing' /\ Incoming'
  BY DEF Control, Outgoing, Incoming, Resting, InStep, Active, Ended, TypeOK, Pipes
<1>4. Packets'
  BY DEF TypeOK, Control, Packets, InStep, Taken, Outgoing, Pipes
<1>5. Responses => Responses'
  BY DEF Control, Incoming, Resting, Responses, Awaited, Answers, Unread, Arrived, InStep, Ended
<1>6. QED
  BY <1>1, <1>2, <1>3, <1>4, <1>5

\* command_response_handle, TX_DONE: the response is waited for.
LEMMA HandleTxDoneIInv == IInv /\ HandleTxDone => IInv'
<1> SUFFICES ASSUME IInv, HandleTxDone PROVE IInv'
  OBVIOUS
<1> USE DEF IInv, Runs, Error, threadVars, cdcVars, softVars, deviceVars, HandleTxDone
<1>1. TypeOK'
  <2>1. late' \in BOOLEAN
    BY Zenon
  <2>2. QED
    BY <2>1 DEF TypeOK
<1>2. NoBadCallback' /\ Control'
  BY DEF NoBadCallback, Control
<1>3. Outgoing' /\ Incoming'
  BY DEF Control, Outgoing, Incoming, Resting, InStep, Active, Ended, TypeOK, Pipes
<1>4. Packets'
  BY DEF TypeOK, Control, Packets, InStep, Taken, Outgoing, Pipes
<1>5. Responses => Responses'
  BY DEF Control, Incoming, Resting, Responses, Awaited, Answers, Unread, Arrived, InStep, Ended
<1>6. QED
  BY <1>1, <1>2, <1>3, <1>4, <1>5

\* A step of the test that sends no command.
LEMMA IdleIInv == IInv /\ Idle => IInv'
<1> SUFFICES ASSUME IInv, Idle PROVE IInv'
  OBVIOUS
<1> USE DEF IInv, Runs, Error, threadVars, cdcVars, softVars, deviceVars, Idle
<1>1. TypeOK'
  BY DEF TypeOK
<1>2. NoBadCallback' /\ Control'
  BY DEF NoBadCallback, Control
<1>3. Outgoing' /\ Incoming'
  BY DEF Control, Outgoing, Incoming, Resting, InStep, Active, Ended, TypeOK, Pipes
<1>4. Packets'
  BY DEF TypeOK, Control, Packets, InStep, Taken, Outgoing, Pipes
<1>5. Responses => Responses'
  BY DEF Control, Incoming, Resting, Responses, Awaited, Answers, Unread, Arrived, InStep, Ended
<1>6. QED
  BY <1>1, <1>2, <1>3, <1>4, <1>5

\* The test sends a command, whose response is compared or not.
LEMMA IssueIInv == \A b \in BOOLEAN : IInv /\ Issue(b) => IInv'
<1> SUFFICES ASSUME NEW b \in BOOLEAN, IInv, Issue(b) PROVE IInv'
  OBVIOUS
<1> USE DEF IInv, Runs, Error, threadVars, cdcVars, softVars, deviceVars, Issue, MayIssue
<1>1. TypeOK'
  <2>1. late' \in BOOLEAN /\ compared' \in BOOLEAN
    BY Zenon
  <2>2. cmdNo' \in 0 .. MaxCmds
    BY DEF TypeOK
  <2>3. QED
    BY <2>1, <2>2 DEF TypeOK
<1>2. NoBadCallback' /\ Control'
  BY DEF NoBadCallback, Control, TypeOK
<1>3. Outgoing' /\ Incoming'
  BY DEF Control, Outgoing, Incoming, Resting, InStep, Active, Ended, TypeOK, Pipes
<1>4. Packets'
  BY DEF TypeOK, Control, Packets, InStep, Taken, Outgoing, Pipes
<1>5. Responses => Responses'
  BY DEF Control, Incoming, Resting, Responses, Awaited, Answers, Unread, Arrived, InStep, Ended
<1>6. QED
  BY <1>1, <1>2, <1>3, <1>4, <1>5

\* command_response_handle, RX_DONE: the response is used, or refused.
LEMMA HandleRxDoneIInv == \A b \in BOOLEAN : IInv /\ HandleRxDone(b) => IInv'
<1> SUFFICES ASSUME NEW b \in BOOLEAN, IInv, HandleRxDone(b) PROVE IInv'
  OBVIOUS
<1> USE DEF IInv, Runs, Error, threadVars, cdcVars, softVars, deviceVars, HandleRxDone
<1>1. TypeOK'
  BY DEF TypeOK
<1>2. NoBadCallback' /\ Control'
  BY DEF NoBadCallback, Control
<1>3. Outgoing' /\ Incoming'
  BY DEF Control, Outgoing, Incoming, Resting, InStep, Active, Ended, TypeOK, Pipes
<1>4. Packets'
  BY DEF TypeOK, Control, Packets, InStep, Taken, Outgoing, Pipes
<1>5. Responses => Responses'
  BY DEF Control, Incoming, Resting, Responses, Awaited, Answers, Unread, Arrived, InStep, Ended
<1>6. QED
  BY <1>1, <1>2, <1>3, <1>4, <1>5

\* USBH_CDC_Handle: the transmission (usbh_cdc.c: CDC_ProcessTransmission).
LEMMA ProcessTransmissionIInv == IInv /\ ProcessTransmission => IInv'
<1> SUFFICES ASSUME IInv, ProcessTransmission PROVE IInv'
  OBVIOUS
<1> USE DEF IInv, Runs, Error
<1>1. /\ pc = "tx" /\ \A p \in Pipes : hcint[p] = "none"
      /\ UNCHANGED <<late, compared, cmdNo, answered, cdc, data_rx_state, rspbuf,
                     XferCnt, HC_Status, toggle, hcint>>
      /\ UNCHANGED <<devToggle, devPackets, executed, answers, fifo>>
  BY DEF ProcessTransmission, IrqPending, deviceVars
<1>2. CASE TxSend
  <2> USE DEF TxSend, BulkSendData, SubmitRequest, StartXfer
  <2>1. TypeOK'
    BY <1>1, <1>2 DEF TypeOK, Pipes
  <2>2. NoBadCallback' /\ Control'
    BY <1>1, <1>2 DEF NoBadCallback, Control
  <2>3. Outgoing' /\ Packets'
    BY <1>1, <1>2 DEF Outgoing, Resting, InStep, Active, Packets, Taken, TypeOK, Pipes
  <2>4. Incoming'
    BY <1>1, <1>2 DEF Incoming, Resting, Ended, TypeOK, Pipes
  <2>5. Responses => Responses'
    <3>1. chan'["in"] = chan["in"] /\ URB_State'["in"] = URB_State["in"]
      BY <1>2 DEF TypeOK, Pipes
    <3>2. UNCHANGED cmdrsp
      BY <1>2
    <3>3. QED
      BY <1>1, <3>1, <3>2 DEF Responses, Awaited, Answers, Unread, Arrived, InStep, Ended
  <2>6. QED
    BY <2>1, <2>2, <2>3, <2>4, <2>5
<1>3. CASE TxDone
  <2>1. cmdrsp = "TX_BUSY" /\ data_tx_state = "CDC_SEND_DATA_WAIT" /\ URB_State["out"] = "URB_DONE"
    BY <1>3 DEF TxDone, Control
  <2>2. txLeft' = txLeft - 1 /\ UNCHANGED <<URB_State, chan, err>>
        /\ pc' = "rx"
        /\ \/ txLeft > 1 /\ data_tx_state' = "CDC_SEND_DATA" /\ UNCHANGED cmdrsp
           \/ ~(txLeft > 1) /\ data_tx_state' = "CDC_IDLE" /\ cmdrsp' = "TX_DONE"
    BY <1>3, <2>1 DEF TxDone, MorePackets
  <2>3. Resting("out") /\ InStep("out")
    BY <2>1 DEF Outgoing
  <2>4. TypeOK'
    BY <1>1, <2>1, <2>2 DEF TypeOK, Packets
  <2>5. NoBadCallback' /\ Control'
    BY <1>1, <2>1, <2>2 DEF NoBadCallback, Control
  <2>6. Outgoing'
    BY <1>1, <2>1, <2>2, <2>3 DEF Outgoing, Resting, InStep
  <2>7. Packets'
    BY <1>1, <2>1, <2>2, <2>3 DEF Packets, InStep, Taken, TypeOK
  <2>8. Incoming'
    BY <1>1, <2>2 DEF Incoming, Resting, Ended
  <2>9. Responses => Responses'
    BY <1>1, <2>1, <2>2 DEF Responses, Awaited, Answers, Unread, Arrived, InStep, Ended
  <2>10. QED
    BY <2>4, <2>5, <2>6, <2>7, <2>8, <2>9
<1>4. CASE TxOther
  <2> USE DEF TxOther
  <2>1. TypeOK'
    BY <1>1, <1>4 DEF TypeOK
  <2>2. NoBadCallback' /\ Control'
    BY <1>1, <1>4 DEF NoBadCallback, Control
  <2>3. Outgoing' /\ Packets'
    BY <1>1, <1>4 DEF Outgoing, Resting, InStep, Active, Ended, Packets, Taken, Pipes
  <2>4. Incoming'
    BY <1>1, <1>4 DEF Incoming, Resting, Ended
  <2>5. Responses => Responses'
    BY <1>1, <1>4 DEF Responses, Awaited, Answers, Unread, Arrived, InStep, Ended
  <2>6. QED
    BY <2>1, <2>2, <2>3, <2>4, <2>5
<1>5. CASE /\ pc' = "rx"
           /\ UNCHANGED <<data_tx_state, txLeft, cmdrsp, err, URB_State, chan>>
  <2>1. TypeOK'
    BY <1>1, <1>5 DEF TypeOK
  <2>2. NoBadCallback' /\ Control'
    BY <1>1, <1>5 DEF NoBadCallback, Control
  <2>3. Outgoing' /\ Packets' /\ Incoming'
    BY <1>1, <1>5 DEF Outgoing, Incoming, Resting, InStep, Active, Ended, Packets, Taken
  <2>4. Responses => Responses'
    BY <1>1, <1>5 DEF Responses, Awaited, Answers, Unread, Arrived, InStep, Ended
  <2>5. QED
    BY <2>1, <2>2, <2>3, <2>4
<1>6. QED
  BY <1>2, <1>3, <1>4, <1>5 DEF ProcessTransmission

\* USBH_CDC_Handle: the reception (usbh_cdc.c: CDC_ProcessReception).
LEMMA ProcessReceptionIInv == IInv /\ ProcessReception => IInv'
<1> SUFFICES ASSUME IInv, ProcessReception PROVE IInv'
  OBVIOUS
<1> USE DEF IInv, Runs, Error
<1>1. /\ pc = "rx" /\ \A p \in Pipes : hcint[p] = "none"
      /\ UNCHANGED <<late, compared, cmdNo, answered, cdc, data_tx_state, txLeft, rspbuf,
                     XferCnt, HC_Status, toggle, hcint>>
      /\ UNCHANGED <<devToggle, devPackets, executed, answers, fifo>>
  BY DEF ProcessReception, IrqPending, deviceVars
<1>2. CASE RxReceive
  <2> USE DEF RxReceive, BulkReceiveData, SubmitRequest, StartXfer
  <2>1. TypeOK'
    BY <1>1, <1>2 DEF TypeOK, Pipes
  <2>2. NoBadCallback' /\ Control'
    BY <1>1, <1>2 DEF NoBadCallback, Control
  <2>3. Outgoing' /\ Packets'
    BY <1>1, <1>2 DEF Outgoing, Resting, InStep, Active, Ended, Packets, Taken, TypeOK, Pipes
  <2>4. Incoming'
    BY <1>1, <1>2 DEF Incoming, Resting, Ended, TypeOK, Pipes
  <2>5. Responses => Responses'
    <3>1. chan'["in"] = "on" /\ URB_State'["in"] = "URB_IDLE" /\ hcint["in"] = "none"
      BY <1>1, <1>2 DEF TypeOK, Pipes
    <3>2. UNCHANGED cmdrsp /\ cmdrsp = "RX_BUSY" /\ data_rx_state = "CDC_RECEIVE_DATA"
      BY <1>2 DEF Control
    <3>3. ~Ended("in", "HC_XFRC")'
      BY <1>1, <3>1 DEF Ended, StatusOf
    <3>4. QED
      BY <1>1, <3>1, <3>2, <3>3 DEF Responses, Awaited, Answers, Unread, Arrived, InStep
  <2>6. QED
    BY <2>1, <2>2, <2>3, <2>4, <2>5
<1>3. CASE RxDone
  <2>1. cmdrsp = "RX_BUSY" /\ data_rx_state = "CDC_RECEIVE_DATA_WAIT" /\ URB_State["in"] = "URB_DONE"
    BY <1>3 DEF RxDone, Control
  <2>2. UNCHANGED <<URB_State, chan, err>> /\ pc' = "main"
        /\ \/ ~XferCnt /\ data_rx_state' = "CDC_RECEIVE_DATA" /\ UNCHANGED cmdrsp
           \/ data_rx_state' = "CDC_IDLE" /\ cmdrsp' = "RX_DONE"
    BY <1>3, <2>1 DEF RxDone
  <2>3. Resting("in")
    BY <2>1 DEF Incoming
  <2>4. TypeOK'
    BY <1>1, <2>1, <2>2 DEF TypeOK
  <2>5. NoBadCallback' /\ Control'
    BY <1>1, <2>1, <2>2 DEF NoBadCallback, Control
  <2>6. Outgoing' /\ Packets'
    BY <1>1, <2>2 DEF Outgoing, Resting, InStep, Active, Ended, Packets, Taken
  <2>7. Incoming'
    BY <1>1, <2>2, <2>3 DEF Incoming, Resting
  <2>8. Responses => Responses'
    BY <1>1, <2>1, <2>2, <2>3 DEF Responses, Awaited, Answers, Unread, Arrived, InStep, Ended, Resting
  <2>9. QED
    BY <2>4, <2>5, <2>6, <2>7, <2>8
<1>4. CASE pc' = "main" /\ UNCHANGED <<data_rx_state, cmdrsp, err, URB_State, chan>>
  <2>1. TypeOK'
    BY <1>1, <1>4 DEF TypeOK
  <2>2. NoBadCallback' /\ Control'
    BY <1>1, <1>4 DEF NoBadCallback, Control
  <2>3. Outgoing' /\ Packets' /\ Incoming'
    BY <1>1, <1>4 DEF Outgoing, Incoming, Resting, InStep, Active, Ended, Packets, Taken
  <2>4. Responses => Responses'
    BY <1>1, <1>4 DEF Responses, Awaited, Answers, Unread, Arrived, InStep, Ended
  <2>5. QED
    BY <2>1, <2>2, <2>3, <2>4
<1>5. QED
  BY <1>2, <1>3, <1>4 DEF ProcessReception, RxOther

-----------------------------------------------------------------------------
(* The bus and the device *)

\* A response that joins one that the host has.
LEMMA SecondAnswer ==
  ASSUME NEW S, NEW q \in Seq(S), q # <<>>, Tail(q) = <<>>, NEW e \in S
  PROVE  Append(q, e) # <<>> /\ Tail(Append(q, e)) = <<e>>
<1>1. Tail(Append(q, e)) = Append(<<>>, e)
  BY HeadTailAppend
<1>2. Append(<<>>, e) = <<e>>
  OBVIOUS
<1>3. QED
  BY <1>1, <1>2, AppendProperties

\* A channel halts.
LEMMA HaltedIInv == IInv /\ Halted => IInv'
<1> SUFFICES ASSUME IInv, NEW p \in Pipes, chan[p] = "halting",
                    chan' = [chan EXCEPT ![p] = "off"], Raise(p, "chhltd"),
                    UNCHANGED <<threadVars, cdcVars, softVars, deviceVars>>
             PROVE IInv'
  BY DEF Halted
<1> USE DEF IInv, Raise, threadVars, cdcVars, softVars, deviceVars
<1>1. TypeOK'
  BY DEF TypeOK, Pipes
<1>2. NoBadCallback' /\ Control'
  BY DEF NoBadCallback, Control
<1>3. Outgoing' /\ Packets'
  BY DEF Outgoing, Resting, InStep, Active, Ended, Packets, Taken, TypeOK, Pipes, StatusOf
<1>4. Incoming'
  BY DEF Incoming, Resting, Ended, TypeOK, Pipes, StatusOf
<1>5. Responses => Responses'
  BY DEF Incoming, Resting, Responses, Awaited, Answers, Unread, Arrived, InStep, Ended, TypeOK, Pipes, StatusOf, Control
<1>6. QED
  BY <1>1, <1>2, <1>3, <1>4, <1>5

\* One OUT transaction.
LEMMA OutTransactionIInv == IInv /\ OutTransaction => IInv'
<1> SUFFICES ASSUME IInv, OutTransaction PROVE IInv'
  OBVIOUS
<1> USE DEF IInv, Raise, threadVars, cdcVars, softVars
<1>1. /\ chan["out"] = "on" /\ hcint["out"] = "none"
      /\ UNCHANGED <<threadVars, cdcVars, softVars, chan>>
  BY DEF OutTransaction, Active
<1>2. data_tx_state = "CDC_SEND_DATA_WAIT" /\ URB_State["out"] = "URB_IDLE" /\ InStep("out")
      /\ cmdrsp = "TX_BUSY" /\ data_rx_state = "CDC_IDLE" /\ Resting("in")
  BY <1>1 DEF Outgoing, Resting, Ended, Control, Incoming, StatusOf
<1>3. Control' /\ NoBadCallback'
  BY <1>1 DEF Control, NoBadCallback
<1>4. \A int : Raise("out", int) => hcint'["out"] = int /\ UNCHANGED hcint["in"]
  BY DEF TypeOK, Pipes
<1>5. Incoming' /\ Resting("in")'
  <2>1. UNCHANGED hcint["in"]
    BY <1>4 DEF OutTransaction
  <2>2. QED
    BY <1>1, <1>2, <2>1 DEF Incoming, Resting
<1>6. CASE Take /\ (Raise("out", "xfercompl") \/ Raise("out", "xacterr"))
  <2>1. toggle["out"] \in {0, 1} /\ devToggle["out"] = toggle["out"]
    BY <1>2 DEF TypeOK, Pipes, InStep
  <2>2. devToggle' = [devToggle EXCEPT !["out"] = 1 - @] /\ UNCHANGED fifo
        /\ \/ devPackets + 1 < CmdPackets /\ devPackets' = devPackets + 1 /\ UNCHANGED <<executed, answers>>
           \/ /\ ~(devPackets + 1 < CmdPackets) /\ devPackets' = 0 /\ executed' = executed + 1
              /\ \/ answers' = Append(answers, executed + 1)
                 \/ UNCHANGED answers
                 \/ "zlp" \in Faults /\ answers' = answers \o <<executed + 1, 0>>
    BY <1>6, <2>1 DEF Take
  <2>3. /\ UNCHANGED devToggle["in"] /\ ~InStep("out")'
        /\ devToggle' \in [Pipes -> {0, 1}]
    BY <1>1, <2>1, <2>2 DEF TypeOK, Pipes, InStep
  <2>4. ~Taken /\ txLeft > 0 /\ devPackets + txLeft = CmdPackets /\ executed + 1 = cmdNo
    BY <1>2 DEF Packets, Taken, InStep
  <2>5. executed' \in 0 .. MaxCmds /\ devPackets' \in 0 .. CmdPackets
    BY <2>2, <2>4 DEF TypeOK
  <2>6. answers' \in Seq(0 .. MaxCmds)
    <3>1. executed + 1 \in 0 .. MaxCmds /\ 0 \in 0 .. MaxCmds /\ answers \in Seq(0 .. MaxCmds)
      BY <2>4 DEF TypeOK
    <3> DEFINE S == 0 .. MaxCmds
               e == executed + 1
    <3> HIDE DEF S, e
    <3>2. e \in S /\ 0 \in S /\ answers \in Seq(S)
      BY <3>1 DEF S, e
    <3>3. answers' \in {answers, Append(answers, e), answers \o <<e, 0>>}
      BY <2>2 DEF e
    <3>4. <<e, 0>> \in Seq(S)
      BY <3>2
    <3>5. Append(answers, e) \in Seq(S) /\ answers \o <<e, 0>> \in Seq(S)
      <4>1. Append(answers, e) \in Seq(S)
        BY <3>2, AppendProperties
      <4>2. answers \o <<e, 0>> \in Seq(S)
        BY <3>2, <3>4, ConcatProperties
      <4>3. QED
        BY <4>1, <4>2
    <3>6. QED
      BY <3>2, <3>3, <3>5, Zenon DEF S
  <2>7. TypeOK'
    <3>1. hcint' \in [Pipes -> {"none", "rxflvl", "xfercompl", "nak", "stall",
                          "xacterr", "datatglerr", "bblerr", "chhltd"}]
      BY <1>6 DEF TypeOK, Pipes
    <3>2. /\ UNCHANGED <<pc, cmdrsp, late, compared, cmdNo, err, answered>>
          /\ UNCHANGED <<cdc, data_tx_state, data_rx_state, txLeft>>
          /\ UNCHANGED <<rspbuf, XferCnt, URB_State, HC_Status, toggle, chan, fifo>>
      BY <1>1, <2>2
    <3>3. QED
      BY <2>3, <2>5, <2>6, <3>1, <3>2 DEF TypeOK
  <2>8. Outgoing'
    BY <1>1, <1>2, <1>4, <1>6, <2>3 DEF Outgoing, Ended, StatusOf
  <2>9. Packets'
    <3>1. txLeft \in Nat /\ devPackets \in Nat /\ executed \in Nat
      BY DEF TypeOK
    <3>2. Taken' /\ UNCHANGED <<data_tx_state, txLeft, cmdNo>>
      BY <1>1, <2>3 DEF Taken
    <3>3. QED
      BY <1>2, <2>2, <2>4, <3>1, <3>2 DEF Packets
  <2>10. ASSUME Responses, "zlp" \notin Faults PROVE Responses'
    <3>1. Answers(InStep("in"))
      BY <1>2, <2>10 DEF Responses, Awaited
    <3>2. InStep("in")' <=> InStep("in")
      BY <1>1, <2>3 DEF InStep
    <3>3. Answers(InStep("in"))'
      <4>1. executed # cmdNo
        BY <2>4 DEF TypeOK
      <4>2. \A q : Unread(q) => q = <<>> 
        BY <4>1 DEF Unread
      <4>3. executed' = cmdNo \/ UNCHANGED answers
        BY <2>2, <2>4, <2>10
      <4>4. UNCHANGED <<cmdNo, cmdrsp>> /\ cmdrsp = "TX_BUSY"
        BY <1>1, <1>2
      <4>5. CASE InStep("in")
        <5>1. answers = <<>>
          BY <1>2, <3>1, <4>2, <4>5 DEF Answers
        <5>2. answers' = <<>> \/ (answers' = <<cmdNo>> /\ executed' = cmdNo)
          BY <2>2, <2>4, <2>10, <5>1
        <5>3. QED
          BY <3>2, <4>4, <4>5, <5>2 DEF Answers, Unread
      <4>6. CASE ~InStep("in")
        <5>1. answers # <<>> /\ Tail(answers) = <<>> /\ answers \in Seq(0 .. MaxCmds)
          BY <3>1, <4>2, <4>6 DEF Answers, TypeOK
        <5>2. answers' # <<>> /\ (Tail(answers') = <<>> \/ (Tail(answers') = <<cmdNo>> /\ executed' = cmdNo))
          <6>1. CASE UNCHANGED answers
            BY <5>1, <6>1
          <6>2. CASE answers' = Append(answers, executed + 1) /\ executed' = executed + 1
            <7>1. executed + 1 \in 0 .. MaxCmds
              BY <2>4 DEF TypeOK
            <7>2. QED
              BY <2>4, <5>1, <6>2, <7>1, SecondAnswer
          <6>3. QED
            BY <2>2, <2>10, <6>1, <6>2
        <5>3. QED
          BY <3>2, <4>4, <4>6, <5>2 DEF Answers, Unread
      <4>7. QED
        BY <4>5, <4>6
    <3>4. QED
      BY <1>1, <1>2, <1>5, <3>3 DEF Responses, Arrived, Resting
  <2>11. QED
    BY <1>3, <1>5, <2>7, <2>8, <2>9, <2>10
<1>7. CASE UNCHANGED deviceVars /\ \E int \in {"nak", "stall", "xacterr"} : Raise("out", int)
  <2>1. UNCHANGED <<devToggle, devPackets, executed, answers, fifo>>
    BY <1>7 DEF deviceVars
  <2>2. PICK int \in {"nak", "stall", "xacterr"} : Raise("out", int)
    BY <1>7
  <2>3. TypeOK'
    BY <1>1, <2>1, <2>2 DEF TypeOK, Pipes
  <2>4. hcint'["out"] = int /\ UNCHANGED <<data_tx_state, URB_State, chan, toggle, txLeft, cmdNo>>
    BY <1>1, <1>4, <2>2
  <2>5. Outgoing' /\ Packets'
    BY <1>1, <1>2, <2>1, <2>2, <2>4 DEF Outgoing, Packets, Taken, InStep, Ended, StatusOf
  <2>6. Responses => Responses'
    BY <1>1, <1>2, <1>5, <2>1 DEF Responses, Awaited, Answers, Unread, Arrived, InStep, Resting
  <2>7. QED
    BY <1>3, <1>5, <2>3, <2>5, <2>6
<1>8. QED
  BY <1>6, <1>7 DEF OutTransaction

\* One IN transaction.
LEMMA InTransactionIInv == IInv /\ InTransaction => IInv'
<1> SUFFICES ASSUME IInv, InTransaction PROVE IInv'
  OBVIOUS
<1> USE DEF IInv, Raise, threadVars, cdcVars, softVars
<1>1. /\ chan["in"] = "on" /\ hcint["in"] = "none"
      /\ UNCHANGED <<threadVars, cdcVars, softVars, chan>>
  BY DEF InTransaction, Active
<1>2. data_rx_state = "CDC_RECEIVE_DATA_WAIT" /\ URB_State["in"] = "URB_IDLE"
      /\ cmdrsp = "RX_BUSY" /\ data_tx_state = "CDC_IDLE" /\ Resting("out") /\ InStep("out")
  BY <1>1 DEF Outgoing, Resting, Ended, Control, Incoming, StatusOf
<1>3. Control' /\ NoBadCallback'
  BY <1>1 DEF Control, NoBadCallback
<1>4. \A int : Raise("in", int) => hcint'["in"] = int /\ UNCHANGED hcint["out"]
  BY DEF TypeOK, Pipes
<1>5. executed = cmdNo /\ devPackets = 0 /\ cmdNo > 0
  BY <1>2 DEF Packets, Control
<1>6. (UNCHANGED <<devToggle["out"], hcint["out"], devPackets, executed>>) => Outgoing' /\ Packets'
  BY <1>1, <1>2, <1>5 DEF Outgoing, Packets, Resting, InStep
<1>7. CASE \E acked \in BOOLEAN : Send(acked)
  <2>1. PICK acked \in BOOLEAN : Send(acked)
    BY <1>7, Zenon
  <2>2. /\ answers # <<>> /\ answers \in Seq(0 .. MaxCmds)
        /\ toggle["in"] \in {0, 1} /\ devToggle["in"] \in {0, 1}
        /\ UNCHANGED <<devPackets, executed>>
    BY <2>1 DEF Send, TypeOK, Pipes
  <2>3. Head(answers) \in 0 .. MaxCmds /\ Tail(answers) \in Seq(0 .. MaxCmds)
    BY <2>2, HeadTailProperties
  <2>4. CASE ~InStep("in")
    <3>1. Raise("in", "datatglerr") /\ UNCHANGED fifo
      BY <2>1, <2>4 DEF Send, InStep
    <3>2. hcint'["in"] = "datatglerr" /\ UNCHANGED hcint["out"]
      BY <1>4, <3>1
    <3>3. \/ answers' = Tail(answers) /\ devToggle' = [devToggle EXCEPT !["in"] = 1 - @]
          \/ UNCHANGED <<answers, devToggle>>
      BY <2>1 DEF Send
    <3>4. UNCHANGED devToggle["out"]
      BY <3>3 DEF TypeOK, Pipes
    <3>5. TypeOK'
      <4>1. answers' \in Seq(0 .. MaxCmds)
        BY <2>2, <2>3, <3>3
      <4>2. devToggle' \in [Pipes -> {0, 1}]
        BY <3>3 DEF TypeOK, Pipes
      <4>3. hcint' \in [Pipes -> {"none", "rxflvl", "xfercompl", "nak", "stall",
                          "xacterr", "datatglerr", "bblerr", "chhltd"}]
        BY <3>1 DEF TypeOK, Pipes
      <4>4. QED
        BY <1>1, <2>2, <3>1, <4>1, <4>2, <4>3 DEF TypeOK
    <3>6. Incoming' /\ ~Ended("in", "HC_XFRC")'
      BY <1>1, <1>2, <3>2 DEF Incoming, Ended, StatusOf
    <3>7. Responses => Responses'
      BY <1>1, <1>2, <3>2, <3>6 DEF Responses, Awaited, Arrived
    <3>8. QED
      BY <1>3, <1>6, <2>2, <3>2, <3>4, <3>5, <3>6, <3>7
  <2>5. CASE InStep("in")
    <3>1. fifo' = Head(answers)
          /\ \/ Head(answers) > 0 /\ Raise("in", "rxflvl")
             \/ ~(Head(answers) > 0) /\ Raise("in", "xfercompl")
      BY <2>1, <2>5 DEF Send, InStep
    <3>2. hcint'["in"] = (IF Head(answers) > 0 THEN "rxflvl" ELSE "xfercompl") /\ UNCHANGED hcint["out"]
      BY <1>4, <3>1
    <3>3. \/ answers' = Tail(answers) /\ devToggle' = [devToggle EXCEPT !["in"] = 1 - @]
          \/ UNCHANGED <<answers, devToggle>>
      BY <2>1 DEF Send
    <3>4. UNCHANGED devToggle["out"]
      BY <3>3 DEF TypeOK, Pipes
    <3>5. TypeOK'
      <4>1. answers' \in Seq(0 .. MaxCmds) /\ fifo' \in 0 .. MaxCmds
        BY <2>2, <2>3, <3>1, <3>3
      <4>2. devToggle' \in [Pipes -> {0, 1}]
        BY <3>3 DEF TypeOK, Pipes
      <4>3. hcint' \in [Pipes -> {"none", "rxflvl", "xfercompl", "nak", "stall",
                          "xacterr", "datatglerr", "bblerr", "chhltd"}]
        BY <3>1 DEF TypeOK, Pipes
      <4>4. QED
        BY <1>1, <2>2, <4>1, <4>2, <4>3 DEF TypeOK
    <3>6. Incoming'
      BY <1>1, <1>2, <3>2 DEF Incoming, Ended, StatusOf
    <3>7. Responses => Responses'
      <4> SUFFICES ASSUME Responses PROVE Responses'
        OBVIOUS
      <4>1. Unread(answers)
        BY <1>1, <2>5 DEF Responses, Awaited, Answers
      <4>2. answers = <<cmdNo>>
        BY <2>2, <4>1 DEF Unread
      <4>3. Head(answers) = cmdNo /\ Tail(answers) = <<>> /\ Head(answers) > 0
        BY <1>5, <4>2
      <4>4. hcint'["in"] = "rxflvl" /\ fifo' = cmdNo
        BY <3>1, <3>2, <4>3
      <4>5. ~Arrived' /\ ~Awaited'
        BY <1>1, <1>2, <4>4 DEF Arrived, Awaited, Ended, StatusOf
      <4>6. IF InStep("in")' THEN answers' # <<>> /\ Tail(answers') = <<>> ELSE answers' = <<>>
        <5>1. CASE answers' = Tail(answers) /\ devToggle' = [devToggle EXCEPT !["in"] = 1 - @]
          <6>1. devToggle'["in"] = 1 - devToggle["in"]
            BY <5>1 DEF TypeOK, Pipes
          <6>2. ~InStep("in")'
            BY <1>1, <2>2, <2>5, <6>1 DEF InStep
          <6>3. QED
            BY <4>3, <5>1, <6>2
        <5>2. CASE UNCHANGED <<answers, devToggle>>
          BY <1>1, <2>2, <2>5, <4>3, <5>2 DEF InStep
        <5>3. QED
          BY <3>3, <5>1, <5>2
      <4>7. QED
        BY <1>1, <4>4, <4>5, <4>6 DEF Responses
    <3>8. QED
      BY <1>3, <1>6, <2>2, <3>2, <3>4, <3>5, <3>6, <3>7
  <2>6. QED
    BY <2>4, <2>5
<1>8. CASE UNCHANGED deviceVars /\ \E int \in {"nak", "stall", "xacterr", "bblerr"} : Raise("in", int)
  <2>1. UNCHANGED <<devToggle, devPackets, executed, answers, fifo>>
    BY <1>8 DEF deviceVars
  <2>2. PICK int \in {"nak", "stall", "xacterr", "bblerr"} : Raise("in", int)
    BY <1>8
  <2>3. hcint'["in"] = int /\ UNCHANGED hcint["out"]
    BY <1>4, <2>2
  <2>4. TypeOK'
    BY <1>1, <2>1, <2>2 DEF TypeOK, Pipes
  <2>5. Incoming' /\ ~Ended("in", "HC_XFRC")'
    BY <1>1, <1>2, <2>3 DEF Incoming, Ended, StatusOf
  <2>6. Responses => Responses'
    BY <1>1, <1>2, <2>1, <2>3, <2>5 DEF Responses, Awaited, Answers, Unread, Arrived, InStep
  <2>7. QED
    BY <1>3, <1>6, <2>1, <2>3, <2>4, <2>5, <2>6
<1>9. QED
  BY <1>7, <1>8 DEF InTransaction

-----------------------------------------------------------------------------
(* The interrupt handler *)

\* What every interrupt leaves alone.
LEMMA HandlerControl ==
  ASSUME IInv, UNCHANGED <<threadVars, cdcVars>>
  PROVE  NoBadCallback' /\ Control'
BY DEF IInv, NoBadCallback, Control, threadVars, cdcVars

\* usb_hcd_int.c: USB_OTG_USBH_handle_rx_qlvl_ISR.
LEMMA RxQlvlISRIInv ==
  IInv /\ RxQlvlISR /\ UNCHANGED <<threadVars, cdcVars, deviceVars>> => IInv'
<1> SUFFICES ASSUME IInv, RxQlvlISR, UNCHANGED <<threadVars, cdcVars, deviceVars>> PROVE IInv'
  OBVIOUS
<1> USE DEF IInv, RxQlvlISR, Raise, threadVars, cdcVars, deviceVars
<1>1. hcint["in"] = "rxflvl" /\ hcint'["in"] = "xfercompl" /\ UNCHANGED hcint["out"]
  BY DEF TypeOK, Pipes
<1>2. data_rx_state = "CDC_RECEIVE_DATA_WAIT" /\ URB_State["in"] = "URB_IDLE" /\ chan["in"] = "on"
      /\ cmdrsp = "RX_BUSY"
  BY <1>1 DEF Incoming, Resting, Control, Ended, StatusOf
<1>3. TypeOK'
  <2>1. XferCnt' \in BOOLEAN
    BY Zenon
  <2>2. hcint' \in [Pipes -> {"none", "rxflvl", "xfercompl", "nak", "stall",
                               "xacterr", "datatglerr", "bblerr", "chhltd"}]
    BY DEF TypeOK, Pipes
  <2>3. QED
    BY <2>1, <2>2 DEF TypeOK
<1>4. Outgoing' /\ Packets'
  BY <1>1 DEF Outgoing, Resting, InStep, Active, Ended, Packets, Taken
<1>5. Incoming' /\ ~Awaited'
  BY <1>1, <1>2 DEF Incoming, Ended, StatusOf, Awaited
<1>6. Responses => Responses'
  BY <1>1, <1>2, <1>5 DEF Responses, Arrived, InStep, Ended, StatusOf
<1>7. QED
  BY <1>3, <1>4, <1>5, <1>6, HandlerControl

\* The OUT channel's cause is noted (usb_hcd_int.c: USB_OTG_USBH_handle_hc_n_Out_ISR).
LEMMA CauseOutIInv ==
  IInv /\ CauseISR("out") /\ UNCHANGED <<threadVars, cdcVars, deviceVars>> => IInv'
<1> SUFFICES ASSUME IInv, CauseISR("out"), UNCHANGED <<threadVars, cdcVars, deviceVars>> PROVE IInv'
  OBVIOUS
<1> USE DEF IInv, CauseISR, SetStatus, FlipsAtCause, Halt, Clear, Raise, threadVars, cdcVars, deviceVars
<1>1. /\ hcint["out"] \in {"xfercompl", "nak", "stall", "xacterr", "datatglerr"}
      /\ HC_Status' = [HC_Status EXCEPT !["out"] = StatusOf[hcint["out"]]]
      /\ chan' = [chan EXCEPT !["out"] = "halting"] /\ hcint' = [hcint EXCEPT !["out"] = "none"]
      /\ UNCHANGED <<toggle, rspbuf, XferCnt, URB_State>>
  BY DEF StatusOf
<1>2. /\ chan'["out"] = "halting" /\ hcint'["out"] = "none" /\ HC_Status'["out"] = StatusOf[hcint["out"]]
      /\ UNCHANGED <<chan["in"], hcint["in"], HC_Status["in"]>>
  BY <1>1 DEF TypeOK, Pipes
<1>3. data_tx_state = "CDC_SEND_DATA_WAIT" /\ URB_State["out"] = "URB_IDLE" /\ chan["out"] = "on"
  BY <1>1 DEF Outgoing, Resting, Active, Ended
<1>4. TypeOK'
  BY <1>1 DEF TypeOK, Pipes, StatusOf
<1>5. Outgoing' /\ Packets'
  BY <1>1, <1>2, <1>3 DEF Outgoing, Resting, InStep, Active, Ended, Packets, Taken, StatusOf
<1>6. Incoming'
  BY <1>1, <1>2 DEF Incoming, Resting, Ended
<1>7. Responses => Responses'
  BY <1>1, <1>2 DEF Responses, Awaited, Answers, Unread, Arrived, InStep, Ended
<1>8. QED
  BY <1>4, <1>5, <1>6, <1>7, HandlerControl

\* The IN channel's cause is noted (usb_hcd_int.c: USB_OTG_USBH_handle_hc_n_In_ISR).
LEMMA CauseInIInv ==
  IInv /\ CauseISR("in") /\ UNCHANGED <<threadVars, cdcVars, deviceVars>> => IInv'
<1> SUFFICES ASSUME IInv, CauseISR("in"), UNCHANGED <<threadVars, cdcVars, deviceVars>> PROVE IInv'
  OBVIOUS
<1> USE DEF IInv, CauseISR, SetStatus, FlipsAtCause, Halt, Flip, Clear, Raise, threadVars, cdcVars, deviceVars
<1>1. /\ hcint["in"] \in {"xfercompl", "nak", "stall", "xacterr", "datatglerr"}
      /\ HC_Status' = [HC_Status EXCEPT !["in"] = StatusOf[hcint["in"]]]
      /\ IF hcint["in"] = "xfercompl" THEN toggle' = [toggle EXCEPT !["in"] = 1 - @] ELSE UNCHANGED toggle
      /\ IF hcint["in"] = "nak" THEN UNCHANGED chan ELSE chan' = [chan EXCEPT !["in"] = "halting"]
      /\ hcint' = [hcint EXCEPT !["in"] = "none"]
      /\ UNCHANGED <<rspbuf, XferCnt, URB_State>>
  BY DEF StatusOf
<1>2. /\ hcint'["in"] = "none" /\ HC_Status'["in"] = StatusOf[hcint["in"]]
      /\ UNCHANGED <<chan["out"], hcint["out"], HC_Status["out"], toggle["out"]>>
      /\ toggle["in"] \in {0, 1} /\ devToggle["in"] \in {0, 1}
      /\ toggle'["in"] = IF hcint["in"] = "xfercompl" THEN 1 - toggle["in"] ELSE toggle["in"]
      /\ chan'["in"] = IF hcint["in"] = "nak" THEN chan["in"] ELSE "halting"
  BY <1>1 DEF TypeOK, Pipes
<1>3. data_rx_state = "CDC_RECEIVE_DATA_WAIT" /\ URB_State["in"] = "URB_IDLE" /\ chan["in"] = "on"
      /\ cmdrsp = "RX_BUSY"
  BY <1>1 DEF Incoming, Resting, Ended, Control
<1>4. TypeOK'
  <2>1. toggle' \in [Pipes -> {0, 1}]
    BY <1>1 DEF TypeOK, Pipes
  <2>2. QED
    BY <1>1, <2>1 DEF TypeOK, Pipes, StatusOf
<1>5. Outgoing' /\ Packets'
  BY <1>1, <1>2 DEF Outgoing, Resting, InStep, Active, Ended, Packets, Taken
<1>6. Incoming'
  BY <1>1, <1>2, <1>3 DEF Incoming, Resting, Ended, StatusOf
<1>7. Responses => Responses'
  <2> SUFFICES ASSUME Responses PROVE Responses'
    OBVIOUS
  <2>1. CASE hcint["in"] = "xfercompl"
    <3>1. InStep("in")' <=> ~InStep("in")
      BY <1>2, <2>1 DEF InStep
    <3>2. Arrived /\ ~Awaited'
      BY <1>1, <1>2, <1>3, <2>1 DEF Arrived, Ended, Awaited, StatusOf
    <3>3. QED
      BY <1>1, <1>2, <2>1, <3>1, <3>2 DEF Responses
  <2>2. CASE hcint["in"] = "nak"
    <3>1. InStep("in")' <=> InStep("in")
      BY <1>2, <2>2 DEF InStep
    <3>2. Awaited
      BY <1>3, <2>2 DEF Awaited
    <3>3. ~Arrived'
      BY <1>1, <1>2, <1>3, <2>2 DEF Arrived, Ended, StatusOf
    <3>4. QED
      BY <1>1, <1>2, <3>1, <3>2, <3>3 DEF Responses, Answers, Unread
  <2>3. CASE hcint["in"] \in {"stall", "xacterr", "datatglerr"}
    <3>1. ~Awaited' /\ ~Arrived'
      BY <1>1, <1>2, <1>3, <2>3 DEF Awaited, Arrived, Ended, StatusOf
    <3>2. QED
      BY <1>2, <3>1 DEF Responses
  <2>4. QED
    BY <1>1, <2>1, <2>2, <2>3
<1>8. QED
  BY <1>4, <1>5, <1>6, <1>7, HandlerControl

\* The OUT channel has halted (usb_hcd_int.c: USB_OTG_USBH_handle_hc_n_Out_ISR).
LEMMA HaltedOutIInv ==
  IInv /\ HaltedISR("out") /\ UNCHANGED <<threadVars, cdcVars, deviceVars>> => IInv'
<1> SUFFICES ASSUME IInv, HaltedISR("out"), UNCHANGED <<threadVars, cdcVars, deviceVars>> PROVE IInv'
  OBVIOUS
<1> USE DEF IInv, threadVars, cdcVars, deviceVars
<1>1. /\ hcint["out"] = "chhltd" /\ hcint' = [hcint EXCEPT !["out"] = "none"]
      /\ UNCHANGED <<rspbuf, XferCnt, HC_Status, chan>>
      /\ IF HC_Status["out"] = "HC_XFRC" THEN toggle' = [toggle EXCEPT !["out"] = 1 - @] ELSE UNCHANGED toggle
  BY DEF HaltedISR, Clear, Raise, FlipsAtHalt, Flip
<1>2. /\ data_tx_state = "CDC_SEND_DATA_WAIT" /\ URB_State["out"] = "URB_IDLE" /\ chan["out"] = "off"
      /\ cmdrsp = "TX_BUSY"
      /\ \/ HC_Status["out"] = "HC_XFRC" /\ ~InStep("out")
         \/ HC_Status["out"] \in {"HC_NAK", "HC_STALL"} /\ InStep("out")
         \/ HC_Status["out"] = "HC_XACTERR"
  BY <1>1 DEF Outgoing, Resting, Active, Ended, Control, StatusOf
<1>3. PICK u \in {"URB_DONE", "URB_STALL", "URB_ERROR", "URB_NOTREADY"} :
        /\ URB_State' = [URB_State EXCEPT !["out"] = u]
        /\ u = "URB_DONE" <=> HC_Status["out"] = "HC_XFRC"
        /\ u = "URB_ERROR" <=> HC_Status["out"] = "HC_XACTERR"
  <2>1. CASE HC_Status["out"] = "HC_XFRC"
    BY <2>1 DEF HaltedISR, SetURB
  <2>2. CASE HC_Status["out"] = "HC_NAK"
    BY <2>2 DEF HaltedISR, SetURB
  <2>3. CASE HC_Status["out"] = "HC_STALL"
    BY <2>3 DEF HaltedISR, SetURB
  <2>4. CASE HC_Status["out"] = "HC_XACTERR"
    BY <2>4 DEF HaltedISR, SetURB
  <2>5. QED
    BY <1>2, <2>1, <2>2, <2>3, <2>4
<1>4. /\ hcint'["out"] = "none" /\ UNCHANGED <<hcint["in"], toggle["in"], URB_State["in"]>>
      /\ URB_State'["out"] = u /\ toggle["out"] \in {0, 1} /\ devToggle["out"] \in {0, 1}
      /\ toggle'["out"] = IF HC_Status["out"] = "HC_XFRC" THEN 1 - toggle["out"] ELSE toggle["out"]
  BY <1>1, <1>3 DEF TypeOK, Pipes
<1>5. TypeOK'
  <2>1. toggle' \in [Pipes -> {0, 1}]
    BY <1>1 DEF TypeOK, Pipes
  <2>2. QED
    BY <1>1, <1>3, <2>1 DEF TypeOK, Pipes
<1>6. InStep("out")' <=> (IF HC_Status["out"] = "HC_XFRC" THEN ~InStep("out") ELSE InStep("out"))
  BY <1>4 DEF InStep
<1>7. Outgoing'
  BY <1>1, <1>2, <1>3, <1>4, <1>6 DEF Outgoing, Resting
<1>8. Taken' <=> Taken
  BY <1>2, <1>3, <1>4, <1>6 DEF Taken
<1>9. Packets'
  BY <1>8 DEF Packets
<1>10. Incoming'
  BY <1>1, <1>4 DEF Incoming, Resting, Ended
<1>11. Responses => Responses'
  BY <1>1, <1>4 DEF Responses, Awaited, Answers, Unread, Arrived, InStep, Ended
<1>12. QED
  BY <1>5, <1>7, <1>9, <1>10, <1>11, HandlerControl

\* The IN channel has halted (usb_hcd_int.c: USB_OTG_USBH_handle_hc_n_In_ISR).
LEMMA HaltedInIInv ==
  IInv /\ HaltedISR("in") /\ UNCHANGED <<threadVars, cdcVars, deviceVars>> => IInv'
<1> SUFFICES ASSUME IInv, HaltedISR("in"), UNCHANGED <<threadVars, cdcVars, deviceVars>> PROVE IInv'
  OBVIOUS
<1> USE DEF IInv, threadVars, cdcVars, deviceVars
<1>1. /\ hcint["in"] = "chhltd" /\ hcint' = [hcint EXCEPT !["in"] = "none"]
      /\ UNCHANGED <<rspbuf, XferCnt, HC_Status, chan, toggle>>
  BY DEF HaltedISR, Clear, Raise, FlipsAtHalt
<1>2. /\ data_rx_state = "CDC_RECEIVE_DATA_WAIT" /\ URB_State["in"] = "URB_IDLE" /\ chan["in"] = "off"
      /\ cmdrsp = "RX_BUSY"
      /\ HC_Status["in"] \in {"HC_XFRC", "HC_STALL", "HC_XACTERR", "HC_DATATGLERR"}
  <2>1. data_rx_state = "CDC_RECEIVE_DATA_WAIT" /\ cmdrsp = "RX_BUSY" /\ URB_State["in"] = "URB_IDLE"
    BY <1>1 DEF Incoming, Resting, Control
  <2>2. PICK s \in {"HC_XFRC", "HC_STALL", "HC_XACTERR", "HC_DATATGLERR"} : Ended("in", s)
    BY <1>1, <2>1 DEF Incoming, Resting
  <2>3. chan["in"] = "off" /\ HC_Status["in"] = s
    BY <1>1, <2>2 DEF Ended, StatusOf
  <2>4. QED
    BY <2>1, <2>3
<1>3. PICK u \in {"URB_DONE", "URB_STALL", "URB_ERROR"} :
        /\ URB_State' = [URB_State EXCEPT !["in"] = u]
        /\ u = "URB_DONE" <=> HC_Status["in"] = "HC_XFRC"
  <2>1. CASE HC_Status["in"] = "HC_XFRC"
    BY <2>1 DEF HaltedISR, SetURB
  <2>2. CASE HC_Status["in"] = "HC_DATATGLERR"
    BY <2>2 DEF HaltedISR, SetURB
  <2>3. CASE HC_Status["in"] = "HC_STALL"
    BY <2>3 DEF HaltedISR, SetURB
  <2>4. CASE HC_Status["in"] = "HC_XACTERR"
    BY <2>4 DEF HaltedISR, SetURB
  <2>5. QED
    BY <1>2, <2>1, <2>2, <2>3, <2>4
<1>4. /\ hcint'["in"] = "none" /\ URB_State'["in"] = u
      /\ UNCHANGED <<hcint["out"], URB_State["out"]>>
  BY <1>1, <1>3 DEF TypeOK, Pipes
<1>5. TypeOK'
  BY <1>1, <1>3 DEF TypeOK, Pipes
<1>6. Outgoing' /\ Packets'
  BY <1>1, <1>4 DEF Outgoing, Resting, InStep, Active, Ended, Packets, Taken
<1>7. Incoming'
  BY <1>1, <1>2, <1>3, <1>4 DEF Incoming, Resting
<1>8. Responses => Responses'
  <2>1. Arrived' <=> Arrived
    BY <1>1, <1>2, <1>3, <1>4 DEF Arrived, Ended, StatusOf
  <2>2. ~Awaited' /\ (InStep("in")' <=> InStep("in"))
    BY <1>1, <1>2 DEF Awaited, InStep
  <2>3. QED
    BY <1>1, <1>4, <2>1, <2>2 DEF Responses
<1>9. QED
  BY <1>5, <1>6, <1>7, <1>8, HandlerControl

-----------------------------------------------------------------------------
(* The theorems *)

\* Nothing changes.
LEMMA StutterIInv == IInv /\ UNCHANGED vars => IInv'
<1> SUFFICES ASSUME IInv, UNCHANGED vars PROVE IInv'
  OBVIOUS
<1> USE DEF IInv, vars, threadVars, cdcVars, softVars, deviceVars
<1>1. TypeOK'
  BY DEF TypeOK
<1>2. Outgoing' /\ Incoming' /\ Packets'
  BY DEF Outgoing, Incoming, Packets, Resting, InStep, Active, Ended, Taken
<1>3. Responses => Responses'
  BY DEF Responses, Awaited, Answers, Unread, Arrived, InStep, Ended
<1>4. QED
  BY <1>1, <1>2, <1>3, HandlerControl

\* Every step of thread, handler, bus and device keeps the invariant.
LEMMA NextIInv == IInv /\ Next => IInv'
<1> SUFFICES ASSUME IInv, Next PROVE IInv'
  OBVIOUS
<1>1. CASE Thread
  BY <1>1, ProcessTransmissionIInv, ProcessReceptionIInv, IssueIInv, IdleIInv, HandleTxBusyIInv,
     HandleTxDoneIInv, HandleRxBusyIInv, HandleRxDoneIInv, StutterIInv
  DEF Thread, ErrorLoop
<1>2. CASE Tick
  BY <1>2, TickIInv
<1>3. CASE Bus
  BY <1>3, OutTransactionIInv, InTransactionIInv, HaltedIInv DEF Bus
<1>4. CASE ISR
  <2>1. UNCHANGED <<threadVars, cdcVars, deviceVars>>
    BY <1>4 DEF ISR
  <2>2. CASE BabbleISR
    BY <2>1, <2>2, StutterIInv DEF BabbleISR, vars
  <2>3. QED
    BY <1>4, <2>1, <2>2, RxQlvlISRIInv, CauseOutIInv, CauseInIInv, HaltedOutIInv, HaltedInIInv
    DEF ISR, Pipes
<1>5. QED
  BY <1>1, <1>2, <1>3, <1>4 DEF Next

\* The invariant is inductive.
THEOREM Inductive == Spec => []IInv
BY InitIInv, NextIInv, StutterIInv, PTL DEF Spec

\* Errors 11 and 21 are never displayed, whatever the bus and the device do wrong
\* (main.c: USBH_CDC_TransmitCallback, USBH_CDC_ReceiveCallback).
THEOREM CallbacksExpected == Spec => []NoBadCallback
<1>1. IInv => NoBadCallback
  BY DEF IInv
<1>2. QED
  BY <1>1, Inductive, PTL

\* A transmission reported done was taken by the device to its last packet, once
\* (usbh_cdc.c: CDC_ProcessTransmission).
THEOREM CommandsDelivered == Spec => []Delivered
<1>1. IInv => Delivered
  BY DEF IInv, Control, Packets, Delivered
<1>2. QED
  BY <1>1, Inductive, PTL

\* With a device that sends no zero-length packet, the response that is used is the
\* one to the command under way (main.c: command_response_handle).
THEOREM ResponsesFresh == "zlp" \notin Faults => (Spec => []FreshResponse)
<1> SUFFICES ASSUME "zlp" \notin Faults PROVE Spec => []FreshResponse
  OBVIOUS
<1>1. IInv => FreshResponse
  BY DEF IInv, Responses, Arrived, FreshResponse
<1>2. QED
  BY <1>1, Inductive, PTL

\* Of what the test program sees, each step is one of CmdRsp or changes nothing.
LEMMA StepsRefine ==
  ASSUME "zlp" \notin Faults, IInv, [Next]_vars
  PROVE  [Abs!Next]_(Abs!absVars)
<1> DEFINE phase == IF err # 0 THEN "failed" ELSE IF cmdrsp = "IDLE" THEN "idle" ELSE "busy"
<1> USE DEF Abs!Next, Abs!absVars, Abs!Issue, Abs!Execute, Abs!Answer, Abs!Fail
<1>1. CASE UNCHANGED <<phase, cmdNo, executed, answered>>
  BY <1>1
<1>2. CASE UNCHANGED vars
  BY <1>1, <1>2 DEF vars, threadVars, deviceVars
<1>3. CASE ProcessTransmission
  <2>1. UNCHANGED <<cmdNo, answered, executed>>
    BY <1>3 DEF ProcessTransmission, deviceVars
  <2>2. UNCHANGED err /\ (cmdrsp' = "IDLE" <=> cmdrsp = "IDLE")
    BY <1>3 DEF ProcessTransmission, TxSend, TxDone, TxOther, IInv, Control
  <2>3. QED
    BY <1>1, <2>1, <2>2
<1>4. CASE ProcessReception
  <2>1. UNCHANGED <<cmdNo, answered, executed>>
    BY <1>4 DEF ProcessReception, deviceVars
  <2>2. UNCHANGED err /\ (cmdrsp' = "IDLE" <=> cmdrsp = "IDLE")
    BY <1>4 DEF ProcessReception, RxReceive, RxDone, RxOther, IInv, Control
  <2>3. QED
    BY <1>1, <2>1, <2>2
<1>5. ASSUME NEW compare \in BOOLEAN, Issue(compare) PROVE Abs!Issue
  BY <1>5 DEF Issue, Runs, MayIssue, IInv, Control, deviceVars
<1>6. CASE Idle \/ HandleTxDone \/ Tick
  BY <1>1, <1>6 DEF Idle, HandleTxDone, Tick, deviceVars
<1>7. CASE HandleTxBusy \/ HandleRxBusy
  <2>1. err = 0 /\ phase = "busy" /\ UNCHANGED <<cmdrsp, cmdNo, answered, executed>>
    BY <1>7 DEF HandleTxBusy, HandleRxBusy, Runs, IInv, Control, deviceVars
  <2>2. UNCHANGED err \/ err' # 0
    BY <1>7 DEF HandleTxBusy, HandleRxBusy, Error
  <2>3. QED
    BY <1>1, <2>1, <2>2
<1>8. ASSUME NEW mismatch \in BOOLEAN, HandleRxDone(mismatch) PROVE Abs!Answer \/ Abs!Fail
  <2>1. err = 0 /\ phase = "busy" /\ UNCHANGED <<cmdNo, executed>>
    BY <1>8 DEF HandleRxDone, Runs, IInv, Control, deviceVars
  <2>2. rspbuf = cmdNo /\ executed = cmdNo
    BY <1>8 DEF HandleRxDone, IInv, Responses, Arrived, Packets, Control
  <2>3. CASE Error(30) /\ UNCHANGED <<cmdrsp, answered>>
    BY <2>1, <2>3 DEF Error
  <2>4. CASE cmdrsp' = "IDLE" /\ answered' = rspbuf /\ UNCHANGED err
    BY <2>1, <2>2, <2>4
  <2>5. QED
    BY <1>8, <2>3, <2>4 DEF HandleRxDone
<1>9. CASE OutTransaction
  <2>1. UNCHANGED <<err, cmdrsp, cmdNo, answered>>
    BY <1>9 DEF OutTransaction, threadVars
  <2>2. UNCHANGED executed \/ executed' = executed + 1
    BY <1>9 DEF OutTransaction, Take, deviceVars
  <2>3. executed + 1 = cmdNo \/ executed = cmdNo
    BY DEF IInv, Packets
  <2>4. executed' \in 0 .. MaxCmds /\ executed \in 0 .. MaxCmds /\ cmdNo \in 0 .. MaxCmds
        /\ executed' <= cmdNo'
    BY <1>9, OutTransactionIInv DEF IInv, TypeOK, Packets
  <2>5. QED
    BY <1>1, <2>1, <2>2, <2>3, <2>4
<1>10. CASE InTransaction
  BY <1>1, <1>10 DEF InTransaction, Send, threadVars, deviceVars
<1>11. CASE Halted \/ ISR
  BY <1>1, <1>11 DEF Halted, ISR, threadVars, deviceVars
<1>12. QED
  BY <1>2, <1>3, <1>4, <1>5, <1>6, <1>7, <1>8, <1>9, <1>10, <1>11
  DEF Next, Thread, ErrorLoop, Bus

\* With such a device the link implements what the test program needs of it: one
\* command at a time, executed in order, at most once, and answered with its own
\* response, or the test fails.
THEOREM Implementation == "zlp" \notin Faults => (Spec => ImplementsCmdRsp)
<1> SUFFICES ASSUME "zlp" \notin Faults PROVE Spec => Abs!SafeSpec
  BY DEF ImplementsCmdRsp
<1>1. Init => Abs!Init
  BY DEF Init, Abs!Init
<1>2. IInv /\ [Next]_vars => [Abs!Next]_(Abs!absVars)
  BY StepsRefine
<1>3. QED
  BY <1>1, <1>2, Inductive, PTL DEF Spec, Abs!SafeSpec
=============================================================================
