------------------------- MODULE EnumerationProofs -------------------------
(***************************************************************************)
(* Proofs about the enumeration: for any number of faults of any kinds,    *)
(* what the host parses is the answer to its own request, and, unless a    *)
(* handshake of the host itself is lost, host and device agree on what was *)
(* set.                                                                    *)
(***************************************************************************)
EXTENDS Enumeration, TLAPS

USE EnumerationAssumption

-----------------------------------------------------------------------------
(* The enumeration states *)

\* They are all different, so that a state has one position (usbh_core.h:
\* ENUM_State).
LEMMA StepsDiffer ==
  ASSUME NEW i \in 1 .. 10, NEW j \in 1 .. 10, Steps[i] = Steps[j]
  PROVE  i = j
BY DEF Steps

\* Position finds a state where Steps has it.
LEMMA PositionOfStep ==
  ASSUME NEW i \in 1 .. 10
  PROVE  Position(Steps[i]) = i
<1>1. DOMAIN Steps = 1 .. 10
  BY DEF Steps
<1>2. \A j \in 1 .. 10 : Steps[j] = Steps[i] => j = i
  BY StepsDiffer
<1>3. QED
  BY <1>1, <1>2 DEF Position

\* Which states make a request that sets something.
LEMMA Requests ==
  /\ DOMAIN Steps = 1 .. 10
  /\ Sets = {Steps[3], Steps[9]} /\ Steps[3] = "ENUM_SET_ADDR"
  /\ Steps[9] = "ENUM_SET_CONFIGURATION" /\ Steps[10] = "ENUM_DEV_CONFIGURED"
  /\ Strings = {Steps[6], Steps[7], Steps[8]}
  /\ \A s : s \in {Steps[i] : i \in DOMAIN Steps} /\ s # "ENUM_DEV_CONFIGURED" =>
       s \in Gets \cup Sets
  /\ Gets \cap Sets = {} /\ "ENUM_DEV_CONFIGURED" \notin Gets \cup Sets
<1>1. DOMAIN Steps = 1 .. 10
  BY DEF Steps
<1>2. /\ Sets = {Steps[3], Steps[9]} /\ Steps[3] = "ENUM_SET_ADDR"
      /\ Steps[9] = "ENUM_SET_CONFIGURATION" /\ Steps[10] = "ENUM_DEV_CONFIGURED"
      /\ Strings = {Steps[6], Steps[7], Steps[8]}
  BY DEF Sets, Steps, Strings
<1>3. \A s : s \in {Steps[i] : i \in DOMAIN Steps} /\ s # "ENUM_DEV_CONFIGURED" =>
        s \in Gets \cup Sets
  BY <1>1, <1>2 DEF Gets
<1>4. Gets \cap Sets = {} /\ "ENUM_DEV_CONFIGURED" \notin Gets \cup Sets
  <2>1. "ENUM_DEV_CONFIGURED" \notin {Steps[i] : i \in 1 .. 9}
    BY <1>2, StepsDiffer
  <2>2. QED
    BY <1>2, <2>1 DEF Gets, Sets
<1>5. QED
  BY <1>1, <1>2, <1>3, <1>4

\* The state after one that makes a request or skips one.
LEMMA NextStepIs ==
  ASSUME EnumState \in {Steps[i] : i \in DOMAIN Steps}, EnumState # "ENUM_DEV_CONFIGURED", NextStep
  PROVE  \E i \in 1 .. 9 : /\ EnumState = Steps[i] /\ Position(EnumState) = i
                           /\ EnumState' = Steps[i + 1] /\ Position(EnumState)' = i + 1
<1>1. PICK i \in 1 .. 10 : EnumState = Steps[i]
  BY Requests
<1>2. i \in 1 .. 9 /\ Position(EnumState) = i
  BY <1>1, Requests, PositionOfStep
<1>3. EnumState' = Steps[i + 1]
  BY <1>2 DEF NextStep
<1>4. Position(EnumState)' = i + 1
  BY <1>2, <1>3, PositionOfStep
<1>5. QED
  BY <1>1, <1>2, <1>3, <1>4

-----------------------------------------------------------------------------
(* Initially *)

\* The enumeration begins with the first request still to be made.
LEMMA InitIInv == Init => IInv
<1> SUFFICES ASSUME Init PROVE IInv
  OBVIOUS
<1> USE DEF Init, Pipes
<1>1. TypeOK
  <2>1. EnumState \in {Steps[i] : i \in DOMAIN Steps}
    BY DEF Steps
  <2>2. fired \in BOOLEAN /\ devConfigured \in BOOLEAN /\ chan \in [Pipes -> BOOLEAN]
    BY Zenon
  <2>3. errorcount \in 0 .. ErrorCounts - 1 /\ faults \in 0 .. MaxFaults
    OBVIOUS
  <2>4. URB_State \in [Pipes -> {"URB_IDLE", "URB_DONE", "URB_NOTREADY",
                              "URB_ERROR", "URB_STALL"}]
    OBVIOUS
  <2>5. QED
    BY <2>1, <2>2, <2>3, <2>4 DEF TypeOK
<1>2. Control /\ SameRequest /\ ~DataDone /\ ~StatusDone
  BY DEF Control, SameRequest, DataDone, StatusDone, DataStage, StatusStage
<1>3. Agreed
  <2>1. EnumState = Steps[1] /\ EnumState # "ENUM_DEV_CONFIGURED"
    BY DEF Steps
  <2>2. Position(EnumState) = 1 /\ Position("ENUM_SET_ADDR") = 3
    BY <2>1, PositionOfStep, Requests
  <2>3. QED
    BY <2>1, <2>2 DEF Agreed
<1>4. QED
  BY <1>1, <1>2, <1>3 DEF IInv, CarriedOut

-----------------------------------------------------------------------------
(* USBH_HandleEnum *)

\* What was agreed on stays so.
LEMMA AgreedStays ==
  ASSUME Agreed, UNCHANGED EnumState, devAddress = 1 => devAddress' = 1,
         devConfigured => devConfigured'
  PROVE  Agreed'
BY DEF Agreed, Position

\* A request is submitted (usbh_ioreq.c: USBH_CtlReq).
LEMMA SubmitIInv == IInv /\ Submit => IInv'
<1> SUFFICES ASSUME IInv, Submit PROVE IInv'
  OBVIOUS
<1> USE DEF IInv, Submit, Enumerating, urbVars, deviceVars, given
<1>1. TypeOK'
  BY DEF TypeOK
<1>2. Control' /\ SameRequest'
  BY DEF Control, SameRequest, DataStage, StatusStage, Wanted
<1>3. ~DataDone' /\ ~StatusDone'
  BY DEF DataDone, StatusDone
<1>4. Agreed => Agreed'
  BY AgreedStays
<1>5. QED
  BY <1>1, <1>2, <1>3, <1>4 DEF CarriedOut

\* A request was answered (usbh_core.c: USBH_HandleEnum).
LEMMA AnsweredIInv == IInv /\ Answered => IInv'
<1> SUFFICES ASSUME IInv, Answered PROVE IInv'
  OBVIOUS
<1> USE DEF IInv, urbVars, deviceVars, given
<1>1. /\ gState = "HOST_ENUMERATION" /\ EnumState # "ENUM_DEV_CONFIGURED" /\ RequestState = "CMD_WAIT"
      /\ ctl = "CTRL_COMPLETE" /\ RequestState' = "CMD_SEND" /\ ctl' = "CTRL_IDLE"
      /\ UNCHANGED <<gState, errorcount, fired, URB_State, chan, buf, devAddress, devConfigured,
                     devReq, devStage, strings, config, faults>>
      /\ NextStep \/ UNCHANGED EnumState
      /\ address' \in {1, address}
  BY DEF Answered, Enumerating, AddressAfter
<1>2. EnumState \in {Steps[i] : i \in DOMAIN Steps}
  BY DEF TypeOK
<1>3. EnumState' \in {Steps[i] : i \in DOMAIN Steps}
  BY <1>1, <1>2, NextStepIs, Requests
<1>4. TypeOK'
  BY <1>1, <1>3 DEF TypeOK
<1>5. Control' /\ SameRequest'
  BY <1>1 DEF Control, SameRequest, DataStage, StatusStage
<1>6. ~DataDone' /\ ~StatusDone'
  BY <1>1 DEF DataDone, StatusDone
<1>7. ASSUME CarriedOut, Agreed PROVE Agreed'
  <2>1. CASE UNCHANGED EnumState
    BY <1>1, <1>7, <2>1, AgreedStays
  <2>2. CASE NextStep
    <3>1. PICK i \in 1 .. 9 : /\ EnumState = Steps[i] /\ Position(EnumState) = i
                              /\ EnumState' = Steps[i + 1] /\ Position(EnumState)' = i + 1
      BY <1>1, <1>2, <2>2, NextStepIs
    <3>2. Position("ENUM_SET_ADDR") = 3
      BY PositionOfStep, Requests
    <3>3. CASE i = 3
      <4>1. devAddress' = 1
        BY <1>1, <1>7, <3>1, <3>3, Requests DEF CarriedOut, StatusDone
      <4>2. EnumState' # "ENUM_DEV_CONFIGURED"
        BY <3>1, <3>3, StepsDiffer, Requests
      <4>3. QED
        BY <4>1, <4>2 DEF Agreed
    <3>4. CASE i = 9
      BY <1>1, <1>7, <3>1, <3>2, <3>4, Requests DEF CarriedOut, StatusDone, Agreed
    <3>5. CASE i \notin {3, 9}
      <4>1. EnumState' # "ENUM_DEV_CONFIGURED"
        BY <3>1, <3>5, StepsDiffer, Requests
      <4>2. Position(EnumState)' > 3 => devAddress = 1
        BY <1>7, <3>1, <3>2, <3>5 DEF Agreed
      <4>3. QED
        BY <1>1, <3>2, <4>1, <4>2 DEF Agreed
    <3>6. QED
      BY <3>3, <3>4, <3>5
  <2>3. QED
    BY <1>1, <2>1, <2>2
<1>8. QED
  BY <1>4, <1>5, <1>6, <1>7 DEF CarriedOut

\* It was not, and is made again.
LEMMA UnansweredIInv == IInv /\ Unanswered => IInv'
<1> SUFFICES ASSUME IInv, Unanswered PROVE IInv'
  OBVIOUS
<1> USE DEF IInv, Unanswered, Enumerating, urbVars, deviceVars, given
<1>1. TypeOK'
  BY DEF TypeOK
<1>2. Control' /\ SameRequest'
  BY DEF Control, SameRequest, DataStage, StatusStage
<1>3. ~DataDone' /\ ~StatusDone'
  BY DEF DataDone, StatusDone
<1>4. Agreed => Agreed'
  BY AgreedStays
<1>5. QED
  BY <1>1, <1>2, <1>3, <1>4 DEF CarriedOut

\* A string the device does not have is skipped.
LEMMA SkipStringIInv == IInv /\ SkipString => IInv'
<1> SUFFICES ASSUME IInv, SkipString PROVE IInv'
  OBVIOUS
<1> USE DEF IInv, urbVars, deviceVars, given
<1>1. /\ gState = "HOST_ENUMERATION" /\ EnumState # "ENUM_DEV_CONFIGURED" /\ EnumState \in Strings
      /\ NextStep
      /\ UNCHANGED <<gState, RequestState, ctl, errorcount, address, fired, URB_State, chan, buf,
                     devAddress, devConfigured, devReq, devStage, strings, config, faults>>
  BY DEF SkipString, Enumerating, Wanted
<1>2. EnumState \in {Steps[i] : i \in DOMAIN Steps}
  BY DEF TypeOK
<1>3. PICK i \in 1 .. 9 : /\ EnumState = Steps[i] /\ Position(EnumState) = i
                          /\ EnumState' = Steps[i + 1] /\ Position(EnumState)' = i + 1
  BY <1>1, <1>2, NextStepIs
<1>4. i \in {6, 7, 8}
  BY <1>1, <1>3, StepsDiffer, Requests
<1>5. TypeOK'
  BY <1>1, <1>3, Requests DEF TypeOK
<1>6. RequestState = "CMD_SEND"
  <2>1. ~Wanted
    BY DEF SkipString
  <2>2. QED
    BY <2>1 DEF Control
<1>7. ctl \in {"CTRL_SETUP", "CTRL_IDLE", "CTRL_ERROR", "CTRL_STALLED"}
  BY <1>1, <1>6 DEF Control
<1>8. EnumState' # "ENUM_DEV_CONFIGURED"
  BY <1>3, <1>4, StepsDiffer, Requests
<1>9. Control'
  BY <1>1, <1>6, <1>7, <1>8 DEF Control, DataStage, StatusStage
<1>10. SameRequest' /\ ~DataDone' /\ ~StatusDone'
  BY <1>1, <1>7 DEF SameRequest, DataDone, StatusDone, DataStage, StatusStage
<1>11. ASSUME Agreed PROVE Agreed'
  <2>1. Position("ENUM_SET_ADDR") = 3
    BY PositionOfStep, Requests
  <2>2. devAddress = 1
    BY <1>3, <1>4, <1>11, <2>1 DEF Agreed
  <2>3. QED
    BY <1>1, <1>8, <2>2 DEF Agreed
<1>12. QED
  BY <1>5, <1>9, <1>10, <1>11 DEF CarriedOut

\* The device is configured, and the session begins.
LEMMA FinishIInv == IInv /\ Finish => IInv'
<1> SUFFICES ASSUME IInv, Finish PROVE IInv'
  OBVIOUS
<1> USE DEF IInv, Finish, urbVars, deviceVars, given
<1>1. TypeOK'
  BY DEF TypeOK
<1>2. Control'
  BY DEF Control, Wanted
<1>3. SameRequest' /\ (DataDone' => DataDone) /\ (StatusDone' => StatusDone)
  BY DEF SameRequest, DataDone, StatusDone
<1>4. Agreed => Agreed'
  BY AgreedStays
<1>5. QED
  BY <1>1, <1>2, <1>3, <1>4 DEF CarriedOut

\* One of the five steps of the enumeration.
LEMMA HandleEnumIInv == IInv /\ HandleEnum => IInv'
BY SubmitIInv, AnsweredIInv, UnansweredIInv, SkipStringIInv, FinishIInv DEF HandleEnum

-----------------------------------------------------------------------------
(* USBH_HandleControl *)

\* A control transfer is under way for a request that is waited for.
LEMMA UnderWay ==
  ASSUME IInv, gState = "HOST_CTRL_XFER"
  PROVE  /\ RequestState = "CMD_WAIT" /\ EnumState # "ENUM_DEV_CONFIGURED" /\ Wanted
         /\ EnumState \in Gets \cup Sets
<1>1. RequestState = "CMD_WAIT"
  BY DEF IInv, Control, TypeOK
<1>2. EnumState # "ENUM_DEV_CONFIGURED" /\ Wanted
  BY <1>1 DEF IInv, Control
<1>3. QED
  BY <1>1, <1>2, Requests DEF IInv, TypeOK

\* A stage is started (HCD_SubmitRequest).
LEMMA CtrlStartIInv == IInv /\ CtrlStart => IInv'
<1> SUFFICES ASSUME IInv, NEW s \in {"CTRL_SETUP", "CTRL_DATA_IN", "CTRL_STATUS_IN", "CTRL_STATUS_OUT"},
                    NEW p \in Pipes,
                    NEW w \in {"CTRL_SETUP_WAIT", "CTRL_DATA_IN_WAIT", "CTRL_STATUS_IN_WAIT",
                               "CTRL_STATUS_OUT_WAIT"},
                    <<s, p, w>> \in {<<"CTRL_SETUP", "out", "CTRL_SETUP_WAIT">>,
                                     <<"CTRL_DATA_IN", "in", "CTRL_DATA_IN_WAIT">>,
                                     <<"CTRL_STATUS_IN", "in", "CTRL_STATUS_IN_WAIT">>,
                                     <<"CTRL_STATUS_OUT", "out", "CTRL_STATUS_OUT_WAIT">>},
                    Start(s, p, w)
             PROVE  IInv'
  BY DEF CtrlStart, Pipes
<1> USE DEF IInv, urbVars, deviceVars, given
<1>1. /\ gState = "HOST_CTRL_XFER" /\ ctl = s /\ ctl' = w
      /\ UNCHANGED <<gState, EnumState, RequestState, errorcount, address, fired, buf, devAddress,
                     devConfigured, devReq, devStage, strings, config, faults>>
  BY DEF Start, In
<1>2. /\ URB_State' = [URB_State EXCEPT ![p] = "URB_IDLE"]
      /\ chan' = [chan EXCEPT ![p] = TRUE]
      /\ URB_State \in [Pipes -> {"URB_IDLE", "URB_DONE", "URB_NOTREADY", "URB_ERROR", "URB_STALL"}]
      /\ chan \in [Pipes -> BOOLEAN]
  BY DEF Start, SubmitRequest, TypeOK
<1>3. /\ URB_State'[p] = "URB_IDLE"
      /\ "out" \in Pipes /\ "in" \in Pipes
      /\ p # "out" => chan'["out"] = chan["out"] /\ URB_State'["out"] = URB_State["out"]
  BY <1>2 DEF Pipes
<1>4. chan' \in [Pipes -> BOOLEAN]
  BY <1>2, Zenon
<1>5. URB_State' \in [Pipes -> {"URB_IDLE", "URB_DONE", "URB_NOTREADY", "URB_ERROR", "URB_STALL"}]
  BY <1>2
<1>6. TypeOK'
  BY <1>1, <1>4, <1>5 DEF TypeOK
<1>7. RequestState = "CMD_WAIT" /\ EnumState # "ENUM_DEV_CONFIGURED" /\ Wanted /\ Wanted'
  BY <1>1, UnderWay DEF Wanted
<1>8. chan'["out"] => ctl' \in {"CTRL_SETUP_WAIT", "CTRL_STATUS_OUT_WAIT"}
                      /\ URB_State'["out"] = "URB_IDLE"
  <2>1. CASE p = "out"
    BY <1>1, <1>3, <2>1
  <2>2. CASE p # "out"
    BY <1>1, <1>3, <2>2 DEF Control
  <2>3. QED
    BY <2>1, <2>2
<1>9. Control'
  BY <1>1, <1>7, <1>8 DEF Control, DataStage, StatusStage
<1>10. SameRequest'
  BY <1>1, <1>3 DEF SameRequest, DataStage, StatusStage
<1>11. (DataDone' => DataDone) /\ ~StatusDone'
  BY <1>1, <1>3 DEF DataDone, StatusDone
<1>12. Agreed => Agreed'
  BY <1>1, AgreedStays
<1>13. QED
  BY <1>1, <1>6, <1>9, <1>10, <1>11, <1>12 DEF CarriedOut

\* What the waiting states of USBH_HandleControl change: the state of the
\* transfer, and whether it is over.
LEMMA StagePassed ==
  ASSUME IInv, gState = "HOST_CTRL_XFER", gState' \in {"HOST_CTRL_XFER", "HOST_ENUMERATION"},
         ctl' \in {"CTRL_SETUP", "CTRL_DATA_IN", "CTRL_STATUS_IN", "CTRL_STATUS_OUT", "CTRL_ERROR",
                   "CTRL_STALLED", "CTRL_COMPLETE", ctl},
         gState' = "HOST_ENUMERATION" =>
           ctl' \in {"CTRL_ERROR", "CTRL_STALLED", "CTRL_COMPLETE"},
         UNCHANGED <<EnumState, RequestState, address, buf, devAddress, devConfigured, devReq,
                     devStage, strings, config, faults, URB_State, chan>>,
         errorcount' \in 0 .. ErrorCounts - 1, fired' \in BOOLEAN,
         ctl' = ctl \/ ~chan["out"],
         ctl' = "CTRL_DATA_IN" => EnumState \in Gets /\ devReq = EnumState,
         ctl' = "CTRL_STATUS_IN" => EnumState \in Sets /\ devReq = EnumState,
         ctl' = "CTRL_STATUS_OUT" => ctl = ctl' \/ (DataDone /\ ctl \in DataStage),
         ctl' = "CTRL_COMPLETE" => ctl = ctl' \/ (ctl \in DataStage /\ DataDone)
                                   \/ (ctl \in StatusStage /\ StatusDone)
  PROVE  IInv'
<1> USE DEF IInv
<1>1. RequestState = "CMD_WAIT" /\ EnumState # "ENUM_DEV_CONFIGURED" /\ Wanted /\ Wanted'
  BY UnderWay DEF Wanted
<1>2. TypeOK'
  BY DEF TypeOK
<1>3. EnumState \in Gets => EnumState \notin Sets
  BY Requests
<1>4. Control'
  BY <1>1 DEF Control, DataStage, StatusStage
<1>5. SameRequest'
  BY DEF SameRequest, DataStage, StatusStage
<1>6. (DataDone' => DataDone) /\ (StatusDone' => StatusDone)
  BY <1>3 DEF DataDone, StatusDone, Control, DataStage, StatusStage
<1>7. Agreed => Agreed'
  BY AgreedStays
<1>8. QED
  BY <1>2, <1>4, <1>5, <1>6, <1>7 DEF CarriedOut
\* The SETUP packet was answered, or not.
LEMMA SetupWaitIInv == IInv /\ SetupWait => IInv'
<1> SUFFICES ASSUME IInv, SetupWait PROVE IInv'
  OBVIOUS
<1>1. /\ gState = "HOST_CTRL_XFER" /\ ctl = "CTRL_SETUP_WAIT"
      /\ UNCHANGED <<gState, EnumState, RequestState, errorcount, address, URB_State, chan, buf,
                     devAddress, devConfigured, devReq, devStage, strings, config, faults>>
  BY DEF SetupWait, In, urbVars, deviceVars, given
<1>2. \/ /\ URB_State["out"] = "URB_DONE" /\ fired' = FALSE
         /\ ctl' = IF EnumState \in Gets THEN "CTRL_DATA_IN" ELSE "CTRL_STATUS_IN"
      \/ URB_State["out"] = "URB_ERROR" /\ ctl' = "CTRL_ERROR" /\ fired' = fired
      \/ ctl' = ctl /\ fired' = fired
  BY Zenon DEF SetupWait, SetupTaken
<1>3. fired' \in BOOLEAN
  <2>1. fired \in BOOLEAN
    BY DEF IInv, TypeOK
  <2>2. QED
    BY <1>2, <2>1, Zenon
<1>4. EnumState \in Gets \cup Sets
  BY <1>1, UnderWay
<1>5. ctl' = ctl \/ ~chan["out"]
  BY <1>2 DEF IInv, Control
<1>6. URB_State["out"] = "URB_DONE" => devReq = EnumState
  BY <1>1 DEF IInv, SameRequest
<1>7. errorcount' \in 0 .. ErrorCounts - 1
  BY <1>1 DEF IInv, TypeOK
<1>8. /\ ctl' \in {"CTRL_SETUP", "CTRL_DATA_IN", "CTRL_STATUS_IN", "CTRL_STATUS_OUT", "CTRL_ERROR",
                   "CTRL_STALLED", "CTRL_COMPLETE", ctl}
      /\ ctl' \notin {"CTRL_STATUS_OUT", "CTRL_COMPLETE"}
      /\ ctl' = "CTRL_DATA_IN" => EnumState \in Gets /\ devReq = EnumState
      /\ ctl' = "CTRL_STATUS_IN" => EnumState \in Sets /\ devReq = EnumState
  BY <1>1, <1>2, <1>4, <1>6
<1>9. QED
  BY <1>1, <1>3, <1>5, <1>7, <1>8, StagePassed

\* The data stage is over, or has failed.
LEMMA DataInWaitIInv == IInv /\ DataInWait => IInv'
<1> SUFFICES ASSUME IInv, DataInWait PROVE IInv'
  OBVIOUS
<1>1. /\ gState = "HOST_CTRL_XFER" /\ ctl = "CTRL_DATA_IN_WAIT"
      /\ UNCHANGED <<EnumState, RequestState, errorcount, address, fired, URB_State, chan, buf,
                     devAddress, devConfigured, devReq, devStage, strings, config, faults>>
  BY DEF DataInWait, In, urbVars, deviceVars, given
<1>2. \/ gState' = "HOST_ENUMERATION" /\ ctl' = "CTRL_STALLED"
      \/ ctl' = "CTRL_ERROR" /\ gState' = gState
      \/ URB_State["in"] = "URB_DONE" /\ ctl' = "CTRL_STATUS_OUT" /\ gState' = gState
      \/ ctl' = ctl /\ gState' = gState
  BY Zenon DEF DataInWait
<1>3. ctl' = "CTRL_STATUS_OUT" => DataDone /\ ctl \in DataStage
  BY <1>1, <1>2 DEF DataDone, DataStage
<1>4. ~chan["out"]
  BY <1>1 DEF IInv, Control
<1>5. errorcount' \in 0 .. ErrorCounts - 1 /\ fired' \in BOOLEAN
  BY <1>1 DEF IInv, TypeOK
<1>6. QED
  BY <1>1, <1>2, <1>3, <1>4, <1>5, StagePassed

\* The status stage of a request that sets something.
LEMMA StatusInWaitIInv == IInv /\ StatusInWait => IInv'
<1> SUFFICES ASSUME IInv, StatusInWait PROVE IInv'
  OBVIOUS
<1>1. /\ gState = "HOST_CTRL_XFER" /\ ctl = "CTRL_STATUS_IN_WAIT"
      /\ UNCHANGED <<EnumState, RequestState, errorcount, address, fired, URB_State, chan, buf,
                     devAddress, devConfigured, devReq, devStage, strings, config, faults>>
  BY DEF StatusInWait, In, urbVars, deviceVars, given
<1>2. \/ URB_State["in"] = "URB_DONE" /\ gState' = "HOST_ENUMERATION" /\ ctl' = "CTRL_COMPLETE"
      \/ ctl' = "CTRL_ERROR" /\ gState' = gState
      \/ gState' = "HOST_ENUMERATION" /\ ctl' = "CTRL_STALLED"
      \/ ctl' = ctl /\ gState' = gState
  BY Zenon DEF StatusInWait
<1>3. ctl' = "CTRL_COMPLETE" => StatusDone /\ ctl \in StatusStage
  BY <1>1, <1>2 DEF StatusDone, StatusStage
<1>4. ~chan["out"]
  BY <1>1 DEF IInv, Control
<1>5. errorcount' \in 0 .. ErrorCounts - 1 /\ fired' \in BOOLEAN
  BY <1>1 DEF IInv, TypeOK
<1>6. QED
  BY <1>1, <1>2, <1>3, <1>4, <1>5, StagePassed

\* The status stage of one that gets something.
LEMMA StatusOutWaitIInv == IInv /\ StatusOutWait => IInv'
<1> SUFFICES ASSUME IInv, StatusOutWait PROVE IInv'
  OBVIOUS
<1>1. /\ gState = "HOST_CTRL_XFER" /\ ctl = "CTRL_STATUS_OUT_WAIT"
      /\ UNCHANGED <<EnumState, RequestState, errorcount, address, fired, URB_State, chan, buf,
                     devAddress, devConfigured, devReq, devStage, strings, config, faults>>
  BY DEF StatusOutWait, In, urbVars, deviceVars, given
<1>2. \/ /\ URB_State["out"] = "URB_DONE"
         /\ gState' = "HOST_ENUMERATION" /\ ctl' = "CTRL_COMPLETE"
      \/ URB_State["out"] = "URB_NOTREADY" /\ ctl' = "CTRL_STATUS_OUT" /\ gState' = gState
      \/ URB_State["out"] = "URB_ERROR" /\ ctl' = "CTRL_ERROR" /\ gState' = gState
      \/ ctl' = ctl /\ gState' = gState
  BY Zenon DEF StatusOutWait, OutRefused
<1>3. DataDone /\ ctl \in DataStage
  BY <1>1 DEF DataDone, DataStage
<1>4. ctl' = ctl \/ ~chan["out"]
  BY <1>2 DEF IInv, Control
<1>5. errorcount' \in 0 .. ErrorCounts - 1 /\ fired' \in BOOLEAN
  BY <1>1 DEF IInv, TypeOK
<1>6. QED
  BY <1>1, <1>2, <1>3, <1>4, <1>5, StagePassed

\* The request is given up, or made from its SETUP packet again.
LEMMA CtrlErrorIInv == IInv /\ CtrlError => IInv'
<1> SUFFICES ASSUME IInv, CtrlError PROVE IInv'
  OBVIOUS
<1>1. /\ gState = "HOST_CTRL_XFER" /\ ctl = "CTRL_ERROR"
      /\ UNCHANGED <<EnumState, RequestState, address, fired, URB_State, chan, buf,
                     devAddress, devConfigured, devReq, devStage, strings, config, faults>>
      /\ \/ ctl' = "CTRL_SETUP" /\ gState' = gState
         \/ gState' = "HOST_ENUMERATION" /\ ctl' = ctl
  BY DEF CtrlError, In, urbVars, deviceVars, given
<1>2. errorcount' \in 0 .. ErrorCounts - 1
  BY DEF CtrlError, Counted, IInv, TypeOK
<1>3. fired' \in BOOLEAN
  BY <1>1 DEF IInv, TypeOK
<1>4. ~chan["out"]
  BY <1>1 DEF IInv, Control
<1>5. QED
  BY <1>1, <1>2, <1>3, <1>4, StagePassed

\* One step of the control transfer.
LEMMA HandleControlIInv == IInv /\ HandleControl => IInv'
BY CtrlStartIInv, SetupWaitIInv, DataInWaitIInv, StatusInWaitIInv, StatusOutWaitIInv,
   CtrlErrorIInv DEF HandleControl

-----------------------------------------------------------------------------
(* The bus and the device *)

\* Faults are counted up to their bound.
LEMMA FaultCounted ==
  ASSUME TypeOK, NoFault \/ \E f \in AllFaults : Fault(f)
  PROVE  faults' \in 0 .. MaxFaults
BY DEF TypeOK, NoFault, Fault

\* The end of a channel's transfer changes the channel and the device only; an OUT
\* channel was enabled in the stages that wait for it.
LEMMA TransferEnded ==
  ASSUME IInv, NEW p \in Pipes, NEW u \in {"URB_DONE", "URB_NOTREADY", "URB_ERROR", "URB_STALL"},
         End(p, u), UNCHANGED <<hostVars, fired, given>>,
         NoFault \/ \E f \in AllFaults : Fault(f),
         buf' \in Gets \cup {"none"}, devReq' \in Gets \cup Sets \cup {"none"},
         devStage' \in {"idle", "data", "status_in", "status_out"},
         devAddress' \in {0, 1}, devConfigured' \in BOOLEAN
  PROVE  /\ TypeOK' /\ Control'
         /\ "out" \in Pipes /\ "in" \in Pipes
         /\ URB_State'[p] = u /\ \A q \in Pipes : q # p => URB_State'[q] = URB_State[q]
         /\ UNCHANGED <<gState, EnumState, RequestState, ctl, errorcount, address, fired, strings,
                        config>>
<1> USE DEF IInv
<1>1. UNCHANGED <<gState, EnumState, RequestState, ctl, errorcount, address, fired, strings, config>>
  BY DEF hostVars, given
<1>2. /\ URB_State' = [URB_State EXCEPT ![p] = u]
      /\ chan' = [chan EXCEPT ![p] = FALSE]
      /\ URB_State \in [Pipes -> {"URB_IDLE", "URB_DONE", "URB_NOTREADY", "URB_ERROR", "URB_STALL"}]
      /\ chan \in [Pipes -> BOOLEAN]
  BY DEF End, TypeOK
<1>3. /\ "out" \in Pipes /\ "in" \in Pipes
      /\ URB_State'[p] = u /\ \A q \in Pipes : q # p => URB_State'[q] = URB_State[q]
      /\ ~chan'[p] /\ \A q \in Pipes : q # p => chan'[q] = chan[q]
  BY <1>2 DEF Pipes
<1>4. chan' \in [Pipes -> BOOLEAN]
  BY <1>2, Zenon
<1>5. URB_State' \in [Pipes -> {"URB_IDLE", "URB_DONE", "URB_NOTREADY", "URB_ERROR", "URB_STALL"}]
  BY <1>2
<1>6. faults' \in 0 .. MaxFaults
  BY FaultCounted
<1>7. TypeOK'
  BY <1>1, <1>4, <1>5, <1>6 DEF TypeOK
<1>8. chan'["out"] => ctl' \in {"CTRL_SETUP_WAIT", "CTRL_STATUS_OUT_WAIT"}
                      /\ URB_State'["out"] = "URB_IDLE"
  <2>1. chan'["out"] => "out" # p
    BY <1>3
  <2>2. QED
    BY <1>1, <1>3, <2>1 DEF Control
<1>9. Control'
  BY <1>1, <1>8 DEF Control, Wanted
<1>10. QED
  BY <1>1, <1>3, <1>7, <1>9

\* A packet of the host: the device takes the SETUP packet, or sees the end of a
\* request it answered.
LEMMA OutTransferIInv == IInv /\ OutTransfer => IInv'
<1> SUFFICES ASSUME IInv, OutTransfer PROVE IInv'
  OBVIOUS
<1>1. UNCHANGED <<hostVars, fired, buf, given>>
  BY DEF OutTransfer
<1>2. PICK u \in {"URB_DONE", "URB_NOTREADY", "URB_ERROR", "URB_STALL"} :
        /\ End("out", u)
        /\ NoFault \/ \E f \in AllFaults : Fault(f)
        /\ \/ Take
           \/ /\ u # "URB_DONE" /\ UNCHANGED <<devAddress, devConfigured, devReq>>
              /\ devStage' = devStage \/ devStage' = "idle"
  BY DEF OutTransfer, RefuseStatus, StallStatus, AllFaults, deviceVars
<1>3. chan["out"]
  BY <1>2 DEF End
<1>4. /\ ctl \in {"CTRL_SETUP_WAIT", "CTRL_STATUS_OUT_WAIT"} /\ gState = "HOST_CTRL_XFER"
      /\ EnumState \in Gets \cup Sets
  <2>1. ctl \in {"CTRL_SETUP_WAIT", "CTRL_STATUS_OUT_WAIT"}
    BY <1>3 DEF IInv, Control
  <2>2. gState = "HOST_CTRL_XFER"
    BY <2>1 DEF IInv, Control
  <2>3. QED
    BY <2>1, <2>2, UnderWay
<1>5. /\ UNCHANGED <<devAddress, devConfigured>>
      /\ \/ ctl = "CTRL_SETUP_WAIT" /\ devReq' = EnumState
            /\ devStage' = IF EnumState \in Gets THEN "data" ELSE "status_in"
         \/ ctl = "CTRL_STATUS_OUT_WAIT" /\ devReq' = devReq /\ devStage' = "idle"
         \/ u # "URB_DONE" /\ devReq' = devReq /\ devStage' \in {devStage, "idle"}
  BY <1>2, <1>4 DEF Take, TakeSetup, TakeStatus
<1>6. /\ devReq' \in Gets \cup Sets \cup {"none"}
      /\ devStage' \in {"idle", "data", "status_in", "status_out"}
      /\ devAddress' \in {0, 1} /\ devConfigured' \in BOOLEAN /\ buf' \in Gets \cup {"none"}
  BY <1>1, <1>4, <1>5 DEF IInv, TypeOK
<1>7. /\ TypeOK' /\ Control'
      /\ "out" \in Pipes /\ "in" \in Pipes
      /\ URB_State'["out"] = u /\ URB_State'["in"] = URB_State["in"]
      /\ UNCHANGED <<gState, EnumState, RequestState, ctl, errorcount, address, fired, strings,
                     config>>
  <2>1. "out" \in Pipes /\ "in" \in Pipes
    BY DEF Pipes
  <2>2. u \in {"URB_DONE", "URB_NOTREADY", "URB_ERROR", "URB_STALL"}
    OBVIOUS
  <2>3. QED
    BY <1>1, <1>2, <1>6, <2>1, <2>2, TransferEnded
<1>8. SameRequest'
  BY <1>4, <1>5, <1>7 DEF IInv, SameRequest, DataStage, StatusStage
<1>9. (DataDone' => DataDone) /\ (StatusDone' => StatusDone)
  BY <1>7 DEF DataDone, StatusDone
<1>10. Agreed => Agreed'
  BY <1>5, <1>7, AgreedStays
<1>11. QED
  BY <1>1, <1>5, <1>7, <1>8, <1>9, <1>10 DEF IInv, CarriedOut

\* The device answers: with the data it was asked for, with the end of what it was
\* told, with nothing or with a refusal.
LEMMA InTransferIInv == IInv /\ InTransfer => IInv'
<1> SUFFICES ASSUME IInv, InTransfer PROVE IInv'
  OBVIOUS
<1>1. UNCHANGED <<hostVars, fired, given>>
  BY DEF InTransfer
<1>2. NoFault \/ \E f \in AllFaults : Fault(f)
  BY DEF InTransfer, AllFaults
<1>3. PICK u \in {"URB_DONE", "URB_ERROR", "URB_STALL"} :
        /\ End("in", u)
        /\ \/ u = "URB_DONE" /\ (SendData(TRUE) \/ SendData(FALSE))
           \/ u = "URB_DONE" /\ SendStatus(TRUE)
           \/ u = "URB_DONE" /\ SendStatus(FALSE) /\ "in_ack_lost" \in Faults
           \/ u # "URB_DONE" /\ UNCHANGED buf /\ devStage' \in {"idle", devStage}
              /\ UNCHANGED <<devAddress, devConfigured, devReq>>
  BY DEF InTransfer, SendData, SendStatus, Fault, deviceVars
<1>4. "out" \in Pipes /\ "in" \in Pipes
      /\ u \in {"URB_DONE", "URB_NOTREADY", "URB_ERROR", "URB_STALL"}
  BY DEF Pipes
<1>5. TypeOK /\ SameRequest /\ Control
  BY DEF IInv
<1>6. CASE u = "URB_DONE" /\ (SendData(TRUE) \/ SendData(FALSE))
  <2>1. /\ devStage = "data" /\ buf' = devReq /\ UNCHANGED <<devAddress, devConfigured, devReq>>
        /\ devStage' \in {"status_out", devStage}
    BY <1>6 DEF SendData
  <2>2. devReq \in Gets /\ devReq \notin Sets
    BY <1>5, <2>1, Requests DEF SameRequest
  <2>3. /\ buf' \in Gets \cup {"none"} /\ devReq' \in Gets \cup Sets \cup {"none"}
        /\ devStage' \in {"idle", "data", "status_in", "status_out"}
        /\ devAddress' \in {0, 1} /\ devConfigured' \in BOOLEAN
    BY <1>5, <2>1, <2>2 DEF TypeOK
  <2>4. /\ TypeOK' /\ Control'
        /\ URB_State'["out"] = URB_State["out"]
        /\ UNCHANGED <<gState, EnumState, RequestState, ctl>>
    BY <1>1, <1>2, <1>3, <1>4, <2>3, TransferEnded
  <2>5. SameRequest'
    BY <1>5, <2>1, <2>2, <2>4 DEF SameRequest
  <2>6. DataDone' => buf' = EnumState'
    BY <1>5, <2>1, <2>4 DEF DataDone, SameRequest, DataStage
  <2>7. StatusDone' => StatusDone
    BY <1>5, <2>2, <2>4 DEF StatusDone, Control, SameRequest, StatusStage
  <2>8. Agreed => Agreed'
    BY <2>1, <2>4, AgreedStays
  <2>9. QED
    BY <2>1, <2>4, <2>5, <2>6, <2>7, <2>8 DEF IInv, CarriedOut
<1>7. CASE u = "URB_DONE" /\ SendStatus(TRUE)
  <2>1. /\ devStage = "status_in" /\ devStage' = "idle" /\ UNCHANGED <<buf, devReq>>
        /\ devAddress' = IF devReq = "ENUM_SET_ADDR" THEN 1 ELSE devAddress
        /\ devConfigured' = (devConfigured \/ devReq = "ENUM_SET_CONFIGURATION")
    BY <1>7 DEF SendStatus, Conclude
  <2>2. devReq \in Sets /\ devReq \notin Gets
    BY <1>5, <2>1, Requests DEF SameRequest
  <2>3. /\ buf' \in Gets \cup {"none"} /\ devReq' \in Gets \cup Sets \cup {"none"}
        /\ devStage' \in {"idle", "data", "status_in", "status_out"}
        /\ devAddress' \in {0, 1}
    BY <1>5, <2>1, <2>2 DEF TypeOK
  <2>4. devConfigured' \in BOOLEAN
    BY <2>1, Zenon
  <2>5. /\ TypeOK' /\ Control'
        /\ URB_State'["out"] = URB_State["out"]
        /\ UNCHANGED <<gState, EnumState, RequestState, ctl>>
    BY <1>1, <1>2, <1>3, <1>4, <2>3, <2>4, TransferEnded
  <2>6. SameRequest'
    BY <1>5, <2>1, <2>5 DEF SameRequest
  <2>7. DataDone' => DataDone
    BY <1>5, <2>2, <2>5 DEF DataDone, SameRequest, DataStage, Control
  <2>8. /\ devAddress = 1 => devAddress' = 1
        /\ devConfigured => devConfigured'
    BY <2>1
  <2>9. CarriedOut => CarriedOut'
    <3>1. CASE ctl = "CTRL_STATUS_IN_WAIT"
      <4>1. devReq = EnumState
        BY <1>5, <3>1 DEF SameRequest, StatusStage
      <4>2. QED
        BY <2>1, <2>5, <4>1 DEF CarriedOut
    <3>2. CASE ctl # "CTRL_STATUS_IN_WAIT"
      BY <2>5, <2>8, <3>2 DEF CarriedOut, StatusDone
    <3>3. QED
      BY <3>1, <3>2
  <2>10. Agreed => Agreed'
    BY <2>5, <2>8, AgreedStays
  <2>11. QED
    BY <2>1, <2>5, <2>6, <2>7, <2>9, <2>10 DEF IInv
<1>8. CASE u = "URB_DONE" /\ SendStatus(FALSE) /\ "in_ack_lost" \in Faults
  <2>1. devStage = "status_in" /\ UNCHANGED <<buf, devAddress, devConfigured, devReq, devStage>>
    BY <1>8 DEF SendStatus, deviceVars
  <2>2. devReq \in Sets /\ devReq \notin Gets
    BY <1>5, <2>1, Requests DEF SameRequest
  <2>3. /\ buf' \in Gets \cup {"none"} /\ devReq' \in Gets \cup Sets \cup {"none"}
        /\ devStage' \in {"idle", "data", "status_in", "status_out"}
        /\ devAddress' \in {0, 1} /\ devConfigured' \in BOOLEAN
    BY <1>5, <2>1 DEF TypeOK
  <2>4. /\ TypeOK' /\ Control'
        /\ URB_State'["out"] = URB_State["out"]
        /\ UNCHANGED <<gState, EnumState, RequestState, ctl>>
    BY <1>1, <1>2, <1>3, <1>4, <2>3, TransferEnded
  <2>5. SameRequest'
    BY <1>5, <2>1, <2>4 DEF SameRequest
  <2>6. DataDone' => DataDone
    BY <1>5, <2>2, <2>4 DEF DataDone, SameRequest, DataStage, Control
  <2>7. QED
    BY <1>8, <2>1, <2>4, <2>5, <2>6 DEF IInv
<1>9. CASE /\ u # "URB_DONE" /\ UNCHANGED buf /\ devStage' \in {"idle", devStage}
           /\ UNCHANGED <<devAddress, devConfigured, devReq>>
  <2>1. /\ buf' \in Gets \cup {"none"} /\ devReq' \in Gets \cup Sets \cup {"none"}
        /\ devStage' \in {"idle", "data", "status_in", "status_out"}
        /\ devAddress' \in {0, 1} /\ devConfigured' \in BOOLEAN
    BY <1>5, <1>9 DEF TypeOK
  <2>2. /\ TypeOK' /\ Control'
        /\ URB_State'["in"] = u /\ URB_State'["out"] = URB_State["out"]
        /\ UNCHANGED <<gState, EnumState, RequestState, ctl>>
    BY <1>1, <1>2, <1>3, <1>4, <2>1, TransferEnded
  <2>3. SameRequest'
    BY <1>5, <1>9, <2>2 DEF SameRequest
  <2>4. (DataDone' => DataDone) /\ (StatusDone' => StatusDone)
    BY <1>9, <2>2 DEF DataDone, StatusDone
  <2>5. Agreed => Agreed'
    BY <1>9, <2>2, AgreedStays
  <2>6. QED
    BY <1>9, <2>2, <2>3, <2>4, <2>5 DEF IInv, CarriedOut
<1>10. QED
  BY <1>3, <1>6, <1>7, <1>8, <1>9

\* The timer of a stage runs out.
LEMMA ExpireIInv == IInv /\ Expire => IInv'
<1> SUFFICES ASSUME IInv, Expire PROVE IInv'
  OBVIOUS
<1> USE DEF IInv, hostVars, urbVars, deviceVars, given
<1>1. /\ fired' = TRUE
      /\ UNCHANGED <<gState, EnumState, RequestState, ctl, errorcount, address, URB_State, chan, buf,
                     devAddress, devConfigured, devReq, devStage, strings, config>>
  BY DEF Expire
<1>2. faults' \in 0 .. MaxFaults
  <2>1. NoFault \/ \E f \in AllFaults : Fault(f)
    BY DEF Expire, AllFaults
  <2>2. QED
    BY <2>1, FaultCounted
<1>3. TypeOK'
  BY <1>1, <1>2 DEF TypeOK
<1>4. Control' /\ SameRequest'
  BY <1>1 DEF Control, SameRequest, Wanted
<1>5. (DataDone' => DataDone) /\ (StatusDone' => StatusDone)
  BY <1>1 DEF DataDone, StatusDone
<1>6. Agreed => Agreed'
  BY <1>1, AgreedStays
<1>7. QED
  BY <1>1, <1>3, <1>4, <1>5, <1>6 DEF CarriedOut

\* No step at all.
LEMMA StutterIInv == IInv /\ UNCHANGED vars => IInv'
<1> SUFFICES ASSUME IInv, UNCHANGED vars PROVE IInv'
  OBVIOUS
<1> USE DEF IInv, vars, hostVars, urbVars, deviceVars, given
<1>1. TypeOK'
  BY DEF TypeOK
<1>2. Control' /\ SameRequest'
  BY DEF Control, SameRequest, Wanted
<1>3. (DataDone' => DataDone) /\ (StatusDone' => StatusDone)
  BY DEF DataDone, StatusDone
<1>4. Agreed => Agreed'
  BY AgreedStays
<1>5. QED
  BY <1>1, <1>2, <1>3, <1>4 DEF CarriedOut

\* The thread, the bus and the device together.
LEMMA NextIInv == IInv /\ [Next]_vars => IInv'
BY HandleEnumIInv, HandleControlIInv, OutTransferIInv, InTransferIInv, ExpireIInv, StutterIInv
   DEF Next, Process, World, Terminated

-----------------------------------------------------------------------------
(* The theorems *)

\* The stages of a control transfer, the request the device is at and what is in
\* Cfg_Rx_Buffer fit together in every state (usbh_core.c: USBH_HandleEnum,
\* USBH_HandleControl; usbh_ioreq.c: USBH_CtlReq).
THEOREM Inductive == Spec => []IInv
BY InitIInv, NextIInv, PTL DEF Spec

\* USBH_HandleEnum parses the answer to the request it made, whatever went wrong on
\* the bus and however often, a late answer to an earlier attempt included.
THEOREM RightAnswers == Spec => []RightAnswer
<1>1. IInv => RightAnswer
  BY DEF IInv, DataDone, RightAnswer
<1>2. QED
  BY <1>1, Inductive, PTL

\* Unless the handshake of the host to a packet of the device is lost, the device
\* has carried out SET_ADDRESS and SET_CONFIGURATION when the host goes on.
THEOREM HostDeviceAgree == "in_ack_lost" \notin Faults => (Spec => []Agreed)
<1> SUFFICES ASSUME "in_ack_lost" \notin Faults PROVE Spec => []Agreed
  OBVIOUS
<1>1. IInv => Agreed
  BY DEF IInv
<1>2. QED
  BY <1>1, Inductive, PTL
=============================================================================
