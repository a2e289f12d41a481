----------------------------- MODULE SessionProofs -----------------------------
(***************************************************************************)
(* What SessionTask promises whatever the RFID task, the beam and the      *)
(* console do: first its types and that every bucket is measured exactly   *)
(* once before its milking, from an inductive invariant that adds to the   *)
(* types what the position in the loop says about the state of the         *)
(* session.  Four groups of results build on it: the weight log and the    *)
(* records, the RFID reader when the console leaves it alone, the          *)
(* implementation of MilkingPost, and how long a spray lasts and how far   *)
(* two sprays are apart, for every duration, cooldown and blocking time.   *)
(***************************************************************************)
EXTENDS SessionProps, RfidReaderProofs

\* What pc says about the session.  The states are those of the code's switch:
\* a step in the middle of a case is taken in the state of that case.
PointState ==
    /\ pc \in {"resetPause", "resetWait", "sample"} => state = IDLE
    /\ pc \in {"goneWait", "goneFinish", "poll", "milkPause", "milkWait", "startMilking"}
         => state = COW_PRESENT
    /\ pc \in {"bucketReset", "waitFinal", "publishLeft", "endPause", "endWait", "endIdle"}
         => state = MILKING
    /\ pc \in {"poll", "milkPause", "milkWait", "startMilking"} => rfidStarted

\* The valve is only open while a visit has armed it.
ValveState ==
    /\ valveOpen => valveArmed
    /\ valveArmed =>
         /\ state # IDLE
         /\ pc \notin {"waitFinal", "publishLeft", "endPause", "endWait", "endIdle"}

\* Only the console can open the pin without the task knowing.
PinState == "valve open" \notin Commands => (pin => valveOpen)

\* CMD_MEASURE_INIT goes out with the RFID start, and sensorInitSent says so.
MeasureState ==
    /\ state = COW_PRESENT =>
         /\ rfidStarted => sensorInitSent
         /\ initSends = IF sensorInitSent THEN 1 ELSE 0
    /\ state = MILKING => initSends = 1

\* A tag is held from the end of its batch until the record is published.
TagState ==
    /\ rfid # NoTag => state = MILKING \/ pc \in {"milkPause", "milkWait", "startMilking"}
    /\ pc \in {"endPause", "endWait", "endIdle"} => rfid = NoTag
    /\ TagOnlyWhileMilking

Control == PointState /\ ValveState /\ PinState /\ MeasureState /\ TagState

SessionInv == RfidInv /\ TaskTypeOK /\ Control

-----------------------------------------------------------------------------
(* The operators on time, weights and records *)

\* An age is a natural number that stays within the limit it is kept up to.
LEMMA OlderNat ==
    ASSUME NEW a \in Nat, NEW d \in Nat, NEW limit \in Nat
    PROVE  Older(a, d, limit) \in Nat /\ Older(a, d, limit) <= limit
BY DEF Older

\* Every timer has a limit.
LEMMA LimitNat == \A t \in Timers : Limit[t] \in Nat
BY TimeAssumption DEF Limit, Timers

\* Time that passes keeps the clocks natural numbers.
LEMMA ElapseType ==
    ASSUME ClockTypeOK, NEW d \in Nat, Elapse(d)
    PROVE  ClockTypeOK'
<1>1. OpenForMax \in Nat /\ VALVE_COOLDOWN \in Nat
    BY TimeAssumption DEF OpenForMax
<1> QED BY <1>1, OlderNat DEF ClockTypeOK, Elapse

\* Restarting some timers keeps the ages within their limits.
LEMMA AgeChange ==
    ASSUME AgeTypeOK, age' \in [Timers -> Nat], \A t \in Timers : age'[t] \in {0, age[t]}
    PROVE  AgeTypeOK'
BY LimitNat DEF AgeTypeOK

\* Restarting the log interval and the drop window does too.
LEMMA MilkingAgesType ==
    ASSUME AgeTypeOK
    PROVE  /\ MilkingAges \in [Timers -> Nat]
           /\ \A t \in Timers : MilkingAges[t] \in {0, age[t]}
BY DEF AgeTypeOK, MilkingAges

\* A logged weight is a natural number.
LEMMA GramsNat == \A w \in Weights : Grams(w) \in Nat
BY WeightAssumption DEF Grams

\* Logging a weight keeps the log within its size.
LEMMA LogWeightType ==
    ASSUME RecordTypeOK, BeamTypeOK
    PROVE  LogWeight \in Seq(Nat) /\ Len(LogWeight) <= WEIGHT_LOG_MAX_SAMPLES
<1>1. Grams(sample.w) \in Nat
    BY GramsNat DEF BeamTypeOK
<1>2. WEIGHT_LOG_MAX_SAMPLES \in Nat /\ Len(weightLog) \in Nat
    BY WeightAssumption DEF RecordTypeOK
<1>3. CASE LogWeight = weightLog
    BY <1>3 DEF RecordTypeOK
<1>4. CASE /\ LogWeight = Append(weightLog, Grams(sample.w))
           /\ Len(weightLog) < WEIGHT_LOG_MAX_SAMPLES
    BY <1>1, <1>2, <1>4 DEF RecordTypeOK
<1> QED BY <1>3, <1>4 DEF LogWeight

\* What publishSession sends is a record.
LEMMA PublishType ==
    ASSUME FlowTypeOK, RecordTypeOK, NEW w \in Weights,
           NEW reason \in {"BUCKET_CHANGE", "COW_LEFT"}, Publish(w, reason)
    PROVE  out' \in Records
BY DEF FlowTypeOK, RecordTypeOK, Publish, Records

-----------------------------------------------------------------------------

\* The post starts with an empty session and no tag.
LEMMA InitInv == SessionInit => SessionInv
<1> SUFFICES ASSUME SessionInit PROVE SessionInv
    OBVIOUS
<1> USE DEF SessionInit, IDLE, COW_PRESENT, MILKING
<1>1. RfidInv
    BY RfidInitInv
<1>2. FlowTypeOK /\ ValveTypeOK /\ Control
    BY DEF FlowTypeOK, ValveTypeOK, Points, Control, PointState, ValveState, PinState, MeasureState,
           TagState, TagOnlyWhileMilking
<1>3. BeamTypeOK
    BY WeightAssumption DEF BeamTypeOK, NoSample
<1>4. AgeTypeOK
    BY LimitNat DEF AgeTypeOK
<1>5. ClockTypeOK
    BY TimeAssumption DEF ClockTypeOK
<1>6. RecordTypeOK
    BY WeightAssumption DEF RecordTypeOK
<1> QED BY <1>1, <1>2, <1>3, <1>4, <1>5, <1>6 DEF SessionInv, TaskTypeOK

\* Every step of the session task, of the RFID task and of the console keeps
\* the invariant.
LEMMA StepInv == SessionInv /\ [SessionNext]_vars => SessionInv'
<1> SUFFICES ASSUME SessionInv, [SessionNext]_vars PROVE SessionInv'
    OBVIOUS
<1> USE DEF SessionInv, TaskTypeOK, TagOnlyWhileMilking,
           rfidVars, sessionVars, valveVars, clockVars, beamVars, logVars
<1>1. CASE ForceReset
    <2>1. RfidInv'
        BY <1>1, ResetConfirmationInv DEF ForceReset
    <2>2. FlowTypeOK'
        BY <1>1 DEF ForceReset, FlowTypeOK, ForgetCow, Points, Pausing
    <2>3. ValveTypeOK'
        BY <1>1 DEF ForceReset, ValveTypeOK, CloseValve
    <2>4. BeamTypeOK'
        BY <1>1 DEF ForceReset, BeamTypeOK
    <2>5. ClockTypeOK'
        BY <1>1, TimeAssumption DEF ForceReset, ClockTypeOK, CloseValve
    <2>6. RecordTypeOK'
        BY <1>1, WeightAssumption DEF ForceReset, RecordTypeOK, ForgetCow
    <2>7. AgeTypeOK'
        BY <1>1 DEF ForceReset, AgeTypeOK
    <2>8. PointState'
        BY <1>1 DEF ForceReset, ForgetCow, CloseValve, Control, PointState, FlowTypeOK,
           IDLE, COW_PRESENT, MILKING
    <2>9. ValveState'
        BY <1>1 DEF ForceReset, ForgetCow, CloseValve, Control, ValveState, PointState,
           ValveTypeOK, IDLE, COW_PRESENT, MILKING
    <2>10. PinState'
        BY <1>1 DEF ForceReset, ForgetCow, CloseValve, Control, PinState, IDLE, COW_PRESENT,
           MILKING
    <2>11. MeasureState'
        BY <1>1 DEF ForceReset, ForgetCow, CloseValve, Control, MeasureState, PointState,
           FlowTypeOK, IDLE, COW_PRESENT, MILKING
    <2>12. TagState'
        BY <1>1 DEF ForceReset, ForgetCow, CloseValve, Control, TagState, PointState,
           FlowTypeOK, IDLE, COW_PRESENT, MILKING
    <2> QED BY <2>1, <2>2, <2>3, <2>4, <2>5, <2>6, <2>7, <2>8, <2>9, <2>10, <2>11, <2>12 DEF TaskTypeOK, Control
<1>2. CASE PauseRfid
    <2>1. RfidInv'
        BY <1>2, SetPausedInv DEF PauseRfid
    <2>2. FlowTypeOK'
        BY <1>2 DEF PauseRfid, FlowTypeOK, Points, Pausing
    <2>3. ValveTypeOK' /\ BeamTypeOK' /\ AgeTypeOK' /\ ClockTypeOK' /\ RecordTypeOK'
        BY <1>2 DEF PauseRfid, ValveTypeOK, BeamTypeOK, AgeTypeOK, ClockTypeOK, RecordTypeOK
    <2>4. PointState' /\ ValveState' /\ PinState' /\ MeasureState' /\ TagState'
        BY <1>2 DEF PauseRfid, Control, PointState, ValveState, PinState, MeasureState,
           TagState, FlowTypeOK, ValveTypeOK, IDLE, COW_PRESENT, MILKING
    <2> QED BY <2>1, <2>2, <2>3, <2>4 DEF TaskTypeOK, Control
<1>3. CASE PauseDone
    <2>1. RfidInv'
        BY <1>3, RfidUnchangedInv DEF PauseDone
    <2>2. FlowTypeOK'
        BY <1>3 DEF PauseDone, FlowTypeOK, Points, Pausing, AfterPause
    <2>3. ClockTypeOK'
        BY <1>3, ElapseType, TimeAssumption DEF PauseDone, ClockTypeOK
    <2>4. ValveTypeOK' /\ BeamTypeOK' /\ AgeTypeOK' /\ RecordTypeOK'
        BY <1>3 DEF PauseDone, ValveTypeOK, BeamTypeOK, AgeTypeOK, RecordTypeOK
    <2>5. PointState'
        BY <1>3 DEF PauseDone, AfterPause, Pausing, Control, PointState, FlowTypeOK, IDLE,
           COW_PRESENT, MILKING
    <2>6. ValveState'
        <3>1. pc \in Pausing /\ pc' = AfterPause[pc]
            BY <1>3 DEF PauseDone
        <3>2. pc' = "endIdle" => pc = "endWait"
            BY <3>1 DEF AfterPause, Pausing
        <3>3. pc' \notin {"waitFinal", "publishLeft", "endPause", "endWait"}
            BY <3>1 DEF AfterPause, Pausing
        <3>4. UNCHANGED <<state, valveArmed, valveOpen>>
            BY <1>3 DEF PauseDone
        <3> QED BY <3>2, <3>3, <3>4, Zenon DEF Control, ValveState
    <2>7. PinState'
        BY <1>3 DEF PauseDone, Control, PinState
    <2>8. MeasureState'
        BY <1>3 DEF PauseDone, AfterPause, Pausing, Control, MeasureState, PointState,
           FlowTypeOK, IDLE, COW_PRESENT, MILKING
    <2>9. TagState'
        BY <1>3 DEF PauseDone, AfterPause, Pausing, Control, TagState, PointState,
           FlowTypeOK, IDLE, COW_PRESENT, MILKING
    <2> QED BY <2>1, <2>2, <2>3, <2>4, <2>5, <2>6, <2>7, <2>8, <2>9 DEF TaskTypeOK, Control
<1>4. CASE Sample
    <2>1. RfidInv'
        BY <1>4, RfidUnchangedInv DEF Sample
    <2>2. FlowTypeOK'
        BY <1>4 DEF Sample, FlowTypeOK, Points
    <2>3. BeamTypeOK'
        <3>1. \A a \in Nat \cup {NotPending}, limit \in Nat : Pending(a, limit) \in Nat
            BY OlderNat DEF Pending, ClockTypeOK
        <3>2. PICK w \in Weights, beam \in {0, 1} :
                /\ clearAge' = IF beam = 1 THEN Pending(clearAge, COW_GONE_CONFIRM)
                               ELSE NotPending
                /\ blockAge' = IF beam = 0 THEN Pending(blockAge, COW_ARRIVE_CONFIRM)
                               ELSE NotPending
                /\ sample' = [w |-> w,
                              gone |-> beam = 1 /\ Confirms(clearAge, COW_GONE_CONFIRM),
                              present |-> beam = 0 /\ Confirms(blockAge, COW_ARRIVE_CONFIRM)]
            BY <1>4 DEF Sample
        <3>3. clearAge' \in Nat \cup {NotPending} /\ blockAge' \in Nat \cup {NotPending}
            BY <3>1, <3>2, TimeAssumption DEF BeamTypeOK
        <3>4. Confirms(clearAge, COW_GONE_CONFIRM) \in BOOLEAN
            BY DEF Confirms
        <3>5. Confirms(blockAge, COW_ARRIVE_CONFIRM) \in BOOLEAN
            BY DEF Confirms
        <3>6. sample' \in [w : Weights, gone : BOOLEAN, present : BOOLEAN]
            BY <3>2, <3>4, <3>5
        <3> QED BY <3>3, <3>6 DEF BeamTypeOK
    <2>4. AgeTypeOK'
        BY <1>4, OlderNat, LimitNat DEF Sample, AgeTypeOK, ClockTypeOK
    <2>5. ClockTypeOK'
        BY <1>4 DEF Sample, ClockTypeOK
    <2>6. ValveTypeOK' /\ RecordTypeOK'
        BY <1>4 DEF Sample, ValveTypeOK, RecordTypeOK
    <2>7. PointState' /\ ValveState' /\ PinState' /\ MeasureState' /\ TagState'
        BY <1>4 DEF Sample, ResetRequested, Control, PointState, ValveState, PinState,
           MeasureState, TagState, FlowTypeOK, ValveTypeOK, IDLE, COW_PRESENT, MILKING
    <2> QED BY <2>1, <2>2, <2>3, <2>4, <2>5, <2>6, <2>7 DEF TaskTypeOK, Control
<1>5. CASE CowDetected
    <2>1. RfidInv'
        BY <1>5, ResetConfirmationInv DEF CowDetected, IdentifyAfresh
    <2>2. FlowTypeOK'
        BY <1>5 DEF CowDetected, FlowTypeOK, IdentifyAfresh, Points, Pausing
    <2>3. ValveTypeOK'
        BY <1>5 DEF CowDetected, ValveTypeOK
    <2>4. AgeTypeOK'
        <3>1. age' \in [Timers -> Nat]
            BY <1>5 DEF CowDetected, AgeTypeOK
        <3>2. \A t \in Timers : age'[t] \in {0, age[t]}
            BY <1>5 DEF CowDetected, AgeTypeOK
        <3> QED BY <3>1, <3>2, AgeChange
    <2>5. RecordTypeOK'
        BY <1>5 DEF CowDetected, RecordTypeOK, IdentifyAfresh
    <2>6. BeamTypeOK' /\ ClockTypeOK'
        BY <1>5 DEF CowDetected, IdentifyAfresh, BeamTypeOK, ClockTypeOK
    <2>7. PointState' /\ ValveState' /\ PinState' /\ MeasureState' /\ TagState'
        BY <1>5 DEF CowDetected, IdentifyAfresh, Control, PointState, ValveState, PinState,
           MeasureState, TagState, FlowTypeOK, ValveTypeOK, IDLE, COW_PRESENT, MILKING
    <2> QED BY <2>1, <2>2, <2>3, <2>4, <2>5, <2>6, <2>7 DEF TaskTypeOK, Control
<1>6. CASE StayIdle
    <2>1. RfidInv'
        BY <1>6, RfidUnchangedInv DEF StayIdle
    <2>2. FlowTypeOK'
        BY <1>6 DEF StayIdle, FlowTypeOK, Points, Pausing
    <2>3. ValveTypeOK' /\ BeamTypeOK' /\ AgeTypeOK' /\ ClockTypeOK' /\ RecordTypeOK'
        BY <1>6 DEF StayIdle, ValveTypeOK, BeamTypeOK, AgeTypeOK, ClockTypeOK, RecordTypeOK
    <2>4. PointState' /\ ValveState' /\ PinState' /\ MeasureState' /\ TagState'
        BY <1>6 DEF StayIdle, Control, PointState, ValveState, PinState, MeasureState,
           TagState, FlowTypeOK, ValveTypeOK, IDLE, COW_PRESENT, MILKING
    <2> QED BY <2>1, <2>2, <2>3, <2>4 DEF TaskTypeOK, Control
<1>7. CASE CowGoneEarly
    <2>1. RfidInv'
        BY <1>7, SetPausedInv, RfidUnchangedInv DEF CowGoneEarly
    <2>2. FlowTypeOK'
        BY <1>7 DEF CowGoneEarly, FlowTypeOK, Points, Pausing
    <2>3. ValveTypeOK' /\ BeamTypeOK' /\ AgeTypeOK' /\ ClockTypeOK' /\ RecordTypeOK'
        BY <1>7 DEF CowGoneEarly, ValveTypeOK, BeamTypeOK, AgeTypeOK, ClockTypeOK,
           RecordTypeOK
    <2>4. PointState' /\ ValveState' /\ PinState' /\ MeasureState' /\ TagState'
        BY <1>7 DEF CowGoneEarly, Control, PointState, ValveState, PinState, MeasureState,
           TagState, FlowTypeOK, ValveTypeOK, IDLE, COW_PRESENT, MILKING
    <2> QED BY <2>1, <2>2, <2>3, <2>4 DEF TaskTypeOK, Control
<1>8. CASE BackToIdle
    <2>1. RfidInv'
        BY <1>8, RfidUnchangedInv DEF BackToIdle
    <2>2. FlowTypeOK'
        BY <1>8 DEF BackToIdle, FlowTypeOK, Points, Pausing
    <2>3. ValveTypeOK'
        BY <1>8 DEF BackToIdle, ValveTypeOK, EndSprayIfOpen, CloseValve
    <2>4. AgeTypeOK'
        <3>1. age' \in [Timers -> Nat]
            BY <1>8 DEF BackToIdle, AgeTypeOK, EndSprayIfOpen
        <3>2. \A t \in Timers : age'[t] \in {0, age[t]}
            BY <1>8 DEF BackToIdle, AgeTypeOK, EndSprayIfOpen
        <3> QED BY <3>1, <3>2, AgeChange
    <2>5. ClockTypeOK'
        BY <1>8 DEF BackToIdle, ClockTypeOK, EndSprayIfOpen, CloseValve
    <2>6. BeamTypeOK' /\ RecordTypeOK'
        BY <1>8 DEF BackToIdle, BeamTypeOK, RecordTypeOK
    <2>7. PointState'
        BY <1>8 DEF BackToIdle, EndSprayIfOpen, CloseValve, Control, PointState, FlowTypeOK,
           IDLE, COW_PRESENT, MILKING
    <2>8. ValveState'
        BY <1>8 DEF BackToIdle, EndSprayIfOpen, CloseValve, Control, ValveState, PointState,
           ValveTypeOK, IDLE, COW_PRESENT, MILKING
    <2>9. PinState'
        <3>1. CASE valveOpen
            BY <1>8, <3>1 DEF BackToIdle, EndSprayIfOpen, CloseValve, PinState
        <3>2. CASE ~valveOpen
            BY <1>8, <3>2 DEF BackToIdle, EndSprayIfOpen, Control, PinState
        <3> QED BY <3>1, <3>2
    <2>10. MeasureState'
        BY <1>8 DEF BackToIdle, EndSprayIfOpen, CloseValve, Control, MeasureState,
           PointState, FlowTypeOK, IDLE, COW_PRESENT, MILKING
    <2>11. TagState'
        BY <1>8 DEF BackToIdle, EndSprayIfOpen, CloseValve, Control, TagState, PointState,
           FlowTypeOK, IDLE, COW_PRESENT, MILKING
    <2> QED BY <2>1, <2>2, <2>3, <2>4, <2>5, <2>6, <2>7, <2>8, <2>9, <2>10, <2>11 DEF TaskTypeOK, Control
<1>9. CASE AwaitRfidStart
    <2>1. RfidInv'
        BY <1>9, RfidUnchangedInv DEF AwaitRfidStart
    <2>2. FlowTypeOK'
        BY <1>9 DEF AwaitRfidStart, FlowTypeOK, Points, Pausing
    <2>3. ValveTypeOK' /\ BeamTypeOK' /\ AgeTypeOK' /\ ClockTypeOK' /\ RecordTypeOK'
        BY <1>9 DEF AwaitRfidStart, ValveTypeOK, BeamTypeOK, AgeTypeOK, ClockTypeOK,
           RecordTypeOK
    <2>4. PointState' /\ ValveState' /\ PinState' /\ MeasureState' /\ TagState'
        BY <1>9 DEF AwaitRfidStart, Control, PointState, ValveState, PinState, MeasureState,
           TagState, FlowTypeOK, ValveTypeOK, IDLE, COW_PRESENT, MILKING
    <2> QED BY <2>1, <2>2, <2>3, <2>4 DEF TaskTypeOK, Control
<1>10. CASE StartRfid
    <2>1. RfidInv'
        BY <1>10, ResumeInv DEF StartRfid
    <2>2. FlowTypeOK'
        BY <1>10 DEF StartRfid, FlowTypeOK, Points, Pausing
    <2>3. RecordTypeOK'
        BY <1>10 DEF StartRfid, RecordTypeOK, FlowTypeOK, COW_PRESENT, Control,
           MeasureState, PointState
    <2>4. ValveTypeOK' /\ BeamTypeOK' /\ AgeTypeOK' /\ ClockTypeOK'
        BY <1>10 DEF StartRfid, ValveTypeOK, BeamTypeOK, AgeTypeOK, ClockTypeOK
    <2>5. PointState'
        BY <1>10 DEF StartRfid, Control, PointState, FlowTypeOK, IDLE, COW_PRESENT, MILKING
    <2>6. ValveState'
        BY <1>10 DEF StartRfid, Control, ValveState, PointState, ValveTypeOK, IDLE,
           COW_PRESENT, MILKING
    <2>7. PinState'
        BY <1>10 DEF StartRfid, Control, PinState
    <2>8. MeasureState'
        BY <1>10 DEF StartRfid, Control, MeasureState, PointState, FlowTypeOK, IDLE,
           COW_PRESENT, MILKING
    <2>9. TagState'
        BY <1>10 DEF StartRfid, Control, TagState, PointState, FlowTypeOK, IDLE,
           COW_PRESENT, MILKING
    <2> QED BY <2>1, <2>2, <2>3, <2>4, <2>5, <2>6, <2>7, <2>8, <2>9 DEF TaskTypeOK, Control
<1>11. CASE PollRfid
    <2>1. RfidInv'
        BY <1>11, RfidUnchangedInv DEF PollRfid
    <2>2. FlowTypeOK'
        BY <1>11 DEF PollRfid, FlowTypeOK, Points, Pausing, RfidInv, RfidTypeOK
    <2>3. ValveTypeOK' /\ BeamTypeOK' /\ AgeTypeOK' /\ ClockTypeOK' /\ RecordTypeOK'
        BY <1>11 DEF PollRfid, ValveTypeOK, BeamTypeOK, AgeTypeOK, ClockTypeOK, RecordTypeOK
    <2>4. PointState' /\ ValveState' /\ PinState' /\ MeasureState' /\ TagState'
        BY <1>11 DEF PollRfid, Control, PointState, ValveState, PinState, MeasureState,
           TagState, FlowTypeOK, ValveTypeOK, IDLE, COW_PRESENT, MILKING
    <2> QED BY <2>1, <2>2, <2>3, <2>4 DEF TaskTypeOK, Control
<1>12. CASE StartMilking
    <2>1. RfidInv'
        BY <1>12, RfidUnchangedInv DEF StartMilking
    <2>2. FlowTypeOK'
        BY <1>12 DEF StartMilking, FlowTypeOK, Points, Pausing
    <2>3. AgeTypeOK'
        <3>1. age' \in [Timers -> Nat]
            BY <1>12 DEF StartMilking, AgeTypeOK
        <3>2. \A t \in Timers : age'[t] \in {0, age[t]}
            BY <1>12 DEF StartMilking, AgeTypeOK
        <3> QED BY <3>1, <3>2, AgeChange
    <2>4. RecordTypeOK'
        BY <1>12, GramsNat, WeightAssumption DEF StartMilking, RecordTypeOK, BeamTypeOK
    <2>5. ValveTypeOK' /\ BeamTypeOK' /\ ClockTypeOK'
        BY <1>12 DEF StartMilking, ValveTypeOK, BeamTypeOK, ClockTypeOK
    <2>6. PointState' /\ ValveState' /\ PinState' /\ MeasureState' /\ TagState'
        BY <1>12 DEF StartMilking, Control, PointState, ValveState, PinState, MeasureState,
           TagState, FlowTypeOK, ValveTypeOK, IDLE, COW_PRESENT, MILKING
    <2> QED BY <2>1, <2>2, <2>3, <2>4, <2>5, <2>6 DEF TaskTypeOK, Control
<1>13. CASE KeepMilking
    <2>1. RfidInv'
        BY <1>13, RfidUnchangedInv DEF KeepMilking
    <2>2. FlowTypeOK'
        BY <1>13 DEF KeepMilking, FlowTypeOK, Points, Pausing
    <2>3. AgeTypeOK'
        BY <1>13, MilkingAgesType, AgeChange DEF KeepMilking
    <2>4. RecordTypeOK'
        BY <1>13, LogWeightType DEF KeepMilking, RecordTypeOK, NextDropCheck, BeamTypeOK
    <2>5. ValveTypeOK' /\ BeamTypeOK' /\ ClockTypeOK'
        BY <1>13 DEF KeepMilking, ValveTypeOK, BeamTypeOK, ClockTypeOK
    <2>6. PointState' /\ ValveState' /\ PinState' /\ MeasureState' /\ TagState'
        BY <1>13 DEF KeepMilking, NextDropCheck, Control, PointState, ValveState, PinState,
           MeasureState, TagState, FlowTypeOK, ValveTypeOK, IDLE, COW_PRESENT, MILKING
    <2> QED BY <2>1, <2>2, <2>3, <2>4, <2>5, <2>6 DEF TaskTypeOK, Control
<1>14. CASE BucketChange
    <2>1. RfidInv'
        BY <1>14, RfidUnchangedInv DEF BucketChange, Publish
    <2>2. FlowTypeOK'
        BY <1>14 DEF BucketChange, FlowTypeOK, Points, Pausing, Publish
    <2>3. AgeTypeOK'
        BY <1>14, MilkingAgesType, AgeChange DEF BucketChange, Publish
    <2>4. ClockTypeOK'
        BY <1>14, ElapseType, TimeAssumption DEF BucketChange, ClockTypeOK, Publish
    <2>5. RecordTypeOK'
        BY <1>14, LogWeightType, PublishType DEF BucketChange, RecordTypeOK
    <2>6. ValveTypeOK' /\ BeamTypeOK'
        BY <1>14 DEF BucketChange, Publish, ValveTypeOK, BeamTypeOK
    <2>7. PointState' /\ ValveState' /\ PinState' /\ MeasureState' /\ TagState'
        BY <1>14 DEF BucketChange, Publish, Control, PointState, ValveState, PinState,
           MeasureState, TagState, FlowTypeOK, ValveTypeOK, IDLE, COW_PRESENT, MILKING
    <2> QED BY <2>1, <2>2, <2>3, <2>4, <2>5, <2>6, <2>7 DEF TaskTypeOK, Control
<1>15. CASE NextBucket
    <2>1. RfidInv'
        BY <1>15, ResetConfirmationInv DEF NextBucket, IdentifyAfresh
    <2>2. FlowTypeOK'
        BY <1>15 DEF NextBucket, FlowTypeOK, IdentifyAfresh, Points, Pausing
    <2>3. ValveTypeOK'
        BY <1>15 DEF NextBucket, ValveTypeOK, CloseValve
    <2>4. AgeTypeOK'
        <3> DEFINE b == [age EXCEPT !.rfid = 0, !.drop = 0]
        <3>1. age' = b \/ age' = [b EXCEPT !.closed = 0]
            BY <1>15 DEF NextBucket
        <3>2. b \in [Timers -> Nat] /\ \A t \in Timers : b[t] \in {0, age[t]}
            BY DEF AgeTypeOK
        <3> HIDE DEF b
        <3>3. age' \in [Timers -> Nat] /\ \A t \in Timers : age'[t] \in {0, age[t]}
            BY <3>1, <3>2
        <3> QED BY <3>3, AgeChange
    <2>5. ClockTypeOK'
        BY <1>15 DEF NextBucket, ClockTypeOK, CloseValve
    <2>6. RecordTypeOK'
        BY <1>15, WeightAssumption DEF NextBucket, RecordTypeOK, IdentifyAfresh, BeamTypeOK
    <2>7. BeamTypeOK'
        BY <1>15 DEF NextBucket, IdentifyAfresh, BeamTypeOK
    <2>8. PointState'
        BY <1>15 DEF NextBucket, IdentifyAfresh, CloseValve, Control, PointState,
           FlowTypeOK, IDLE, COW_PRESENT, MILKING
    <2>9. ValveState'
        BY <1>15 DEF NextBucket, IdentifyAfresh, CloseValve, Control, ValveState,
           PointState, ValveTypeOK, IDLE, COW_PRESENT, MILKING
    <2>10. PinState'
        <3>1. CASE valveOpen
            BY <1>15, <3>1 DEF NextBucket, CloseValve, PinState
        <3>2. CASE ~valveOpen
            BY <1>15, <3>2 DEF NextBucket, Control, PinState
        <3> QED BY <3>1, <3>2
    <2>11. MeasureState'
        BY <1>15 DEF NextBucket, IdentifyAfresh, CloseValve, Control, MeasureState,
           PointState, FlowTypeOK, IDLE, COW_PRESENT, MILKING
    <2>12. TagState'
        BY <1>15 DEF NextBucket, IdentifyAfresh, CloseValve, Control, TagState, PointState,
           FlowTypeOK, IDLE, COW_PRESENT, MILKING
    <2> QED BY <2>1, <2>2, <2>3, <2>4, <2>5, <2>6, <2>7, <2>8, <2>9, <2>10, <2>11, <2>12 DEF TaskTypeOK, Control
<1>16. CASE CowLeft
    <2>1. RfidInv'
        BY <1>16, RfidUnchangedInv DEF CowLeft
    <2>2. FlowTypeOK'
        BY <1>16 DEF CowLeft, FlowTypeOK, Points, Pausing
    <2>3. ValveTypeOK'
        BY <1>16 DEF CowLeft, ValveTypeOK, CloseValve
    <2>4. AgeTypeOK'
        <3>1. age' \in [Timers -> Nat]
            BY <1>16, MilkingAgesType DEF CowLeft, AgeTypeOK
        <3>2. \A t \in Timers : age'[t] \in {0, age[t]}
            BY <1>16, MilkingAgesType DEF CowLeft, AgeTypeOK
        <3> QED BY <3>1, <3>2, AgeChange
    <2>5. ClockTypeOK'
        BY <1>16 DEF CowLeft, ClockTypeOK, CloseValve
    <2>6. RecordTypeOK'
        BY <1>16, LogWeightType DEF CowLeft, RecordTypeOK, NextDropCheck, BeamTypeOK
    <2>7. BeamTypeOK'
        BY <1>16 DEF CowLeft, BeamTypeOK
    <2>8. PointState'
        BY <1>16 DEF CowLeft, CloseValve, Control, PointState, FlowTypeOK, IDLE,
           COW_PRESENT, MILKING
    <2>9. ValveState'
        BY <1>16 DEF CowLeft, CloseValve, Control, ValveState, PointState, ValveTypeOK,
           IDLE, COW_PRESENT, MILKING
    <2>10. PinState'
        <3>1. CASE valveOpen
            BY <1>16, <3>1 DEF CowLeft, CloseValve, PinState
        <3>2. CASE ~valveOpen
            BY <1>16, <3>2 DEF CowLeft, Control, PinState
        <3> QED BY <3>1, <3>2
    <2>11. MeasureState'
        BY <1>16 DEF CowLeft, CloseValve, Control, MeasureState, PointState, FlowTypeOK,
           IDLE, COW_PRESENT, MILKING
    <2>12. TagState'
        BY <1>16 DEF CowLeft, CloseValve, Control, TagState, PointState, FlowTypeOK, IDLE,
           COW_PRESENT, MILKING
    <2> QED BY <2>1, <2>2, <2>3, <2>4, <2>5, <2>6, <2>7, <2>8, <2>9, <2>10, <2>11, <2>12 DEF TaskTypeOK, Control
<1>17. CASE FinalWaited
    <2>1. RfidInv'
        BY <1>17, RfidUnchangedInv DEF FinalWaited
    <2>2. FlowTypeOK'
        BY <1>17 DEF FinalWaited, FlowTypeOK, Points, Pausing
    <2>3. ClockTypeOK'
        BY <1>17, ElapseType, TimeAssumption DEF FinalWaited, ClockTypeOK
    <2>4. ValveTypeOK' /\ BeamTypeOK' /\ AgeTypeOK' /\ RecordTypeOK'
        BY <1>17 DEF FinalWaited, ValveTypeOK, BeamTypeOK, AgeTypeOK, RecordTypeOK
    <2>5. PointState' /\ ValveState' /\ PinState' /\ MeasureState' /\ TagState'
        BY <1>17 DEF FinalWaited, Control, PointState, ValveState, PinState, MeasureState,
           TagState, FlowTypeOK, ValveTypeOK, IDLE, COW_PRESENT, MILKING
    <2> QED BY <2>1, <2>2, <2>3, <2>4, <2>5 DEF TaskTypeOK, Control
<1>18. CASE PublishLeft
    <2>1. RfidInv'
        BY <1>18, RfidUnchangedInv DEF PublishLeft, Publish
    <2>2. FlowTypeOK'
        BY <1>18 DEF PublishLeft, FlowTypeOK, Points, Pausing, ForgetCow, Publish
    <2>3. ClockTypeOK'
        BY <1>18, ElapseType, TimeAssumption DEF PublishLeft, ClockTypeOK, Publish
    <2>4. RecordTypeOK'
        BY <1>18, PublishType, WeightAssumption DEF PublishLeft, RecordTypeOK, ForgetCow,
           BeamTypeOK
    <2>5. ValveTypeOK' /\ BeamTypeOK' /\ AgeTypeOK'
        BY <1>18 DEF PublishLeft, Publish, ValveTypeOK, BeamTypeOK, AgeTypeOK
    <2>6. PointState' /\ ValveState' /\ PinState' /\ MeasureState' /\ TagState'
        BY <1>18 DEF PublishLeft, Publish, ForgetCow, Control, PointState, ValveState,
           PinState, MeasureState, TagState, FlowTypeOK, ValveTypeOK, IDLE, COW_PRESENT,
           MILKING
    <2> QED BY <2>1, <2>2, <2>3, <2>4, <2>5, <2>6 DEF TaskTypeOK, Control
<1>19. CASE EndSession
    <2>1. RfidInv'
        BY <1>19, RfidUnchangedInv DEF EndSession
    <2>2. FlowTypeOK'
        BY <1>19 DEF EndSession, FlowTypeOK, Points, Pausing
    <2>3. ValveTypeOK' /\ BeamTypeOK' /\ AgeTypeOK' /\ ClockTypeOK' /\ RecordTypeOK'
        BY <1>19 DEF EndSession, ValveTypeOK, BeamTypeOK, AgeTypeOK, ClockTypeOK,
           RecordTypeOK
    <2>4. PointState' /\ ValveState' /\ PinState' /\ MeasureState' /\ TagState'
        BY <1>19 DEF EndSession, Control, PointState, ValveState, PinState, MeasureState,
           TagState, FlowTypeOK, ValveTypeOK, IDLE, COW_PRESENT, MILKING
    <2> QED BY <2>1, <2>2, <2>3, <2>4 DEF TaskTypeOK, Control
<1>20. CASE Valve
    <2>1. RfidInv'
        BY <1>20, RfidUnchangedInv DEF Valve
    <2>2. FlowTypeOK'
        BY <1>20 DEF Valve, FlowTypeOK, Points, Pausing
    <2>3. ValveTypeOK'
        BY <1>20 DEF Valve, ValveTypeOK, OpenSpray, CloseSpray, KeepValve, CloseValve
    <2>4. AgeTypeOK'
        <3>1. age' \in [Timers -> Nat]
            BY <1>20 DEF Valve, AgeTypeOK, OpenSpray, CloseSpray, KeepValve
        <3>2. \A t \in Timers : age'[t] \in {0, age[t]}
            BY <1>20 DEF Valve, AgeTypeOK, OpenSpray, CloseSpray, KeepValve
        <3> QED BY <3>1, <3>2, AgeChange
    <2>5. ClockTypeOK'
        BY <1>20 DEF Valve, ClockTypeOK, OpenSpray, CloseSpray, KeepValve, CloseValve
    <2>6. BeamTypeOK' /\ RecordTypeOK'
        BY <1>20 DEF Valve, BeamTypeOK, RecordTypeOK
    <2>7. PointState'
        BY <1>20 DEF Valve, OpenSpray, CloseSpray, KeepValve, SprayDue, SprayOver,
           CloseValve, Control, PointState, FlowTypeOK, IDLE, COW_PRESENT, MILKING
    <2>8. ValveState'
        BY <1>20 DEF Valve, OpenSpray, CloseSpray, KeepValve, SprayDue, CloseValve, Control,
           ValveState, PointState, ValveTypeOK, IDLE, COW_PRESENT, MILKING
    <2>9. PinState'
        <3>1. CASE OpenSpray
            BY <3>1 DEF OpenSpray, PinState
        <3>2. CASE CloseSpray
            BY <3>2 DEF CloseSpray, CloseValve, PinState
        <3>3. CASE KeepValve
            BY <3>3 DEF KeepValve, Control, PinState
        <3> QED BY <1>20, <3>1, <3>2, <3>3 DEF Valve
    <2>10. MeasureState'
        BY <1>20 DEF Valve, OpenSpray, CloseSpray, KeepValve, SprayDue, SprayOver,
           CloseValve, Control, MeasureState, PointState, FlowTypeOK, IDLE, COW_PRESENT,
           MILKING
    <2>11. TagState'
        BY <1>20 DEF Valve, OpenSpray, CloseSpray, KeepValve, SprayDue, SprayOver,
           CloseValve, Control, TagState, PointState, FlowTypeOK, IDLE, COW_PRESENT, MILKING
    <2> QED BY <2>1, <2>2, <2>3, <2>4, <2>5, <2>6, <2>7, <2>8, <2>9, <2>10, <2>11 DEF TaskTypeOK, Control
<1>21. CASE Snapshot
    <2>1. RfidInv'
        BY <1>21, RfidUnchangedInv DEF Snapshot
    <2>2. FlowTypeOK'
        BY <1>21 DEF Snapshot, FlowTypeOK, Points, Pausing
    <2>3. BeamTypeOK'
        BY <1>21, WeightAssumption DEF Snapshot, BeamTypeOK, NoSample
    <2>4. ClockTypeOK'
        BY <1>21, ElapseType DEF Snapshot, ClockTypeOK, SNAPSHOT_INTERVAL
    <2>5. ValveTypeOK' /\ AgeTypeOK' /\ RecordTypeOK'
        BY <1>21 DEF Snapshot, ValveTypeOK, AgeTypeOK, RecordTypeOK
    <2>6. PointState' /\ ValveState' /\ PinState' /\ MeasureState' /\ TagState'
        BY <1>21 DEF Snapshot, Control, PointState, ValveState, PinState, MeasureState,
           TagState, FlowTypeOK, ValveTypeOK, IDLE, COW_PRESENT, MILKING
    <2> QED BY <2>1, <2>2, <2>3, <2>4, <2>5, <2>6 DEF TaskTypeOK, Control
<1>22. CASE BgScanBegin
    <2>1. RfidInv'
        BY <1>22, ScanBeginInv DEF BgScanBegin
    <2>2. FlowTypeOK' /\ ValveTypeOK' /\ BeamTypeOK' /\ AgeTypeOK' /\ ClockTypeOK' /\ RecordTypeOK'
        BY <1>22 DEF BgScanBegin, FlowTypeOK, ValveTypeOK, BeamTypeOK, AgeTypeOK,
           ClockTypeOK, RecordTypeOK
    <2>3. PointState' /\ ValveState' /\ PinState' /\ MeasureState' /\ TagState'
        BY <1>22 DEF BgScanBegin, Control, PointState, ValveState, PinState, MeasureState,
           TagState, FlowTypeOK, ValveTypeOK, IDLE, COW_PRESENT, MILKING
    <2> QED BY <2>1, <2>2, <2>3 DEF TaskTypeOK, Control
<1>23. CASE BgScanEnd
    <2>1. RfidInv'
        BY <1>23, ScanEndInv DEF BgScanEnd
    <2>2. FlowTypeOK' /\ ValveTypeOK' /\ BeamTypeOK' /\ AgeTypeOK' /\ ClockTypeOK' /\ RecordTypeOK'
        BY <1>23 DEF BgScanEnd, FlowTypeOK, ValveTypeOK, BeamTypeOK, AgeTypeOK, ClockTypeOK,
           RecordTypeOK
    <2>3. PointState' /\ ValveState' /\ PinState' /\ MeasureState' /\ TagState'
        BY <1>23 DEF BgScanEnd, Control, PointState, ValveState, PinState, MeasureState,
           TagState, FlowTypeOK, ValveTypeOK, IDLE, COW_PRESENT, MILKING
    <2> QED BY <2>1, <2>2, <2>3 DEF TaskTypeOK, Control
<1>24. CASE CliReset
    <2>1. RfidInv'
        BY <1>24, RfidUnchangedInv DEF CliReset
    <2>2. FlowTypeOK'
        BY <1>24 DEF CliReset, FlowTypeOK
    <2>3. ValveTypeOK' /\ BeamTypeOK' /\ AgeTypeOK' /\ ClockTypeOK' /\ RecordTypeOK'
        BY <1>24 DEF CliReset, ValveTypeOK, BeamTypeOK, AgeTypeOK, ClockTypeOK, RecordTypeOK
    <2>4. PointState' /\ ValveState' /\ PinState' /\ MeasureState' /\ TagState'
        BY <1>24 DEF CliReset, Control, PointState, ValveState, PinState, MeasureState,
           TagState, FlowTypeOK, ValveTypeOK, IDLE, COW_PRESENT, MILKING
    <2> QED BY <2>1, <2>2, <2>3, <2>4 DEF TaskTypeOK, Control
<1>25. CASE CliValve
    <2>1. RfidInv'
        BY <1>25, RfidUnchangedInv DEF CliValve
    <2>2. ValveTypeOK'
        BY <1>25 DEF CliValve, ValveTypeOK
    <2>3. ClockTypeOK'
        <3>1. elapsed' = elapsed /\ closedFor' = closedFor /\ openFor' \in {0, openFor}
            BY <1>25 DEF CliValve
        <3> QED BY <3>1 DEF ClockTypeOK
    <2>4. FlowTypeOK'
        BY <1>25 DEF CliValve, FlowTypeOK
    <2>5. BeamTypeOK'
        BY <1>25 DEF CliValve, BeamTypeOK
    <2>6. AgeTypeOK'
        BY <1>25 DEF CliValve, AgeTypeOK
    <2>7. RecordTypeOK'
        BY <1>25 DEF CliValve, RecordTypeOK
    <2>8. PointState' /\ ValveState' /\ PinState' /\ MeasureState' /\ TagState'
        BY <1>25 DEF CliValve, Control, PointState, ValveState, PinState, MeasureState,
           TagState, FlowTypeOK, ValveTypeOK, IDLE, COW_PRESENT, MILKING
    <2> QED BY <2>1, <2>2, <2>3, <2>4, <2>5, <2>6, <2>7, <2>8 DEF TaskTypeOK, Control
<1>26. CASE CliRfidPause
    <2>1. RfidInv'
        BY <1>26, SetPausedInv DEF CliRfidPause
    <2>2. FlowTypeOK'
        BY <1>26 DEF CliRfidPause, FlowTypeOK
    <2>3. ValveTypeOK' /\ BeamTypeOK' /\ AgeTypeOK' /\ ClockTypeOK' /\ RecordTypeOK'
        BY <1>26 DEF CliRfidPause, ValveTypeOK, BeamTypeOK, AgeTypeOK, ClockTypeOK,
           RecordTypeOK
    <2>4. PointState' /\ ValveState' /\ PinState' /\ MeasureState' /\ TagState'
        BY <1>26 DEF CliRfidPause, Control, PointState, ValveState, PinState, MeasureState,
           TagState, FlowTypeOK, ValveTypeOK, IDLE, COW_PRESENT, MILKING
    <2> QED BY <2>1, <2>2, <2>3, <2>4 DEF TaskTypeOK, Control
<1>27. CASE CliPauseDone
    <2>1. RfidInv'
        BY <1>27, RfidUnchangedInv DEF CliPauseDone
    <2>2. FlowTypeOK'
        BY <1>27 DEF CliPauseDone, FlowTypeOK
    <2>3. ValveTypeOK' /\ BeamTypeOK' /\ AgeTypeOK' /\ ClockTypeOK' /\ RecordTypeOK'
        BY <1>27 DEF CliPauseDone, ValveTypeOK, BeamTypeOK, AgeTypeOK, ClockTypeOK,
           RecordTypeOK
    <2>4. PointState' /\ ValveState' /\ PinState' /\ MeasureState' /\ TagState'
        BY <1>27 DEF CliPauseDone, Control, PointState, ValveState, PinState, MeasureState,
           TagState, FlowTypeOK, ValveTypeOK, IDLE, COW_PRESENT, MILKING
    <2> QED BY <2>1, <2>2, <2>3, <2>4 DEF TaskTypeOK, Control
<1>28. CASE CliRfidResume
    <2>1. RfidInv'
        BY <1>28, ResumeInv DEF CliRfidResume
    <2>2. FlowTypeOK'
        BY <1>28 DEF CliRfidResume, FlowTypeOK
    <2>3. ValveTypeOK' /\ BeamTypeOK' /\ AgeTypeOK' /\ ClockTypeOK' /\ RecordTypeOK'
        BY <1>28 DEF CliRfidResume, ValveTypeOK, BeamTypeOK, AgeTypeOK, ClockTypeOK,
           RecordTypeOK
    <2>4. PointState' /\ ValveState' /\ PinState' /\ MeasureState' /\ TagState'
        BY <1>28 DEF CliRfidResume, Control, PointState, ValveState, PinState, MeasureState,
           TagState, FlowTypeOK, ValveTypeOK, IDLE, COW_PRESENT, MILKING
    <2> QED BY <2>1, <2>2, <2>3, <2>4 DEF TaskTypeOK, Control
<1>29. CASE UNCHANGED vars
    <2>1. RfidInv'
        BY <1>29, RfidUnchangedInv DEF vars
    <2>2. FlowTypeOK' /\ ValveTypeOK' /\ BeamTypeOK' /\ AgeTypeOK' /\ ClockTypeOK' /\ RecordTypeOK'
        BY <1>29 DEF vars, FlowTypeOK, ValveTypeOK, BeamTypeOK, AgeTypeOK, ClockTypeOK,
           RecordTypeOK
    <2>3. PointState' /\ ValveState' /\ PinState' /\ MeasureState' /\ TagState'
        BY <1>29 DEF vars, Control, PointState, ValveState, PinState, MeasureState, TagState
    <2> QED BY <2>1, <2>2, <2>3 DEF TaskTypeOK, Control
<1> QED BY <1>1, <1>2, <1>3, <1>4, <1>5, <1>6, <1>7, <1>8, <1>9, <1>10, <1>11, <1>12, <1>13, <1>14,
   <1>15, <1>16, <1>17, <1>18, <1>19, <1>20, <1>21, <1>22, <1>23, <1>24, <1>25, <1>26,
   <1>27, <1>28, <1>29 DEF SessionNext, SessionStep, CliStep

\* The invariant holds in every state of the system.
LEMMA Invariant == SessionSpec => []SessionInv
<1>1. SessionInit => SessionInv
    BY InitInv
<1>2. SessionInv /\ [SessionNext]_vars => SessionInv'
    BY StepInv
<1> QED BY <1>1, <1>2, PTL DEF SessionSpec

\* Every variable keeps its type; the slot table, the weight log and the ages
\* stay within their bounds (s_freq and weightLog_g are fixed-size arrays).
THEOREM TypeCorrect == SessionSpec => []SessionTypeOK
<1>1. SessionInv => SessionTypeOK
    BY DEF SessionInv, RfidInv, SessionTypeOK
<1> QED BY <1>1, Invariant, PTL

\* Every bucket is measured exactly once before it is milked, forced resets and
\* RFID commands of the console included (session.cpp:218, sensorInitSent).
THEOREM MeasuredOnce == SessionSpec => []InitOncePerBucket
<1>1. SessionInv => InitOncePerBucket
    BY DEF SessionInv, Control, MeasureState, InitOncePerBucket
<1> QED BY <1>1, Invariant, PTL

\* A tag is shown for a cow being milked only: it is wiped before the post goes
\* idle or back to an unidentified cow (session.cpp:182, :295, :342).
THEOREM TagShownWhileMilking == SessionSpec => []TagOnlyWhileMilking
<1>1. SessionInv => TagOnlyWhileMilking
    BY DEF SessionInv, Control, TagState
<1> QED BY <1>1, Invariant, PTL

\* Unless the operator opens it by hand the valve is open in a visit only, and
\* only while the task knows it: no path through a cow leaving, a bucket change,
\* a forced reset or the blocking calls between them forgets it.
THEOREM PinClosedOutsideVisit ==
    ASSUME "valve open" \notin Commands
    PROVE  SessionSpec => []PinOnlyInVisit
<1>1. SessionInv => PinOnlyInVisit
    BY DEF SessionInv, TaskTypeOK, ValveTypeOK, Control, ValveState, PinState, PinOnlyInVisit
<1> QED BY <1>1, Invariant, PTL

-----------------------------------------------------------------------------
(* The weight log and the records *)

\* What holds of the log before and after every step: until its record is out
\* the log of a bucket being milked is its own.
LogState ==
    state = MILKING /\ pc \notin {"endPause", "endWait", "endIdle"}
      => IsLogOf(weightLog, wInitial)

\* Logging a weight keeps the log one of the same bucket.
LEMMA LogWeightKeeps ==
    ASSUME RecordTypeOK, BeamTypeOK, IsLogOf(weightLog, wInitial)
    PROVE  IsLogOf(LogWeight, wInitial)
<1> DEFINE g == Grams(sample.w)
           n == Len(weightLog)
<1>1. g \in Nat
    BY GramsNat DEF BeamTypeOK
<1>2. weightLog \in Seq(Nat) /\ n \in Nat /\ n > 0
    BY DEF RecordTypeOK, IsLogOf
<1>3. CASE LogWeight = weightLog
    BY <1>3
<1>4. CASE /\ LogWeight = Append(weightLog, g)
           /\ (IF g > weightLog[n] THEN g - weightLog[n] ELSE weightLog[n] - g)
                >= WEIGHT_LOG_DEDUP_G
    <2> HIDE DEF g
    <2> DEFINE log == Append(weightLog, g)
    <2>1. /\ Len(log) = n + 1 /\ log[n + 1] = g /\ log # <<>>
          /\ \A i \in 1 .. n : log[i] = weightLog[i]
        BY <1>1, <1>2
    <2>2. weightLog[n] \in Nat /\ WEIGHT_LOG_DEDUP_G \in Nat
        BY <1>2, WeightAssumption
    <2>3. log[1] = Grams(wInitial)
        BY <1>2, <2>1 DEF IsLogOf
    <2>4. ASSUME NEW i \in 2 .. Len(log)
          PROVE  \/ log[i] - log[i - 1] >= WEIGHT_LOG_DEDUP_G
                 \/ log[i - 1] - log[i] >= WEIGHT_LOG_DEDUP_G
        <3>1. CASE i = n + 1
            BY <1>1, <1>2, <1>4, <2>1, <2>2, <3>1
        <3>2. CASE i \in 2 .. n
            BY <1>2, <2>1, <3>2 DEF IsLogOf
        <3> QED BY <1>2, <2>1, <3>1, <3>2
    <2> QED BY <1>4, <2>1, <2>3, <2>4 DEF IsLogOf
<1> QED BY <1>3, <1>4 DEF LogWeight

\* A log is started with one entry.
LEMMA NewLog == \A w \in Weights : IsLogOf(<<Grams(w)>>, w)
BY GramsNat DEF IsLogOf

\* Every step keeps the log of the milking in progress.
LEMMA LogStep == SessionInv /\ LogState /\ [SessionNext]_vars => LogState'
<1> SUFFICES ASSUME SessionInv, LogState, [SessionNext]_vars PROVE LogState'
    OBVIOUS
<1> USE DEF SessionInv, TaskTypeOK, IDLE, COW_PRESENT, MILKING,
            sessionVars, beamVars, logVars
<1>1. CASE StartMilking
    BY <1>1, NewLog DEF StartMilking, BeamTypeOK, LogState
<1>2. CASE KeepMilking
    BY <1>2, LogWeightKeeps DEF KeepMilking, LogState
<1>3. CASE BucketChange
    <2>1. pc' = "bucketReset" /\ state' = state /\ wInitial' = wInitial
        BY <1>3 DEF BucketChange
    <2>2. IsLogOf(weightLog, wInitial)'
        BY <1>3, <2>1, LogWeightKeeps DEF BucketChange, LogState
    <2> QED BY <2>1, <2>2 DEF LogState
<1>4. CASE CowLeft
    BY <1>4, LogWeightKeeps DEF CowLeft, LogState
<1>5. CASE PublishLeft
    BY <1>5 DEF PublishLeft, LogState
<1>6. CASE NextBucket \/ EndSession \/ BackToIdle \/ CowDetected \/ ForceReset
    BY <1>6 DEF NextBucket, EndSession, BackToIdle, CowDetected, ForceReset, LogState
<1>7. CASE \/ PauseRfid \/ PauseDone \/ Sample \/ StayIdle \/ CowGoneEarly
           \/ AwaitRfidStart \/ StartRfid \/ PollRfid \/ FinalWaited \/ Valve \/ Snapshot
    <2>1. UNCHANGED <<state, weightLog, wInitial>>
        BY <1>7 DEF PauseRfid, PauseDone, Sample, StayIdle, CowGoneEarly, AwaitRfidStart,
           StartRfid, PollRfid, FinalWaited, Valve, Snapshot, AfterPause, Pausing
    <2>2. pc \in {"endPause", "endWait", "endIdle"} => pc' \in {"endPause", "endWait", "endIdle"}
        BY <1>7 DEF PauseRfid, PauseDone, Sample, StayIdle, CowGoneEarly, AwaitRfidStart,
           StartRfid, PollRfid, FinalWaited, Valve, Snapshot, AfterPause, Pausing
    <2> QED BY <2>1, <2>2 DEF LogState
<1>8. CASE BgScanBegin \/ BgScanEnd \/ CliStep \/ UNCHANGED vars
    BY <1>8 DEF BgScanBegin, BgScanEnd, CliStep, CliReset, CliValve, CliRfidPause,
       CliPauseDone, CliRfidResume, vars, LogState
<1> QED BY <1>1, <1>2, <1>3, <1>4, <1>5, <1>6, <1>7, <1>8 DEF SessionNext, SessionStep

\* Hence it is that of the bucket in every state.
LEMMA LogInvariant == SessionSpec => []LogState
<1>1. SessionInit => LogState
    BY DEF SessionInit, LogState, IDLE, MILKING
<1>2. SessionInv /\ LogState /\ [SessionNext]_vars => LogState'
    BY LogStep
<1> QED BY <1>1, <1>2, Invariant, PTL DEF SessionSpec

\* The weight log that goes out with a record is that of its bucket, however
\* many buckets, cows and resets came before.
THEOREM LogBelongsToBucket == SessionSpec => []LogOfThisBucket
<1>1. SessionInv /\ LogState => LogOfThisBucket
    BY DEF LogState, LogOfThisBucket, Phase, IDLE, COW_PRESENT, MILKING, SessionInv,
       TaskTypeOK, FlowTypeOK
<1> QED BY <1>1, Invariant, LogInvariant, PTL

-----------------------------------------------------------------------------
(* The RFID reader *)

\* Nobody but the session task pauses and resumes the reader, and a pause lasts
\* until the running scan has ended.
Undisturbed ==
    /\ Commands \cap {"rfid start", "rfid stop", "rfid scan"} = {}
    /\ ~PauseMayTimeOut

Quiet == paused /\ ~scanning

\* Where the reader is quiet, and whose scans it is counting, at each point of
\* the loop.
ReaderState ==
    /\ cli = "free"
    /\ state = IDLE /\ pc \notin {"resetPause", "resetWait"} => Quiet
    /\ state = MILKING => Quiet /\ ~tainted
    /\ state = COW_PRESENT => ~stale /\ ~tainted
    /\ state = COW_PRESENT /\ ~rfidStarted => Quiet
    /\ pc \in {"resetWait", "goneWait", "milkWait"} => paused
    /\ pc \in {"goneFinish", "startMilking"} => Quiet

\* No step lets the reader work when no cow waits, or counts a stale scan.
LEMMA ReaderStep ==
    ASSUME Undisturbed
    PROVE  SessionInv /\ ReaderState /\ [SessionNext]_vars => ReaderState'
<1> SUFFICES ASSUME SessionInv, ReaderState, [SessionNext]_vars PROVE ReaderState'
    OBVIOUS
<1> USE DEF SessionInv, Control, PointState, ReaderState, Quiet, IDLE, COW_PRESENT, MILKING,
            rfidVars, sessionVars
<1>1. CASE ForceReset
    BY <1>1 DEF ForceReset, ResetConfirmation
<1>2. CASE PauseRfid
    BY <1>2 DEF PauseRfid, SetPaused
<1>3. CASE PauseDone
    <2>1. ~scanning
        BY <1>3 DEF PauseDone, PauseReturns, Undisturbed
    <2>2. UNCHANGED <<rfidVars, state, rfidStarted, cli>>
        BY <1>3 DEF PauseDone
    <2>3. \/ pc = "resetWait" /\ pc' = "sample"
          \/ pc = "goneWait" /\ pc' = "goneFinish"
          \/ pc = "milkWait" /\ pc' = "startMilking"
          \/ pc = "endWait" /\ pc' = "endIdle"
        BY <1>3 DEF PauseDone, AfterPause, Pausing
    <2> QED BY <2>1, <2>2, <2>3
<1>4. CASE Sample \/ StayIdle \/ AwaitRfidStart \/ KeepMilking \/ BucketChange \/ CowLeft
    BY <1>4 DEF Sample, StayIdle, AwaitRfidStart, KeepMilking, BucketChange, CowLeft
<1>5. CASE FinalWaited \/ PublishLeft \/ EndSession \/ Valve \/ Snapshot \/ StartMilking
    BY <1>5 DEF FinalWaited, PublishLeft, EndSession, Valve, Snapshot, StartMilking
<1>6. CASE CowDetected \/ NextBucket
    BY <1>6 DEF CowDetected, NextBucket, IdentifyAfresh, ResetConfirmation
<1>7. CASE CowGoneEarly
    BY <1>7 DEF CowGoneEarly, SetPaused
<1>8. CASE BackToIdle
    BY <1>8 DEF BackToIdle
<1>9. CASE StartRfid
    BY <1>9 DEF StartRfid, Resume
<1>10. CASE PollRfid
    BY <1>10 DEF PollRfid
<1>11. CASE BgScanBegin
    BY <1>11 DEF BgScanBegin, ScanBegin
<1>12. CASE BgScanEnd
    <2>1. scanning /\ ~scanning' /\ (paused => paused') /\ ~stale'
        BY <1>12 DEF BgScanEnd, ScanEnd, Verdict
    <2>2. ~stale /\ ~tainted => ~tainted'
        BY <1>12 DEF BgScanEnd, ScanEnd
    <2>3. UNCHANGED <<pc, state, rfidStarted, cli>>
        BY <1>12 DEF BgScanEnd
    <2> QED BY <2>1, <2>2, <2>3
<1>13. CASE CliReset \/ CliValve
    <2>1. UNCHANGED <<rfidVars, pc, state, rfidStarted, cli>>
        BY <1>13 DEF CliReset, CliValve
    <2> QED BY <2>1
<1>14. ~CliRfidPause /\ ~CliPauseDone /\ ~CliRfidResume
    BY DEF CliRfidPause, CliPauseDone, CliRfidResume, Undisturbed
<1>15. CASE UNCHANGED vars
    BY <1>15 DEF vars
<1> QED BY <1>1, <1>2, <1>3, <1>4, <1>5, <1>6, <1>7, <1>8, <1>9, <1>10, <1>11, <1>12,
           <1>13, <1>14, <1>15 DEF SessionNext, SessionStep, CliStep

\* Hence that holds in every state when the reader is left alone.
LEMMA ReaderInvariant ==
    ASSUME Undisturbed
    PROVE  SessionSpec => []ReaderState
<1>1. SessionInit => ReaderState
    BY DEF SessionInit, RfidInit, ReaderState, Quiet, IDLE, COW_PRESENT, MILKING
<1>2. SessionInv /\ ReaderState /\ [SessionNext]_vars => ReaderState'
    BY ReaderStep
<1> QED BY <1>1, <1>2, Invariant, PTL DEF SessionSpec

\* The reader works for a waiting cow only, or until a forced reset has seen its
\* scan end: no path of the session task leaves it running.
THEOREM ReaderQuiet ==
    ASSUME Undisturbed
    PROVE  SessionSpec => []RfidQuiet
<1>1. SessionInv /\ ReaderState => RfidQuiet
    BY DEF ReaderState, Quiet, RfidQuiet, SessionInv, TaskTypeOK, FlowTypeOK
<1> QED BY <1>1, Invariant, ReaderInvariant, PTL

\* A milking is attributed by the scans of its own batch, although
\* resetRfidConfirmation does not stop a running scan.
THEOREM TagIsOwn ==
    ASSUME Undisturbed
    PROVE  SessionSpec => []OwnTag
<1>1. ReaderState => OwnTag
    BY DEF ReaderState, OwnTag
<1> QED BY <1>1, ReaderInvariant, PTL

-----------------------------------------------------------------------------
(* The implementation of MilkingPost *)

\* The post starts empty.
LEMMA PostInitImplemented == SessionInit => Post!PostInit
BY DEF SessionInit, Post!PostInit, Phase, Milking, SprayPhase, Post!None, None, IDLE,
       COW_PRESENT, MILKING

\* What the abstract post sees of the session: these variables, and three
\* regions of the loop.
seen == <<state, rfid, wInitial, out, valveOpen, valveArmed, forceReset>>
SamePoint ==
    /\ pc = "bucketReset" <=> pc' = "bucketReset"
    /\ pc \in {"endPause", "endWait", "endIdle"} <=> pc' \in {"endPause", "endWait", "endIdle"}

\* A step that changes nothing the abstract post shows is a stutter of it.
LEMMA SameView ==
    ASSUME UNCHANGED seen, SamePoint
    PROVE  UNCHANGED <<Phase, Milking, out, SprayPhase, forceReset>>
<1>1. Phase' = Phase
    BY DEF seen, SamePoint, Phase
<1> QED BY <1>1 DEF seen, Milking, SprayPhase

\* Every step is a step of the abstract post or leaves it as it is.
LEMMA PostStep == SessionInv /\ [SessionNext]_vars => [Post!PostNext]_(Post!postVars)
<1> SUFFICES ASSUME SessionInv, [SessionNext]_vars
             PROVE  Post!PostNext \/ UNCHANGED <<Phase, Milking, out, SprayPhase, forceReset>>
    BY DEF Post!postVars
<1> USE DEF SessionInv, Control, PointState, ValveState, Phase, Milking, SprayPhase, None,
            IDLE, COW_PRESENT, MILKING, sessionVars, valveVars, logVars, seen
<1>1. CASE ForceReset
    <2>1. Post!GiveUp
        BY <1>1 DEF ForceReset, ResetRequested, Post!GiveUp, Post!None, TaskTypeOK, FlowTypeOK
    <2> QED BY <2>1 DEF Post!PostNext
<1>2. CASE CowDetected
    <2>1. Post!Arrive
        BY <1>2 DEF CowDetected, Post!Arrive
    <2> QED BY <2>1 DEF Post!PostNext
<1>3. CASE BackToIdle
    <2>1. Post!Leave
        BY <1>3 DEF BackToIdle, Post!Leave
    <2> QED BY <2>1 DEF Post!PostNext
<1>4. CASE StartMilking
    <2>1. Post!BeginMilking
        BY <1>4 DEF StartMilking, Post!BeginMilking, Post!None, TaskTypeOK, FlowTypeOK, BeamTypeOK
    <2> QED BY <2>1 DEF Post!PostNext
<1>5. CASE BucketChange
    <2>1. Post!ChangeBucket
        BY <1>5 DEF BucketChange, Publish, Post!ChangeBucket, Post!Report, Post!None, TaskTypeOK, RecordTypeOK
    <2> QED BY <2>1 DEF Post!PostNext
<1>6. CASE PublishLeft
    <2>1. Post!EndMilking
        BY <1>6 DEF PublishLeft, Publish, Post!EndMilking, Post!Report, Post!None, TaskTypeOK, BeamTypeOK
    <2> QED BY <2>1 DEF Post!PostNext
<1>7. CASE NextBucket
    <2>1. CASE valveOpen
        <3>1. Post!Spray
            BY <1>7, <2>1 DEF NextBucket, IdentifyAfresh, Post!Spray
        <3> QED BY <3>1 DEF Post!PostNext
    <2>2. CASE ~valveOpen
        BY <1>7, <2>2 DEF NextBucket, IdentifyAfresh
    <2> QED BY <2>1, <2>2
<1>8. CASE CowLeft
    <2>1. CASE valveArmed
        <3>1. Post!Spray
            BY <1>8, <2>1 DEF CowLeft, Post!Spray
        <3> QED BY <3>1 DEF Post!PostNext
    <2>2. CASE ~valveArmed
        BY <1>8, <2>2 DEF CowLeft
    <2> QED BY <2>1, <2>2
<1>9. CASE Valve
    <2>1. CASE OpenSpray
        <3>1. Post!Spray
            BY <1>9, <2>1 DEF Valve, OpenSpray, SprayDue, Post!Spray, TaskTypeOK,
               FlowTypeOK, ValveTypeOK
        <3> QED BY <3>1 DEF Post!PostNext
    <2>2. CASE CloseSpray
        <3>1. Post!Spray
            BY <1>9, <2>2 DEF Valve, CloseSpray, SprayOver, Post!Spray, TaskTypeOK,
               FlowTypeOK, ValveTypeOK
        <3> QED BY <3>1 DEF Post!PostNext
    <2>3. CASE KeepValve
        BY <1>9, <2>3 DEF Valve, KeepValve
    <2> QED BY <1>9, <2>1, <2>2, <2>3 DEF Valve
<1>10. CASE PauseDone \/ PauseRfid \/ Sample \/ StayIdle \/ CowGoneEarly \/ AwaitRfidStart
    <2>1. UNCHANGED seen
        BY <1>10 DEF PauseDone, PauseRfid, Sample, StayIdle, CowGoneEarly, AwaitRfidStart
    <2>2. SamePoint
        BY <1>10 DEF PauseDone, PauseRfid, Sample, StayIdle, CowGoneEarly, AwaitRfidStart,
           AfterPause, Pausing, SamePoint
    <2> QED BY <2>1, <2>2, SameView
<1>11. CASE StartRfid \/ KeepMilking \/ FinalWaited \/ Snapshot
    <2>1. UNCHANGED seen /\ SamePoint
        BY <1>11 DEF StartRfid, KeepMilking, FinalWaited, Snapshot, SamePoint
    <2> QED BY <2>1, SameView
<1>12. CASE PollRfid
    <2>1. state = COW_PRESENT /\ UNCHANGED <<state, out, valveOpen, valveArmed, forceReset>>
        BY <1>12 DEF PollRfid
    <2> QED BY <2>1
<1>13. CASE EndSession
    BY <1>13 DEF EndSession
<1>14. CASE BgScanBegin \/ BgScanEnd \/ CliStep
    <2>1. CASE CliReset
        <3>1. Phase' = Phase /\ Milking' = Milking /\ SprayPhase' = SprayPhase
            BY <2>1 DEF CliReset
        <3>2. Post!AskReset
            BY <2>1, <3>1 DEF CliReset, Post!AskReset
        <3> QED BY <3>2 DEF Post!PostNext
    <2>2. CASE BgScanBegin \/ BgScanEnd \/ CliValve \/ CliRfidPause \/ CliPauseDone \/ CliRfidResume
        <3>1. UNCHANGED <<seen, pc>>
            BY <2>2 DEF BgScanBegin, BgScanEnd, CliValve, CliRfidPause, CliPauseDone,
               CliRfidResume
        <3> QED BY <3>1, SameView DEF SamePoint
    <2> QED BY <1>14, <2>1, <2>2 DEF CliStep
<1>15. CASE UNCHANGED vars
    <2>1. UNCHANGED <<seen, pc>>
        BY <1>15 DEF vars
    <2> QED BY <2>1, SameView DEF SamePoint
<1> QED BY <1>1, <1>2, <1>3, <1>4, <1>5, <1>6, <1>7, <1>8, <1>9, <1>10, <1>11, <1>12,
           <1>13, <1>14, <1>15 DEF SessionNext, SessionStep

\* The session task implements the milking post: one record for every milking
\* that is not given up, one spray at most for every visit.
THEOREM Implements == SessionSpec => PostImplemented
<1>1. SessionInit => Post!PostInit
    BY PostInitImplemented
<1>2. SessionInv /\ [SessionNext]_vars => [Post!PostNext]_(Post!postVars)
    BY PostStep
<1> QED BY <1>1, <1>2, Invariant, PTL DEF SessionSpec, PostImplemented, Post!PostSpec

-----------------------------------------------------------------------------
(* The spray valve.  The session task judges both times by ms, the time of *)
(* its last sample, and may be blocked between the sample and the step     *)
(* that looks at the valve.  The argument bounds that delay at each point  *)
(* of the loop (Blocked), and relates the real times to the ages the task  *)
(* computes (SprayTime, CooldownTime).                                     *)

\* Where an iteration may be while the valve is open before its first blocking
\* call, and after a pause.
Fresh == {"switch", "poll", "milkPause", "milkWait", "goneWait"}
Paused == {"startMilking", "goneFinish"}

\* How long the task has been blocked since its sample, wherever it can close the valve.
Blocked ==
    /\ pc \in Fresh => elapsed = 0
    /\ pc \in Paused => elapsed <= PAUSE_MAX
    /\ pc = "bucketReset" => elapsed <= POST_MAX
    /\ pc = "valve" /\ valveOpen => elapsed <= PAUSE_MAX

\* The longest spray the task can see at the head of an iteration without having closed the
\* valve in the one before.
SeenAtMost == VALVE_OPEN_DURATION - 1 + PAUSE_MAX + SNAPSHOT_INTERVAL

\* While the valve is open real time is not ahead of the task's own measure until the duration
\* is over, and the iteration in which it is over closes the valve.
OpenTime ==
    /\ age.opened < VALVE_OPEN_DURATION => openFor <= age.opened + elapsed
    /\ pc \in {"snapshot", "top"} => age.opened < VALVE_OPEN_DURATION
    /\ pc = "snapshot" => openFor <= SeenAtMost - SNAPSHOT_INTERVAL
    /\ pc \in {"top"} \cup Fresh => openFor <= SeenAtMost
    /\ pc \in Paused \cup {"valve"} => openFor <= SeenAtMost + PAUSE_MAX
    /\ pc = "bucketReset" => openFor <= SeenAtMost + POST_MAX

SprayTime == IF pin THEN OpenTime ELSE openFor = 0

\* The task's measure of the cooldown is ahead of real time by at most the time for which it was
\* blocked when it closed the valve.
CooldownTime ==
    \/ closedFor >= VALVE_COOLDOWN
    \/ hasSprayedBefore /\ closedFor + CloseLag >= age.closed + elapsed

\* Nobody opens the valve by hand, nor asks for a reset, which would close it without remembering
\* the spray.
NotByHand == "valve open" \notin Commands
NoReset == "session reset" \notin Commands
-----------------------------------------------------------------------------
(* Lemmas *)

\* The ages the valve is judged by, and the real times beside them, are natural numbers.
LEMMA Numbers ==
    ASSUME SessionInv
    PROVE  /\ age.opened \in Nat /\ age.closed \in Nat /\ elapsed \in Nat
           /\ openFor \in Nat /\ closedFor \in Nat
           /\ age.opened <= VALVE_OPEN_DURATION /\ age.closed <= VALVE_COOLDOWN
  <1>1. "opened" \in Timers /\ "closed" \in Timers
    BY DEF Timers
  <1>2. Limit["opened"] = VALVE_OPEN_DURATION /\ Limit["closed"] = VALVE_COOLDOWN
    BY DEF Limit
  <1>3. AgeTypeOK /\ ClockTypeOK
    BY DEF SessionInv, TaskTypeOK
  <1>q. QED
    BY <1>1, <1>2, <1>3 DEF AgeTypeOK, ClockTypeOK

\* The thresholds are natural numbers and the lag is the longer of the two calls.
LEMMA Thresholds ==
    /\ {VALVE_OPEN_DURATION, VALVE_COOLDOWN, PAUSE_MAX, POST_MAX, FINAL_MAX} \subseteq Nat
    /\ VALVE_OPEN_DURATION >= 1 /\ SNAPSHOT_INTERVAL = 1
    /\ CloseLag \in Nat /\ PAUSE_MAX <= CloseLag /\ POST_MAX <= CloseLag
  BY TimeAssumption DEF CloseLag, SNAPSHOT_INTERVAL

\* The ages are a function of the timers.
LEMMA AgeFunction ==
    ASSUME SessionInv
    PROVE  age \in [Timers -> Nat] /\ {"rfid", "cow", "opened", "closed", "drop", "log"} = Timers
  BY DEF SessionInv, TaskTypeOK, AgeTypeOK, Timers

\* The case SESSION_MILKING restarts the log and the drop window only (session.cpp 259-303).
LEMMA MilkingKeepsValveAges ==
    ASSUME SessionInv
    PROVE  /\ MilkingAges.opened = age.opened /\ MilkingAges.closed = age.closed
           /\ [age EXCEPT !.drop = 0, !.log = 0].opened = age.opened
           /\ [age EXCEPT !.drop = 0, !.log = 0].closed = age.closed
  BY AgeFunction DEF MilkingAges

\* The RFID task and the console leave the loop and its clocks alone; "valve close" closes the
\* pin (telnet.cpp 502-509).
LEMMA OtherSteps ==
    ASSUME BgScanBegin \/ BgScanEnd \/ CliStep
    PROVE  /\ UNCHANGED <<pc, valveOpen, hasSprayedBefore, age, elapsed, closedFor>>
           /\ \/ UNCHANGED <<pin, openFor>>
              \/ ~NotByHand
              \/ pin' = FALSE /\ openFor' = 0
           /\ forceReset' = forceReset \/ ~NoReset
  <1> USE DEF valveVars, clockVars
  <1>1. CASE BgScanBegin \/ BgScanEnd
    BY <1>1 DEF BgScanBegin, BgScanEnd
  <1>2. CASE CliReset
    BY <1>2 DEF CliReset, NoReset
  <1>3. CASE CliValve
    BY <1>3 DEF CliValve, NotByHand
  <1>4. CASE CliRfidPause \/ CliPauseDone \/ CliRfidResume
    BY <1>4 DEF CliRfidPause, CliPauseDone, CliRfidResume
  <1>q. QED
    BY <1>1, <1>2, <1>3, <1>4 DEF CliStep

\* Only rfidTaskPause, the POST and the sleep take time within an iteration, each no longer than
\* its limit (session.cpp 141-374).
LEMMA BlockedStep ==
    SessionInv /\ Blocked /\ [SessionNext]_vars => Blocked'
  <1> SUFFICES ASSUME SessionInv, Blocked, [SessionNext]_vars PROVE Blocked'
    OBVIOUS
  <1> USE DEF SessionInv, Control, ValveState, Blocked, Fresh, Paused, valveVars, clockVars
  <1>0. elapsed \in Nat /\ PAUSE_MAX \in Nat /\ POST_MAX \in Nat
    BY Numbers, Thresholds
  <1>1. CASE PauseDone
    <2>1. PICK d \in 0 .. PAUSE_MAX : Elapse(d)
      BY <1>1 DEF PauseDone
    <2>2. \/ pc = "resetWait" /\ pc' = "sample"
          \/ pc = "goneWait" /\ pc' = "goneFinish"
          \/ pc = "milkWait" /\ pc' = "startMilking"
          \/ pc = "endWait" /\ pc' = "endIdle"
      BY <1>1 DEF PauseDone, AfterPause, Pausing
    <2>q. QED
      BY <1>0, <2>1, <2>2 DEF Elapse
  <1>2. CASE BucketChange
    <2>1. PICK d \in 0 .. POST_MAX : Elapse(d)
      BY <1>2 DEF BucketChange
    <2>q. QED
      BY <1>0, <1>2, <2>1 DEF BucketChange, Elapse
  <1>3. CASE ForceReset \/ PauseRfid \/ FinalWaited \/ PublishLeft \/ Snapshot
    BY <1>3 DEF ForceReset, PauseRfid, FinalWaited, PublishLeft, Snapshot
  <1>4. CASE Sample
    BY <1>4 DEF Sample
  <1>5. CASE CowDetected \/ StayIdle \/ CowGoneEarly \/ AwaitRfidStart \/ StartRfid \/ PollRfid
    BY <1>0, <1>5 DEF CowDetected, StayIdle, CowGoneEarly, AwaitRfidStart, StartRfid, PollRfid
  <1>6. CASE BackToIdle \/ StartMilking \/ KeepMilking
    BY <1>0, <1>6 DEF BackToIdle, StartMilking, KeepMilking
  <1>7. CASE NextBucket \/ CowLeft \/ EndSession
    BY <1>0, <1>7 DEF NextBucket, CowLeft, EndSession
  <1>8. CASE Valve
    BY <1>8 DEF Valve
  <1>9. CASE BgScanBegin \/ BgScanEnd \/ CliStep
    <2>1. UNCHANGED <<pc, valveOpen, elapsed>>
      BY <1>9, OtherSteps
    <2>q. QED
      BY <2>1
  <1>10. CASE UNCHANGED vars
    BY <1>10 DEF vars
  <1>q. QED
    BY <1>1, <1>2, <1>3, <1>4, <1>5, <1>6, <1>7, <1>8, <1>9, <1>10 DEF SessionNext, SessionStep

\* While the valve is open the task is in a visit, at a point from which it comes to a step that
\* may close it.
LEMMA OpenWhere ==
    ASSUME SessionInv, NotByHand, pin
    PROVE  /\ valveOpen
           /\ pc \in {"top", "bucketReset", "valve", "snapshot"} \cup Fresh \cup Paused
  <1>1. valveOpen /\ valveArmed
    BY DEF SessionInv, Control, PinState, ValveState, NotByHand
  <1>2. state # IDLE
    BY <1>1 DEF SessionInv, Control, ValveState
  <1>3. pc \notin {"waitFinal", "publishLeft", "endPause", "endWait", "endIdle"}
    BY <1>1 DEF SessionInv, Control, ValveState
  <1>4. pc \notin {"resetPause", "resetWait", "sample"}
    BY <1>2 DEF SessionInv, Control, PointState
  <1>5. pc \in Points
    BY DEF SessionInv, TaskTypeOK, FlowTypeOK
  <1>q. QED
    BY <1>1, <1>3, <1>4, <1>5 DEF Points, Pausing, Fresh, Paused

\* What the two lemmas below say of the numbers involved.
LEMMA OpenNumbers ==
    ASSUME SessionInv
    PROVE  /\ VALVE_OPEN_DURATION \in Nat /\ PAUSE_MAX \in Nat /\ POST_MAX \in Nat
           /\ VALVE_OPEN_DURATION >= 1 /\ SNAPSHOT_INTERVAL = 1
           /\ SeenAtMost = VALVE_OPEN_DURATION + PAUSE_MAX
           /\ elapsed \in Nat /\ openFor \in Nat /\ age.opened \in Nat
           /\ age.opened <= VALVE_OPEN_DURATION
  BY Numbers, Thresholds DEF SeenAtMost

\* A call that takes time moves the real time of an open valve by as much.
LEMMA OpenElapse ==
    ASSUME SessionInv, pin, NEW d \in Nat, Elapse(d)
    PROVE  openFor' \in Nat /\ openFor' <= openFor + d /\ elapsed' = elapsed + d
  <1>1. openFor' = Older(openFor, d, OpenForMax) /\ elapsed' = elapsed + d
    BY DEF Elapse
  <1>2. OpenForMax \in Nat /\ openFor \in Nat
    BY TimeAssumption, Numbers DEF OpenForMax
  <1>q. QED
    BY <1>1, <1>2 DEF Older

\* Each step keeps the real time of an open valve within its bounds (session.cpp 352-374).
LEMMA OpenTimeStep ==
    ASSUME NotByHand, SessionInv, Blocked, pin = TRUE, OpenTime, [SessionNext]_vars
    PROVE  (pin' = FALSE /\ openFor' = 0) \/ (pin' = TRUE /\ OpenTime')
  <1>n. /\ VALVE_OPEN_DURATION \in Nat /\ PAUSE_MAX \in Nat /\ POST_MAX \in Nat
        /\ VALVE_OPEN_DURATION >= 1 /\ SNAPSHOT_INTERVAL = 1
        /\ SeenAtMost = VALVE_OPEN_DURATION + PAUSE_MAX
        /\ elapsed \in Nat /\ openFor \in Nat /\ age.opened \in Nat
        /\ age.opened <= VALVE_OPEN_DURATION
    BY OpenNumbers
  <1> USE DEF valveVars, clockVars, Fresh, Paused
  <1>0. valveOpen /\ pc \in {"top", "bucketReset", "valve", "snapshot"} \cup Fresh \cup Paused
    BY OpenWhere
  <1>1. CASE ForceReset \/ BackToIdle \/ NextBucket \/ CowLeft
    <2>1. pin' = FALSE /\ openFor' = 0
      BY <1>0, <1>1 DEF ForceReset, BackToIdle, EndSprayIfOpen, NextBucket, CowLeft, CloseValve
    <2>q. QED
      BY <2>1
  <1>2. CASE PauseRfid \/ CowGoneEarly \/ AwaitRfidStart \/ StartRfid \/ PollRfid
    <2>1. UNCHANGED <<pin, openFor, elapsed, age>>
      BY <1>2 DEF PauseRfid, CowGoneEarly, AwaitRfidStart, StartRfid, PollRfid
    <2>2. pc \in Fresh /\ pc' \in Fresh \cup Paused \cup {"valve"}
      BY <1>0, <1>2 DEF PauseRfid, CowGoneEarly, AwaitRfidStart, StartRfid, PollRfid
    <2>3. OpenTime'
      BY <1>n, <2>1, <2>2 DEF OpenTime
    <2>q. QED
      BY <2>1, <2>3
  <1>3. CASE PauseDone
    <2>1. PICK d \in 0 .. PAUSE_MAX : Elapse(d)
      BY <1>3 DEF PauseDone
    <2>2. pc \in Fresh /\ pc' \in Paused /\ UNCHANGED <<pin, age>>
      BY <1>0, <1>3 DEF PauseDone, AfterPause, Pausing
    <2>3. d \in Nat /\ d <= PAUSE_MAX
      BY <1>n
    <2>4. openFor' \in Nat /\ openFor' <= openFor + d /\ elapsed' = elapsed + d
      BY <2>1, <2>3, OpenElapse
    <2>5. OpenTime'
      BY <1>n, <2>2, <2>3, <2>4 DEF OpenTime
    <2>q. QED
      BY <2>2, <2>5
  <1>4. CASE BucketChange
    <2>1. PICK d \in 0 .. POST_MAX : Elapse(d)
      BY <1>4 DEF BucketChange
    <2>2. UNCHANGED pin /\ pc = "switch" /\ pc' = "bucketReset" /\ age'.opened = age.opened
      BY <1>4, MilkingKeepsValveAges DEF BucketChange
    <2>3. d \in Nat /\ d <= POST_MAX
      BY <1>n
    <2>4. openFor' \in Nat /\ openFor' <= openFor + d /\ elapsed' = elapsed + d
      BY <2>1, <2>3, OpenElapse
    <2>5. OpenTime'
      BY <1>n, <2>2, <2>3, <2>4 DEF OpenTime
    <2>q. QED
      BY <2>2, <2>5
  <1>5. CASE Sample
    <2>1. UNCHANGED <<pin, openFor>> /\ pc = "top" /\ pc' = "switch" /\ elapsed' = 0
      BY <1>0, <1>5 DEF Sample
    <2>2. age'.opened = Older(age.opened, elapsed, VALVE_OPEN_DURATION)
      BY <1>5 DEF Sample, Limit, Timers
    <2>3. openFor <= age.opened + elapsed /\ openFor <= SeenAtMost
      BY <1>n, <2>1 DEF OpenTime
    <2>4. age'.opened < VALVE_OPEN_DURATION => openFor <= age'.opened
      BY <1>n, <2>2, <2>3 DEF Older
    <2>5. age'.opened \in Nat
      BY <1>n, <2>2 DEF Older
    <2>6. OpenTime'
      BY <1>n, <2>1, <2>3, <2>4, <2>5 DEF OpenTime
    <2>q. QED
      BY <2>1, <2>6
  <1>6. CASE StartMilking \/ KeepMilking
    <2>1. UNCHANGED <<pin, openFor, elapsed>> /\ age'.opened = age.opened
      BY <1>6, MilkingKeepsValveAges DEF StartMilking, KeepMilking
    <2>2. pc \in {"switch", "startMilking"} /\ pc' = "valve"
      BY <1>6 DEF StartMilking, KeepMilking
    <2>3. OpenTime'
      BY <1>n, <2>1, <2>2 DEF OpenTime
    <2>q. QED
      BY <2>1, <2>3
  <1>7. CASE Valve
    <2>1. pc = "valve" /\ pc' = "snapshot" /\ UNCHANGED elapsed
      BY <1>7 DEF Valve
    <2>2. ~SprayDue
      BY <1>0 DEF SprayDue
    <2>3. CASE CloseSpray
      <3>1. pin' = FALSE /\ openFor' = 0
        BY <2>3 DEF CloseSpray, CloseValve
      <3>q. QED
        BY <3>1
    <2>4. CASE KeepValve
      <3>1. UNCHANGED <<pin, openFor, age>> /\ age.opened < VALVE_OPEN_DURATION
        BY <1>n, <1>0, <2>4 DEF KeepValve, SprayOver
      <3>2. elapsed <= PAUSE_MAX /\ openFor <= age.opened + elapsed
        BY <1>n, <1>0, <2>1, <3>1 DEF Blocked, OpenTime
      <3>3. OpenTime'
        BY <1>n, <2>1, <3>1, <3>2 DEF OpenTime
      <3>q. QED
        BY <3>1, <3>3
    <2>q. QED
      BY <1>7, <2>2, <2>3, <2>4 DEF Valve, OpenSpray
  <1>8. CASE Snapshot
    <2>1. Elapse(1) /\ UNCHANGED <<pin, age>> /\ pc = "snapshot" /\ pc' = "top"
      BY <1>8, Thresholds DEF Snapshot
    <2>2. openFor' \in Nat /\ openFor' <= openFor + 1 /\ elapsed' = elapsed + 1
      BY <2>1, OpenElapse
    <2>3. OpenTime'
      BY <1>n, <2>1, <2>2 DEF OpenTime
    <2>q. QED
      BY <2>1, <2>3
  <1>9. ~FinalWaited /\ ~PublishLeft /\ ~EndSession
    BY <1>0 DEF FinalWaited, PublishLeft, EndSession
  <1>10. ~CowDetected /\ ~StayIdle
    BY <1>0 DEF CowDetected, StayIdle, SessionInv, Control, ValveState
  <1>11. CASE BgScanBegin \/ BgScanEnd \/ CliStep
    <2>1. CASE pin' = FALSE /\ openFor' = 0
      BY <2>1
    <2>2. CASE UNCHANGED <<pin, openFor>>
      <3>1. UNCHANGED <<pin, openFor, pc, elapsed, age>>
        BY <1>11, <2>2, OtherSteps
      <3>2. OpenTime'
        BY <3>1 DEF OpenTime
      <3>q. QED
        BY <3>1, <3>2
    <2>q. QED
      BY <1>11, <2>1, <2>2, OtherSteps
  <1>12. CASE UNCHANGED vars
    <2>1. UNCHANGED <<pin, openFor, pc, elapsed, age>>
      BY <1>12 DEF vars
    <2>2. OpenTime'
      BY <1>n, <2>1 DEF OpenTime
    <2>q. QED
      BY <2>1, <2>2
  <1>q. QED
    BY <1>1, <1>2, <1>3, <1>4, <1>5, <1>6, <1>7, <1>8, <1>9, <1>10, <1>11, <1>12
    DEF SessionNext, SessionStep

\* Only the spray of the session task opens the valve (session.cpp 353-360).
LEMMA ShutStep ==
    ASSUME NotByHand, SessionInv, pin = FALSE, openFor = 0, [SessionNext]_vars
    PROVE  (pin' = FALSE /\ openFor' = 0) \/ (pin' = TRUE /\ OpenTime')
  <1> USE DEF valveVars, clockVars
  <1>1. CASE ForceReset \/ BackToIdle \/ NextBucket \/ CowLeft
    <2>1. pin' = FALSE /\ openFor' = 0
      BY <1>1 DEF ForceReset, BackToIdle, EndSprayIfOpen, NextBucket, CowLeft, CloseValve
    <2>q. QED
      BY <2>1
  <1>2. CASE PauseDone \/ BucketChange \/ FinalWaited \/ PublishLeft \/ Snapshot
    <2>1. UNCHANGED pin /\ \E d \in Int : Elapse(d)
      BY <1>2, Thresholds DEF PauseDone, BucketChange, FinalWaited, PublishLeft, Snapshot
    <2>2. openFor' = 0
      BY <2>1 DEF Elapse
    <2>q. QED
      BY <2>1, <2>2
  <1>3. CASE Valve
    <2>1. CASE OpenSpray
      <3>1. pin' = TRUE /\ age'.opened = 0 /\ openFor' = 0
        BY <2>1, AgeFunction DEF OpenSpray
      <3>2. pc' = "snapshot" /\ elapsed' = elapsed
        BY <1>3 DEF Valve
      <3>3. OpenTime'
        BY <3>1, <3>2, OpenNumbers DEF OpenTime, Fresh, Paused
      <3>q. QED
        BY <3>1, <3>3
    <2>2. CASE CloseSpray
      <3>1. pin' = FALSE /\ openFor' = 0
        BY <2>2 DEF CloseSpray, CloseValve
      <3>q. QED
        BY <3>1
    <2>3. CASE KeepValve
      <3>1. pin' = FALSE /\ openFor' = 0
        BY <2>3 DEF KeepValve
      <3>q. QED
        BY <3>1
    <2>q. QED
      BY <1>3, <2>1, <2>2, <2>3 DEF Valve
  <1>4. CASE BgScanBegin \/ BgScanEnd \/ CliStep
    <2>1. pin' = FALSE /\ openFor' = 0
      BY <1>4, OtherSteps
    <2>q. QED
      BY <2>1
  <1>5. CASE PauseRfid \/ Sample \/ CowDetected \/ StayIdle \/ CowGoneEarly \/ AwaitRfidStart
    <2>1. pin' = FALSE /\ openFor' = 0
      BY <1>5 DEF PauseRfid, Sample, CowDetected, StayIdle, CowGoneEarly, AwaitRfidStart
    <2>q. QED
      BY <2>1
  <1>6. CASE StartRfid \/ PollRfid \/ StartMilking \/ KeepMilking \/ EndSession
    <2>1. pin' = FALSE /\ openFor' = 0
      BY <1>6 DEF StartRfid, PollRfid, StartMilking, KeepMilking, EndSession
    <2>q. QED
      BY <2>1
  <1>7. CASE UNCHANGED vars
    <2>1. pin' = FALSE /\ openFor' = 0
      BY <1>7 DEF vars
    <2>q. QED
      BY <2>1
  <1>q. QED
    BY <1>1, <1>2, <1>3, <1>4, <1>5, <1>6, <1>7 DEF SessionNext, SessionStep

-----------------------------------------------------------------------------
(* The duration of a spray *)

\* The cow is sprayed no longer than the duration and the two waits that can keep the task from
\* looking, unless the operator opens the valve by hand (session.cpp 352-368).
THEOREM SprayIsBounded ==
    ASSUME NotByHand
    PROVE  SessionSpec => []SprayBounded
  <1>1. SessionInit => Blocked /\ SprayTime
    BY DEF SessionInit, Blocked, SprayTime, Fresh, Paused
  <1>2. SessionInv /\ Blocked /\ SprayTime /\ [SessionNext]_vars => Blocked' /\ SprayTime'
    <2>1. SessionInv => pin = TRUE \/ pin = FALSE
      BY DEF SessionInv, TaskTypeOK, ValveTypeOK
    <2>q. QED
      BY <2>1, BlockedStep, OpenTimeStep, ShutStep DEF SprayTime
  <1>3. SessionInv /\ SprayTime => SprayBounded
    <2> SUFFICES ASSUME SessionInv, SprayTime PROVE SprayBounded
      OBVIOUS
    <2> USE OpenNumbers, Thresholds
    <2>1. CASE ~pin
      BY <2>1 DEF SprayTime, SprayBounded
    <2>2. CASE pin
      <3>1. OpenTime /\ pc \in {"top", "bucketReset", "valve", "snapshot"} \cup Fresh \cup Paused
        BY <2>2, OpenWhere DEF SprayTime
      <3>2. openFor <= SeenAtMost + CloseLag
        BY <3>1 DEF OpenTime
      <3>q. QED
        BY <3>2 DEF SprayBounded
    <2>q. QED
      BY <2>1, <2>2
  <1>q. QED
    BY <1>1, <1>2, <1>3, Invariant, PTL DEF SessionSpec

-----------------------------------------------------------------------------
(* The gap between two sprays *)

\* The numbers the cooldown is about.
LEMMA GapNumbers ==
    ASSUME SessionInv
    PROVE  /\ VALVE_COOLDOWN \in Nat /\ CloseLag \in Nat
           /\ PAUSE_MAX \in Nat /\ PAUSE_MAX <= CloseLag
           /\ POST_MAX \in Nat /\ POST_MAX <= CloseLag
           /\ elapsed \in Nat /\ closedFor \in Nat /\ age.closed \in Nat
           /\ age.closed <= VALVE_COOLDOWN
  BY Numbers, Thresholds

\* Each step keeps the task's measure of the cooldown close to real time (session.cpp 199-368).
LEMMA CooldownStep ==
    ASSUME NoReset, SessionInv, Blocked, ~forceReset, CooldownTime, [SessionNext]_vars
    PROVE  CooldownTime'
  <1>n. /\ VALVE_COOLDOWN \in Nat /\ CloseLag \in Nat
        /\ PAUSE_MAX \in Nat /\ PAUSE_MAX <= CloseLag
        /\ POST_MAX \in Nat /\ POST_MAX <= CloseLag
        /\ elapsed \in Nat /\ closedFor \in Nat /\ age.closed \in Nat
        /\ age.closed <= VALVE_COOLDOWN
    BY GapNumbers
  <1> USE DEF valveVars, clockVars
  <1>1. ASSUME hasSprayedBefore' = TRUE, age'.closed = 0, closedFor' = 0, elapsed' = elapsed,
               elapsed <= CloseLag
        PROVE  CooldownTime'
    BY <1>n, <1>1 DEF CooldownTime
  <1>2. ASSUME UNCHANGED <<hasSprayedBefore, closedFor, elapsed>>, age'.closed = age.closed
        PROVE  CooldownTime'
    BY <1>2 DEF CooldownTime
  <1>3. ASSUME UNCHANGED hasSprayedBefore, age'.closed = age.closed, NEW d \in Nat, Elapse(d)
        PROVE  CooldownTime'
    <2>1. closedFor' = Older(closedFor, d, VALVE_COOLDOWN) /\ elapsed' = elapsed + d
      BY <1>3 DEF Elapse
    <2>2. closedFor' = closedFor + d \/ closedFor' >= VALVE_COOLDOWN
      BY <1>n, <2>1 DEF Older
    <2>q. QED
      BY <1>n, <1>3, <2>1, <2>2 DEF CooldownTime
  <1>4. ~ForceReset
    BY DEF ForceReset, ResetRequested
  <1>5. CASE BackToIdle
    <2>1. CASE valveOpen
      <3>1. hasSprayedBefore' = TRUE /\ closedFor' = 0 /\ elapsed' = elapsed
        BY <1>5, <2>1 DEF BackToIdle, EndSprayIfOpen, CloseValve
      <3>2. age'.closed = 0
        BY <1>5, <2>1, AgeFunction DEF BackToIdle, EndSprayIfOpen
      <3>3. elapsed <= CloseLag
        BY <1>n, <1>5 DEF BackToIdle, Blocked, Paused
      <3>q. QED
        BY <1>1, <3>1, <3>2, <3>3
    <2>2. CASE ~valveOpen
      BY <1>2, <1>5, <2>2 DEF BackToIdle, EndSprayIfOpen
    <2>q. QED
      BY <2>1, <2>2
  <1>6. CASE NextBucket
    <2>1. CASE valveOpen
      <3>1. hasSprayedBefore' = TRUE /\ closedFor' = 0 /\ elapsed' = elapsed
        BY <1>6, <2>1 DEF NextBucket, CloseValve
      <3>2. age'.closed = 0
        BY <1>6, <2>1, AgeFunction DEF NextBucket
      <3>3. elapsed <= CloseLag
        BY <1>n, <1>6 DEF NextBucket, Blocked
      <3>q. QED
        BY <1>1, <3>1, <3>2, <3>3
    <2>2. CASE ~valveOpen
      <3>1. UNCHANGED <<hasSprayedBefore, closedFor, elapsed>>
        BY <1>6, <2>2 DEF NextBucket
      <3>2. age'.closed = age.closed
        BY <1>6, <2>2, AgeFunction DEF NextBucket
      <3>q. QED
        BY <1>2, <3>1, <3>2
    <2>q. QED
      BY <2>1, <2>2
  <1>7. CASE CowLeft
    <2>1. CASE valveOpen
      <3>1. hasSprayedBefore' = TRUE /\ closedFor' = 0 /\ elapsed' = elapsed
        BY <1>7, <2>1 DEF CowLeft, CloseValve
      <3>2. age'.closed = 0
        BY <1>7, <2>1, AgeFunction DEF CowLeft, MilkingAges
      <3>3. elapsed <= CloseLag
        BY <1>n, <1>7 DEF CowLeft, Blocked, Fresh
      <3>q. QED
        BY <1>1, <3>1, <3>2, <3>3
    <2>2. CASE ~valveOpen
      <3>1. UNCHANGED <<hasSprayedBefore, closedFor, elapsed>>
        BY <1>7, <2>2 DEF CowLeft
      <3>2. age'.closed = age.closed
        BY <1>7, <2>2, MilkingKeepsValveAges DEF CowLeft
      <3>q. QED
        BY <1>2, <3>1, <3>2
    <2>q. QED
      BY <2>1, <2>2
  <1>8. CASE Valve
    <2>1. pc = "valve" /\ elapsed' = elapsed
      BY <1>8 DEF Valve
    <2>2. CASE OpenSpray
      <3>1. age'.closed = age.closed /\ UNCHANGED <<hasSprayedBefore, closedFor>>
        BY <2>2, AgeFunction DEF OpenSpray
      <3>q. QED
        BY <1>2, <2>1, <3>1
    <2>3. CASE CloseSpray
      <3>1. hasSprayedBefore' = TRUE /\ closedFor' = 0
        BY <2>3 DEF CloseSpray, CloseValve, SprayOver
      <3>2. age'.closed = 0
        BY <2>3, AgeFunction DEF CloseSpray
      <3>3. elapsed <= CloseLag
        BY <1>n, <2>1, <2>3 DEF CloseSpray, SprayOver, Blocked
      <3>q. QED
        BY <1>1, <2>1, <3>1, <3>2, <3>3
    <2>4. CASE KeepValve
      BY <1>2, <2>1, <2>4 DEF KeepValve
    <2>q. QED
      BY <1>8, <2>2, <2>3, <2>4 DEF Valve
  <1>9. CASE Sample
    <2>1. UNCHANGED <<hasSprayedBefore, closedFor>> /\ elapsed' = 0
      BY <1>9 DEF Sample
    <2>2. age'.closed = Older(age.closed, elapsed, VALVE_COOLDOWN)
      BY <1>9 DEF Sample, Limit, Timers
    <2>3. age'.closed <= age.closed + elapsed /\ age'.closed \in Nat
      BY <1>n, <2>2 DEF Older
    <2>q. QED
      BY <1>n, <2>1, <2>3 DEF CooldownTime
  <1>10. CASE PauseDone \/ FinalWaited \/ PublishLeft \/ Snapshot
    <2>1. UNCHANGED <<hasSprayedBefore, age>> /\ \E d \in Nat : Elapse(d)
      BY <1>10, Thresholds DEF PauseDone, FinalWaited, PublishLeft, Snapshot
    <2>q. QED
      BY <1>3, <2>1
  <1>11. CASE BucketChange
    <2>1. UNCHANGED hasSprayedBefore /\ \E d \in Nat : Elapse(d)
      BY <1>11, Thresholds DEF BucketChange
    <2>2. age'.closed = age.closed
      BY <1>11, MilkingKeepsValveAges DEF BucketChange
    <2>q. QED
      BY <1>3, <2>1, <2>2
  <1>12. CASE CowDetected
    <2>1. age'.closed = age.closed
      BY <1>12, AgeFunction DEF CowDetected
    <2>q. QED
      BY <1>2, <1>12, <2>1 DEF CowDetected
  <1>13. CASE StartMilking \/ KeepMilking
    <2>1. age'.closed = age.closed
      <3>1. CASE StartMilking
        BY <3>1, AgeFunction DEF StartMilking
      <3>2. CASE KeepMilking
        BY <3>2, MilkingKeepsValveAges DEF KeepMilking
      <3>q. QED
        BY <1>13, <3>1, <3>2
    <2>q. QED
      BY <1>2, <1>13, <2>1 DEF StartMilking, KeepMilking
  <1>14. CASE PauseRfid \/ StayIdle \/ CowGoneEarly \/ AwaitRfidStart \/ StartRfid \/ PollRfid
    BY <1>2, <1>14 DEF PauseRfid, StayIdle, CowGoneEarly, AwaitRfidStart, StartRfid, PollRfid
  <1>15. CASE EndSession
    BY <1>2, <1>15 DEF EndSession
  <1>16. CASE BgScanBegin \/ BgScanEnd \/ CliStep
    BY <1>2, <1>16, OtherSteps
  <1>17. CASE UNCHANGED vars
    BY <1>2, <1>17 DEF vars
  <1>q. QED
    BY <1>4, <1>5, <1>6, <1>7, <1>8, <1>9, <1>10, <1>11, <1>12, <1>13, <1>14, <1>15, <1>16, <1>17
    DEF SessionNext, SessionStep

\* Without a command for it no reset is ever asked for (session.cpp 91-93).
LEMMA NoResetStep ==
    ASSUME NoReset, ~forceReset, [SessionNext]_vars
    PROVE  ~forceReset'
  <1>1. CASE SessionStep
    BY <1>1 DEF SessionStep, ForceReset, PauseRfid, PauseDone, Sample, CowDetected, StayIdle,
       CowGoneEarly, BackToIdle, AwaitRfidStart, StartRfid, PollRfid, StartMilking, KeepMilking,
       BucketChange, NextBucket, CowLeft, FinalWaited, PublishLeft, EndSession, Valve, Snapshot
  <1>2. CASE BgScanBegin \/ BgScanEnd \/ CliStep
    BY <1>2, OtherSteps
  <1>3. CASE UNCHANGED vars
    BY <1>3 DEF vars
  <1>q. QED
    BY <1>1, <1>2, <1>3 DEF SessionNext

\* Only the spray of the session task begins one (session.cpp 353-360).
LEMMA OpensInValve ==
    ASSUME SessionNext, ~valveOpen, valveOpen'
    PROVE  OpenSpray
  <1> USE DEF valveVars
  <1>1. CASE Valve
    BY <1>1 DEF Valve, CloseSpray, KeepValve
  <1>2. CASE BgScanBegin \/ BgScanEnd \/ CliStep
    BY <1>2, OtherSteps
  <1>3. CASE SessionStep
    BY <1>1, <1>3 DEF SessionStep, ForceReset, PauseRfid, PauseDone, Sample, CowDetected, StayIdle,
       CowGoneEarly, BackToIdle, AwaitRfidStart, StartRfid, PollRfid, StartMilking, KeepMilking,
       BucketChange, NextBucket, CowLeft, FinalWaited, PublishLeft, EndSession, Snapshot
  <1>q. QED
    BY <1>2, <1>3 DEF SessionNext

\* Two sprays are the cooldown apart, less the time the task was blocked when it closed the valve,
\* unless the operator resets the session (session.cpp 353-355; config.h 133).
THEOREM CooldownIsHeld ==
    ASSUME NoReset
    PROVE  SessionSpec => CooldownHeld
  <1> DEFINE Inv == Blocked /\ ~forceReset /\ CooldownTime
  <1>1. SessionInit => Inv
    BY GapNumbers, TimeAssumption DEF SessionInit, Blocked, Fresh, Paused, CooldownTime
  <1>2. SessionInv /\ Inv /\ [SessionNext]_vars => Inv'
    BY BlockedStep, NoResetStep, CooldownStep
  <1>3. SessionInv /\ Inv /\ [SessionNext]_vars
          => [~valveOpen /\ valveOpen' => closedFor >= VALVE_COOLDOWN - CloseLag]_vars
    <2> SUFFICES ASSUME SessionInv, CooldownTime, SessionNext, ~valveOpen, valveOpen'
                 PROVE  closedFor >= VALVE_COOLDOWN - CloseLag
      OBVIOUS
    <2>1. hasSprayedBefore => age.closed >= VALVE_COOLDOWN
      BY OpensInValve DEF OpenSpray, SprayDue
    <2>q. QED
      BY <2>1, GapNumbers DEF CooldownTime
  <1>q. QED
    BY <1>1, <1>2, <1>3, Invariant, PTL DEF SessionSpec, CooldownHeld
================================================================================
