------------------------------ MODULE SessionTask ------------------------------
(***************************************************************************)
(* The session task of a milkwarden post (modules/session/session.cpp,     *)
(* sessionTask) together with the RFID background task it drives and the   *)
(* Telnet commands that reach into both.                                   *)
(*                                                                         *)
(* One iteration of the for(;;) loop is a sequence of steps, pc naming the *)
(* point the task has reached: it is cut at every call that blocks or that *)
(* enters a critical section of the RFID task, so that the RFID task and   *)
(* the console interleave everywhere they can.                             *)
(*                                                                         *)
(* Time is counted in ticks.  The code compares ms, the time of this       *)
(* iteration's sample, with the stored times of earlier samples.  age[t]   *)
(* is ms minus stored time t, kept up to the threshold it is compared with;*)
(* elapsed is the time that has passed since the sample was taken.         *)
(***************************************************************************)
EXTENDS RfidReader

CONSTANTS
    Weights,                \* filtered weights the load cell can report
    UINT16,                 \* the values of a uint16_t (65536 on the ESP32)
    WEIGHT_DROP_G,          \* a larger drop within a window is a bucket change
    WEIGHT_DROP_WINDOW,     \* ticks between two drop checks
    WEIGHT_LOG_INTERVAL, WEIGHT_LOG_DEDUP_G, WEIGHT_LOG_MAX_SAMPLES,
    RFID_START_DELAY,       \* ticks between cow detected and RFID start
    COW_GONE_CONFIRM, COW_ARRIVE_CONFIRM,
    VALVE_OPEN_DELAY, VALVE_OPEN_DURATION, VALVE_COOLDOWN,
    PAUSE_MAX,              \* longest rfidTaskPause, in ticks (4 s in the code)
    FINAL_MAX,              \* SENSOR_CMD_TIMEOUT_MS
    POST_MAX,               \* longest publishSession (CLOUD_POST_TIMEOUT_MS)
    Commands                \* the Telnet commands the operator uses

AllCommands == {"session reset", "rfid start", "rfid stop", "rfid scan",
                "valve open", "valve close"}

ASSUME WeightAssumption == 
    /\ 0 \in Weights /\ Weights \subseteq Int
    /\ {WEIGHT_DROP_G, WEIGHT_LOG_DEDUP_G} \subseteq Nat
    /\ {WEIGHT_LOG_MAX_SAMPLES, UINT16} \subseteq Nat \ {0}
ASSUME TimeAssumption ==
    /\ {WEIGHT_DROP_WINDOW, WEIGHT_LOG_INTERVAL, RFID_START_DELAY,
        COW_GONE_CONFIRM, COW_ARRIVE_CONFIRM, VALVE_OPEN_DELAY, VALVE_COOLDOWN, PAUSE_MAX, FINAL_MAX, POST_MAX} \subseteq Nat
    /\ VALVE_OPEN_DURATION \in Nat \ {0}
ASSUME CommandAssumption == Commands \subseteq AllCommands

VARIABLES
    pc,                 \* where the session task is in its loop
    state, rfid, rfidStarted, sensorInitSent, wInitial, wDropCheck,
    weightLog,          \* the grams logged for this bucket; its last entry is
                        \* lastLoggedWeight_g
    valveArmed, valveOpen, hasSprayedBefore,
    age,                \* ms - msRfidStart, msCowPresentStart, ... (see Limit)
    clearAge, blockAge, \* ms - msBeamClearStart / msBeamBlockStart, or NotPending
    sample,             \* the locals of one iteration: w and the two confirmations
    elapsed,            \* time since the sample of this iteration
    forceReset,         \* s_forceReset
    info,               \* s_info, read by the console
    pin,                \* the valve's GPIO is high
    cli,                \* where the Telnet command handler is
    out,                \* history: the last record published, None since milking began
    initSends,          \* history: CMD_MEASURE_INIT sent for the current bucket
    openFor, closedFor  \* history: real time since the pin went high, and since the
                        \* session task last ended a spray

sessionVars == <<state, rfid, rfidStarted, sensorInitSent, wInitial, wDropCheck,
                 weightLog>>
valveVars   == <<valveArmed, valveOpen, hasSprayedBefore, pin>>
clockVars   == <<elapsed, openFor, closedFor>>
beamVars    == <<clearAge, blockAge, sample>>
logVars     == <<out, initSends, info>>
vars == <<rfidVars, pc, sessionVars, valveVars, age, beamVars, clockVars, logVars,
          forceReset, cli>>

IDLE == "IDLE"
COW_PRESENT == "COW_PRESENT"
MILKING == "MILKING"
None == [none |-> TRUE]
NotPending == -1

Limit == [rfid |-> RFID_START_DELAY, cow |-> VALVE_OPEN_DELAY,
          opened |-> VALVE_OPEN_DURATION, closed |-> VALVE_COOLDOWN,
          drop |-> WEIGHT_DROP_WINDOW, log |-> WEIGHT_LOG_INTERVAL]
Timers == {"rfid", "cow", "opened", "closed", "drop", "log"}

\* An age after d more ticks, kept up to the limit it is compared with.
Older(a, d, limit) == IF a + d > limit THEN limit ELSE a + d

NoSample == [w |-> 0, gone |-> FALSE, present |-> FALSE]

\* Where openFor stops counting: above the bound SprayBounded states.
OpenForMax == VALVE_OPEN_DURATION + 2 * PAUSE_MAX + POST_MAX + 1

Records == [rfid : Tags \cup {NoTag}, wInitial : Weights, wFinal : Weights,
            reason : {"BUCKET_CHANGE", "COW_LEFT"}, delivered : BOOLEAN]

\* Where the task goes when a rfidTaskPause it made at a point has returned.
AfterPause == [resetWait |-> "sample", goneWait |-> "goneFinish",
               milkWait |-> "startMilking", endWait |-> "endIdle"]
Pausing == {"resetWait", "goneWait", "milkWait", "endWait"}

Points == Pausing \cup
          {"top", "resetPause", "sample", "switch", "goneFinish", "poll", "milkPause",
           "startMilking", "bucketReset", "waitFinal", "publishLeft", "endPause",
           "endIdle", "valve", "snapshot"}

FlowTypeOK ==
    /\ pc \in Points
    /\ state \in {IDLE, COW_PRESENT, MILKING}
    /\ rfid \in Tags \cup {NoTag}
    /\ rfidStarted \in BOOLEAN /\ sensorInitSent \in BOOLEAN
    /\ forceReset \in BOOLEAN
    /\ cli \in {"free", "stopping", "pausing", "uart"}
    /\ info \in [state : {IDLE, COW_PRESENT, MILKING}, rfid : Tags \cup {NoTag}]

ValveTypeOK ==
    /\ valveArmed \in BOOLEAN /\ valveOpen \in BOOLEAN /\ hasSprayedBefore \in BOOLEAN
    /\ pin \in BOOLEAN

BeamTypeOK ==
    /\ clearAge \in Nat \cup {NotPending} /\ blockAge \in Nat \cup {NotPending}
    /\ sample \in [w : Weights, gone : BOOLEAN, present : BOOLEAN]

AgeTypeOK == age \in [Timers -> Nat] /\ \A t \in Timers : age[t] <= Limit[t]

ClockTypeOK == elapsed \in Nat /\ openFor \in Nat /\ closedFor \in Nat

RecordTypeOK ==
    /\ wInitial \in Weights /\ wDropCheck \in Weights
    /\ weightLog \in Seq(Nat) /\ Len(weightLog) <= WEIGHT_LOG_MAX_SAMPLES
    /\ out \in Records \cup {None}
    /\ initSends \in 0 .. 2

TaskTypeOK ==
    /\ FlowTypeOK /\ ValveTypeOK /\ BeamTypeOK /\ AgeTypeOK /\ ClockTypeOK
    /\ RecordTypeOK

\* Types; the weight log does not outgrow its array, and each age is kept up to
\* the threshold it is compared with.
SessionTypeOK == RfidTypeOK /\ TaskTypeOK

SessionInit ==
    /\ RfidInit
    /\ pc = "top" /\ state = IDLE /\ rfid = NoTag
    /\ rfidStarted = FALSE /\ sensorInitSent = FALSE
    /\ wInitial = 0 /\ wDropCheck = 0 /\ weightLog = <<>>
    /\ valveArmed = FALSE /\ valveOpen = FALSE /\ hasSprayedBefore = FALSE /\ pin = FALSE
    /\ age = [t \in Timers |-> 0]
    /\ clearAge = NotPending /\ blockAge = NotPending
    /\ sample = NoSample
    /\ elapsed = 0 /\ openFor = 0 /\ closedFor = VALVE_COOLDOWN
    /\ forceReset = FALSE
    /\ info = [state |-> IDLE, rfid |-> NoTag]
    /\ cli = "free"
    /\ out = None /\ initSends = 0

-----------------------------------------------------------------------------
(* Time and the valve *)

\* The task has been blocked for d ticks.
Elapse(d) ==
    /\ elapsed' = elapsed + d
    /\ openFor' = IF pin THEN Older(openFor, d, OpenForMax) ELSE 0
    /\ closedFor' = Older(closedFor, d, VALVE_COOLDOWN)

CloseValve ==
    /\ pin' = FALSE
    /\ openFor' = 0
    /\ closedFor' = IF valveOpen THEN 0 ELSE closedFor

\* Mutant of EndSprayIfOpen: the flags are cleared, the pin is left high.
EndSprayInFlagsOnly ==
    /\ hasSprayedBefore' = (hasSprayedBefore \/ valveOpen)
    /\ UNCHANGED <<pin, openFor, closedFor, age>>

\* The branches under if (valveOpen): the spray ends and is remembered for the
\* cooldown.  The time stored is ms, the time of the last sample.
EndSprayIfOpen ==
    \/ /\ valveOpen
       /\ CloseValve
       /\ hasSprayedBefore' = TRUE
       /\ age' = [age EXCEPT !.closed = 0]
    \/ /\ ~valveOpen
       /\ UNCHANGED <<pin, openFor, closedFor, hasSprayedBefore, age>>

\* Two loop iterations are separated by at least the snapshot interval.
SNAPSHOT_INTERVAL == 1

-----------------------------------------------------------------------------
(* The head of the loop *)

\* Mutant of ResetRequested: a reset is not accepted while a cow is milked.
ResetRequestedUnlessMilking == forceReset /\ state # MILKING

ResetRequested == forceReset

\* Mutant of ForgetCow: the tag stays in the buffer.
ForgetWeightOnly == wInitial' = 0 /\ UNCHANGED rfid

\* The tag and the start weight of the cow are wiped.
ForgetCow == rfid' = NoTag /\ wInitial' = 0

\* A reset asked for by the console.  It leaves rfidStarted, sensorInitSent,
\* msValveClosedAt and hasSprayedBefore as they are.
ForceReset ==
    /\ pc = "top" /\ ResetRequested
    /\ state' = IDLE /\ ForgetCow
    /\ forceReset' = FALSE
    /\ CloseValve /\ valveArmed' = FALSE /\ valveOpen' = FALSE
    /\ ResetConfirmation
    /\ clearAge' = NotPending /\ blockAge' = NotPending
    /\ pc' = "resetPause"
    /\ UNCHANGED <<rfidStarted, sensorInitSent, wDropCheck, weightLog,
                   hasSprayedBefore, age, sample, elapsed, logVars, cli>>

\* rfidTaskPause, called after a forced reset, when a batch is over and at the
\* end of a session.
PauseRfid ==
    /\ \/ pc = "resetPause" /\ pc' = "resetWait"
       \/ pc = "milkPause" /\ pc' = "milkWait"
       \/ pc = "endPause" /\ pc' = "endWait"
    /\ SetPaused
    /\ UNCHANGED <<sessionVars, valveVars, age, beamVars, clockVars, logVars, forceReset, cli>>

\* Any rfidTaskPause the task is waiting in returns.
PauseDone ==
    /\ pc \in Pausing /\ PauseReturns
    /\ \E d \in 0 .. PAUSE_MAX : Elapse(d)
    /\ pc' = AfterPause[pc]
    /\ UNCHANGED <<rfidVars, sessionVars, valveVars, age, beamVars, logVars, forceReset, cli>>

\* A reading that keeps up: its timer starts with the first sample, and a later
\* sample confirms it once the limit has passed.
Pending(a, limit) == IF a = NotPending THEN 0 ELSE Older(a, elapsed, limit)
Confirms(a, limit) == a # NotPending /\ a + elapsed >= limit

\* Weight, beam (1 is clear, 0 is blocked) and time are sampled, and the two
\* confirmations computed.
Sample ==
    /\ \/ pc = "sample"
       \/ pc = "top" /\ ~ResetRequested
    /\ age' = [t \in Timers |-> Older(age[t], elapsed, Limit[t])]
    /\ \E w \in Weights, beam \in {0, 1} :
        /\ clearAge' = IF beam = 1 THEN Pending(clearAge, COW_GONE_CONFIRM) ELSE NotPending
        /\ blockAge' = IF beam = 0 THEN Pending(blockAge, COW_ARRIVE_CONFIRM) ELSE NotPending
        /\ sample' = [w |-> w,
                       gone |-> beam = 1 /\ Confirms(clearAge, COW_GONE_CONFIRM),
                       present |-> beam = 0 /\ Confirms(blockAge, COW_ARRIVE_CONFIRM)]
    /\ elapsed' = 0
    /\ pc' = "switch"
    /\ UNCHANGED <<rfidVars, sessionVars, valveVars, openFor, closedFor, logVars,
                   forceReset, cli>>

-----------------------------------------------------------------------------
(* case SESSION_IDLE *)

\* Mutant of IdentifyAfresh: sensorInitSent is taken for already cleared.
IdentifyWithoutMeasuring ==
    /\ ResetConfirmation
    /\ rfid' = NoTag
    /\ rfidStarted' = FALSE /\ UNCHANGED sensorInitSent
    /\ initSends' = 0

\* The next bucket is identified and measured from scratch; shared by an
\* arriving cow and a bucket change.
IdentifyAfresh ==
    /\ ResetConfirmation
    /\ rfid' = NoTag
    /\ rfidStarted' = FALSE /\ sensorInitSent' = FALSE
    /\ initSends' = 0

CowDetected ==
    /\ pc = "switch" /\ state = IDLE /\ sample.present
    /\ IdentifyAfresh
    /\ age' = [age EXCEPT !.rfid = 0, !.cow = 0]
    /\ valveArmed' = TRUE /\ valveOpen' = FALSE
    /\ state' = COW_PRESENT
    /\ pc' = "valve"
    /\ UNCHANGED <<wInitial, wDropCheck, weightLog, hasSprayedBefore, pin, beamVars,
                   clockVars, out, info, forceReset, cli>>

StayIdle ==
    /\ pc = "switch" /\ state = IDLE /\ ~sample.present
    /\ pc' = "valve"
    /\ UNCHANGED <<rfidVars, sessionVars, valveVars, age, beamVars, clockVars, logVars,
                   forceReset, cli>>

-----------------------------------------------------------------------------
(* case SESSION_COW_PRESENT *)

CowGoneEarly ==
    /\ pc = "switch" /\ state = COW_PRESENT /\ sample.gone
    /\ \/ rfidStarted /\ SetPaused /\ pc' = "goneWait"
       \/ ~rfidStarted /\ UNCHANGED rfidVars /\ pc' = "goneFinish"
    /\ UNCHANGED <<sessionVars, valveVars, age, beamVars, clockVars, logVars, forceReset, cli>>

\* The valve is closed only after the pause.
BackToIdle ==
    /\ pc = "goneFinish"
    /\ rfidStarted' = FALSE /\ sensorInitSent' = FALSE
    /\ EndSprayIfOpen
    /\ valveArmed' = FALSE /\ valveOpen' = FALSE
    /\ state' = IDLE
    /\ pc' = "valve"
    /\ UNCHANGED <<rfidVars, rfid, wInitial, wDropCheck, weightLog, beamVars, elapsed,
                   logVars, forceReset, cli>>

AwaitRfidStart ==
    /\ pc = "switch" /\ state = COW_PRESENT /\ ~sample.gone
    /\ ~rfidStarted /\ age.rfid < RFID_START_DELAY
    /\ pc' = "valve"
    /\ UNCHANGED <<rfidVars, sessionVars, valveVars, age, beamVars, clockVars, logVars,
                   forceReset, cli>>

\* The batch is started and the slave sensor asked for the initial level.
StartRfid ==
    /\ pc = "switch" /\ state = COW_PRESENT /\ ~sample.gone
    /\ ~rfidStarted /\ age.rfid >= RFID_START_DELAY
    /\ rfidStarted' = TRUE
    /\ Resume
    /\ initSends' = IF sensorInitSent THEN initSends ELSE initSends + 1
    /\ sensorInitSent' = TRUE
    /\ pc' = "poll"
    /\ UNCHANGED <<state, rfid, wInitial, wDropCheck, weightLog, valveVars, age, beamVars,
                   clockVars, out, info, forceReset, cli>>

\* getRfidResult: milking is next once the batch is over.
PollRfid ==
    /\ \/ pc = "poll"
       \/ pc = "switch" /\ state = COW_PRESENT /\ ~sample.gone /\ rfidStarted
    /\ \/ /\ ResultReady
          /\ rfid' = IF confirmed THEN confirmedEpc ELSE NoTag
          /\ pc' = "milkPause"
       \/ /\ ~ResultReady
          /\ pc' = "valve"
          /\ UNCHANGED rfid
    /\ UNCHANGED <<rfidVars, state, rfidStarted, sensorInitSent, wInitial, wDropCheck, weightLog,
                   valveVars, age, beamVars, clockVars, logVars, forceReset, cli>>

\* The weight of a log entry, cut to a uint16_t.
Grams(w) == IF w > 0 THEN w % UINT16 ELSE 0

\* Milking begins with the weight and time sampled before the pause.
StartMilking ==
    /\ pc = "startMilking"
    /\ rfidStarted' = FALSE
    /\ wInitial' = sample.w /\ wDropCheck' = sample.w
    /\ weightLog' = <<Grams(sample.w)>>
    /\ age' = [age EXCEPT !.drop = 0, !.log = 0]
    /\ state' = MILKING
    /\ out' = None
    /\ pc' = "valve"
    /\ UNCHANGED <<rfidVars, rfid, sensorInitSent, valveVars, beamVars, clockVars,
                   initSends, info, forceReset, cli>>

-----------------------------------------------------------------------------
(* case SESSION_MILKING *)

\* Mutants of LogWeight: no room is needed; the change is measured from the
\* start weight.
LogWeightWithoutLimit ==
    LET last == weightLog[Len(weightLog)]
        g    == Grams(sample.w)
    IN  IF /\ age.log >= WEIGHT_LOG_INTERVAL
           /\ (IF g > last THEN g - last ELSE last - g) >= WEIGHT_LOG_DEDUP_G
        THEN Append(weightLog, g) ELSE weightLog

LogWeightAgainstStart ==
    LET g == Grams(sample.w)
    IN  IF /\ age.log >= WEIGHT_LOG_INTERVAL
           /\ (IF g > wInitial THEN g - wInitial ELSE wInitial - g) >= WEIGHT_LOG_DEDUP_G
           /\ Len(weightLog) < WEIGHT_LOG_MAX_SAMPLES
        THEN Append(weightLog, g) ELSE weightLog

\* Once per interval the weight is logged if it differs enough from the last
\* entry and there is room.
LogWeight ==
    LET last == weightLog[Len(weightLog)]
        g    == Grams(sample.w)
    IN  IF /\ age.log >= WEIGHT_LOG_INTERVAL
           /\ (IF g > last THEN g - last ELSE last - g) >= WEIGHT_LOG_DEDUP_G
           /\ Len(weightLog) < WEIGHT_LOG_MAX_SAMPLES
        THEN Append(weightLog, g) ELSE weightLog

Dropped == age.drop >= WEIGHT_DROP_WINDOW /\ wDropCheck - sample.w > WEIGHT_DROP_G

\* The interval and the window are restarted when they are over.
MilkingAges == [age EXCEPT !.log = IF @ >= WEIGHT_LOG_INTERVAL THEN 0 ELSE @,
                           !.drop = IF @ >= WEIGHT_DROP_WINDOW THEN 0 ELSE @]

\* The weight the next window is compared with.
NextDropCheck == IF age.drop >= WEIGHT_DROP_WINDOW THEN sample.w ELSE wDropCheck

KeepMilking ==
    /\ pc = "switch" /\ state = MILKING /\ ~sample.gone /\ ~Dropped
    /\ weightLog' = LogWeight /\ wDropCheck' = NextDropCheck /\ age' = MilkingAges
    /\ pc' = "valve"
    /\ UNCHANGED <<rfidVars, state, rfid, rfidStarted, sensorInitSent, wInitial, valveVars,
                   beamVars, clockVars, logVars, forceReset, cli>>

\* publishSession: one ESP-NOW send and one HTTPS POST, neither repeated; the
\* record is delivered when either succeeds.
Publish(wFinal, reason) ==
    \E espnow, cloud \in BOOLEAN :
        out' = [rfid |-> rfid, wInitial |-> wInitial, wFinal |-> wFinal,
                reason |-> reason, delivered |-> espnow \/ cloud]

\* A bucket change is published with the weight before the drop.  It takes
\* precedence over a cow that has left.
BucketChange ==
    /\ pc = "switch" /\ state = MILKING /\ Dropped
    /\ weightLog' = LogWeight /\ age' = MilkingAges
    /\ Publish(wDropCheck, "BUCKET_CHANGE")
    /\ \E d \in 0 .. POST_MAX : Elapse(d)
    /\ pc' = "bucketReset"
    /\ UNCHANGED <<rfidVars, state, rfid, rfidStarted, sensorInitSent, wInitial, wDropCheck,
                   valveVars, beamVars, initSends, info, forceReset, cli>>

\* The cow is still there: back to waiting for a tag, for the next bucket.
NextBucket ==
    /\ pc = "bucketReset"
    /\ IdentifyAfresh
    /\ wInitial' = 0 /\ wDropCheck' = sample.w
    /\ \/ /\ valveOpen
          /\ CloseValve
          /\ valveOpen' = FALSE /\ valveArmed' = FALSE /\ hasSprayedBefore' = TRUE
          /\ age' = [age EXCEPT !.rfid = 0, !.drop = 0, !.closed = 0]
       \/ /\ ~valveOpen
          /\ age' = [age EXCEPT !.rfid = 0, !.drop = 0]
          /\ UNCHANGED <<valveVars, openFor, closedFor>>
    /\ state' = COW_PRESENT
    /\ pc' = "valve"
    /\ UNCHANGED <<weightLog, beamVars, elapsed, out, info, forceReset, cli>>

\* The cow has left: the spray ends and the final level is asked for.
CowLeft ==
    /\ pc = "switch" /\ state = MILKING /\ sample.gone /\ ~Dropped
    /\ weightLog' = LogWeight /\ wDropCheck' = NextDropCheck
    /\ \/ /\ valveOpen
          /\ CloseValve /\ hasSprayedBefore' = TRUE
          /\ age' = [MilkingAges EXCEPT !.closed = 0]
       \/ /\ ~valveOpen
          /\ age' = MilkingAges
          /\ UNCHANGED <<pin, openFor, closedFor, hasSprayedBefore>>
    /\ valveArmed' = FALSE /\ valveOpen' = FALSE
    /\ pc' = "waitFinal"
    /\ UNCHANGED <<rfidVars, state, rfid, rfidStarted, sensorInitSent, wInitial,
                   beamVars, elapsed, logVars, forceReset, cli>>

\* Mutant of FinalWaited: a milking without a final level is not published.
FinalWaitedInSilence ==
    /\ pc = "waitFinal"
    /\ sensorInitSent' = FALSE
    /\ \E d \in 0 .. FINAL_MAX :
          Elapse(d) /\ pc' = IF d = FINAL_MAX THEN "endPause" ELSE "publishLeft"
    /\ UNCHANGED <<rfidVars, state, rfid, rfidStarted, wInitial, wDropCheck, weightLog,
                   valveVars, age, beamVars, logVars, forceReset, cli>>

\* The final level has come, or SENSOR_CMD_TIMEOUT_MS has passed.
FinalWaited ==
    /\ pc = "waitFinal"
    /\ \E d \in 0 .. FINAL_MAX : Elapse(d)
    /\ sensorInitSent' = FALSE
    /\ pc' = "publishLeft"
    /\ UNCHANGED <<rfidVars, state, rfid, rfidStarted, wInitial, wDropCheck, weightLog,
                   valveVars, age, beamVars, logVars, forceReset, cli>>

PublishLeft ==
    /\ pc = "publishLeft"
    /\ Publish(sample.w, "COW_LEFT")
    /\ \E d \in 0 .. POST_MAX : Elapse(d)
    /\ ForgetCow
    /\ pc' = "endPause"
    /\ UNCHANGED <<rfidVars, state, rfidStarted, sensorInitSent, wDropCheck, weightLog,
                   valveVars, age, beamVars, initSends, info, forceReset, cli>>

\* The last rfidTaskPause has returned.
EndSession ==
    /\ pc = "endIdle"
    /\ state' = IDLE
    /\ pc' = "valve"
    /\ UNCHANGED <<rfidVars, rfid, rfidStarted, sensorInitSent, wInitial, wDropCheck,
                   weightLog, valveVars, age, beamVars, clockVars, logVars, forceReset, cli>>

-----------------------------------------------------------------------------
(* The end of every iteration *)

\* Mutant of SprayDue: the cooldown is forgotten.
SprayDueTooSoon == valveArmed /\ ~valveOpen /\ age.cow >= VALVE_OPEN_DELAY

SprayDue ==
    /\ valveArmed /\ ~valveOpen
    /\ age.cow >= VALVE_OPEN_DELAY
    /\ hasSprayedBefore => age.closed >= VALVE_COOLDOWN

\* Mutant of SprayOver: the duration is only watched until milking begins.
SprayOverBeforeMilking ==
    valveOpen /\ state = COW_PRESENT /\ age.opened >= VALVE_OPEN_DURATION

SprayOver == valveOpen /\ age.opened >= VALVE_OPEN_DURATION

OpenSpray ==
    /\ SprayDue
    /\ pin' = TRUE /\ valveOpen' = TRUE
    /\ age' = [age EXCEPT !.opened = 0]
    /\ UNCHANGED <<valveArmed, hasSprayedBefore, openFor, closedFor>>

CloseSpray ==
    /\ SprayOver
    /\ CloseValve
    /\ valveOpen' = FALSE /\ valveArmed' = FALSE /\ hasSprayedBefore' = TRUE
    /\ age' = [age EXCEPT !.closed = 0]

KeepValve ==
    /\ ~SprayDue /\ ~SprayOver
    /\ UNCHANGED <<valveVars, openFor, closedFor, age>>

\* A spray just opened has age.opened = 0 and is not closed in the same pass.
Valve ==
    /\ pc = "valve"
    /\ OpenSpray \/ CloseSpray \/ KeepValve
    /\ pc' = "snapshot"
    /\ UNCHANGED <<rfidVars, sessionVars, beamVars, elapsed, logVars, forceReset, cli>>

\* The snapshot and s_info show the state and tag; then the task sleeps.  The
\* locals of the iteration are dead.
Snapshot ==
    /\ pc = "snapshot"
    /\ info' = [state |-> state, rfid |-> rfid]
    /\ Elapse(SNAPSHOT_INTERVAL)
    /\ sample' = NoSample
    /\ pc' = "top"
    /\ UNCHANGED <<rfidVars, sessionVars, valveVars, age, clearAge, blockAge, out,
                   initSends, forceReset, cli>>

SessionStep ==
    \/ ForceReset \/ PauseRfid \/ PauseDone \/ Sample
    \/ CowDetected \/ StayIdle
    \/ CowGoneEarly \/ BackToIdle \/ AwaitRfidStart \/ StartRfid \/ PollRfid
    \/ StartMilking \/ KeepMilking \/ BucketChange \/ NextBucket
    \/ CowLeft \/ FinalWaited \/ PublishLeft \/ EndSession
    \/ Valve \/ Snapshot

-----------------------------------------------------------------------------
(* The RFID background task and the Telnet console (devices/telnet) *)

BgScanBegin ==
    /\ ScanBegin
    /\ UNCHANGED <<pc, sessionVars, valveVars, age, beamVars, clockVars, logVars,
                   forceReset, cli>>

BgScanEnd ==
    /\ \E t \in Tags \cup {NoTag} : ScanEnd(t)
    /\ UNCHANGED <<pc, sessionVars, valveVars, age, beamVars, clockVars, logVars,
                   forceReset, cli>>

\* The handler runs one command at a time, in loop().
CliReset ==
    /\ "session reset" \in Commands /\ cli = "free"
    /\ forceReset' = TRUE
    /\ UNCHANGED <<rfidVars, pc, sessionVars, valveVars, age, beamVars, clockVars,
                   logVars, cli>>

CliValve ==
    /\ cli = "free"
    /\ \/ "valve open" \in Commands /\ pin' = TRUE /\ UNCHANGED openFor
       \/ "valve close" \in Commands /\ pin' = FALSE /\ openFor' = 0
    /\ UNCHANGED <<rfidVars, pc, sessionVars, valveArmed, valveOpen, hasSprayedBefore, age,
                   beamVars, elapsed, closedFor, logVars, forceReset, cli>>

CliRfidPause ==
    /\ cli = "free"
    /\ \/ "rfid stop" \in Commands /\ cli' = "stopping"
       \/ "rfid scan" \in Commands /\ cli' = "pausing"
    /\ SetPaused
    /\ UNCHANGED <<pc, sessionVars, valveVars, age, beamVars, clockVars, logVars, forceReset>>

CliPauseDone ==
    /\ PauseReturns
    /\ \/ cli = "stopping" /\ cli' = "free"
       \/ cli = "pausing" /\ cli' = "uart"
    /\ UNCHANGED <<rfidVars, pc, sessionVars, valveVars, age, beamVars, clockVars,
                   logVars, forceReset>>

\* "rfid start", and the end of "rfid scan", "diag", "monitor" and "power",
\* which use the UART themselves and resume whatever was paused before.
CliRfidResume ==
    /\ \/ "rfid start" \in Commands /\ cli = "free"
       \/ cli = "uart"
    /\ Resume
    /\ cli' = "free"
    /\ UNCHANGED <<pc, sessionVars, valveVars, age, beamVars, clockVars, logVars, forceReset>>

CliStep == CliReset \/ CliValve \/ CliRfidPause \/ CliPauseDone \/ CliRfidResume

SessionNext == SessionStep \/ BgScanBegin \/ BgScanEnd \/ CliStep

SessionSpec == SessionInit /\ [][SessionNext]_vars

\* Both tasks loop for ever on core 0 and every call they block in returns: the
\* scan at its deadline, the waits and the POST at their timeouts.  A command
\* that has begun returns too, but nothing makes an operator type one.
FairSessionSpec ==
    /\ SessionSpec
    /\ WF_vars(SessionStep)
    /\ WF_vars(BgScanBegin) /\ WF_vars(BgScanEnd)
    /\ WF_vars(CliPauseDone) /\ WF_vars(cli = "uart" /\ CliRfidResume)
=============================================================================
