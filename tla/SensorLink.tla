------------------------------- MODULE SensorLink -------------------------------
(***************************************************************************)
(* A post and the sensor node on its canister (esp32_sensor/src/main.cpp,  *)
(* built for the reed switch: config.h:10).  The session task asks the     *)
(* node to begin counting pulses when a bucket is first seen and to report *)
(* the count when the cow has left; both directions are ESP-NOW broadcasts *)
(* that nothing acknowledges or repeats.                                   *)
(*                                                                         *)
(* A frame is on the air for less than a millisecond: it is received at    *)
(* once or never.  What takes time is the node: it sleeps between commands,*)
(* keeps one received command in a buffer of its own, and looks at it once *)
(* per turn of its loop.  A turn lasts milliseconds and a step of the post  *)
(* that waits for the cow, the weight or a timer comes a sampling period or *)
(* more after the one before: such a step is not taken in the middle of a   *)
(* turn (Settled).                                                         *)
(***************************************************************************)
EXTENDS Integers

CONSTANTS
    ReportMax,      \* the largest count a reply can carry (0xFFFF)
    PulseMax        \* bound on s_pulseCount

ASSUME PulseAssumption == {ReportMax, PulseMax} \subseteq Nat /\ ReportMax <= PulseMax

VARIABLES
    post,               \* where the session task is with the sensor
    sensorInitSent,
    distanceFinal,      \* s_distanceFinal of the post
    finalReady,         \* s_finalReady
    receiving,          \* the receive callback is between its two assignments
    record,             \* the last record published
    loop,               \* where the node is in its loop
    cmdPending,         \* s_cmdPending
    pendingCmd,         \* s_pendingCmd
    cmd,                \* the copy the node is processing
    pulseCount,         \* s_pulseCount
    counting,           \* s_counting
    counted,            \* history: pulses counted since this bucket was first seen,
                        \* and of those since the node has processed its INIT
    initDone,           \* history: the node has processed this bucket's INIT
    finalDone           \* history: the node has processed this milking's FINAL

postVars == <<post, sensorInitSent, record>>
answerVars == <<distanceFinal, finalReady, receiving>>
bufferVars == <<cmdPending, pendingCmd>>
reedVars == <<pulseCount, counting, counted>>
doneVars == <<initDone, finalDone>>
linkVars == <<postVars, answerVars, loop, bufferVars, cmd, reedVars, doneVars>>

INIT == "INIT"      \* CMD_MEASURE_INIT
FINAL == "FINAL"    \* CMD_MEASURE_FINAL

\* fresh is history: the command was sent for the bucket the post is at now.
Cmds == [cmd : {INIT, FINAL, "none"}, fresh : BOOLEAN]
NoCmd == [cmd |-> "none", fresh |-> FALSE]
NoRecord == [reason |-> "none"]
Records == [reason : {"COW_LEFT", "BUCKET_CHANGE"}, final : 0 .. ReportMax,
            measured : BOOLEAN, answered : BOOLEAN, counted : 0 .. PulseMax]

\* Types.
LinkTypeOK ==
    /\ post \in {"idle", "present", "milking", "clearing", "cleared", "waiting", "publishing"}
    /\ sensorInitSent \in BOOLEAN
    /\ distanceFinal \in 0 .. ReportMax /\ finalReady \in BOOLEAN /\ receiving \in BOOLEAN
    /\ record \in Records \cup {NoRecord}
    /\ loop \in {"asleep", "woken", "check", "taken", "copied", "done"}
    /\ cmdPending \in BOOLEAN
    /\ pendingCmd \in Cmds /\ cmd \in Cmds
    /\ pulseCount \in 0 .. PulseMax /\ counting \in BOOLEAN
    /\ counted \in 0 .. PulseMax
    /\ initDone \in BOOLEAN /\ finalDone \in BOOLEAN

\* setup() of the node starts counting before any command has come.
LinkInit ==
    /\ post = "idle" /\ sensorInitSent = FALSE
    /\ distanceFinal = 0 /\ finalReady = FALSE /\ receiving = FALSE /\ record = NoRecord
    /\ loop = "check" /\ cmdPending = FALSE /\ pendingCmd = NoCmd /\ cmd = NoCmd
    /\ pulseCount = 0 /\ counting = TRUE /\ counted = 0
    /\ initDone = FALSE /\ finalDone = FALSE

-----------------------------------------------------------------------------
(* The post *)

\* A command is received by the node, which it wakes and whose buffer it
\* overwrites, or it is lost.
Send(c) ==
    \/ /\ pendingCmd' = [cmd |-> c, fresh |-> TRUE]
       /\ cmdPending' = TRUE
       /\ loop' = IF loop = "asleep" THEN "woken" ELSE loop
    \/ UNCHANGED <<bufferVars, loop>>

\* Another bucket: what the node was told before is not about this one.
NewBucket ==
    /\ pendingCmd' = [pendingCmd EXCEPT !.fresh = FALSE]
    /\ cmd' = [cmd EXCEPT !.fresh = FALSE]
    /\ counted' = 0 /\ initDone' = FALSE /\ finalDone' = FALSE
    /\ UNCHANGED <<loop, cmdPending, pulseCount, counting>>

\* The node is not in the middle of a command, nor the callback of a receipt.
Settled == loop \notin {"taken", "copied"} /\ ~receiving

CowDetected ==
    /\ post = "idle" /\ Settled
    /\ post' = "present" /\ sensorInitSent' = FALSE
    /\ NewBucket
    /\ UNCHANGED <<answerVars, record>>

\* RFID_START_DELAY_MS after the cow or the new bucket.
RequestInit ==
    /\ post = "present" /\ ~sensorInitSent /\ Settled
    /\ Send(INIT)
    /\ sensorInitSent' = TRUE
    /\ UNCHANGED <<post, answerVars, record, cmd, reedVars, doneVars>>

StartMilking ==
    /\ post = "present" /\ sensorInitSent /\ Settled
    /\ post' = "milking"
    /\ UNCHANGED <<sensorInitSent, answerVars, record, loop, bufferVars,
                   cmd, reedVars, doneVars>>

CowGoneEarly ==
    /\ post = "present" /\ Settled
    /\ post' = "idle" /\ sensorInitSent' = FALSE
    /\ UNCHANGED <<answerVars, record, loop, bufferVars, cmd, reedVars,
                   doneVars>>

\* The flag is read at the head of the loop, so never during the wait.
ForceReset ==
    /\ post \in {"idle", "present", "milking"}
    /\ post' = "idle"
    /\ UNCHANGED <<sensorInitSent, answerVars, record, loop, bufferVars,
                   cmd, reedVars, doneVars>>

\* sendToCloud reads the final distance as it is when it formats the body.
Publish(reason) ==
    record' = [reason |-> reason, final |-> distanceFinal, measured |-> initDone,
               answered |-> finalReady, counted |-> counted]

\* A bucket change publishes without asking for the final level.
BucketChange ==
    /\ post = "milking" /\ Settled
    /\ Publish("BUCKET_CHANGE")
    /\ post' = "present" /\ sensorInitSent' = FALSE
    /\ NewBucket
    /\ UNCHANGED answerVars

\* Mutant of ClearReady: the old value is taken for an answer.
ClearNothing ==
    /\ post = "milking" /\ Settled
    /\ post' = "clearing"
    /\ UNCHANGED <<sensorInitSent, answerVars, record, loop, bufferVars,
                   cmd, reedVars, doneVars>>

\* clearFinalDistanceReady is two assignments, and the receive callback may run
\* in between.
ClearReady ==
    /\ post = "milking" /\ Settled
    /\ post' = "clearing"
    /\ finalReady' = FALSE
    /\ UNCHANGED <<sensorInitSent, distanceFinal, receiving, record, loop, bufferVars, cmd, reedVars,
                   doneVars>>

ClearValue ==
    /\ post = "clearing"
    /\ post' = "cleared"
    /\ distanceFinal' = 0
    /\ UNCHANGED <<sensorInitSent, finalReady, receiving, record, loop, bufferVars, cmd, reedVars,
                   doneVars>>

RequestFinal ==
    /\ post = "cleared"
    /\ Send(FINAL)
    /\ post' = "waiting"
    /\ UNCHANGED <<sensorInitSent, answerVars, record, cmd, reedVars,
                   doneVars>>

\* The answer is there, or SENSOR_CMD_TIMEOUT_MS has passed.
EndWait ==
    /\ post = "waiting"
    /\ finalReady \/ Settled
    /\ post' = "publishing" /\ sensorInitSent' = FALSE
    /\ UNCHANGED <<answerVars, record, loop, bufferVars, cmd, reedVars,
                   doneVars>>

PublishLeft ==
    /\ post = "publishing"
    /\ Publish("COW_LEFT")
    /\ post' = "idle"
    /\ UNCHANGED <<sensorInitSent, answerVars, loop, bufferVars, cmd,
                   reedVars, doneVars>>

\* The second assignment of the post's receive callback.
ReceiveReady ==
    /\ receiving
    /\ finalReady' = TRUE /\ receiving' = FALSE
    /\ UNCHANGED <<postVars, distanceFinal, loop, bufferVars, cmd, reedVars, doneVars>>

PostStep ==
    \/ CowDetected \/ RequestInit \/ StartMilking \/ CowGoneEarly \/ ForceReset
    \/ BucketChange \/ ClearReady \/ ClearValue \/ RequestFinal \/ EndWait \/ PublishLeft
    \/ ReceiveReady

-----------------------------------------------------------------------------
(* The node *)

\* The button, other traffic or, while it counts, the reed switch ends the sleep.
Wake ==
    /\ loop = "asleep"
    /\ loop' = "woken"
    /\ UNCHANGED <<postVars, answerVars, bufferVars, cmd, reedVars, doneVars>>

\* onWakeReed, right after the sleep: a closed switch is a pulse, unless it had
\* not been open for a second.
OnWakeReed ==
    /\ loop = "woken"
    /\ \/ /\ counting /\ pulseCount < PulseMax
          /\ pulseCount' = pulseCount + 1
          /\ counted' = IF counted < PulseMax THEN counted + 1 ELSE counted
       \/ UNCHANGED <<pulseCount, counted>>
    /\ loop' = "check"
    /\ UNCHANGED <<postVars, answerVars, bufferVars, cmd, counting, doneVars>>

\* loop() looks at s_cmdPending once and goes to sleep in the end; a command
\* that comes after that look waits for the next time the node wakes.
TakeCmd ==
    /\ loop = "check"
    /\ \/ cmdPending /\ cmdPending' = FALSE /\ loop' = "taken"
       \/ ~cmdPending /\ loop' = "done" /\ UNCHANGED cmdPending
    /\ UNCHANGED <<postVars, answerVars, pendingCmd, cmd, reedVars, doneVars>>

CopyCmd ==
    /\ loop = "taken"
    /\ cmd' = pendingCmd
    /\ loop' = "copied"
    /\ UNCHANGED <<postVars, answerVars, bufferVars, reedVars, doneVars>>

\* Mutant of StartCounting: the count goes on from the bucket before.
ResumeCounting == counting' = TRUE /\ UNCHANGED pulseCount

StartCounting == counting' = TRUE /\ pulseCount' = 0

\* The answer to INIT is a zero and changes nothing that matters at the post.
ProcessInit ==
    /\ loop = "copied" /\ cmd.cmd = INIT
    /\ StartCounting
    /\ counted' = IF cmd.fresh THEN 0 ELSE counted
    /\ initDone' = (initDone \/ cmd.fresh)
    /\ loop' = "done"
    /\ UNCHANGED <<postVars, answerVars, bufferVars, cmd, finalDone>>

\* Mutant of Reported: the conversion to 16 bits without the clamp.
ReportedUnclamped(n) == n % (ReportMax + 1)

\* What the reply carries of a count of 32 bits.
Reported(n) == IF n > ReportMax THEN ReportMax ELSE n

\* The answer to FINAL reaches the callback of the post, which stores the count,
\* or is lost.
ProcessFinal ==
    /\ loop = "copied" /\ cmd.cmd = FINAL /\ ~receiving
    /\ counting' = FALSE
    /\ \/ distanceFinal' = Reported(pulseCount) /\ receiving' = TRUE
       \/ UNCHANGED <<distanceFinal, receiving>>
    /\ finalDone' = (finalDone \/ cmd.fresh)
    /\ loop' = "done"
    /\ UNCHANGED <<postVars, finalReady, bufferVars, cmd, pulseCount, counted, initDone>>

GoToLightSleep ==
    /\ loop = "done"
    /\ loop' = "asleep"
    /\ UNCHANGED <<postVars, answerVars, bufferVars, cmd, reedVars, doneVars>>

NodeStep ==
    \/ OnWakeReed \/ TakeCmd \/ CopyCmd \/ ProcessInit \/ ProcessFinal \/ GoToLightSleep

LinkNext == PostStep \/ NodeStep \/ Wake

LinkSpec == LinkInit /\ [][LinkNext]_linkVars

-----------------------------------------------------------------------------
(* What the link promises *)

\* The count in the record of a milking holds no pulse of another bucket,
\* provided the node got to process this bucket's INIT: whatever was lost or
\* late before, and also when the answer comes after the time-out.
OwnPulses ==
    record.reason = "COW_LEFT" /\ record.measured => record.final <= record.counted

\* A record whose bucket the node was told of and whose wait was answered holds
\* all pulses since that INIT, as many as its sixteen bits can say: none is lost
\* to a late command, to a count that went on, or to the width of the reply.
CountIsWhole ==
    record.reason = "COW_LEFT" /\ record.measured /\ record.answered
      => record.final >= record.counted \/ record.final = ReportMax

\* Under the same condition the wait for the final count is ended by the answer
\* to this request, never by a late answer to an earlier one.
AnsweredByThisRequest ==
    post \in {"waiting", "publishing"} /\ finalReady /\ initDone => finalDone
=============================================================================
