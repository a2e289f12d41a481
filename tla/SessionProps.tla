----------------------------- MODULE SessionProps -----------------------------
(* What the session task promises: the properties the runs check and the      *)
(* module SessionProofs proves.                                               *)
EXTENDS SessionTask

-----------------------------------------------------------------------------
(* Records *)

\* The visit as the abstract specification sees it.  A milking is over as soon
\* as its record is published, some steps before the task changes its state.
Phase ==
    CASE state = IDLE -> "empty"
      [] state = COW_PRESENT -> "present"
      [] state = MILKING ->
           IF pc = "bucketReset" THEN "present"
           ELSE IF pc \in {"endPause", "endWait", "endIdle"} THEN "empty"
           ELSE "milking"

Milking == IF Phase = "milking" THEN [rfid |-> rfid, wInitial |-> wInitial] ELSE None

SprayPhase ==
    IF Phase = "empty" THEN "none"
    ELSE IF valveOpen THEN "on"
    ELSE IF valveArmed THEN "due" ELSE "done"

Post == INSTANCE MilkingPost
          WITH phase <- Phase, milking <- Milking, record <- out, spray <- SprayPhase,
               asked <- forceReset

\* The session task implements MilkingPost whatever the RFID task and the
\* console do: no milking ends without its one record, with the tag and the
\* start weight it began with, unless a "session reset" typed for it gave it up,
\* and a visit has at most one spray, also when a bucket is changed in it.
PostImplemented == Post!PostSpec

\* A log of the bucket that weighed w at the start: every entry differs from
\* the one before it by the deduplication threshold.
IsLogOf(log, w) ==
    /\ log # <<>>
    /\ log[1] = Grams(w)
    /\ \A i \in 2 .. Len(log) :
          \/ log[i] - log[i - 1] >= WEIGHT_LOG_DEDUP_G
          \/ log[i - 1] - log[i] >= WEIGHT_LOG_DEDUP_G

\* The weight log that goes out with a record belongs to that bucket: it is
\* started afresh and never mixed with the bucket before it, whatever ended that
\* one (session.cpp:243 and :264).
LogOfThisBucket == Phase = "milking" => IsLogOf(weightLog, wInitial)

-----------------------------------------------------------------------------
(* RFID *)

\* The reader is only at work for a cow that is waiting to be identified: a scan
\* runs, or may start, only between the RFID start of a visit and the end of
\* its batch, or while a forced reset is still waiting for that scan to end.
RfidQuiet ==
    scanning \/ ~paused =>
        \/ state = COW_PRESENT /\ rfidStarted
        \/ pc \in {"resetPause", "resetWait"}

\* A milking is attributed by scans of its own batch only: no scan that was
\* already running at the last resetRfidConfirmation, perhaps for the cow
\* before, was counted (session.cpp:140 and :180 reset without stopping scans).
OwnTag == state = MILKING => ~tainted

\* A tag is shown by snapshots and by the console only for a cow being milked,
\* never left over on an idle post or after a bucket change.
TagOnlyWhileMilking == info.rfid # NoTag => info.state = MILKING

\* Every bucket is measured exactly once before its milking starts, also for
\* the visit after a forced reset, which leaves sensorInitSent as it was.
InitOncePerBucket == state = MILKING => initSends = 1

\* The UART of the reader has one user at a time: rfidTaskPause is what keeps
\* the background task from starting a scan (cfmu910.cpp:442).
UartExclusive == ~(scanning /\ cli = "uart")

-----------------------------------------------------------------------------
(* The spray *)

\* The valve is open only during a visit, and only while the task knows it is
\* and will close it; without "valve open" there is no other way to open it.
PinOnlyInVisit == pin => valveOpen /\ state # IDLE

\* How long the task may be blocked between the sample whose time it stores and
\* a step that closes the valve.
CloseLag == IF PAUSE_MAX > POST_MAX THEN PAUSE_MAX ELSE POST_MAX

\* The cow is sprayed no longer than the configured duration and the two waits
\* that can keep the task from looking: the rest of the iteration that missed
\* the end of the spray, and the call that blocks the next one before it closes.
SprayBounded ==
    openFor <= VALVE_OPEN_DURATION + SNAPSHOT_INTERVAL - 1 + PAUSE_MAX + CloseLag

\* Two sprays are at least the cooldown apart, less the time for which the task
\* was blocked when it closed the valve: it stores the time of its last sample.
CooldownHeld ==
    [][~valveOpen /\ valveOpen' => closedFor >= VALVE_COOLDOWN - CloseLag]_vars

-----------------------------------------------------------------------------
(* Progress *)

\* A forced reset is honoured, whatever the task was doing when it was asked.
ResetHonoured == forceReset ~> state = IDLE /\ ~pin

\* A spray comes to an end, whatever the beam, the reader and the network do.
SprayEnds == pin ~> ~pin

\* A cow that was detected is milked or leaves; the reader cannot keep a visit
\* waiting for ever, with or without a tag.
VisitProceeds == state = COW_PRESENT ~> state # COW_PRESENT
=============================================================================
