------------------------------- MODULE RfidBatch -------------------------------
(***************************************************************************)
(* The RFID background task with one caller that resets, pauses and        *)
(* resumes it at any time, in any order: what a batch of scans promises    *)
(* whatever its caller does.                                               *)
(***************************************************************************)
EXTENDS RfidReader, FiniteSets

VARIABLES
    caller,     \* "free", "pausing" (in the loop of rfidTaskPause) or "quiet"
    reads,      \* history: how often each tag was read since the last reset
    scanned     \* history: scans since the last reset, saturating

batchVars == <<rfidVars, caller, reads, scanned>>

NoReads == [t \in Tags |-> 0]

\* A whole batch is over after RFID_SCAN_COUNT scans; later ones (a caller that
\* resumes a finished batch) are counted up to this bound only.
ReadCap == RFID_SCAN_COUNT + 1
UpTo(cap, n) == IF n > cap THEN cap ELSE n

\* Types; the table does not outgrow its slots and its counters stay within eight
\* bits, however often a finished batch is resumed.
BatchTypeOK ==
    /\ RfidTypeOK
    /\ caller \in {"free", "pausing", "quiet"}
    /\ reads \in [Tags -> 0 .. ReadCap]
    /\ scanned \in 0 .. ReadCap

BatchInit == RfidInit /\ caller = "quiet" /\ reads = NoReads /\ scanned = 0

BgBegin == ScanBegin /\ UNCHANGED <<caller, reads, scanned>>

BgEnd ==
    \E t \in Tags \cup {NoTag} :
        /\ ScanEnd(t)
        /\ scanned' = UpTo(ReadCap, scanned + 1)
        /\ reads' = IF t = NoTag THEN reads
                    ELSE [reads EXCEPT ![t] = UpTo(ReadCap, @ + 1)]
        /\ UNCHANGED caller

CallReset ==
    /\ caller # "pausing"
    /\ ResetConfirmation
    /\ reads' = NoReads /\ scanned' = 0
    /\ UNCHANGED caller

CallPause ==
    /\ caller = "free"
    /\ SetPaused
    /\ caller' = "pausing"
    /\ UNCHANGED <<reads, scanned>>

PauseDone ==
    /\ caller = "pausing" /\ PauseReturns
    /\ caller' = "quiet"
    /\ UNCHANGED <<rfidVars, reads, scanned>>

CallResume ==
    /\ caller # "pausing"
    /\ Resume
    /\ caller' = "free"
    /\ UNCHANGED <<reads, scanned>>

BatchNext == BgBegin \/ BgEnd \/ CallReset \/ CallPause \/ PauseDone \/ CallResume

BatchSpec == BatchInit /\ [][BatchNext]_batchVars

\* The task loops for ever and a scan ends at its deadline, so both of its
\* steps are fair; the caller's loop polls every 10 ms, so its return is fair.
FairBatchSpec ==
    /\ BatchSpec
    /\ WF_batchVars(BgBegin) /\ WF_batchVars(BgEnd) /\ WF_batchVars(PauseDone)

-----------------------------------------------------------------------------
(* What a batch promises *)

\* Once rfidTaskPause has returned the UART is free: the background task is not
\* scanning and will not start to (cfmu910.cpp:442 and :447).
PauseQuiesces == caller = "quiet" => paused /\ ~scanning

\* The tag a batch confirms is one that no other tag was read more often than
\* ("most-frequent tag wins", config.h:37), whatever the order of the reads.  It
\* holds with a slot for every tag in range and not without: a tag that finds the
\* table full is not counted, however often it is read (cfmu910.cpp:357).
MostFrequentWins ==
    [][confirmed' /\ ~confirmed =>
         /\ reads'[confirmedEpc'] > 0
         /\ \A t \in Tags : reads'[t] <= reads'[confirmedEpc']]_batchVars

\* A finished batch never loses a counted tag: it has a tag to report exactly
\* when one holds a slot, also after the caller resumes a batch that had none.
BatchVerdict ==
    batchDone /\ scansDone >= RFID_SCAN_COUNT => (confirmed <=> freq # <<>>)

\* A confirmed result is final: scans that a caller resumes after the batch
\* neither replace the tag nor withdraw it; only a reset does.
ResultIsFinal ==
    [][confirmed => \/ confirmed' /\ confirmedEpc' = confirmedEpc
                    \/ ~confirmed' /\ scansDone' = 0 /\ freq' = <<>>]_batchVars

\* A batch the caller neither pauses nor resets comes to its end by itself: the
\* task pauses itself after RFID_SCAN_COUNT scans, with or without a tag.
BatchEnds == ~paused /\ ~confirmed ~> paused \/ scanned = 0
=============================================================================
