------------------------------ MODULE RfidReader ------------------------------
(***************************************************************************)
(* The background task of the CF-MU910 RFID reader of a milkwarden post    *)
(* (devices/cfmu910/cfmu910.cpp, lines 316-463) and the calls that other   *)
(* tasks make on it.  Every block the code runs with s_mutex held is one   *)
(* operator here; the three-second scan itself runs with the mutex free.   *)
(*                                                                         *)
(* This module has no specification of its own: RfidBatch composes the     *)
(* task with an arbitrary caller, SessionTask with the session task and    *)
(* the Telnet console.                                                     *)
(***************************************************************************)
EXTENDS Integers, Sequences

CONSTANTS
    Tags,               \* the EPCs in range of the antenna
    NoTag,              \* an empty EPC string; the outcome of a scan without a tag
    RFID_SCAN_COUNT,    \* scans of a batch (10)
    RFID_FREQ_SLOTS,    \* distinct EPCs a batch can count (8)
    UINT8,              \* values of a uint8_t counter (256)
    PauseMayTimeOut     \* rfidTaskPause may give up before the scan has ended

ASSUME TagsAssumption == NoTag \notin Tags
ASSUME BatchAssumption ==
    /\ RFID_SCAN_COUNT \in Nat \ {0}
    /\ RFID_FREQ_SLOTS \in Nat \ {0}
    /\ UINT8 \in Nat /\ UINT8 > RFID_SCAN_COUNT
    /\ PauseMayTimeOut \in BOOLEAN

VARIABLES
    paused,         \* s_paused
    scanning,       \* s_scanning: cfmu910Scan is running in the background task
    confirmed,      \* s_confirmed
    batchDone,      \* s_batchDone
    confirmedEpc,   \* s_confirmedEpc, NoTag when empty
    freq,           \* s_freq[0 .. s_freqSlots-1], without the RSSI
    scansDone,      \* s_scansDone
    stale,          \* history: the running scan began before the last reset
    tainted         \* history: a stale scan was counted since the last reset

rfidVars == <<paused, scanning, confirmed, batchDone, confirmedEpc, freq,
              scansDone, stale, tainted>>

Slot == [epc : Tags, cnt : 0 .. UINT8 - 1]

RfidTypeOK ==
    /\ paused \in BOOLEAN /\ scanning \in BOOLEAN
    /\ confirmed \in BOOLEAN /\ batchDone \in BOOLEAN
    /\ confirmedEpc \in Tags \cup {NoTag}
    /\ freq \in Seq(Slot) /\ Len(freq) <= RFID_FREQ_SLOTS
    /\ scansDone \in 0 .. UINT8 - 1
    /\ stale \in BOOLEAN /\ tainted \in BOOLEAN

RfidInit ==
    /\ paused = TRUE /\ scanning = FALSE
    /\ confirmed = FALSE /\ batchDone = FALSE /\ confirmedEpc = NoTag
    /\ freq = <<>> /\ scansDone = 0
    /\ stale = FALSE /\ tainted = FALSE

-----------------------------------------------------------------------------
(* The background task *)

\* The slot table after a scan that returned t: a known EPC is counted, a new
\* one takes a free slot, and is not counted at all when no slot is left.
Counted(f, t) ==
    IF t = NoTag THEN f
    ELSE IF \E i \in DOMAIN f : f[i].epc = t
         THEN [i \in DOMAIN f |->
                 IF f[i].epc = t THEN [f[i] EXCEPT !.cnt = (@ + 1) % UINT8] ELSE f[i]]
    ELSE IF Len(f) < RFID_FREQ_SLOTS THEN Append(f, [epc |-> t, cnt |-> 1])
    ELSE f

\* The index the code calls best: the first slot with the largest count.
Best(f) ==
    CHOOSE i \in DOMAIN f :
        /\ \A j \in DOMAIN f : f[j].cnt <= f[i].cnt
        /\ \A j \in DOMAIN f : j < i => f[j].cnt < f[i].cnt

\* s_paused is read and s_scanning claimed in one critical section.
ScanBegin ==
    /\ ~scanning /\ ~paused
    /\ scanning' = TRUE /\ stale' = FALSE
    /\ UNCHANGED <<paused, confirmed, batchDone, confirmedEpc, freq, scansDone, tainted>>

\* Mutant of BatchOver: a later scan re-evaluates a confirmed batch.
BatchOverAgain(done) == done >= RFID_SCAN_COUNT

\* The batch is evaluated after every scan from the tenth until one confirms.
BatchOver(done) == ~confirmed /\ done >= RFID_SCAN_COUNT

\* Mutant of Verdict: a batch without a tag does not pause the task.
VerdictKeepsScanning(f) ==
    /\ confirmed' = (f # <<>>)
    /\ confirmedEpc' = IF f # <<>> THEN f[Best(f)].epc ELSE confirmedEpc
    /\ batchDone' = TRUE
    /\ paused' = (f # <<>>)

\* The most frequent tag is confirmed if there is one; the task pauses itself.
Verdict(f) ==
    /\ confirmed' = (f # <<>>)
    /\ confirmedEpc' = IF f # <<>> THEN f[Best(f)].epc ELSE confirmedEpc
    /\ batchDone' = TRUE
    /\ paused' = TRUE

\* cfmu910Scan has returned t (the strongest tag of three seconds, or none):
\* counting, evaluation and the release of s_scanning are one critical section.
ScanEnd(t) ==
    /\ scanning
    /\ freq' = Counted(freq, t)
    /\ scansDone' = (scansDone + 1) % UINT8
    /\ \/ BatchOver(scansDone') /\ Verdict(freq')
       \/ ~BatchOver(scansDone') /\ UNCHANGED <<confirmed, confirmedEpc, batchDone, paused>>
    /\ scanning' = FALSE
    /\ stale' = FALSE
    /\ tainted' = (tainted \/ stale)

-----------------------------------------------------------------------------
(* Calls made by other tasks *)

\* resetRfidConfirmation: a running scan is not stopped, and will be counted.
ResetConfirmation ==
    /\ confirmed' = FALSE /\ batchDone' = FALSE /\ confirmedEpc' = NoTag
    /\ scansDone' = 0 /\ freq' = <<>>
    /\ stale' = scanning /\ tainted' = FALSE
    /\ UNCHANGED <<paused, scanning>>

\* The first critical section of rfidTaskPause.
SetPaused ==
    /\ paused' = TRUE
    /\ UNCHANGED <<scanning, confirmed, batchDone, confirmedEpc, freq, scansDone,
                   stale, tainted>>

\* Mutant of PauseReturns: rfidTaskPause does not wait for the running scan.
PauseReturnsAtOnce == TRUE

\* The polling loop of rfidTaskPause ends: the running scan has finished.  A
\* scan takes a little over three seconds and the loop gives up after four, so
\* it gives up first only if the scan is starved of CPU time, or if its absolute
\* deadline overflows: then it does not wait at all.
PauseReturns == ~scanning \/ PauseMayTimeOut

\* rfidTaskResume
Resume ==
    /\ paused' = FALSE
    /\ UNCHANGED <<scanning, confirmed, batchDone, confirmedEpc, freq, scansDone,
                   stale, tainted>>

\* Mutant of ResultReady: the caller waits for a tag and ignores an empty batch.
ResultReadyWithTag == confirmed

\* What getRfidResult reads in its critical section.
ResultReady == confirmed \/ batchDone
=============================================================================
