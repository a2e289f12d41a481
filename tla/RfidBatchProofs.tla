---------------------------- MODULE RfidBatchProofs ----------------------------
(* What a batch of scans promises whatever its caller does, proved for all     *)
(* tags, batch lengths, table sizes and counter widths.                        *)
EXTENDS RfidBatch, FiniteSetTheorems, RfidReaderProofs

\* The history of reads keeps its type through a scan that returned t.
LEMMA HistoryTyped ==
    ASSUME BatchTypeOK, NEW t \in Tags \cup {NoTag}
    PROVE  /\ UpTo(ReadCap, scanned + 1) \in 0 .. ReadCap
           /\ t # NoTag => [reads EXCEPT ![t] = UpTo(ReadCap, @ + 1)] \in [Tags -> 0 .. ReadCap]
<1>1. ReadCap \in Nat
    BY BatchAssumption DEF ReadCap
<1>2. \A n \in 0 .. ReadCap : UpTo(ReadCap, n + 1) \in 0 .. ReadCap
    BY <1>1 DEF UpTo
<1>3. scanned \in 0 .. ReadCap /\ reads \in [Tags -> 0 .. ReadCap]
    BY DEF BatchTypeOK
<1>4. t # NoTag => [reads EXCEPT ![t] = UpTo(ReadCap, @ + 1)] \in [Tags -> 0 .. ReadCap]
    BY <1>2, <1>3
<1> QED BY <1>2, <1>3, <1>4

BatchTyped == BatchTypeOK /\ RfidInv

\* A batch in its initial state is well formed.
LEMMA BatchInitTyped == BatchInit => BatchTyped
<1> SUFFICES ASSUME BatchInit PROVE BatchTyped
    OBVIOUS
<1>1. RfidInv
    BY RfidInitInv DEF BatchInit
<1>2. 0 \in 0 .. ReadCap
    BY BatchAssumption DEF ReadCap
<1>3. NoReads \in [Tags -> 0 .. ReadCap]
    BY <1>2 DEF NoReads
<1> QED BY <1>1, <1>2, <1>3 DEF BatchInit, BatchTyped, BatchTypeOK, RfidInv

\* Every step of the task and of its caller keeps the batch well formed.
LEMMA BatchStepTyped == BatchTyped /\ [BatchNext]_batchVars => BatchTyped'
<1> SUFFICES ASSUME BatchTyped, [BatchNext]_batchVars PROVE BatchTyped'
    OBVIOUS
<1> USE DEF BatchTyped
<1>0. RfidInv' => RfidTypeOK'
    BY DEF RfidInv
<1>1. CASE BgBegin
    BY <1>0, <1>1, ScanBeginInv DEF BgBegin, BatchTypeOK
<1>2. CASE BgEnd
    <2>1. PICK t \in Tags \cup {NoTag} :
              /\ ScanEnd(t)
              /\ scanned' = UpTo(ReadCap, scanned + 1)
              /\ reads' = IF t = NoTag THEN reads
                          ELSE [reads EXCEPT ![t] = UpTo(ReadCap, @ + 1)]
              /\ caller' = caller
        BY <1>2 DEF BgEnd
    <2>2. RfidInv'
        BY <2>1, ScanEndInv
    <2>3. scanned' \in 0 .. ReadCap /\ reads' \in [Tags -> 0 .. ReadCap]
        BY <2>1, HistoryTyped DEF BatchTypeOK
    <2> QED BY <1>0, <2>1, <2>2, <2>3 DEF BatchTypeOK
<1>3. CASE CallReset
    <2>1. 0 \in 0 .. ReadCap
        BY BatchAssumption DEF ReadCap
    <2>2. NoReads \in [Tags -> 0 .. ReadCap]
        BY <2>1 DEF NoReads
    <2> QED BY <1>0, <1>3, <2>1, <2>2, ResetConfirmationInv DEF CallReset, BatchTypeOK
<1>4. CASE CallPause
    BY <1>0, <1>4, SetPausedInv DEF CallPause, BatchTypeOK
<1>5. CASE PauseDone
    BY <1>0, <1>5, RfidUnchangedInv DEF PauseDone, BatchTypeOK
<1>6. CASE CallResume
    BY <1>0, <1>6, ResumeInv DEF CallResume, BatchTypeOK
<1>7. CASE UNCHANGED batchVars
    BY <1>0, <1>7, RfidUnchangedInv DEF batchVars, BatchTypeOK
<1> QED BY <1>1, <1>2, <1>3, <1>4, <1>5, <1>6, <1>7 DEF BatchNext

\* The table, the counters and the result of a batch keep their types and
\* bounds, however often its caller resumes a finished batch.
THEOREM BatchTypeCorrect == BatchSpec => []BatchTypeOK
<1>1. BatchTyped => BatchTypeOK
    BY DEF BatchTyped
<1> QED BY <1>1, BatchInitTyped, BatchStepTyped, PTL DEF BatchSpec

-----------------------------------------------------------------------------
(* The pause *)

\* PauseQuiesces, strengthened by what rfidTaskPause relies on while it polls:
\* the flag it has set stays set.
Quiescing == PauseQuiesces /\ (caller = "pausing" => paused)

\* If its loop does not give up before the scan has ended, rfidTaskPause returns
\* only when the background task is not scanning, and it will not scan until it
\* is resumed: the check of s_paused and the claim of s_scanning are one
\* critical section.
THEOREM PauseWorks == ~PauseMayTimeOut /\ BatchSpec => []PauseQuiesces
<1> SUFFICES ASSUME ~PauseMayTimeOut PROVE BatchSpec => []PauseQuiesces
    OBVIOUS
<1>1. BatchInit => Quiescing
    BY DEF BatchInit, RfidInit, Quiescing, PauseQuiesces
<1>2. ASSUME Quiescing, [BatchNext]_batchVars
      PROVE  Quiescing'
    <2> USE <1>2 DEF Quiescing, PauseQuiesces
    <2>1. CASE BgBegin
        BY <2>1 DEF BgBegin, ScanBegin
    <2>2. CASE BgEnd
        BY <2>2 DEF BgEnd, ScanEnd, Verdict
    <2>3. CASE CallReset
        BY <2>3 DEF CallReset, ResetConfirmation
    <2>4. CASE CallPause
        BY <2>4 DEF CallPause, SetPaused
    <2>5. CASE PauseDone
        BY <2>5 DEF PauseDone, PauseReturns, rfidVars
    <2>6. CASE CallResume
        BY <2>6 DEF CallResume, Resume
    <2>7. CASE UNCHANGED batchVars
        BY <2>7 DEF batchVars, rfidVars
    <2> QED BY <2>1, <2>2, <2>3, <2>4, <2>5, <2>6, <2>7 DEF BatchNext
<1>3. Quiescing => PauseQuiesces
    BY DEF Quiescing
<1> QED BY <1>1, <1>2, <1>3, PTL DEF BatchSpec

-----------------------------------------------------------------------------
(* The verdict *)

\* A scan never removes a tag from the table.
LEMMA CountedKeeps ==
    ASSUME NEW f \in Seq(Slot), f # <<>>, NEW t
    PROVE  Counted(f, t) # <<>>
<1>1. Len(f) \in Nat /\ Len(f) > 0 /\ DOMAIN f = 1 .. Len(f)
    BY SlotFields, EmptySeq
<1> DEFINE h == [i \in DOMAIN f |->
                 IF f[i].epc = t THEN [f[i] EXCEPT !.cnt = (@ + 1) % UINT8] ELSE f[i]]
<1>2. 1 \in DOMAIN f /\ DOMAIN h = DOMAIN f
    BY <1>1
<1>3. h # <<>>
    BY <1>2
<1>4. Append(f, [epc |-> t, cnt |-> 1]) # <<>>
    BY <1>1
<1> QED BY <1>3, <1>4 DEF Counted

\* BatchVerdict, strengthened by what holds between two batches: a result has a
\* slot, also when the eight-bit scan counter has wrapped.
VerdictState == BatchVerdict /\ (confirmed => freq # <<>>)

\* A finished batch has confirmed a tag exactly when it has counted one.
THEOREM VerdictKept == BatchSpec => []BatchVerdict
<1>1. BatchInit => VerdictState
    BY DEF BatchInit, RfidInit, VerdictState, BatchVerdict
<1>2. ASSUME BatchTyped, VerdictState, [BatchNext]_batchVars
      PROVE  VerdictState'
    <2> USE <1>2 DEF VerdictState, BatchVerdict
    <2>1. CASE BgBegin
        BY <2>1 DEF BgBegin, ScanBegin
    <2>2. CASE BgEnd
        <3>1. PICK t \in Tags \cup {NoTag} : ScanEnd(t)
            BY <2>2 DEF BgEnd
        <3>2. CASE Verdict(freq')
            BY <3>2 DEF Verdict
        <3>3. CASE ~BatchOver(scansDone') /\ UNCHANGED <<confirmed, batchDone>>
            <4>1. confirmed => freq' # <<>>
                BY <3>1, CountedKeeps DEF ScanEnd, BatchTyped, BatchTypeOK, RfidTypeOK
            <4>2. confirmed \/ ~(scansDone' >= RFID_SCAN_COUNT)
                BY <3>3 DEF BatchOver
            <4> QED BY <3>3, <4>1, <4>2
        <3> QED BY <3>1, <3>2, <3>3 DEF ScanEnd
    <2>3. CASE CallReset
        BY <2>3 DEF CallReset, ResetConfirmation
    <2>4. CASE CallPause
        BY <2>4 DEF CallPause, SetPaused
    <2>5. CASE PauseDone
        BY <2>5 DEF PauseDone, rfidVars
    <2>6. CASE CallResume
        BY <2>6 DEF CallResume, Resume
    <2>7. CASE UNCHANGED batchVars
        BY <2>7 DEF batchVars, rfidVars
    <2> QED BY <2>1, <2>2, <2>3, <2>4, <2>5, <2>6, <2>7 DEF BatchNext
<1>3. VerdictState => BatchVerdict
    BY DEF VerdictState
<1> QED BY <1>1, <1>2, <1>3, BatchInitTyped, BatchStepTyped, PTL DEF BatchSpec

\* A confirmed tag stays until a reset: later scans, which a caller that resumes
\* a finished batch causes, neither replace nor withdraw it.
THEOREM ConfirmedIsFinal == BatchSpec => ResultIsFinal
<1>1. ASSUME [BatchNext]_batchVars, confirmed
      PROVE  \/ confirmed' /\ confirmedEpc' = confirmedEpc
             \/ ~confirmed' /\ scansDone' = 0 /\ freq' = <<>>
    <2>1. CASE BgBegin
        BY <1>1, <2>1 DEF BgBegin, ScanBegin
    <2>2. CASE BgEnd
        BY <1>1, <2>2 DEF BgEnd, ScanEnd, BatchOver
    <2>3. CASE CallReset
        BY <2>3 DEF CallReset, ResetConfirmation
    <2>4. CASE CallPause \/ CallResume
        BY <1>1, <2>4 DEF CallPause, CallResume, SetPaused, Resume
    <2>5. CASE PauseDone \/ UNCHANGED batchVars
        BY <1>1, <2>5 DEF PauseDone, batchVars, rfidVars
    <2> QED BY <1>1, <2>1, <2>2, <2>3, <2>4, <2>5 DEF BatchNext
<1> QED BY <1>1, PTL DEF BatchSpec, ResultIsFinal
-----------------------------------------------------------------------------
(* The most frequent tag *)

\* A slot for every tag in range, and an eight-bit counter that a batch, with the one scan that
\* may be counted as the scan counter wraps, cannot wrap.
Roomy == /\ IsFiniteSet(Tags) /\ Cardinality(Tags) <= RFID_FREQ_SLOTS
         /\ UINT8 > RFID_SCAN_COUNT + 1

NoSlot(f, t) == \A i \in DOMAIN f : f[i].epc # t

\* A table in which a tag has no slot has a slot left: the tags in it are distinct, and there
\* are no more tags than slots (cfmu910.cpp 357-369).
LEMMA SlotLeft ==
    ASSUME Roomy, NEW f \in Seq(Slot), Distinct(f), NEW t \in Tags, NoSlot(f, t)
    PROVE  Len(f) < RFID_FREQ_SLOTS
<1>1. Len(f) \in Nat /\ DOMAIN f = 1 .. Len(f) /\ RFID_FREQ_SLOTS \in Nat
    BY SlotFields, BatchAssumption
<1>2. SUFFICES ASSUME Len(f) >= RFID_FREQ_SLOTS PROVE FALSE
    BY <1>1
<1> DEFINE Rest == Tags \ {t}
           tagOf == [i \in 1 .. Len(f) |-> f[i].epc]
<1>3. IsFiniteSet(Rest) /\ Cardinality(Rest) = Cardinality(Tags) - 1 /\ Cardinality(Tags) \in Nat
    BY FS_RemoveElement, FS_CardinalityType DEF Roomy
<1>4. IsFiniteSet(1 .. Len(f)) /\ Cardinality(1 .. Len(f)) = Len(f)
    BY <1>1, FS_Interval
<1>5. tagOf \in [1 .. Len(f) -> Rest]
    BY <1>1, SlotFields DEF NoSlot
<1>6. Cardinality(Rest) < Cardinality(1 .. Len(f))
    BY <1>1, <1>2, <1>3, <1>4 DEF Roomy
<1> HIDE DEF Rest, tagOf
<1>7. \E x, y \in 1 .. Len(f) : x # y /\ tagOf[x] = tagOf[y]
    BY <1>3, <1>4, <1>5, <1>6, FS_PigeonHole
<1> QED BY <1>1, <1>7 DEF Distinct, tagOf

LEMMA SmallMod == ASSUME NEW a \in Nat, NEW b \in Nat, a < b PROVE a % b = a
    OBVIOUS

\* The table counts what was read.
Tallied(f, r) == /\ \A i \in DOMAIN f : f[i].cnt = r[f[i].epc] /\ f[i].cnt > 0
                 /\ \A t \in Tags : NoSlot(f, t) => r[t] = 0

\* A scan that read t is counted in the table as it is in the history, if no counter is at its
\* limit (cfmu910.cpp 351-369).
LEMMA TalliedScan ==
    ASSUME Roomy, NEW f \in Seq(Slot), Distinct(f), NEW r \in [Tags -> Nat], Tallied(f, r),
           NEW t \in Tags, r[t] + 1 < UINT8
    PROVE  Tallied(Counted(f, t), [r EXCEPT ![t] = @ + 1])
<1> DEFINE r2 == [r EXCEPT ![t] = @ + 1]
<1>1. /\ Len(f) \in Nat /\ DOMAIN f = 1 .. Len(f) /\ UINT8 \in Nat /\ t # NoTag
      /\ \A i \in DOMAIN f : f[i] \in Slot /\ f[i].epc \in Tags /\ f[i].cnt \in Nat
    BY SlotFields, BatchAssumption, TagsAssumption
<1>2. CASE \E i \in DOMAIN f : f[i].epc = t
    <2> DEFINE h == [i \in DOMAIN f |->
                 IF f[i].epc = t THEN [f[i] EXCEPT !.cnt = (@ + 1) % UINT8] ELSE f[i]]
    <2>1. Counted(f, t) = h
        BY <1>1, <1>2 DEF Counted
    <2>2. DOMAIN h = DOMAIN f /\ \A i \in DOMAIN f : h[i].epc = f[i].epc
        BY <1>1 DEF Slot
    <2>3. ASSUME NEW i \in DOMAIN f PROVE h[i].cnt = r2[f[i].epc] /\ h[i].cnt > 0
        <3>1. CASE f[i].epc = t
            <4>1. f[i].cnt = r[t] /\ h[i].cnt = (f[i].cnt + 1) % UINT8
                BY <1>1, <3>1 DEF Tallied, Slot
            <4>2. (r[t] + 1) % UINT8 = r[t] + 1
                BY <1>1, SmallMod
            <4> QED BY <1>1, <3>1, <4>1, <4>2
        <3>2. CASE f[i].epc # t
            BY <1>1, <3>2 DEF Tallied
        <3> QED BY <3>1, <3>2
    <2>4. ASSUME NEW u \in Tags, NoSlot(h, u) PROVE r2[u] = 0
        <3>1. NoSlot(f, u) /\ u # t
            BY <1>2, <2>2, <2>4 DEF NoSlot
        <3> QED BY <3>1 DEF Tallied
    <2> HIDE DEF h
    <2> QED BY <2>1, <2>2, <2>3, <2>4 DEF Tallied
<1>3. CASE NoSlot(f, t)
    <2> DEFINE h == Append(f, [epc |-> t, cnt |-> 1])
    <2>1. Counted(f, t) = h
        BY <1>1, <1>3, SlotLeft DEF Counted, NoSlot
    <2>2. /\ Len(h) = Len(f) + 1 /\ DOMAIN h = 1 .. Len(f) + 1
          /\ \A i \in DOMAIN f : h[i] = f[i]
          /\ h[Len(f) + 1] = [epc |-> t, cnt |-> 1]
        BY <1>1, AppendProperties
    <2>3. r[t] = 0
        BY <1>3 DEF Tallied
    <2> HIDE DEF h
    <2>4. ASSUME NEW i \in DOMAIN h PROVE h[i].cnt = r2[h[i].epc] /\ h[i].cnt > 0
        <3>1. CASE i \in DOMAIN f
            BY <1>1, <1>3, <2>2, <3>1 DEF Tallied, NoSlot
        <3>2. CASE i = Len(f) + 1
            BY <2>2, <2>3, <3>2
        <3> QED BY <1>1, <2>2, <3>1, <3>2
    <2>5. ASSUME NEW u \in Tags, NoSlot(h, u) PROVE r2[u] = 0
        <3>1. Len(f) + 1 \in DOMAIN h /\ h[Len(f) + 1].epc = t
            BY <1>1, <2>2
        <3>2. u # t
            BY <2>5, <3>1 DEF NoSlot
        <3>3. NoSlot(f, u)
            BY <1>1, <2>2, <2>5 DEF NoSlot
        <3> QED BY <3>2, <3>3 DEF Tallied
    <2> QED BY <2>1, <2>4, <2>5 DEF Tallied
<1> QED BY <1>2, <1>3 DEF NoSlot

\* As long as no tag is confirmed the table counts what was read since the reset, a tag is not
\* read more often than there were scans, but for one scan at the wrap of the scan counter, and
\* a batch that is over has counted nothing.
Tally ==
    ~confirmed =>
        /\ Tallied(freq, reads)
        /\ \A t \in Tags : reads[t] <= scansDone + 1
        /\ scansDone >= RFID_SCAN_COUNT => freq = <<>>

\* No tag of an unconfirmed batch has been read more than RFID_SCAN_COUNT times.
LEMMA FewReads ==
    ASSUME BatchTyped, Tally, ~confirmed, NEW t \in Tags
    PROVE  reads[t] \in 0 .. RFID_SCAN_COUNT
<1>1. reads[t] \in Nat /\ RFID_SCAN_COUNT \in Nat /\ scansDone \in Nat
    BY BatchAssumption DEF BatchTyped, BatchTypeOK, RfidTypeOK, ReadCap
<1>2. CASE scansDone >= RFID_SCAN_COUNT
    <2>1. NoSlot(freq, t)
        BY <1>2 DEF Tally, NoSlot
    <2> QED BY <1>1, <2>1 DEF Tally, Tallied
<1>3. CASE scansDone < RFID_SCAN_COUNT
    BY <1>1, <1>3 DEF Tally
<1> QED BY <1>1, <1>2, <1>3

\* A scan that ends while nothing is confirmed leaves a table that counts what was read.
LEMMA TalliedEnd ==
    ASSUME Roomy, BatchTyped, Tally, ~confirmed, NEW t \in Tags \cup {NoTag}, ScanEnd(t),
           reads' = IF t = NoTag THEN reads
                    ELSE [reads EXCEPT ![t] = UpTo(ReadCap, @ + 1)]
    PROVE  /\ Tallied(freq', reads')
           /\ t # NoTag => reads' = [reads EXCEPT ![t] = @ + 1]
<1>1. CASE t = NoTag
    BY <1>1 DEF ScanEnd, Counted, Tally
<1>2. CASE t # NoTag
    <2>1. t \in Tags /\ reads[t] \in 0 .. RFID_SCAN_COUNT
        BY <1>2, FewReads
    <2>2. UpTo(ReadCap, reads[t] + 1) = reads[t] + 1 /\ reads[t] + 1 < UINT8
        BY <2>1, BatchAssumption DEF UpTo, ReadCap, Roomy
    <2>3. reads \in [Tags -> Nat] /\ freq \in Seq(Slot) /\ Distinct(freq)
        BY BatchAssumption DEF BatchTyped, BatchTypeOK, RfidInv, RfidTypeOK, ReadCap
    <2>4. reads' = [reads EXCEPT ![t] = @ + 1]
        BY <1>2, <2>1, <2>2, <2>3
    <2>5. Tallied(Counted(freq, t), [reads EXCEPT ![t] = @ + 1])
        BY <2>1, <2>2, <2>3, TalliedScan DEF Tally
    <2> QED BY <2>4, <2>5 DEF ScanEnd
<1> QED BY <1>1, <1>2

\* The scan counter after a scan.
LEMMA NextScan ==
    ASSUME BatchTyped, Roomy
    PROVE  (scansDone + 1) % UINT8 = IF scansDone + 1 < UINT8 THEN scansDone + 1 ELSE 0
<1>1. scansDone \in Nat /\ UINT8 \in Nat /\ UINT8 > 1 /\ scansDone < UINT8
    BY BatchAssumption DEF BatchTyped, BatchTypeOK, RfidTypeOK
<1>2. CASE scansDone + 1 < UINT8
    BY <1>1, <1>2, SmallMod
<1>3. CASE scansDone + 1 = UINT8
    BY <1>1, <1>3
<1> QED BY <1>1, <1>2, <1>3

\* The end of a scan keeps the tally of a batch that stays unconfirmed.
LEMMA TallyEnd ==
    ASSUME Roomy, BatchTyped, Tally, BgEnd
    PROVE  Tally'
<1>1. SUFFICES ASSUME ~confirmed' PROVE Tally'
    BY DEF Tally
<1>2. PICK t \in Tags \cup {NoTag} :
          /\ ScanEnd(t)
          /\ reads' = IF t = NoTag THEN reads
                      ELSE [reads EXCEPT ![t] = UpTo(ReadCap, @ + 1)]
    BY DEF BgEnd
<1>3. ~confirmed
    BY <1>1, <1>2 DEF ScanEnd, BatchOver
<1>4. Tallied(freq', reads') /\ (t # NoTag => reads' = [reads EXCEPT ![t] = @ + 1])
    BY <1>2, <1>3, TalliedEnd
<1>5. scansDone' >= RFID_SCAN_COUNT => freq' = <<>>
    BY <1>1, <1>2, <1>3 DEF ScanEnd, BatchOver, Verdict
<1>6. ASSUME NEW u \in Tags PROVE reads'[u] <= scansDone' + 1
    <2>1. /\ reads[u] \in Nat /\ scansDone \in Nat /\ UINT8 \in Nat /\ RFID_SCAN_COUNT \in Nat
          /\ UINT8 > RFID_SCAN_COUNT /\ scansDone < UINT8 /\ reads[u] <= scansDone + 1
          /\ reads \in [Tags -> Nat]
        BY <1>3, BatchAssumption DEF BatchTyped, BatchTypeOK, RfidTypeOK, ReadCap, Tally
    <2>2. reads'[u] = IF t = u THEN reads[u] + 1 ELSE reads[u]
        BY <1>2, <1>4, <2>1, TagsAssumption
    <2>3. CASE scansDone < RFID_SCAN_COUNT
        BY <1>2, <2>1, <2>2, <2>3, NextScan DEF ScanEnd
    <2>4. CASE scansDone >= RFID_SCAN_COUNT
        <3>1. NoSlot(freq, u)
            BY <1>3, <2>4 DEF Tally, NoSlot
        <3>2. reads[u] = 0
            BY <1>3, <3>1 DEF Tally, Tallied
        <3>3. scansDone' \in Nat
            BY <1>2, <2>1, NextScan DEF ScanEnd
        <3>4. reads'[u] \in 0 .. 1
            BY <2>2, <3>2
        <3> QED BY <3>3, <3>4
    <2> QED BY <2>1, <2>3, <2>4
<1> QED BY <1>4, <1>5, <1>6 DEF Tally

\* Every step of the task and of its caller keeps the tally.
LEMMA TallyStep ==
    ASSUME Roomy, BatchTyped, Tally, [BatchNext]_batchVars
    PROVE  Tally'
<1> USE DEF Tally
<1>1. CASE BgBegin
    BY <1>1 DEF BgBegin, ScanBegin
<1>2. CASE BgEnd
    BY <1>2, TallyEnd
<1>3. CASE CallReset
    BY <1>3, BatchAssumption DEF CallReset, ResetConfirmation, Tallied, NoReads
<1>4. CASE CallPause \/ CallResume
    BY <1>4 DEF CallPause, CallResume, SetPaused, Resume
<1>5. CASE PauseDone \/ UNCHANGED batchVars
    BY <1>5 DEF PauseDone, batchVars, rfidVars
<1> QED BY <1>1, <1>2, <1>3, <1>4, <1>5 DEF BatchNext

\* The tag in the slot the code calls best is one that no tag was read more often than.
LEMMA BestIsMost ==
    ASSUME NEW f \in Seq(Slot), f # <<>>, Ranked(f), NEW r \in [Tags -> Nat], Tallied(f, r)
    PROVE  LET w == f[Best(f)].epc IN r[w] > 0 /\ \A t \in Tags : r[t] <= r[w]
<1> DEFINE b == Best(f)
<1>0. DOMAIN f \in SUBSET DOMAIN f /\ DOMAIN f # {}
    BY SlotFields, EmptySeq
<1>1. PICK i \in DOMAIN f : IsBestIn(f, DOMAIN f, i)
    BY <1>0 DEF Ranked
<1>2. b \in DOMAIN f /\ \A j \in DOMAIN f : f[j].cnt <= f[b].cnt
    BY <1>1 DEF IsBestIn, Best
<1> HIDE DEF b
<1>3. f[b].epc \in Tags /\ r[f[b].epc] = f[b].cnt /\ f[b].cnt > 0
    BY <1>2, SlotFields DEF Tallied
<1>4. ASSUME NEW t \in Tags PROVE r[t] <= r[f[b].epc]
    <2>1. CASE NoSlot(f, t)
        BY <1>3, <2>1 DEF Tallied
    <2>2. CASE ~NoSlot(f, t)
        <3>1. PICK j \in DOMAIN f : f[j].epc = t
            BY <2>2 DEF NoSlot
        <3> QED BY <1>2, <1>3, <3>1 DEF Tallied
    <2> QED BY <2>1, <2>2
<1> QED BY <1>3, <1>4 DEF b

\* Most-frequent tag wins: with a slot for every tag in range and counters that one batch cannot
\* wrap, the tag that is confirmed has been read, and no other was read more often, whenever the
\* caller pauses, resumes or resets the task.
THEOREM MostFrequentTagWins == Roomy /\ BatchSpec => MostFrequentWins
<1> SUFFICES ASSUME Roomy PROVE BatchSpec => MostFrequentWins
    OBVIOUS
<1>1. BatchInit => Tally
    BY BatchAssumption DEF BatchInit, RfidInit, Tally, Tallied, NoReads
<1>2. BatchTyped /\ Tally /\ [BatchNext]_batchVars => Tally'
    BY TallyStep
<1>3. ASSUME BatchTyped, BatchTyped', Tally, BatchNext, confirmed', ~confirmed
      PROVE  /\ reads'[confirmedEpc'] > 0
             /\ \A t \in Tags : reads'[t] <= reads'[confirmedEpc']
    <2>1. BgEnd
        BY <1>3 DEF BatchNext, BgBegin, ScanBegin, CallReset, ResetConfirmation, CallPause,
                    SetPaused, PauseDone, rfidVars, CallResume, Resume
    <2>2. PICK t \in Tags \cup {NoTag} :
              /\ ScanEnd(t)
              /\ reads' = IF t = NoTag THEN reads
                          ELSE [reads EXCEPT ![t] = UpTo(ReadCap, @ + 1)]
        BY <2>1 DEF BgEnd
    <2>3. Tallied(freq', reads')
        BY <1>3, <2>2, TalliedEnd
    <2>4. freq' # <<>> /\ confirmedEpc' = freq'[Best(freq')].epc
        BY <1>3, <2>2 DEF ScanEnd, Verdict
    <2>5. freq' \in Seq(Slot) /\ Ranked(freq') /\ reads' \in [Tags -> Nat]
        BY <1>3, BatchAssumption DEF BatchTyped, BatchTypeOK, RfidInv, RfidTypeOK, ReadCap
    <2> QED BY <2>3, <2>4, <2>5, BestIsMost
<1>4. BatchTyped /\ BatchTyped' /\ Tally /\ [BatchNext]_batchVars =>
        [confirmed' /\ ~confirmed =>
             /\ reads'[confirmedEpc'] > 0
             /\ \A t \in Tags : reads'[t] <= reads'[confirmedEpc']]_batchVars
    BY <1>3
<1> QED BY <1>1, <1>2, <1>4, BatchInitTyped, BatchStepTyped, PTL DEF BatchSpec, MostFrequentWins
=============================================================================
