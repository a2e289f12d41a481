--------------------------- MODULE RfidReaderProofs ---------------------------
(* Lemmas about the RFID reader that hold whoever its callers are: each of     *)
(* its critical sections preserves RfidInv.  They are used by the proofs       *)
(* about RfidBatch and about SessionTask.                                      *)
EXTENDS RfidReader, SequenceTheorems, TLAPS

IsBestIn(f, T, i) ==
    \A j \in T : f[j].cnt <= f[i].cnt /\ (j < i => f[j].cnt < f[i].cnt)

\* Every non-empty set of slots has a first one with the largest count.  The
\* quantification over sets makes it inductive although a count may wrap to 0.
Ranked(f) == \A T \in SUBSET DOMAIN f : T # {} => \E i \in T : IsBestIn(f, T, i)

\* A tag has one slot at most.
Distinct(f) == \A i, j \in DOMAIN f : f[i].epc = f[j].epc => i = j

RfidInv == RfidTypeOK /\ Ranked(freq) /\ Distinct(freq)

LEMMA SlotFields ==
    ASSUME NEW f \in Seq(Slot)
    PROVE  /\ Len(f) \in Nat /\ DOMAIN f = 1 .. Len(f)
           /\ \A i \in DOMAIN f :
                f[i] \in Slot /\ f[i].epc \in Tags /\ f[i].cnt \in 0 .. UINT8 - 1
           /\ \A i \in DOMAIN f : f[i].cnt \in Int
<1>1. Len(f) \in Nat /\ DOMAIN f = 1 .. Len(f)
    BY LenProperties
<1>2. \A i \in DOMAIN f : f[i] \in Slot
    BY <1>1, ElementOfSeq
<1> QED BY <1>1, <1>2, BatchAssumption DEF Slot

\* A table that differs from a ranked one in a single slot, or has one more, is
\* ranked: this is what one scan does to s_freq.
LEMMA RankedChange ==
    ASSUME NEW f \in Seq(Slot), NEW g \in Seq(Slot), NEW k \in DOMAIN g,
           Ranked(f),
           \A i \in DOMAIN g : i # k => i \in DOMAIN f /\ g[i] = f[i]
    PROVE  Ranked(g)
<1> SUFFICES ASSUME NEW T \in SUBSET DOMAIN g, T # {}
             PROVE  \E i \in T : IsBestIn(g, T, i)
    BY DEF Ranked
<1> DOMAIN g \subseteq Int /\ \A i \in DOMAIN g : g[i].cnt \in Int
    BY SlotFields
<1>1. CASE T \subseteq {k}
    <2>1. IsBestIn(g, T, k)
        BY <1>1 DEF IsBestIn
    <2> QED BY <1>1, <2>1
<1>2. CASE k \notin T
    <2>1. T \in SUBSET DOMAIN f
        BY <1>2
    <2>2. PICK i \in T : IsBestIn(f, T, i)
        BY <2>1 DEF Ranked
    <2>3. IsBestIn(g, T, i)
        BY <1>2, <2>2 DEF IsBestIn
    <2> QED BY <2>3
<1>3. CASE k \in T /\ ~(T \subseteq {k})
    <2> DEFINE S == T \ {k}
    <2>1. S \in SUBSET DOMAIN f /\ S # {}
        BY <1>3
    <2>2. PICK b \in S : IsBestIn(f, S, b)
        BY <2>1 DEF Ranked
    <2>3. \A j \in S : g[j].cnt <= g[b].cnt /\ (j < b => g[j].cnt < g[b].cnt)
        BY <2>2 DEF IsBestIn
    <2>4. CASE g[k].cnt > g[b].cnt \/ (g[k].cnt = g[b].cnt /\ k < b)
        <3>1. IsBestIn(g, T, k)
            BY <1>3, <2>3, <2>4 DEF IsBestIn
        <3> QED BY <1>3, <3>1
    <2>5. CASE ~(g[k].cnt > g[b].cnt \/ (g[k].cnt = g[b].cnt /\ k < b))
        <3>1. IsBestIn(g, T, b)
            BY <1>3, <2>3, <2>5 DEF IsBestIn
        <3> QED BY <3>1
    <2> QED BY <2>4, <2>5
<1> QED BY <1>1, <1>2, <1>3

\* The slot the code calls best is one of the table, when there is any.
LEMMA BestInTable ==
    ASSUME NEW f \in Seq(Slot), f # <<>>, Ranked(f)
    PROVE  Best(f) \in DOMAIN f /\ f[Best(f)].epc \in Tags
<1>1. DOMAIN f \in SUBSET DOMAIN f /\ DOMAIN f # {}
    OBVIOUS
<1>2. PICK i \in DOMAIN f : IsBestIn(f, DOMAIN f, i)
    BY <1>1 DEF Ranked
<1>3. /\ \A j \in DOMAIN f : f[j].cnt <= f[i].cnt
      /\ \A j \in DOMAIN f : j < i => f[j].cnt < f[i].cnt
    BY <1>2 DEF IsBestIn
<1>4. Best(f) \in DOMAIN f
    BY <1>3 DEF Best
<1> QED BY <1>4, SlotFields

\* Counting a scan keeps the table well formed, within its slots and ranked.
LEMMA CountedInv ==
    ASSUME NEW f \in Seq(Slot), Len(f) <= RFID_FREQ_SLOTS, Ranked(f), Distinct(f),
           NEW t \in Tags \cup {NoTag}
    PROVE  /\ Counted(f, t) \in Seq(Slot)
           /\ Len(Counted(f, t)) <= RFID_FREQ_SLOTS
           /\ Ranked(Counted(f, t)) /\ Distinct(Counted(f, t))
<1>0. /\ Len(f) \in Nat /\ DOMAIN f = 1 .. Len(f)
      /\ \A i \in DOMAIN f :
           f[i] \in Slot /\ f[i].epc \in Tags /\ f[i].cnt \in 0 .. UINT8 - 1
      /\ UINT8 \in Nat /\ UINT8 > 1
      /\ RFID_FREQ_SLOTS \in Nat
    BY SlotFields, BatchAssumption
<1>1. CASE Counted(f, t) = f
    BY <1>1
<1>2. CASE t # NoTag /\ \E i \in DOMAIN f : f[i].epc = t
    <2>1. PICK k \in DOMAIN f : f[k].epc = t
        BY <1>2
    <2> DEFINE h == [i \in DOMAIN f |->
                 IF f[i].epc = t THEN [f[i] EXCEPT !.cnt = (@ + 1) % UINT8] ELSE f[i]]
    <2>2. Counted(f, t) = h
        BY <1>2 DEF Counted
    <2>3. \A i \in DOMAIN f : h[i] \in Slot /\ h[i].epc = f[i].epc
        <3> TAKE i \in DOMAIN f
        <3>1. (f[i].cnt + 1) % UINT8 \in 0 .. UINT8 - 1
            BY <1>0
        <3> QED BY <1>0, <3>1 DEF Slot
    <2>4. h \in Seq(Slot) /\ Len(h) = Len(f) /\ DOMAIN h = DOMAIN f
        BY <1>0, <2>3
    <2>5. \A i \in DOMAIN h : i # k => h[i] = f[i]
        BY <2>1, <2>4 DEF Distinct
    <2>6. Ranked(h)
        BY <2>1, <2>4, <2>5, RankedChange
    <2>7. Distinct(h)
        BY <2>3, <2>4 DEF Distinct
    <2> QED BY <2>2, <2>4, <2>6, <2>7
<1>3. CASE /\ t # NoTag /\ ~ \E i \in DOMAIN f : f[i].epc = t
           /\ Len(f) < RFID_FREQ_SLOTS
    <2> DEFINE h == Append(f, [epc |-> t, cnt |-> 1])
    <2>1. Counted(f, t) = h
        BY <1>3 DEF Counted
    <2>2. [epc |-> t, cnt |-> 1] \in Slot
        BY <1>0, <1>3 DEF Slot
    <2>3. /\ h \in Seq(Slot) /\ Len(h) = Len(f) + 1 /\ Len(f) + 1 \in DOMAIN h
          /\ \A i \in DOMAIN h : i # Len(f) + 1 => i \in DOMAIN f /\ h[i] = f[i]
          /\ h[Len(f) + 1] = [epc |-> t, cnt |-> 1]
        BY <1>0, <2>2
    <2>4. Ranked(h)
        BY <2>3, RankedChange
    <2>5. Distinct(h)
        BY <1>3, <2>3 DEF Distinct
    <2> QED BY <1>0, <1>3, <2>1, <2>3, <2>4, <2>5
<1> QED BY <1>1, <1>2, <1>3 DEF Counted

-----------------------------------------------------------------------------
(* Every critical section of the reader preserves RfidInv *)

\* The reader starts with an empty table, paused.
LEMMA RfidInitInv == RfidInit => RfidInv
<1> SUFFICES ASSUME RfidInit PROVE RfidInv
    OBVIOUS
<1>1. freq \in Seq(Slot) /\ DOMAIN freq = {} /\ Len(freq) = 0
    BY DEF RfidInit
<1>2. Ranked(freq) /\ Distinct(freq)
    BY <1>1 DEF Ranked, Distinct
<1>3. 0 \in 0 .. UINT8 - 1 /\ 0 <= RFID_FREQ_SLOTS
    BY BatchAssumption
<1> QED BY <1>1, <1>2, <1>3 DEF RfidInit, RfidInv, RfidTypeOK

\* Claiming s_scanning leaves the table alone.
LEMMA ScanBeginInv == RfidInv /\ ScanBegin => RfidInv'
BY DEF RfidInv, RfidTypeOK, ScanBegin, Ranked, Distinct, IsBestIn

\* A scan that is counted, and the batch it may complete, keep the table well
\* formed and confirm a tag that was read.
LEMMA ScanEndInv ==
    ASSUME NEW t \in Tags \cup {NoTag}, RfidInv, ScanEnd(t)
    PROVE  RfidInv'
<1> USE DEF RfidInv, RfidTypeOK
<1>1. /\ freq' \in Seq(Slot) /\ Len(freq') <= RFID_FREQ_SLOTS
      /\ Ranked(freq') /\ Distinct(freq')
    BY CountedInv DEF ScanEnd
<1>2. scansDone' \in 0 .. UINT8 - 1
    BY BatchAssumption DEF ScanEnd
<1>3. /\ paused' \in BOOLEAN /\ confirmed' \in BOOLEAN /\ batchDone' \in BOOLEAN
      /\ confirmedEpc' \in Tags \cup {NoTag}
    <2>1. CASE Verdict(freq')
        BY <1>1, <2>1, BestInTable DEF Verdict
    <2>2. CASE UNCHANGED <<confirmed, confirmedEpc, batchDone, paused>>
        BY <2>2
    <2> QED BY <2>1, <2>2 DEF ScanEnd
<1>4. scanning' \in BOOLEAN /\ stale' \in BOOLEAN /\ tainted' \in BOOLEAN
    BY DEF ScanEnd
<1> QED BY <1>1, <1>2, <1>3, <1>4 DEF Ranked, Distinct, IsBestIn

\* A reset empties the table.
LEMMA ResetConfirmationInv == RfidInv /\ ResetConfirmation => RfidInv'
<1> SUFFICES ASSUME RfidInv, ResetConfirmation PROVE RfidInv'
    OBVIOUS
<1>1. freq' \in Seq(Slot) /\ DOMAIN freq' = {} /\ Len(freq') = 0
    BY DEF ResetConfirmation
<1>2. Ranked(freq)' /\ Distinct(freq)'
    BY <1>1 DEF Ranked, Distinct
<1>3. 0 \in 0 .. UINT8 - 1 /\ 0 <= RFID_FREQ_SLOTS
    BY BatchAssumption
<1> QED BY <1>1, <1>2, <1>3 DEF ResetConfirmation, RfidInv, RfidTypeOK

\* Pausing the task leaves the table alone.
LEMMA SetPausedInv == RfidInv /\ SetPaused => RfidInv'
BY DEF RfidInv, RfidTypeOK, SetPaused, Ranked, Distinct, IsBestIn

\* Resuming it does too, also after a batch.
LEMMA ResumeInv == RfidInv /\ Resume => RfidInv'
BY DEF RfidInv, RfidTypeOK, Resume, Ranked, Distinct, IsBestIn

\* Steps of the session task and the console that do not call the reader.
LEMMA RfidUnchangedInv == RfidInv /\ UNCHANGED rfidVars => RfidInv'
BY DEF RfidInv, RfidTypeOK, rfidVars, Ranked, Distinct, IsBestIn
=============================================================================
