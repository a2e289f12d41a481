---------------------------- MODULE WeightFilter ----------------------------
(***************************************************************************)
(* The filter of the load cell (devices/loadcell/loadcell.cpp): the ring   *)
(* buffer that hx711Task fills, the trimmed mean getFilteredWeight takes   *)
(* of its newest samples, and the corner report the console makes of such  *)
(* readings.  Pure operators, with what each promises stated over every    *)
(* bounded input.                                                          *)
(***************************************************************************)
EXTENDS Integers, Sequences, FiniteSets

CONSTANTS
    RAW_BUF_SIZE,   \* samples the ring holds (64)
    MIN_SAMPLES,    \* the least number of samples a reading asks for (5)
    RAW_SPAN,       \* bound: FilterRobust is checked over samples up to it, of either sign
    CornerWeights   \* bound: CornerVerdict is checked over these readings, of either sign

ASSUME FilterAssumption ==
    /\ MIN_SAMPLES \in Nat \ {0}
    /\ RAW_BUF_SIZE \in Nat /\ RAW_BUF_SIZE >= MIN_SAMPLES
    /\ RAW_SPAN \in Nat /\ CornerWeights \subseteq Nat

-----------------------------------------------------------------------------
(* The ring: rawBuf, rawHead, rawCount *)

EmptyRing == [buf |-> [i \in 0 .. RAW_BUF_SIZE - 1 |-> 0], head |-> 0, count |-> 0]

\* hx711Task stores one sample.
Push(ring, v) ==
    [buf   |-> [ring.buf EXCEPT ![ring.head] = v],
     head  |-> (ring.head + 1) % RAW_BUF_SIZE,
     count |-> IF ring.count < RAW_BUF_SIZE THEN ring.count + 1 ELSE ring.count]

Clamp(n) == IF n < MIN_SAMPLES THEN MIN_SAMPLES
            ELSE IF n > RAW_BUF_SIZE THEN RAW_BUF_SIZE ELSE n

Available(ring, n) == IF ring.count < n THEN ring.count ELSE n

\* Mutants: the slot that is written next taken for the newest; no wrap.
AgeIndexFromHead(ring, i) == (ring.head - i + RAW_BUF_SIZE) % RAW_BUF_SIZE

\* The index of the sample stored i samples before the newest.
AgeIndex(ring, i) == (ring.head - 1 - i + RAW_BUF_SIZE) % RAW_BUF_SIZE

\* The samples a reading of n looks at, newest first.
Newest(ring, n) ==
    [i \in 1 .. Available(ring, Clamp(n)) |-> ring.buf[AgeIndex(ring, i - 1)]]

-----------------------------------------------------------------------------
(* The trimmed mean *)

\* Division of C: the quotient is truncated towards zero.
Quotient(a, b) == IF a >= 0 THEN a \div b ELSE -((-a) \div b)

\* The samples left when a quarter is dropped at either end.  "from >= to"
\* cannot happen: a quarter is less than a half.
Trimmed(sorted) == LET quarter == Len(sorted) \div 4
                   IN  SubSeq(sorted, quarter + 1, Len(sorted) - quarter)

\* Where insertionSort puts a key among those it has sorted: behind the last
\* that is not greater.
Place(s, key) ==
    CHOOSE k \in 0 .. Len(s) : (k > 0 => s[k] <= key) /\ \A j \in k + 1 .. Len(s) : s[j] > key

Inserted(s, key) ==
    LET k == Place(s, key)
    IN  [i \in 1 .. Len(s) + 1 |-> IF i <= k THEN s[i] ELSE IF i = k + 1 THEN key ELSE s[i - 1]]

InsertionSort(snap) ==
    LET sorted[n \in 0 .. Len(snap)] ==
            IF n = 0 THEN <<>> ELSE Inserted(sorted[n - 1], snap[n])
    IN  sorted[Len(snap)]

Total(seq) ==
    LET sum[i \in 0 .. Len(seq)] == IF i = 0 THEN 0 ELSE sum[i - 1] + seq[i]
    IN  sum[Len(seq)]

\* getFilteredWeight's avg for a non-empty snapshot.
TrimmedMean(snap) ==
    LET kept == Trimmed(InsertionSort(snap))
    IN  Quotient(Total(kept), Len(kept))

-----------------------------------------------------------------------------
(* The corner report: which corner of the platform reads lower than the    *)
(* others.  A corner not measured has no entry in the function; readings   *)
(* are counted in tenths of a gram.                                        *)

Corners == {"FL", "FR", "BL", "BR"}

\* Mutant: the lowest corner is the reference.
CornerRefLowest(val) == CHOOSE v \in {val[c] : c \in DOMAIN val} :
                           \A c \in DOMAIN val : v <= val[c]

\* The highest reading, or zero when every reading is below.
CornerRef(val) == CHOOSE v \in {val[c] : c \in DOMAIN val} \cup {0} :
                     v >= 0 /\ \A c \in DOMAIN val : v >= val[c]

\* A platform that reads 0.1 g or less carries nothing.
CORNER_MIN == 1

\* At least 0.3 % away from the reference, when something is weighed at all.
CornerOff(val, c) ==
    LET ref  == CornerRef(val)
        diff == val[c] - ref
    IN  ref > CORNER_MIN /\ (IF diff < 0 THEN -diff ELSE diff) * 1000 >= 3 * ref

CornerReport(val) ==
    IF Cardinality(DOMAIN val) < 2 THEN [c \in {} |-> "OK"]
    ELSE [c \in DOMAIN val |-> IF ~CornerOff(val, c) THEN "OK"
                               ELSE IF val[c] < CornerRef(val) THEN "LOW" ELSE "HIGH"]

-----------------------------------------------------------------------------
(* What these operators promise *)

\* The ring after the samples 1, 2, .. k.
RingOf(k) ==
    LET filled[i \in 0 .. k] == IF i = 0 THEN EmptyRing ELSE Push(filled[i - 1], i)
    IN  filled[k]

\* After any number of samples a reading of n uses exactly the newest n of
\* them (fewer when there are fewer), newest first, whatever the head's
\* position: loadcell.cpp:83 "Reads last n samples from the ring buffer".
FilterWindow ==
    \A k \in 0 .. 2 * RAW_BUF_SIZE + 1, n \in 0 .. RAW_BUF_SIZE + 2 :
        LET size == IF k < Clamp(n) THEN k ELSE Clamp(n)
        IN  Newest(RingOf(k), n) = [i \in 1 .. size |-> k + 1 - i]

\* As long as no more than a quarter of the samples lie outside a range, the
\* reading lies inside it: a few outliers of the amplifier cannot move it.
FilterRobust ==
    \A len \in 1 .. MIN_SAMPLES + 1 : \A snap \in [1 .. len -> -RAW_SPAN .. RAW_SPAN] :
        \A lo \in -RAW_SPAN .. RAW_SPAN, hi \in -RAW_SPAN .. RAW_SPAN :
            Cardinality({i \in 1 .. len : snap[i] \notin lo .. hi}) <= len \div 4
                => TrimmedMean(snap) \in lo .. hi

\* The corner report says "increase adjuster" of a corner (telnet.cpp:51) exactly
\* when another one reads more than 0.1 g and at least 0.3 % above it, also when
\* readings are negative: the operator is never sent to an even corner, and no
\* low one is left out.
CornerVerdict ==
    \A set \in SUBSET Corners : \A val \in [set -> CornerWeights \cup {-w : w \in CornerWeights}] :
        LET report == CornerReport(val)
        IN  \A c \in DOMAIN report :
                report[c] = "LOW" <=>
                    \E d \in set : val[d] > CORNER_MIN /\ val[c] * 1000 <= val[d] * 997
=============================================================================
