--------------------------- MODULE RfidDriverProofs ---------------------------
(* What the driver of the CF-MU910 reader promises whatever the module sends   *)
(* and whenever a flush, a deadline or a restart falls, proved for all tags,   *)
(* signal strengths and buffer sizes.                                          *)
EXTENDS RfidDriver, SequenceTheorems, Recursion

-----------------------------------------------------------------------------
(* The driver and the wire are well formed *)

Frame == [kind : {"tag", "ack", "nak", "done"}, epc : Tags \cup {Garbage},
          rssi : Int, crc : BOOLEAN, size : Nat]
Unit  == [frame : Frame, part : {1, 2}]

Header(f)  == [frame |-> f, part |-> 1]
Payload(f) == [frame |-> f, part |-> 2]

\* What is left of the frame being sent: nothing, all of it, or one unit.
Shaped(s) == s = <<>> \/ \E f \in Frame : s = Units(f) \/ s = <<Payload(f)>> \/ s = <<Header(f)>>

DriverTyped ==
    /\ pc \in {"idle", "scan", "stop", "diag", "power"}
    /\ uart \in Seq(Unit) /\ stream \in Seq(Unit) /\ heard \in Seq(Frame)
    /\ Shaped(sending)

LEMMA UnitsTyped ==
    ASSUME NEW f \in Frame
    PROVE  /\ Header(f) \in Unit /\ Payload(f) \in Unit
           /\ Units(f) \in Seq(Unit) /\ Units(f) = <<Header(f), Payload(f)>>
<1>1. Header(f) \in Unit /\ Payload(f) \in Unit
    BY DEF Unit, Header, Payload
<1>2. Units(f) = <<Header(f), Payload(f)>>
    BY DEF Units, Header, Payload
<1> QED BY <1>1, <1>2

\* What the module sends are frames.
LEMMA FramesTyped ==
    /\ \A f \in TagFrames : f \in Frame
    /\ \A n \in WrongSizes \cup {2} : Disturbed(n) \in Frame
    /\ \A k \in {"ack", "nak", "done"} : Short(k) \in Frame
<1> USE DriverAssumption DEF Frame
<1>1. \A f \in TagFrames : f \in Frame
    <2> SUFFICES ASSUME NEW f \in TagFrames PROVE f \in Frame
        OBVIOUS
    <2>1. PICK e \in Tags, r \in Rssi :
             f = [kind |-> "tag", epc |-> e, rssi |-> r, crc |-> TRUE, size |-> 2]
        BY DEF TagFrames
    <2>2. r \in Int /\ 2 \in Nat
        OBVIOUS
    <2> QED BY <2>1, <2>2
<1>2. \A n \in WrongSizes \cup {2} : Disturbed(n) \in Frame
    BY DEF Disturbed
<1>3. \A k \in {"ack", "nak", "done"} : Short(k) \in Frame
    BY DEF Short
<1> QED BY <1>1, <1>2, <1>3

\* Torn or whole, what is on its way has its shape.
LEMMA TornShaped ==
    ASSUME NEW f \in Frame
    PROVE  Shaped(Units(f)) /\ \A s \in Torn(f) : Shaped(s)
<1>1. \A s \in Torn(f) : s = <<Header(f)>> \/ s = <<Payload(f)>>
    BY DEF Torn, Header, Payload
<1> QED BY <1>1 DEF Shaped

LEMMA ShortTails ==
    ASSUME NEW a \in Unit, NEW b \in Unit
    PROVE  /\ Len(<<a>>) = 1 /\ Head(<<a>>) = a /\ Tail(<<a>>) = <<>>
           /\ Len(<<a, b>>) = 2 /\ Head(<<a, b>>) = a /\ Tail(<<a, b>>) = <<b>>
<1>1. /\ <<a>> \in Seq(Unit) /\ <<a, b>> \in Seq(Unit) /\ <<b>> \in Seq(Unit)
      /\ Len(<<a>>) = 1 /\ Len(<<a, b>>) = 2 /\ Len(<<b>>) = 1
      /\ <<a>>[1] = a /\ <<a, b>>[1] = a /\ <<a, b>>[2] = b /\ <<b>>[1] = b
    OBVIOUS
<1>2. Tail(<<a>>) = <<>>
    BY <1>1, HeadTailProperties, EmptySeq
<1>3. /\ Tail(<<a, b>>) \in Seq(Unit) /\ Len(Tail(<<a, b>>)) = 1
      /\ Tail(<<a, b>>)[1] = b
    BY <1>1, HeadTailProperties
<1>4. Tail(<<a, b>>) = <<b>>
    BY <1>1, <1>3, SeqEqual
<1> QED BY <1>1, <1>2, <1>4

\* The next unit is the header of a frame whose payload follows, or the last of
\* what arrives.
LEMMA NextUnit ==
    ASSUME NEW s, Shaped(s), s # <<>>
    PROVE  /\ Head(s) \in Unit /\ Shaped(Tail(s))
           /\ \E f \in Frame :
                \/ Len(s) = 2 /\ Head(s) = Header(f) /\ Tail(s) = <<Payload(f)>>
                \/ Len(s) = 1 /\ Head(s) \in {Header(f), Payload(f)} /\ Tail(s) = <<>>
<1>1. PICK f \in Frame : s \in {<<Header(f), Payload(f)>>, <<Header(f)>>, <<Payload(f)>>}
    BY UnitsTyped DEF Shaped
<1>2. \/ Len(s) = 2 /\ Head(s) = Header(f) /\ Tail(s) = <<Payload(f)>>
      \/ Len(s) = 1 /\ Head(s) \in {Header(f), Payload(f)} /\ Tail(s) = <<>>
    BY <1>1, UnitsTyped, ShortTails
<1>3. Head(s) \in Unit
    BY <1>2, UnitsTyped
<1>4. Shaped(Tail(s))
    BY <1>2 DEF Shaped
<1> QED BY <1>2, <1>3, <1>4

LEMMA InitTyped == DriverInit => DriverTyped
BY EmptySeq DEF DriverInit, DriverTyped, Shaped

\* Every step keeps the driver and the wire well formed.
LEMMA StepTyped == DriverTyped /\ [DriverNext]_driverVars => DriverTyped'
<1> SUFFICES ASSUME DriverTyped, [DriverNext]_driverVars PROVE DriverTyped'
    OBVIOUS
<1> USE DEF wire, power, history
<1>0. <<>> \in Seq(Unit) /\ <<>> \in Seq(Frame) /\ Shaped(<<>>)
    BY EmptySeq DEF Shaped
<1>1. CASE ModuleReports
    <2>1. \E f \in Frame : sending' = Units(f)
        BY <1>1, FramesTyped DEF ModuleReports
    <2> QED BY <1>1, <2>1 DEF ModuleReports, DriverTyped, Shaped
<1>14. CASE ReportSlips
    <2>1. \E f \in Frame : sending' = Units(f) \/ sending' \in Torn(f)
        BY <1>14, FramesTyped DEF ReportSlips
    <2> QED BY <1>14, <2>1, TornShaped DEF ReportSlips, DriverTyped
<1>2. CASE ModuleSends
    <2>1. Head(sending) \in Unit /\ Shaped(sending')
        BY <1>2, NextUnit DEF ModuleSends, DriverTyped
    <2>2. /\ Append(stream, Head(sending)) \in Seq(Unit)
          /\ Append(uart, Head(sending)) \in Seq(Unit)
          /\ Append(heard, Head(sending).frame) \in Seq(Frame)
        <3>1. Head(sending).frame \in Frame
            BY <2>1 DEF Unit
        <3> QED BY <2>1, <3>1, AppendProperties DEF DriverTyped
    <2>3. stream' \in Seq(Unit) /\ uart' \in Seq(Unit) /\ heard' \in Seq(Frame) /\ pc' = pc
        BY <1>2, <2>2 DEF ModuleSends, DriverTyped
    <2> QED BY <2>1, <2>3 DEF DriverTyped
<1>15. \A k \in {"ack", "nak", "done"} : \A s \in Answers(k) : Shaped(s)
    BY FramesTyped, TornShaped DEF Answers
<1>3. CASE ModuleStops
    BY <1>3, <1>15 DEF ModuleStops, DriverTyped
<1>4. CASE ModuleAnswers
    BY <1>4, <1>15 DEF ModuleAnswers, DriverTyped
<1>5. CASE ScanBegins
    BY <1>5, <1>0 DEF ScanBegins, DriverTyped
<1>6. CASE ScanCloses
    BY <1>6 DEF ScanCloses, DriverTyped
<1>7. CASE ScanEnds
    BY <1>7, <1>0 DEF ScanEnds, DriverTyped
<1>8. CASE DiagBegins
    BY <1>8, <1>0 DEF DiagBegins, DriverTyped
<1>9. CASE DiagEnds
    BY <1>9, <1>0 DEF DiagEnds, DriverTyped
<1>10. CASE PowerCommand
    BY <1>10, <1>0 DEF PowerCommand, SetPowerBegins, DriverTyped
<1>11. CASE SetPowerEnds
    BY <1>11, <1>0 DEF SetPowerEnds, DriverTyped
<1>12. CASE Restart
    <2>1. stream' \in Seq(Unit)
        BY <1>12, <1>0, FramesTyped, UnitsTyped DEF Restart
    <2> QED BY <1>12, <2>1, <1>0 DEF Restart, DriverTyped
<1>13. CASE UNCHANGED driverVars
    BY <1>13 DEF driverVars, DriverTyped
<1> QED
    BY <1>1, <1>2, <1>3, <1>4, <1>5, <1>6, <1>7, <1>8, <1>9, <1>10, <1>11, <1>12, <1>13, <1>14
    DEF DriverNext

\* The buffers hold units, and the module sends a frame as its header and then
\* its payload, whatever runs.
THEOREM DriverWellFormed == DriverSpec => []DriverTyped
<1>1. DriverInit => DriverTyped
    BY InitTyped
<1>2. DriverTyped /\ [DriverNext]_driverVars => DriverTyped'
    BY StepTyped
<1> QED BY <1>1, <1>2, PTL DEF DriverSpec
-----------------------------------------------------------------------------
(* What a walk over a stream finds *)

Packet == [epc : Tags \cup {Garbage}, rssi : Int]

\* One step of the walk, with n units left.
WalkStep(s, left, n) ==
    IF n = 0 THEN <<>>
    ELSE LET i == Len(s) - n + 1
         IN  IF ~IsHeader(s[i]) THEN left[n - 1]
             ELSE IF Size(s[i]) > n THEN <<>>
             ELSE (IF ParseTagPacket(s, i) THEN <<Parsed(s, i)>> ELSE <<>>)
                    \o left[n - Size(s[i])]

LEMMA SizePositive == \A u \in Unit : IsHeader(u) => Size(u) \in Nat \ {0}
BY DriverAssumption DEF Size, IsHeader, Unit, Frame

LEMMA ParsedTyped ==
    ASSUME NEW s \in Seq(Unit), NEW i \in 1 .. Len(s)
    PROVE  Parsed(s, i) \in Packet
<1>1. s[i] \in Unit
    BY ElementOfSeq, LenProperties
<1> QED BY <1>1 DEF Parsed, Packet, Unit, Frame

LEMMA WalkStepTyped ==
    ASSUME NEW s \in Seq(Unit), NEW n \in 0 .. Len(s), NEW left,
           \A m \in 0 .. n - 1 : left[m] \in Seq(Packet)
    PROVE  WalkStep(s, left, n) \in Seq(Packet)
<1> DEFINE i == Len(s) - n + 1
<1>1. CASE n = 0
    BY <1>1, EmptySeq DEF WalkStep
<1>2. CASE n # 0
    <2>1. i \in 1 .. Len(s)
        BY <1>2, LenProperties
    <2>2. Parsed(s, i) \in Packet
        BY <2>1, ParsedTyped
    <2>0. s[i] \in Unit
        BY <2>1, ElementOfSeq
    <2>3. ASSUME IsHeader(s[i]), Size(s[i]) <= n PROVE left[n - Size(s[i])] \in Seq(Packet)
        BY <2>0, <2>3, SizePositive, LenProperties
    <2>4. left[n - 1] \in Seq(Packet)
        BY <1>2, LenProperties
    <2>5. /\ (IF ParseTagPacket(s, i) THEN <<Parsed(s, i)>> ELSE <<>>) \in Seq(Packet)
          /\ <<>> \in Seq(Packet)
        BY <2>2
    <2>6. CASE ~IsHeader(s[i])
        BY <1>2, <2>4, <2>6 DEF WalkStep
    <2>7. CASE IsHeader(s[i]) /\ Size(s[i]) > n
        BY <1>2, <2>5, <2>7 DEF WalkStep
    <2>8. CASE IsHeader(s[i]) /\ ~(Size(s[i]) > n)
        <3>1. left[n - Size(s[i])] \in Seq(Packet)
            BY <2>0, <2>3, <2>8, SizePositive, LenProperties
        <3>2. WalkStep(s, left, n) = (IF ParseTagPacket(s, i) THEN <<Parsed(s, i)>> ELSE <<>>)
                    \o left[n - Size(s[i])]
            BY <1>2, <2>8 DEF WalkStep
        <3> QED BY <2>5, <3>1, <3>2, ConcatProperties
    <2> QED BY <2>6, <2>7, <2>8
<1> QED BY <1>1, <1>2

\* The walk computes what its step says, from the end of the stream to its
\* beginning: it always comes to an end, since no packet claims no unit.
LEMMA WalkComputes ==
    ASSUME NEW s \in Seq(Unit)
    PROVE  \E left \in [0 .. Len(s) -> Seq(Packet)] :
              /\ Walk(s) = left[Len(s)]
              /\ \A n \in 0 .. Len(s) : left[n] = WalkStep(s, left, n)
<1> DEFINE N == Len(s)
           V == Seq(Packet)
           step == [n \in 0 .. N |-> [f \in [0 .. N -> V] |-> WalkStep(s, f, n)]]
           IsWalk(left) == left = [n \in 0 .. N |-> WalkStep(s, left, n)]
           L == CHOOSE left : IsWalk(left)
<1>1. N \in Nat /\ V # {}
    BY LenProperties, EmptySeq
<1>2. step \in [0 .. N -> [[0 .. N -> V] -> V]]
    <2> SUFFICES ASSUME NEW f \in [0 .. N -> V], NEW n \in 0 .. N
                 PROVE  WalkStep(s, f, n) \in V
        OBVIOUS
    <2>1. \A m \in 0 .. n - 1 : f[m] \in Seq(Packet)
        BY <1>1, SMTT(30)
    <2> QED BY <2>1, WalkStepTyped
<1>3. IsRecursion(N, V, step)
    <2> SUFFICES ASSUME NEW f \in [0 .. N -> V], NEW g \in [0 .. N -> V],
                        NEW n \in 0 .. N, \A m \in 0 .. n - 1 : f[m] = g[m]
                 PROVE  WalkStep(s, f, n) = WalkStep(s, g, n)
        BY <1>2 DEF IsRecursion
    <2> DEFINE i == Len(s) - n + 1
    <2>1. n # 0 => f[n - 1] = g[n - 1]
        BY <1>1
    <2>2. n # 0 /\ IsHeader(s[i]) /\ ~(Size(s[i]) > n)
             => f[n - Size(s[i])] = g[n - Size(s[i])]
        <3>1. n # 0 => s[i] \in Unit
            BY <1>1, ElementOfSeq
        <3> QED BY <1>1, <3>1, SizePositive
    <2> QED BY <2>1, <2>2 DEF WalkStep
<1>4. PICK f : Computes(N, V, step, f)
    <2> HIDE DEF N, V, step
    <2> QED BY <1>1, <1>3, RecursionExists
<1>5. f \in [0 .. N -> V] /\ \A n \in 0 .. N : f[n] = WalkStep(s, f, n)
    BY <1>4 DEF Computes
<1>6. IsWalk(L)
    <2>1. IsWalk(f)
        BY <1>5
    <2> HIDE DEF IsWalk
    <2> QED BY <2>1
<1>7. Walk(s) = L[N]
    BY DEF Walk, WalkStep
<1> HIDE DEF L
<1>8. \A n \in 0 .. N : L[n] = WalkStep(s, L, n)
    BY <1>6
<1>9. \A n \in 0 .. N : L[n] \in V
    <2> DEFINE Bad == {n \in 0 .. N : L[n] \notin V}
    <2>1. ASSUME NEW n \in Bad, \A m \in Bad : n <= m PROVE FALSE
        <3>1. \A m \in 0 .. n - 1 : L[m] \in Seq(Packet)
            BY <1>1, <2>1
        <3> QED BY <1>8, <3>1, WalkStepTyped
    <2> HIDE DEF Bad
    <2>2. Bad \subseteq Nat
        BY DEF Bad
    <2>3. Bad = {}
        BY <2>1, <2>2, LeastExists
    <2> QED BY <2>3 DEF Bad
<1>10. L \in [0 .. N -> V]
    BY <1>6, <1>9
<1> QED BY <1>7, <1>8, <1>10

\* Nothing is found that is not a whole undisturbed frame of a tag.
LEMMA WalkSound ==
    ASSUME NEW s \in Seq(Unit)
    PROVE  /\ Walk(s) \in Seq(Packet)
           /\ \A j \in DOMAIN Walk(s) : \E i \in 1 .. Len(s) :
                 ParseTagPacket(s, i) /\ Walk(s)[j] = Parsed(s, i)
<1> DEFINE Sound(q) == \A j \in DOMAIN q : \E i \in 1 .. Len(s) :
                          ParseTagPacket(s, i) /\ q[j] = Parsed(s, i)
<1>1. PICK left \in [0 .. Len(s) -> Seq(Packet)] :
         /\ Walk(s) = left[Len(s)]
         /\ \A n \in 0 .. Len(s) : left[n] = WalkStep(s, left, n)
    BY WalkComputes
<1>2. Len(s) \in Nat /\ DOMAIN <<>> = {}
    BY LenProperties
<1> DEFINE Bad == {n \in 0 .. Len(s) : ~Sound(left[n])}
<1>3. ASSUME NEW n \in 0 .. Len(s), \A m \in 0 .. n - 1 : Sound(left[m])
      PROVE  Sound(left[n])
    <2> DEFINE i == Len(s) - n + 1
               found == IF ParseTagPacket(s, i) THEN <<Parsed(s, i)>> ELSE <<>>
               rest == left[n - Size(s[i])]
    <2>1. CASE n = 0
        <3>1. left[n] = <<>>
            BY <1>1, <2>1 DEF WalkStep
        <3> QED BY <1>2, <3>1
    <2>2. CASE n # 0 /\ ~IsHeader(s[i])
        <3>1. left[n] = left[n - 1]
            BY <1>1, <2>2 DEF WalkStep
        <3>2. n - 1 \in 0 .. n - 1
            BY <1>2, <2>2
        <3> QED BY <1>3, <3>1, <3>2
    <2>3. CASE n # 0 /\ IsHeader(s[i]) /\ Size(s[i]) > n
        <3>1. left[n] = <<>>
            BY <1>1, <2>3 DEF WalkStep
        <3> QED BY <1>2, <3>1
    <2>4. CASE n # 0 /\ IsHeader(s[i]) /\ ~(Size(s[i]) > n)
        <3>1. left[n] = found \o rest
            BY <1>1, <2>4 DEF WalkStep
        <3>2. i \in 1 .. Len(s) /\ n - Size(s[i]) \in 0 .. n - 1
            <4>1. i \in 1 .. Len(s)
                BY <1>2, <2>4
            <4>2. s[i] \in Unit
                BY <4>1, ElementOfSeq
            <4> QED BY <1>2, <2>4, <4>1, <4>2, SizePositive
        <3>3. rest \in Seq(Packet) /\ Sound(rest)
            BY <1>1, <1>2, <1>3, <3>2
        <3>4. found \in Seq(Packet) /\ Sound(found)
            BY <3>2, ParsedTyped
        <3> HIDE DEF found, rest
        <3>5. \A j \in DOMAIN left[n] :
                 \/ j \in DOMAIN found /\ left[n][j] = found[j]
                 \/ j - Len(found) \in DOMAIN rest /\ left[n][j] = rest[j - Len(found)]
            BY <3>1, <3>3, <3>4, ConcatProperties, LenProperties
        <3> QED BY <3>3, <3>4, <3>5
    <2> QED BY <2>1, <2>2, <2>3, <2>4
<1> HIDE DEF Sound
<1>4. Bad = {}
    <2>1. ASSUME NEW n \in Bad PROVE \E m \in Bad : m < n
        <3>1. PICK m \in 0 .. n - 1 : ~Sound(left[m])
            BY <1>3
        <3> QED BY <1>2, <3>1
    <2>2. Bad \subseteq Nat
        BY <1>2
    <2> HIDE DEF Bad
    <2> QED BY <2>1, <2>2, NoDescent
<1>5. Sound(Walk(s))
    BY <1>1, <1>2, <1>4
<1> QED BY <1>1, <1>2, <1>5 DEF Sound

-----------------------------------------------------------------------------
(* Which of the packets found is returned *)

BestStep(packets, best, n) ==
    IF n = 0 THEN <<>>
    ELSE IF Better(best[n - 1], packets[n]) THEN <<packets[n]>> ELSE best[n - 1]

\* The search computes what its step says.
LEMMA BestComputes ==
    ASSUME NEW packets \in Seq(Packet)
    PROVE  \E best : /\ BestOf(packets) = best[Len(packets)]
                     /\ \A n \in 0 .. Len(packets) : best[n] = BestStep(packets, best, n)
<1> DEFINE N == Len(packets)
           V == Seq(Packet)
           step == [n \in 0 .. N |-> [f \in [0 .. N -> V] |-> BestStep(packets, f, n)]]
           IsBest(best) == best = [n \in 0 .. N |-> BestStep(packets, best, n)]
           B == CHOOSE best : IsBest(best)
<1>1. N \in Nat /\ <<>> \in V /\ \A n \in 1 .. N : <<packets[n]>> \in V
    BY LenProperties, EmptySeq, ElementOfSeq
<1>2. step \in [0 .. N -> [[0 .. N -> V] -> V]]
    <2> SUFFICES ASSUME NEW f \in [0 .. N -> V], NEW n \in 0 .. N
                 PROVE  BestStep(packets, f, n) \in V
        OBVIOUS
    <2>1. n # 0 => n - 1 \in 0 .. N /\ n \in 1 .. N
        BY <1>1
    <2> QED BY <1>1, <2>1 DEF BestStep
<1>3. IsRecursion(N, V, step)
    <2> SUFFICES ASSUME NEW f \in [0 .. N -> V], NEW g \in [0 .. N -> V],
                        NEW n \in 0 .. N, \A m \in 0 .. n - 1 : f[m] = g[m]
                 PROVE  BestStep(packets, f, n) = BestStep(packets, g, n)
        BY <1>2 DEF IsRecursion
    <2>1. n # 0 => f[n - 1] = g[n - 1]
        BY <1>1
    <2> QED BY <2>1 DEF BestStep
<1>4. PICK f : Computes(N, V, step, f)
    <2> HIDE DEF N, V, step
    <2> QED BY <1>1, <1>3, RecursionExists
<1>5. f \in [0 .. N -> V] /\ \A n \in 0 .. N : f[n] = BestStep(packets, f, n)
    BY <1>4 DEF Computes
<1>6. IsBest(B)
    <2>1. IsBest(f)
        BY <1>5
    <2> HIDE DEF IsBest
    <2> QED BY <2>1
<1>7. BestOf(packets) = B[N]
    BY DEF BestOf, BestStep
<1> HIDE DEF B
<1> QED BY <1>6, <1>7

\* The first of the strongest is returned.
LEMMA FirstStrongest ==
    ASSUME NEW packets \in Seq(Packet)
    PROVE  IF packets = <<>> THEN BestOf(packets) = <<>>
           ELSE \E k \in 1 .. Len(packets) :
                  /\ BestOf(packets) = <<packets[k]>>
                  /\ \A j \in 1 .. Len(packets) : packets[j].rssi <= packets[k].rssi
                  /\ \A j \in 1 .. k - 1 : packets[j].rssi < packets[k].rssi
<1> DEFINE N == Len(packets)
<1>1. PICK best : /\ BestOf(packets) = best[N]
                  /\ \A n \in 0 .. N : best[n] = BestStep(packets, best, n)
    BY BestComputes
<1>2. N \in Nat /\ \A n \in 1 .. N : packets[n].rssi \in Int
    <2>1. N \in Nat /\ \A n \in 1 .. N : packets[n] \in Packet
        BY LenProperties, ElementOfSeq
    <2> QED BY <2>1 DEF Packet
<1> DEFINE First(k, n) == /\ best[n] = <<packets[k]>>
                          /\ \A j \in 1 .. n : packets[j].rssi <= packets[k].rssi
                          /\ \A j \in 1 .. k - 1 : packets[j].rssi < packets[k].rssi
           Bad == {n \in 1 .. N : ~\E k \in 1 .. n : First(k, n)}
<1>3. best[0] = <<>>
    <2>1. 0 \in 0 .. N
        BY <1>2
    <2> QED BY <1>1, <2>1 DEF BestStep
<1>4. ASSUME NEW n \in 1 .. N, n - 1 \in 1 .. N => \E k \in 1 .. n - 1 : First(k, n - 1)
      PROVE  \E k \in 1 .. n : First(k, n)
    <2>1. best[n] = IF Better(best[n - 1], packets[n]) THEN <<packets[n]>> ELSE best[n - 1]
        BY <1>1, <1>2 DEF BestStep
    <2>2. CASE n = 1
        <3>1. best[n] = <<packets[n]>>
            BY <1>3, <2>1, <2>2 DEF Better
        <3>2. First(1, n)
            BY <1>2, <2>2, <3>1
        <3> QED BY <2>2, <3>2
    <2>3. CASE n # 1
        <3>1. PICK k \in 1 .. n - 1 : First(k, n - 1)
            BY <1>2, <1>4, <2>3
        <3>2. best[n - 1] # <<>> /\ best[n - 1][1] = packets[k]
            BY <3>1
        <3>3. k \in 1 .. N /\ packets[k].rssi \in Int /\ packets[n].rssi \in Int
            BY <1>2
        <3>4. CASE packets[n].rssi > packets[k].rssi
            <4>1. best[n] = <<packets[n]>>
                BY <2>1, <3>2, <3>4 DEF Better
            <4>2. \A j \in 1 .. n - 1 : packets[j].rssi < packets[n].rssi
                BY <1>2, <3>1, <3>3, <3>4
            <4>3. \A j \in 1 .. n : j \in 1 .. n - 1 \/ j = n
                OBVIOUS
            <4>4. \A j \in 1 .. n : packets[j].rssi <= packets[n].rssi
                BY <1>2, <3>3, <4>2, <4>3, SMTT(30)
            <4> QED BY <4>1, <4>2, <4>4
        <3>5. CASE ~(packets[n].rssi > packets[k].rssi)
            <4>1. best[n] = best[n - 1]
                BY <2>1, <3>2, <3>5 DEF Better
            <4>2. First(k, n)
                BY <1>2, <3>1, <3>3, <3>5, <4>1
            <4> QED BY <4>2
        <3> QED BY <3>4, <3>5
    <2> QED BY <2>2, <2>3
<1>5. Bad = {}
    <2>1. ASSUME NEW n \in Bad PROVE \E m \in Bad : m < n
        <3>1. n - 1 \in Bad
            BY <1>4
        <3>2. n \in Int /\ n - 1 < n
            BY <1>2
        <3> HIDE DEF Bad
        <3> QED BY <3>1, <3>2
    <2>2. Bad \subseteq Nat
        BY <1>2
    <2> HIDE DEF Bad
    <2> QED BY <2>1, <2>2, NoDescent
<1>6. CASE packets = <<>>
    BY <1>1, <1>3, <1>6
<1>7. CASE packets # <<>>
    <2>1. N \in 1 .. N
        BY <1>2, <1>7, EmptySeq
    <2>2. PICK k \in 1 .. N : First(k, N)
        BY <1>5, <2>1
    <2> QED BY <1>1, <1>7, <2>2
<1> QED BY <1>6, <1>7

-----------------------------------------------------------------------------
(* What a scan reports was sent *)

\* A whole frame of a tag in the stream was heard.
WholeIsHeard ==
    pc \in {"scan", "stop"} =>
       \A i \in 1 .. Len(stream) - 1 :
          stream[i].part = 1 /\ stream[i + 1] = Payload(stream[i].frame)
             => \E j \in DOMAIN heard : heard[j] = stream[i].frame

ScanInv == DriverTyped /\ WholeIsHeard

LEMMA StepHeard == ScanInv /\ [DriverNext]_driverVars => ScanInv'
<1> SUFFICES ASSUME ScanInv, [DriverNext]_driverVars PROVE WholeIsHeard'
    BY StepTyped DEF ScanInv
<1> USE DEF wire, power, history
<1>1. CASE ModuleReports
    BY <1>1 DEF ModuleReports, ScanInv, WholeIsHeard
<1>14. CASE ReportSlips
    BY <1>14 DEF ReportSlips, ScanInv, WholeIsHeard
<1>2. CASE ModuleSends
    <2> DEFINE u == Head(sending)
               n == Len(stream)
    <2>1. /\ u \in Unit /\ (Len(sending) = 1 \/ u.part = 1)
        <3>1. PICK f \in Frame : Len(sending) = 1 \/ u = Header(f)
            BY <1>2, NextUnit DEF ModuleSends, ScanInv, DriverTyped
        <3> QED BY <1>2, <3>1, NextUnit DEF ModuleSends, ScanInv, DriverTyped, Header
    <2>2. CASE stream' = stream
        <3>1. \A j \in DOMAIN heard : j \in DOMAIN heard' /\ heard'[j] = heard[j]
            <4>1. u.frame \in Frame /\ heard \in Seq(Frame)
                BY <2>1 DEF Unit, ScanInv, DriverTyped
            <4>2. heard' = heard \/ heard' = Append(heard, u.frame)
                BY <1>2 DEF ModuleSends
            <4> QED BY <4>1, <4>2, AppendProperties, LenProperties
        <3> QED BY <1>2, <2>2, <3>1 DEF ModuleSends, ScanInv, WholeIsHeard
    <2>3. CASE stream' # stream /\ pc = "scan"
        <3>1. Reads /\ stream' = Append(stream, u)
            BY <1>2, <2>3 DEF ModuleSends
        <3>2. /\ n \in Nat /\ Len(stream') = n + 1 /\ stream'[n + 1] = u
              /\ \A i \in 1 .. n : stream'[i] = stream[i] /\ stream[i] \in Unit
            BY <2>1, <3>1, AppendProperties, LenProperties, ElementOfSeq DEF ScanInv, DriverTyped
        <3>3. u.frame \in Frame /\ heard \in Seq(Frame)
            BY <2>1 DEF Unit, ScanInv, DriverTyped
        <3>4. \A j \in DOMAIN heard : j \in DOMAIN heard' /\ heard'[j] = heard[j]
            <4>1. heard' = heard \/ heard' = Append(heard, u.frame)
                BY <1>2 DEF ModuleSends
            <4> QED BY <3>3, <4>1, AppendProperties, LenProperties
        <3> SUFFICES ASSUME NEW i \in 1 .. n, stream'[i].part = 1,
                            stream'[i + 1] = Payload(stream'[i].frame)
                     PROVE  \E j \in DOMAIN heard' : heard'[j] = stream'[i].frame
            BY <3>2 DEF WholeIsHeard
        <3>5. CASE i \in 1 .. n - 1
            <4>1. stream'[i] = stream[i] /\ stream'[i + 1] = stream[i + 1]
                BY <3>2, <3>5
            <4> QED BY <2>3, <3>4, <3>5, <4>1 DEF ScanInv, WholeIsHeard
        <3>6. CASE i = n
            <4>1. stream[n].part = 1 /\ u = Payload(stream[n].frame)
                BY <3>2, <3>6
            <4>2. u.part = 2 /\ u.frame = stream[n].frame
                BY <4>1 DEF Payload
            <4>3. stream # <<>>
                BY <3>2, <3>6
            <4>4. heard' = Append(heard, u.frame)
                BY <1>2, <2>1, <2>3, <3>1, <4>1, <4>2, <4>3 DEF ModuleSends
            <4>5. Len(heard') \in DOMAIN heard' /\ heard'[Len(heard')] = u.frame
                BY <3>3, <4>4, AppendProperties, LenProperties
            <4> QED BY <3>2, <3>6, <4>2, <4>5
        <3> QED BY <3>2, <3>5, <3>6
    <2>4. CASE pc # "scan" /\ stream' # stream
        BY <1>2, <2>4 DEF ModuleSends, Reads, WholeIsHeard
    <2> QED BY <2>2, <2>3, <2>4
<1>3. CASE ModuleStops
    BY <1>3 DEF ModuleStops, ScanInv, WholeIsHeard
<1>4. CASE ModuleAnswers
    BY <1>4 DEF ModuleAnswers, ScanInv, WholeIsHeard
<1>5. CASE ScanBegins
    <2>1. stream' = <<>> /\ Len(<<>>) = 0
        BY <1>5, EmptySeq DEF ScanBegins
    <2> QED BY <2>1 DEF WholeIsHeard
<1>6. CASE ScanCloses
    BY <1>6 DEF ScanCloses, ScanInv, WholeIsHeard
<1>7. CASE ScanEnds
    BY <1>7 DEF ScanEnds, WholeIsHeard
<1>8. CASE DiagBegins
    BY <1>8 DEF DiagBegins, WholeIsHeard
<1>9. CASE DiagEnds
    BY <1>9 DEF DiagEnds, WholeIsHeard
<1>10. CASE PowerCommand
    BY <1>10 DEF PowerCommand, SetPowerBegins, WholeIsHeard
<1>11. CASE SetPowerEnds
    BY <1>11 DEF SetPowerEnds, WholeIsHeard
<1>12. CASE Restart
    BY <1>12 DEF Restart, WholeIsHeard
<1>13. CASE UNCHANGED driverVars
    BY <1>13 DEF driverVars, ScanInv, WholeIsHeard
<1> QED
    BY <1>1, <1>2, <1>3, <1>4, <1>5, <1>6, <1>7, <1>8, <1>9, <1>10, <1>11, <1>12, <1>13, <1>14
    DEF DriverNext

\* The header that parses is followed by the payload of its frame.
LEMMA ParsedIsWhole ==
    ASSUME NEW s \in Seq(Unit), NEW i \in 1 .. Len(s), ParseTagPacket(s, i)
    PROVE  /\ i \in 1 .. Len(s) - 1 /\ s[i] = Header(s[i].frame)
           /\ s[i + 1] = Payload(s[i].frame)
           /\ s[i].frame.kind = "tag" /\ s[i].frame.crc
           /\ Parsed(s, i) = [epc |-> s[i].frame.epc, rssi |-> s[i].frame.rssi]
<1>1. s[i] \in Unit /\ Len(s) \in Nat
    BY ElementOfSeq, LenProperties
<1>2. s[i].part = 1 /\ i < Len(s) /\ s[i + 1] = [s[i] EXCEPT !.part = 2]
    BY DEF ParseTagPacket
<1>3. s[i] = Header(s[i].frame)
    BY <1>1, <1>2 DEF Header, Unit
<1>4. s[i + 1] = Payload(s[i].frame)
    BY <1>2, <1>3 DEF Header, Payload
<1> QED BY <1>1, <1>2, <1>3, <1>4 DEF ParseTagPacket, Parsed

\* The result is the packet chosen, cut to what the caller has room for.
LEMMA ResultIsBest ==
    /\ BestOf(Walk(stream)) = <<>> => Result = <<>>
    /\ \A p : BestOf(Walk(stream)) = <<p>> => Result = <<Shown(p)>>
<1>1. \A p : /\ <<p>> = [n \in 1 .. 1 |-> p] /\ DOMAIN <<p>> = 1 .. 1
            /\ \A n \in 1 .. 1 : <<p>>[n] = p
    OBVIOUS
<1>2. ASSUME NEW p PROVE [n \in DOMAIN <<p>> |-> Shown(<<p>>[n])] = <<Shown(p)>>
    <2>1. [n \in DOMAIN <<p>> |-> Shown(<<p>>[n])] = [n \in 1 .. 1 |-> Shown(p)]
        BY <1>1
    <2>2. <<Shown(p)>> = [n \in 1 .. 1 |-> Shown(p)]
        BY <1>1
    <2> QED BY <2>1, <2>2
<1>3. [n \in DOMAIN <<>> |-> Shown(<<>>[n])] = <<>>
    OBVIOUS
<1> QED BY <1>2, <1>3 DEF Result

\* What is shown of a packet depends on its EPC and its strength only.
LEMMA ShownOfFrame ==
    ASSUME NEW f, NEW g, f.epc = g.epc, f.rssi = g.rssi
    PROVE  Shown(f) = Shown(g)
BY DEF Shown

LEMMA ResultIsHeard ==
    ASSUME ScanInv, pc = "stop"
    PROVE  \A n \in DOMAIN Result : \E i \in Readable : Result[n] = Shown(heard[i])
<1>1. stream \in Seq(Unit) /\ Walk(stream) \in Seq(Packet)
    BY WalkSound DEF ScanInv, DriverTyped
<1>2. CASE Walk(stream) = <<>>
    <2> DEFINE W == Walk(stream)
    <2>1. W = <<>> => BestOf(W) = <<>>
        <3>1. W \in Seq(Packet)
            BY <1>1
        <3> HIDE DEF W
        <3> QED BY <3>1, FirstStrongest
    <2>2. Result = <<>>
        BY <1>2, <2>1, ResultIsBest
    <2>3. DOMAIN <<>> = {}
        OBVIOUS
    <2> QED BY <2>2, <2>3
<1>3. CASE Walk(stream) # <<>>
    <2>1. PICK k \in DOMAIN Walk(stream) : BestOf(Walk(stream)) = <<Walk(stream)[k]>>
        BY <1>1, <1>3, FirstStrongest, LenProperties
    <2>2. Result = <<Shown(Walk(stream)[k])>>
        BY <2>1, ResultIsBest
    <2>3. PICK i \in 1 .. Len(stream) :
             ParseTagPacket(stream, i) /\ Walk(stream)[k] = Parsed(stream, i)
        BY <1>1, WalkSound
    <2>4. /\ i \in 1 .. Len(stream) - 1 /\ stream[i].part = 1
          /\ stream[i + 1] = Payload(stream[i].frame)
          /\ stream[i].frame.kind = "tag" /\ stream[i].frame.crc
          /\ Walk(stream)[k] = [epc |-> stream[i].frame.epc, rssi |-> stream[i].frame.rssi]
        BY <1>1, <2>3, ParsedIsWhole DEF ParseTagPacket
    <2>5. PICK j \in DOMAIN heard : heard[j] = stream[i].frame
        BY <2>4 DEF ScanInv, WholeIsHeard
    <2>6. j \in Readable /\ Shown(Walk(stream)[k]) = Shown(heard[j])
        BY <2>4, <2>5, ShownOfFrame DEF Readable
    <2>7. \A n \in DOMAIN Result : Result[n] = Shown(heard[j])
        BY <2>2, <2>6
    <2> QED BY <2>6, <2>7
<1> QED BY <1>2, <1>3

\* A scan reports no tag but one whose frame came whole and undisturbed while
\* it was reading.
THEOREM ReportedWasSent == DriverSpec => TagWasSent
<1>1. DriverInit => ScanInv
    BY InitTyped DEF DriverInit, ScanInv, WholeIsHeard
<1>2. ScanInv /\ [DriverNext]_driverVars
        => [ScanEnds => \A n \in DOMAIN Result :
              \E i \in Readable : Result[n] = Shown(heard[i])]_driverVars
    <2> SUFFICES ASSUME ScanInv, ScanEnds
                 PROVE  \A n \in DOMAIN Result : \E i \in Readable : Result[n] = Shown(heard[i])
        OBVIOUS
    <2> QED BY ResultIsHeard DEF ScanEnds
<1> QED BY <1>1, <1>2, StepHeard, PTL DEF DriverSpec, TagWasSent

-----------------------------------------------------------------------------
(* A scan reports the strongest of the frames that came before it slipped *)

Room == pc = "scan" /\ Len(stream) < STREAM_UNITS

\* While nothing slipped the stream is the frames heard, each as header and
\* payload, and perhaps the header of one more, whose payload comes next while
\* there is room.
AlignedStream ==
    /\ sound = Len(heard) /\ Len(stream) \in {2 * sound, 2 * sound + 1}
    /\ Len(stream) = 2 * sound + 1 =>
          \E f \in Frame : /\ f.size = 2 /\ stream[Len(stream)] = Header(f)
                           /\ Room => sending = <<Payload(f)>>
    /\ Len(stream) = 2 * sound /\ Room =>
          sending = <<>> \/ \E f \in Frame : f.size = 2 /\ sending = Units(f)

\* It begins with the frames heard so far ever after.
SoundStream ==
    pc \in {"scan", "stop"} =>
       /\ sound \in 0 .. Len(heard) /\ 2 * sound <= Len(stream)
       /\ \A k \in 1 .. sound :
             /\ stream[2 * k - 1] = Header(heard[k]) /\ stream[2 * k] = Payload(heard[k])
             /\ heard[k].size = 2
       /\ aligned => AlignedStream

SoundInv == DriverTyped /\ SoundStream

LEMMA StepSound == SoundInv /\ [DriverNext]_driverVars => SoundInv'
<1> SUFFICES ASSUME SoundInv, [DriverNext]_driverVars PROVE SoundStream'
    BY StepTyped DEF SoundInv
<1> USE DEF wire, power, history
<1>0. Len(<<>>) = 0
    OBVIOUS
<1>1. CASE ModuleReports
    <2>1. PICK f \in Frame : sending' = Units(f) /\ f.size = 2
        <3>1. \A f \in TagFrames : f.size = 2
            BY DEF TagFrames
        <3>2. Disturbed(2).size = 2
            BY DEF Disturbed
        <3> QED BY <1>1, <3>1, <3>2, FramesTyped DEF ModuleReports
    <2>2. \A g \in Frame : sending # <<Payload(g)>>
        BY <1>1 DEF ModuleReports
    <2> QED BY <1>1, <2>1, <2>2 DEF ModuleReports, SoundInv, SoundStream, AlignedStream, Room
<1>14. CASE ReportSlips
    BY <1>14 DEF ReportSlips, SoundInv, SoundStream
<1>2. CASE ModuleSends
    <2> DEFINE u == Head(sending)
               n == Len(stream)
               m == Len(heard)
    <2>1. /\ n \in Nat /\ m \in Nat
          /\ u \in Unit /\ u.frame \in Frame /\ stream \in Seq(Unit) /\ heard \in Seq(Frame)
        <3>1. stream \in Seq(Unit) /\ heard \in Seq(Frame)
            BY DEF SoundInv, DriverTyped
        <3>2. u \in Unit
            BY <1>2, NextUnit DEF ModuleSends, SoundInv, DriverTyped
        <3> QED BY <3>1, <3>2, LenProperties DEF Unit
    <2> SUFFICES ASSUME pc \in {"scan", "stop"} PROVE SoundStream'
        BY <1>2 DEF ModuleSends, SoundStream
    <2>2. pc' = pc /\ aligned' = aligned /\ sound \in 0 .. m /\ 2 * sound <= n
        BY <1>2 DEF ModuleSends, SoundInv, SoundStream
    <2>3. \/ stream' = stream /\ heard' = heard
          \/ Room /\ stream' = Append(stream, u) /\ heard' \in {heard, Append(heard, u.frame)}
        BY <1>2 DEF ModuleSends, Reads, Room
    <2>4. /\ n <= Len(stream') /\ stream' \in Seq(Unit)
          /\ \A i \in 1 .. n : stream'[i] = stream[i]
        <3>1. CASE stream' = stream
            BY <2>1, <3>1
        <3>2. CASE stream' = Append(stream, u)
            <4> HIDE DEF u
            <4>1. Len(stream') = n + 1 /\ stream' \in Seq(Unit)
                BY <2>1, <3>2, AppendProperties
            <4>2. \A i \in 1 .. n : stream'[i] = stream[i]
                BY <2>1, <3>2, AppendProperties
            <4> QED BY <2>1, <4>1, <4>2
        <3> QED BY <2>3, <3>1, <3>2
    <2>9. /\ m <= Len(heard') /\ heard' \in Seq(Frame)
          /\ \A k \in 1 .. m : heard'[k] = heard[k]
        <3>1. CASE heard' = heard
            BY <2>1, <3>1
        <3>2. CASE heard' = Append(heard, u.frame)
            <4> DEFINE f == u.frame
            <4>0. f \in Frame /\ heard' = Append(heard, f)
                BY <2>1, <3>2
            <4> HIDE DEF f
            <4>1. Len(heard') = m + 1 /\ heard' \in Seq(Frame)
                BY <2>1, <4>0, AppendProperties
            <4>2. \A k \in 1 .. m : heard'[k] = heard[k]
                BY <2>1, <4>0, AppendProperties
            <4> QED BY <2>1, <4>1, <4>2
        <3> QED BY <2>3, <3>1, <3>2
    <2>5. \A k \in 1 .. sound :
             /\ stream'[2 * k - 1] = Header(heard'[k]) /\ stream'[2 * k] = Payload(heard'[k])
             /\ heard'[k].size = 2
        <3> SUFFICES ASSUME NEW k \in 1 .. sound
                     PROVE  /\ stream'[2 * k - 1] = Header(heard'[k])
                            /\ stream'[2 * k] = Payload(heard'[k])
                            /\ heard'[k].size = 2
            OBVIOUS
        <3>1. k \in 1 .. m /\ 2 * k - 1 \in 1 .. n /\ 2 * k \in 1 .. n
            BY <2>1, <2>2
        <3> QED BY <2>4, <2>9, <3>1 DEF SoundInv, SoundStream
    <2>6. CASE ~aligned
        <3>1. sound' = sound
            BY <1>2, <2>6 DEF ModuleSends
        <3>2. sound \in 0 .. Len(heard') /\ 2 * sound <= Len(stream')
            <4>1. Len(heard') \in Nat /\ Len(stream') \in Nat
                BY <2>4, <2>9, LenProperties
            <4> QED BY <2>1, <2>2, <2>4, <2>9, <4>1
        <3> QED BY <2>2, <2>5, <2>6, <3>1, <3>2 DEF SoundStream
    <2>7. CASE aligned /\ ~Room
        <3>1. stream' = stream /\ heard' = heard /\ sound' = m /\ sound = m /\ ~Room'
            BY <1>2, <2>2, <2>3, <2>7 DEF ModuleSends, SoundInv, SoundStream, AlignedStream, Room
        <3> QED BY <2>2, <2>7, <3>1 DEF SoundInv, SoundStream, AlignedStream
    <2>8. CASE aligned /\ Room
        <3>1. /\ stream' = Append(stream, u) /\ sending' = Tail(sending) /\ sending # <<>>
              /\ pc = "scan" /\ Reads /\ sound = m /\ sound' = Len(heard')
              /\ AlignedStream
            BY <1>2, <2>8 DEF ModuleSends, Reads, Room, SoundInv, SoundStream, AlignedStream
        <3>2. Len(stream') = n + 1 /\ stream'[n + 1] = u
            BY <2>1, <3>1, AppendProperties
        <3>3. CASE n = 2 * m
            <4>1. PICK f \in Frame : f.size = 2 /\ sending = <<Header(f), Payload(f)>>
                BY <2>8, <3>1, <3>3, UnitsTyped DEF AlignedStream
            <4>2. u = Header(f) /\ sending' = <<Payload(f)>> /\ Len(sending) = 2
                BY <3>1, <4>1, UnitsTyped, ShortTails
            <4>3. heard' = heard /\ sound' = m
                BY <1>2, <3>1, <4>2 DEF ModuleSends
            <4>4. Len(stream') = 2 * sound' + 1 /\ Len(stream') # 2 * sound'
                BY <2>1, <3>2, <3>3, <4>3
            <4>5. AlignedStream'
                BY <3>2, <4>1, <4>2, <4>3, <4>4 DEF AlignedStream
            <4>6. sound' \in 0 .. Len(heard') /\ 2 * sound' <= Len(stream')
                BY <2>1, <4>3, <4>4
            <4> QED BY <2>5, <3>1, <4>3, <4>5, <4>6 DEF SoundStream
        <3>4. CASE n = 2 * m + 1
            <4>0. n = 2 * sound + 1
                BY <3>1, <3>4
            <4>1. PICK f \in Frame : f.size = 2 /\ stream[n] = Header(f) /\ sending = <<Payload(f)>>
                <5> HIDE DEF m
                <5> QED BY <2>8, <3>1, <4>0 DEF AlignedStream
            <4>2. u = Payload(f) /\ sending' = <<>> /\ Len(sending) = 1
                BY <3>1, <4>1, UnitsTyped, ShortTails
            <4>3. heard' = Append(heard, f)
                <5>1. stream # <<>>
                    BY <1>0, <2>1, <3>4
                <5>2. stream[n].frame = u.frame /\ stream[n].part = 1 /\ u.frame = f
                    BY <4>1, <4>2 DEF Header, Payload
                <5> QED BY <1>2, <3>1, <4>2, <5>1, <5>2 DEF ModuleSends
            <4>4. Len(heard') = m + 1 /\ heard'[m + 1] = f /\ sound' = m + 1
                BY <2>1, <3>1, <4>3, AppendProperties
            <4>5. \A k \in 1 .. sound' :
                    /\ stream'[2 * k - 1] = Header(heard'[k]) /\ stream'[2 * k] = Payload(heard'[k])
                    /\ heard'[k].size = 2
                <5> SUFFICES ASSUME NEW k \in 1 .. m + 1
                             PROVE  /\ stream'[2 * k - 1] = Header(heard'[k])
                                    /\ stream'[2 * k] = Payload(heard'[k])
                                    /\ heard'[k].size = 2
                    BY <4>4
                <5>1. CASE k \in 1 .. m
                    BY <2>5, <3>1, <5>1
                <5>2. CASE k = m + 1
                    <6>1. 2 * k - 1 = n /\ n \in 1 .. n /\ 2 * k = n + 1
                        BY <2>1, <3>4, <5>2
                    <6> QED BY <2>4, <3>2, <4>1, <4>2, <4>4, <5>2, <6>1
                <5> QED BY <2>1, <5>1, <5>2
            <4>6. /\ Len(stream') = 2 * sound' /\ Len(stream') # 2 * sound' + 1
                  /\ sound' \in 0 .. Len(heard') /\ 2 * sound' <= Len(stream')
                BY <2>1, <3>2, <3>4, <4>4
            <4>7. AlignedStream'
                BY <4>2, <4>4, <4>6 DEF AlignedStream
            <4> QED BY <4>5, <4>6, <4>7 DEF SoundStream
        <3> QED BY <2>1, <3>1, <3>3, <3>4 DEF AlignedStream
    <2> QED BY <2>6, <2>7, <2>8
<1>3. CASE ModuleStops
    BY <1>3 DEF ModuleStops, SoundInv, SoundStream, AlignedStream, Room
<1>4. CASE ModuleAnswers
    BY <1>4 DEF ModuleAnswers, SoundStream
<1>5. CASE ScanBegins
    <2>1. stream' = <<>> /\ heard' = <<>> /\ sound' = 0 /\ (aligned' => sending' = <<>>)
        BY <1>5 DEF ScanBegins
    <2>2. Len(stream') = 0 /\ Len(heard') = 0
        BY <1>0, <2>1
    <2> QED BY <2>1, <2>2 DEF SoundStream, AlignedStream
<1>6. CASE ScanCloses
    BY <1>6 DEF ScanCloses, SoundInv, SoundStream, AlignedStream, Room
<1>7. CASE ScanEnds
    BY <1>7 DEF ScanEnds, SoundStream
<1>8. CASE DiagBegins
    BY <1>8 DEF DiagBegins, SoundStream
<1>9. CASE DiagEnds
    BY <1>9 DEF DiagEnds, SoundStream
<1>10. CASE PowerCommand
    BY <1>10 DEF PowerCommand, SetPowerBegins, SoundStream
<1>11. CASE SetPowerEnds
    BY <1>11 DEF SetPowerEnds, SoundStream
<1>12. CASE Restart
    BY <1>12 DEF Restart, SoundStream
<1>13. CASE UNCHANGED driverVars
    BY <1>13 DEF driverVars, SoundInv, SoundStream, AlignedStream, Room
<1> QED
    BY <1>1, <1>2, <1>3, <1>4, <1>5, <1>6, <1>7, <1>8, <1>9, <1>10, <1>11, <1>12, <1>13, <1>14
    DEF DriverNext

-----------------------------------------------------------------------------
(* The walk over a stream of whole frames *)

IsReadable(f) == f.kind = "tag" /\ f.crc
PacketOf(f)   == [epc |-> f.epc, rssi |-> f.rssi]

\* The packets of q are those of the readable frames of h after the first k, in
\* their order; g says of which.
Picks(q, g, h, k) ==
    /\ q \in Seq(Packet) /\ g \in [1 .. Len(q) -> k + 1 .. Len(h)]
    /\ \A i, j \in 1 .. Len(q) : i < j => g[i] < g[j]
    /\ \A j \in 1 .. Len(q) : IsReadable(h[g[j]]) /\ q[j] = PacketOf(h[g[j]])
    /\ \A i \in k + 1 .. Len(h) : IsReadable(h[i]) => \E j \in 1 .. Len(q) : g[j] = i

\* One frame more in front, readable or not.
LEMMA PicksMore ==
    ASSUME NEW h \in Seq(Frame), NEW k \in 0 .. Len(h) - 1, NEW q, NEW g, Picks(q, g, h, k + 1)
    PROVE  \E b : Picks((IF IsReadable(h[k + 1]) THEN <<PacketOf(h[k + 1])>> ELSE <<>>) \o q,
                        b, h, k)
<1>1. /\ Len(h) \in Nat /\ q \in Seq(Packet) /\ Len(q) \in Nat
      /\ g \in [1 .. Len(q) -> k + 2 .. Len(h)]
      /\ \A i, j \in 1 .. Len(q) : i < j => g[i] < g[j]
      /\ \A j \in 1 .. Len(q) : IsReadable(h[g[j]]) /\ q[j] = PacketOf(h[g[j]])
      /\ \A i \in k + 2 .. Len(h) : IsReadable(h[i]) => \E j \in 1 .. Len(q) : g[j] = i
    <2>1. Len(h) \in Nat /\ q \in Seq(Packet) /\ k + 1 + 1 = k + 2
        BY LenProperties DEF Picks
    <2> QED BY <2>1, LenProperties DEF Picks
<1>2. CASE ~IsReadable(h[k + 1])
    <2>1. <<>> \o q = q
        BY <1>1, ConcatEmptySeq
    <2>2. \A i \in k + 1 .. Len(h) : i = k + 1 \/ i \in k + 2 .. Len(h)
        BY <1>1
    <2>3. g \in [1 .. Len(q) -> k + 1 .. Len(h)]
        BY <1>1
    <2>4. Picks(q, g, h, k)
        BY <1>1, <1>2, <2>2, <2>3 DEF Picks
    <2> QED BY <1>2, <2>1, <2>4
<1>3. CASE IsReadable(h[k + 1])
    <2> DEFINE p == PacketOf(h[k + 1])
               r == <<p>> \o q
               b == [j \in 1 .. Len(q) + 1 |-> IF j = 1 THEN k + 1 ELSE g[j - 1]]
    <2>1. p \in Packet
        <3>1. h[k + 1] \in Frame
            BY <1>1, ElementOfSeq
        <3> QED BY <3>1 DEF PacketOf, Packet, Frame
    <2>2. /\ r \in Seq(Packet) /\ Len(r) = Len(q) + 1 /\ r[1] = p
          /\ \A j \in 2 .. Len(q) + 1 : r[j] = q[j - 1]
        <3>1. <<p>> \in Seq(Packet) /\ Len(<<p>>) = 1 /\ <<p>>[1] = p
            BY <2>1
        <3> QED BY <1>1, <3>1, ConcatProperties
    <2>3. b[1] = k + 1 /\ \A j \in 2 .. Len(q) + 1 : b[j] = g[j - 1] /\ j - 1 \in 1 .. Len(q)
        BY <1>1
    <2>4. \A j \in 1 .. Len(q) + 1 : j = 1 \/ j \in 2 .. Len(q) + 1
        BY <1>1
    <2>5. b \in [1 .. Len(q) + 1 -> k + 1 .. Len(h)]
        <3>1. \A j \in 1 .. Len(q) + 1 :
                (IF j = 1 THEN k + 1 ELSE g[j - 1]) \in k + 1 .. Len(h)
            BY <1>1, <2>4
        <3> QED BY <3>1
    <2> HIDE DEF b, r, p
    <2>6. \A i, j \in 1 .. Len(q) + 1 : i < j => b[i] < b[j]
        <3> SUFFICES ASSUME NEW i \in 1 .. Len(q) + 1, NEW j \in 1 .. Len(q) + 1, i < j
                     PROVE  b[i] < b[j]
            OBVIOUS
        <3>1. j \in 2 .. Len(q) + 1 /\ b[j] = g[j - 1] /\ j - 1 \in 1 .. Len(q)
            BY <1>1, <2>3
        <3>2. CASE i = 1
            <4>1. g[j - 1] \in k + 2 .. Len(h) /\ b[i] = k + 1
                BY <1>1, <2>3, <3>1, <3>2
            <4> QED BY <1>1, <3>1, <4>1
        <3>3. CASE i # 1
            <4>1. b[i] = g[i - 1] /\ i - 1 \in 1 .. Len(q) /\ i - 1 < j - 1
                BY <1>1, <2>3, <3>3
            <4> QED BY <1>1, <3>1, <4>1
        <3> QED BY <3>2, <3>3
    <2>7. \A j \in 1 .. Len(q) + 1 : IsReadable(h[b[j]]) /\ r[j] = PacketOf(h[b[j]])
        <3>1. IsReadable(h[b[1]]) /\ r[1] = PacketOf(h[b[1]])
            BY <1>3, <2>2, <2>3 DEF p
        <3>2. ASSUME NEW j \in 2 .. Len(q) + 1
              PROVE  IsReadable(h[b[j]]) /\ r[j] = PacketOf(h[b[j]])
            BY <1>1, <2>2, <2>3
        <3> QED BY <2>4, <3>1, <3>2
    <2>8. \A i \in k + 1 .. Len(h) : IsReadable(h[i]) => \E j \in 1 .. Len(q) + 1 : b[j] = i
        <3> SUFFICES ASSUME NEW i \in k + 1 .. Len(h), IsReadable(h[i])
                     PROVE  \E j \in 1 .. Len(q) + 1 : b[j] = i
            OBVIOUS
        <3>1. CASE i = k + 1
            BY <1>1, <2>3, <3>1
        <3>2. CASE i # k + 1
            <4>1. PICK j \in 1 .. Len(q) : g[j] = i
                BY <1>1, <3>2
            <4>2. j + 1 \in 2 .. Len(q) + 1 /\ j + 1 \in 1 .. Len(q) + 1 /\ (j + 1) - 1 = j
                BY <1>1
            <4>3. b[j + 1] = i
                BY <2>3, <4>1, <4>2
            <4> QED BY <4>2, <4>3
        <3> QED BY <3>1, <3>2
    <2>9. Picks(r, b, h, k)
        BY <2>2, <2>5, <2>6, <2>7, <2>8 DEF Picks
    <2> QED BY <1>3, <2>9 DEF r, p
<1> QED BY <1>2, <1>3

LEMMA PacketsAssociate ==
    \A a, b, c \in Seq(Packet) : (a \o b) \o c = a \o (b \o c)
<1>1. \A S : \A a, b, c \in Seq(S) : (a \o b) \o c = a \o (b \o c)
    BY ConcatAssociative
<1> QED BY <1>1

\* The stream s begins with the frames of h.
BeginsWith(s, h) ==
    /\ 2 * Len(h) <= Len(s)
    /\ \A k \in 1 .. Len(h) :
          s[2 * k - 1] = Header(h[k]) /\ s[2 * k] = Payload(h[k]) /\ h[k].size = 2

\* The walk then finds first the readable ones of these, each once and in their
\* order, whatever comes after them.
LEMMA WalkOfFrames ==
    ASSUME NEW s \in Seq(Unit), NEW h \in Seq(Frame), BeginsWith(s, h)
    PROVE  \E q, r, g : Walk(s) = q \o r /\ r \in Seq(Packet) /\ Picks(q, g, h, 0)
<1> DEFINE N == Len(s)
           m == Len(h)
<1>1. PICK left \in [0 .. N -> Seq(Packet)] :
         /\ Walk(s) = left[N]
         /\ \A n \in 0 .. N : left[n] = WalkStep(s, left, n)
    BY WalkComputes
<1>2. N \in Nat /\ m \in Nat /\ 2 * m <= N
    BY LenProperties DEF BeginsWith
<1> DEFINE Found(k) == \E q, r, g : /\ left[N - 2 * k] = q \o r /\ r \in Seq(Packet)
                                    /\ Picks(q, g, h, k)
           Bad == {d \in 0 .. m : ~Found(m - d)}
<1>3. Found(m)
    <2>1. left[N - 2 * m] \in Seq(Packet) /\ left[N - 2 * m] = <<>> \o left[N - 2 * m]
        <3>1. N - 2 * m \in 0 .. N
            BY <1>2
        <3>2. left[N - 2 * m] \in Seq(Packet)
            BY <1>1, <3>1
        <3> QED BY <3>2, ConcatEmptySeq
    <2>2. /\ <<>> \in Seq(Packet) /\ Len(<<>>) = 0 /\ 1 .. 0 = {} /\ m + 1 .. m = {}
          /\ <<>> \in [1 .. 0 -> m + 1 .. m]
        BY <1>2, EmptySeq
    <2>3. Picks(<<>>, <<>>, h, m)
        BY <2>2 DEF Picks
    <2> QED BY <2>1, <2>3
<1>4. ASSUME NEW k \in 0 .. m - 1, Found(k + 1) PROVE Found(k)
    <2> DEFINE n == N - 2 * k
               f == h[k + 1]
    <2>1. n \in 0 .. N /\ n >= 2 /\ N - n + 1 = 2 * (k + 1) - 1 /\ k + 1 \in 1 .. m
          /\ n - 2 = N - 2 * (k + 1) /\ 2 * (k + 1) - 1 + 1 = 2 * (k + 1)
          /\ 2 * (k + 1) <= N
        BY <1>2
    <2> DEFINE i == 2 * (k + 1) - 1
    <2>2. f \in Frame /\ s[i] = Header(f) /\ s[i + 1] = Payload(f)
        BY <2>1, ElementOfSeq DEF BeginsWith
    <2>3. IsHeader(s[i]) /\ Size(s[i]) = 2
        <3>1. f.size = 2
            BY <2>1 DEF BeginsWith
        <3>2. s[i].part = 1 /\ s[i].frame = f
            BY <2>2 DEF Header
        <3> HIDE DEF i, f
        <3> QED BY <3>1, <3>2 DEF IsHeader, Size
    <2>4. ParseTagPacket(s, i) <=> IsReadable(f)
        <3>1. i < Len(s)
            BY <1>2, <2>1
        <3> HIDE DEF i, f
        <3>2. s[i].part = 1 /\ s[i].frame = f
            BY <2>2 DEF Header
        <3>3. [Header(f) EXCEPT !.part = 2] = Payload(f)
            BY DEF Header, Payload
        <3>4. s[i + 1] = [s[i] EXCEPT !.part = 2]
            BY <2>2, <3>3
        <3> QED BY <3>1, <3>2, <3>4 DEF ParseTagPacket, IsReadable
    <2>5. Parsed(s, i) = PacketOf(f)
        BY <2>2 DEF Parsed, PacketOf, Header
    <2>6. left[n] = (IF ParseTagPacket(s, i) THEN <<Parsed(s, i)>> ELSE <<>>) \o left[n - 2]
        <3>1. n # 0 /\ ~(2 > n) /\ Len(s) - n + 1 = i
            BY <2>1
        <3> HIDE DEF n, i
        <3>2. left[n] = WalkStep(s, left, n)
            BY <1>1, <2>1
        <3> QED BY <2>3, <3>1, <3>2 DEF WalkStep
    <2>7. PICK q, r, g : left[n - 2] = q \o r /\ r \in Seq(Packet) /\ Picks(q, g, h, k + 1)
        BY <1>4, <2>1
    <2> DEFINE found == IF IsReadable(f) THEN <<PacketOf(f)>> ELSE <<>>
    <2>8. left[n] = found \o (q \o r)
        BY <2>4, <2>5, <2>6, <2>7
    <2>9. PICK b : Picks(found \o q, b, h, k)
        BY <2>7, PicksMore
    <2>10. left[n] = (found \o q) \o r
        <3>1. found \in Seq(Packet) /\ q \in Seq(Packet)
            <4>1. PacketOf(f) \in Packet
                BY <2>2 DEF PacketOf, Packet, Frame
            <4> QED BY <2>7, <4>1 DEF Picks
        <3>3. (found \o q) \o r = found \o (q \o r)
            <4> HIDE DEF found
            <4> QED BY <2>7, <3>1, PacketsAssociate
        <3> HIDE DEF found, n
        <3> QED BY <2>8, <3>3, Zenon
    <2> QED BY <2>7, <2>9, <2>10
<1> HIDE DEF Found
<1>5. Bad = {}
    <2>1. ASSUME NEW d \in Bad PROVE \E e \in Bad : e < d
        <3>1. d \in 0 .. m /\ d # 0
            BY <1>2, <1>3
        <3>2. m - d \in 0 .. m - 1 /\ m - (d - 1) = (m - d) + 1 /\ d - 1 \in 0 .. m
            BY <1>2, <3>1
        <3>3. d - 1 \in Bad /\ d - 1 < d
            BY <1>4, <3>1, <3>2
        <3> QED BY <3>3
    <2>2. Bad \subseteq Nat
        BY <1>2
    <2> HIDE DEF Bad
    <2> QED BY <2>1, <2>2, NoDescent
<1>6. Found(0)
    <2>1. m \in 0 .. m /\ m - m = 0
        BY <1>2
    <2> QED BY <1>5, <2>1
<1> QED BY <1>1, <1>2, <1>6, SMTT(30) DEF Found

\* What a walk that begins with the frames of h chooses.
LEMMA ChosenOfFrames ==
    ASSUME NEW s \in Seq(Unit), NEW h \in Seq(Frame), BeginsWith(s, h), NEW i \in 1 .. Len(h),
           IsReadable(h[i])
    PROVE  \E p \in Packet :
              /\ BestOf(Walk(s)) = <<p>> /\ h[i].rssi <= p.rssi
              /\ \/ h[i].rssi < p.rssi
                 \/ \E j \in 1 .. i : IsReadable(h[j]) /\ p = PacketOf(h[j])
<1> DEFINE W == Walk(s)
<1>1. PICK q, r, g : W = q \o r /\ r \in Seq(Packet) /\ Picks(q, g, h, 0)
    BY WalkOfFrames
<1>2. /\ q \in Seq(Packet) /\ Len(q) \in Nat /\ Len(r) \in Nat
      /\ \A j \in 1 .. Len(q) : /\ g[j] \in 1 .. Len(h) /\ IsReadable(h[g[j]])
                               /\ q[j] = PacketOf(h[g[j]])
      /\ \A a, b \in 1 .. Len(q) : a < b => g[a] < g[b]
      /\ \A a \in 1 .. Len(h) : IsReadable(h[a]) => \E j \in 1 .. Len(q) : g[j] = a
    BY <1>1, LenProperties DEF Picks
<1>3. /\ W \in Seq(Packet) /\ Len(W) = Len(q) + Len(r)
      /\ \A j \in 1 .. Len(q) : j \in 1 .. Len(W) /\ W[j] = q[j]
    BY <1>1, <1>2, ConcatProperties
<1>4. PICK e \in 1 .. Len(q) : g[e] = i
    BY <1>2
<1>5. W # <<>> /\ W[e] = PacketOf(h[i]) /\ e \in 1 .. Len(W)
    BY <1>2, <1>3, <1>4, EmptySeq
<1> HIDE DEF W
<1>6. PICK k \in 1 .. Len(W) :
         /\ BestOf(W) = <<W[k]>>
         /\ \A j \in 1 .. Len(W) : W[j].rssi <= W[k].rssi
         /\ \A j \in 1 .. k - 1 : W[j].rssi < W[k].rssi
    BY <1>3, <1>5, FirstStrongest
<1>7. W[k] \in Packet /\ W[e].rssi = h[i].rssi /\ W[e].rssi <= W[k].rssi
    BY <1>3, <1>5, <1>6, ElementOfSeq DEF PacketOf
<1>8. CASE e < k
    <2>1. e \in 1 .. k - 1
        BY <1>2, <1>4, <1>8
    <2> QED BY <1>6, <1>7, <2>1 DEF W
<1>9. CASE ~(e < k)
    <2>1. k \in 1 .. Len(q) /\ g[k] \in 1 .. Len(h) /\ (k = e \/ g[k] < g[e])
        BY <1>2, <1>3, <1>4, <1>6, <1>9
    <2>2. g[k] \in 1 .. i
        BY <1>4, <2>1
    <2>3. IsReadable(h[g[k]]) /\ W[k] = PacketOf(h[g[k]])
        BY <1>2, <1>3, <2>1
    <2> QED BY <1>6, <1>7, <2>2, <2>3 DEF W
<1> QED BY <1>8, <1>9

\* A scan reports no weaker tag than any readable frame that came before its
\* stream slipped, and among equals of these the first.
THEOREM StrongestIsReported == DriverSpec => StrongestWins
<1>1. DriverInit => SoundInv /\ ScanInv
    BY InitTyped DEF DriverInit, SoundInv, SoundStream, ScanInv, WholeIsHeard
<1> DEFINE Wins == /\ \A i \in Sure : Result # <<>> /\ heard[i].rssi <= Result[1].rssi
                   /\ \A n \in DOMAIN Result : \E i \in Readable :
                         /\ Result[n] = Shown(heard[i])
                         /\ \A j \in Sure : j < i => heard[j].rssi < heard[i].rssi
<1>2. ASSUME SoundInv, ScanInv, ScanEnds PROVE Wins
    <2> DEFINE h == SubSeq(heard, 1, sound)
    <2>1. /\ stream \in Seq(Unit) /\ heard \in Seq(Frame) /\ Len(heard) \in Nat
          /\ DOMAIN heard = 1 .. Len(heard) /\ sound \in 0 .. Len(heard) /\ pc = "stop"
        BY <1>2, LenProperties DEF SoundInv, SoundStream, DriverTyped, ScanEnds
    <2>2. h \in Seq(Frame) /\ Len(h) = sound /\ \A k \in 1 .. sound : h[k] = heard[k]
        BY <2>1, SubSeqProperties
    <2>3. BeginsWith(stream, h)
        <3>1. /\ 2 * sound <= Len(stream)
              /\ \A k \in 1 .. sound :
                    /\ stream[2 * k - 1] = Header(heard[k]) /\ stream[2 * k] = Payload(heard[k])
                    /\ heard[k].size = 2
            BY <1>2, <2>1 DEF SoundInv, SoundStream
        <3> HIDE DEF h
        <3> QED BY <2>2, <3>1 DEF BeginsWith
    <2>4. \A i \in Sure : i \in 1 .. sound /\ IsReadable(h[i])
        BY <2>1, <2>2 DEF Sure, Readable, IsReadable
    <2> HIDE DEF h
    <2>5. ASSUME NEW i \in Sure
          PROVE  \E p \in Packet :
                    /\ Result = <<Shown(p)>> /\ heard[i].rssi <= p.rssi
                    /\ \/ heard[i].rssi < p.rssi
                       \/ \E j \in 1 .. i : j \in Readable /\ p = PacketOf(heard[j])
        <3>1. i \in 1 .. Len(h) /\ IsReadable(h[i])
            BY <2>2, <2>4
        <3>2. PICK p \in Packet :
                /\ BestOf(Walk(stream)) = <<p>> /\ h[i].rssi <= p.rssi
                /\ \/ h[i].rssi < p.rssi
                   \/ \E j \in 1 .. i : IsReadable(h[j]) /\ p = PacketOf(h[j])
            BY <2>1, <2>2, <2>3, <3>1, ChosenOfFrames
        <3>3. \A j \in 1 .. i : j \in 1 .. sound /\ j \in DOMAIN heard
            BY <2>1, <2>4
        <3>4. \A j \in 1 .. i : h[j] = heard[j] /\ (IsReadable(h[j]) => j \in Readable)
            BY <2>2, <3>3 DEF Readable, IsReadable
        <3>5. h[i] = heard[i]
            BY <2>2, <2>4
        <3>6. Result = <<Shown(p)>>
            BY <3>2, ResultIsBest
        <3> QED BY <3>2, <3>4, <3>5, <3>6
    <2>6. \A p : Shown(p).rssi = p.rssi
        BY DEF Shown
    <2>7. \A i \in Sure : Result # <<>> /\ heard[i].rssi <= Result[1].rssi
        BY <2>5, <2>6
    <2>8. ASSUME NEW n \in DOMAIN Result
          PROVE  \E i \in Readable : /\ Result[n] = Shown(heard[i])
                                     /\ \A j \in Sure : j < i => heard[j].rssi < heard[i].rssi
        <3>1. PICK i0 \in Readable : Result[n] = Shown(heard[i0])
            BY <1>2, <2>1, ResultIsHeard
        <3> DEFINE Ties == {j \in Sure : heard[j].rssi = heard[i0].rssi}
        <3>2. Readable \subseteq Nat /\ Sure \subseteq Readable /\ \A j \in Readable : heard[j].rssi \in Int
            <4>1. \A j \in DOMAIN heard : heard[j] \in Frame /\ j \in Nat
                BY <2>1, ElementOfSeq
            <4> QED BY <4>1 DEF Readable, Sure, Frame
        <3>3. \A j \in Sure : heard[j].rssi <= heard[i0].rssi
            <4>1. \A j \in Sure : n = 1
                BY <2>5
            <4> QED BY <2>6, <2>7, <3>1, <4>1
        <3>4. CASE Ties = {}
            <4>1. \A j \in Sure : heard[j].rssi < heard[i0].rssi
                BY <3>2, <3>3, <3>4
            <4> QED BY <3>1, <4>1
        <3>5. CASE Ties # {}
            <4>1. PICK t \in Ties : \A j \in Ties : t <= j
                <5>1. Ties \subseteq Nat
                    BY <3>2
                <5> HIDE DEF Ties
                <5> QED BY <3>5, <5>1, LeastExists
            <4>2. t \in Sure /\ t \in Readable /\ heard[t].rssi = heard[i0].rssi
                BY <3>2, <4>1
            <4>3. PICK p \in Packet :
                    /\ Result = <<Shown(p)>> /\ heard[t].rssi <= p.rssi
                    /\ \/ heard[t].rssi < p.rssi
                       \/ \E j \in 1 .. t : j \in Readable /\ p = PacketOf(heard[j])
                BY <2>5, <4>2
            <4>4. p.rssi = heard[t].rssi
                BY <2>6, <3>1, <4>2, <4>3
            <4>5. PICK i \in 1 .. t : i \in Readable /\ p = PacketOf(heard[i])
                BY <3>2, <4>2, <4>3, <4>4 DEF Packet
            <4>6. Result[n] = Shown(heard[i]) /\ heard[i].rssi = heard[i0].rssi
                <5>1. p.epc = heard[i].epc /\ p.rssi = heard[i].rssi
                    BY <4>5 DEF PacketOf
                <5>2. Result[n] = Shown(p)
                    BY <4>3
                <5> QED BY <4>2, <4>4, <5>1, <5>2, ShownOfFrame
            <4>7. \A j \in Sure : j < i => heard[j].rssi < heard[i].rssi
                <5> SUFFICES ASSUME NEW j \in Sure, j < i PROVE heard[j].rssi # heard[i].rssi
                    BY <3>2, <3>3, <4>5, <4>6
                <5>1. j \notin Ties
                    BY <3>2, <4>1, <4>2, <4>5
                <5> QED BY <4>6, <5>1
            <4> QED BY <4>5, <4>6, <4>7
        <3> QED BY <3>4, <3>5
    <2> QED BY <2>7, <2>8
<1>3. SoundInv /\ ScanInv /\ [DriverNext]_driverVars => [ScanEnds => Wins]_driverVars
    BY <1>2
<1> QED BY <1>1, <1>3, StepSound, StepHeard, PTL DEF DriverSpec, StrongestWins
=============================================================================
