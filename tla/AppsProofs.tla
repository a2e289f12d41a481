------------------------------ MODULE AppsProofs ------------------------------
(***************************************************************************)
(* Theorems about the two Python programs: the post carries out what the   *)
(* desktop console sends, over any number of connections and restarts, and *)
(* the monitoring scripts store no more and forget no more than they may,  *)
(* for any number of packets, any size of the serial buffer and any number *)
(* of stops of the API.                                                    *)
(***************************************************************************)
EXTENDS Console, Monitoring, FiniteSetTheorems, SequenceTheorems, TLAPS

-----------------------------------------------------------------------------
(* Two tables of commands *)

\* The command is one that handleCommand knows.
Knows(verb, value) == [verb |-> verb, value |-> value] \in Vocabulary

LEMMA InParts ==
  \A c : \/ c \in MeasureCommands \/ c \in CalibrationCommands \/ c \in CornerCommands
         \/ c \in AutoZeroCommands \/ c \in DiagCommands \/ c \in SystemCommands
         \/ c \in RfidCommands \/ c \in BeamCommands \/ c \in SessionCommands
         \/ c \in FlowCommands \/ c \in ValveCommands \/ c \in NetworkCommands
         \/ c \in LogCommands
         => c \in Vocabulary
  BY DEF Vocabulary

\* The verbs that are known without a value, part by part of telnet.cpp 154-680.
BareVerbs == UNION {
  {"start", "stop", "tare"}, {"cal_tare", "factor"}, {"corner_report", "corner_clear"},
  {"autozero_on", "autozero_off"}, {"diag", "wiring"}, {"raw", "noise"},
  {"devid", "save", "status", "update", "reboot"},
  {"rfid_stop", "rfid_start", "rfid_scan", "rfid_diag", "rfid_power", "rfid_monitor", "rfid_status"},
  {"beam", "beam_monitor"}, {"session", "session_reset"}, {"flow"},
  {"valve_open", "valve_close", "valve_status"},
  {"wifi", "espnow_status", "espnow_test", "cloud_test", "time", "ntp_sync"}, {"help"}}

LEMMA BareKnown == \A v \in BareVerbs : Knows(v, <<>>)
  <1>0. <<>> \in Bare /\ <<>> \in Bare \cup AnyValue
    BY DEF Bare
  <1>1. \A v \in {"start", "stop", "tare"} : Knows(v, <<>>)
    BY InParts DEF Knows, Known, Bare, MeasureCommands
  <1>2. \A v \in {"cal_tare", "factor"} : Knows(v, <<>>)
    BY InParts DEF Knows, Known, Bare, CalibrationCommands
  <1>3. \A v \in {"corner_report", "corner_clear"} : Knows(v, <<>>)
    BY InParts DEF Knows, Known, Bare, CornerCommands
  <1>4. \A v \in {"autozero_on", "autozero_off"} : Knows(v, <<>>)
    BY InParts DEF Knows, Known, Bare, AutoZeroCommands
  <1>5. \A v \in {"diag", "wiring"} : Knows(v, <<>>)
    BY InParts DEF Knows, Known, Bare, DiagCommands
  <1>6. \A v \in {"raw", "noise"} : Knows(v, <<>>)
    BY InParts DEF Knows, Known, Bare, DiagCommands
  <1>7. \A v \in {"devid", "save", "status", "update", "reboot"} : Knows(v, <<>>)
    BY InParts DEF Knows, Known, Bare, SystemCommands
  <1>8. \A v \in {"rfid_stop", "rfid_start", "rfid_scan", "rfid_diag", "rfid_power",
                  "rfid_monitor", "rfid_status"} : Knows(v, <<>>)
    BY InParts DEF Knows, Known, Bare, RfidCommands
  <1>9. \A v \in {"beam", "beam_monitor"} : Knows(v, <<>>)
    BY InParts DEF Knows, Known, Bare, BeamCommands
  <1>10. \A v \in {"session", "session_reset"} : Knows(v, <<>>)
    BY InParts DEF Knows, Known, Bare, SessionCommands
  <1>11. \A v \in {"flow"} : Knows(v, <<>>)
    BY InParts DEF Knows, Known, Bare, FlowCommands
  <1>12. \A v \in {"valve_open", "valve_close", "valve_status"} : Knows(v, <<>>)
    BY InParts DEF Knows, Known, Bare, ValveCommands
  <1>13. \A v \in {"wifi", "espnow_status", "espnow_test", "cloud_test", "time", "ntp_sync"} :
            Knows(v, <<>>)
    BY InParts DEF Knows, Known, Bare, NetworkCommands
  <1>14. \A v \in {"help"} : Knows(v, <<>>)
    BY InParts DEF Knows, Known, Bare, LogCommands
  <1> QED
    BY <1>1, <1>2, <1>3, <1>4, <1>5, <1>6, <1>7, <1>8, <1>9, <1>10, <1>11, <1>12, <1>13, <1>14
    DEF BareVerbs

\* The rows as they are filled in, and the limits that the help names.
KnowsRow(r) == Knows(r[1], <<r[2]>>)

LEMMA ValuedKnown == \A r \in Filled \cup HelpValued : KnowsRow(r)
  <1>1. \A n \in 1..64 : Knows("samples", <<n>>)
    BY InParts DEF Knows, Known, Within, MeasureCommands
  <1>2. \A n \in Values \ {0} : Knows("cal_weight", <<n>>)
    BY InParts DEF Knows, Known, Within, Positive, CalibrationCommands
  <1>3. \A n \in Values : Knows("calib", <<n>>)
    BY InParts DEF Knows, Known, Within, AnyValue, CalibrationCommands
  <1>4. \A n \in 1..4 : Knows("corner_test", <<n>>) /\ Knows("setid", <<n>>)
    BY InParts DEF Knows, Known, Within, CornerCommands, SystemCommands
  <1>5. \A n \in Values : Knows("az_thr", <<n>>) /\ Knows("az_time", <<n>>)
    BY InParts DEF Knows, Known, Within, AnyValue, AutoZeroCommands
  <1>6. \A n \in Values : Knows("raw", <<n>>) /\ Knows("noise", <<n>>)
    BY InParts DEF Knows, Known, Within, AnyValue, DiagCommands
  <1>7. Knows("gain", <<32>>)
    BY InParts DEF Knows, Known, Within, DiagCommands
  <1>8. \A n \in 10..33 : Knows("rfid_power", <<n>>)
    BY InParts DEF Knows, Known, Within, RfidCommands
  <1>9. \A n \in Values : Knows("beam_confirm", <<n>>) /\ Knows("beam_arrive", <<n>>)
    BY InParts DEF Knows, Known, Within, AnyValue, BeamCommands
  <1>10. \A n \in Values : Knows("valve_delay", <<n>>) /\ Knows("valve_cooldown", <<n>>)
    BY InParts DEF Knows, Known, Within, AnyValue, ValveCommands
  <1>11. \A n \in Values \ {0} : Knows("valve_duration", <<n>>)
    BY InParts DEF Knows, Known, Within, Positive, ValveCommands
  <1>12. /\ 15 \in 1..64 /\ 64 \in 1..64 /\ 4 \in 1..4 /\ 33 \in 10..33
         /\ {0, 5, 10, 15, 30, 65, 2000, 5000, 8000, 180000, 240000} \subseteq Values
         /\ {1, 5000, 10000} \subseteq Values \ {0}
    BY DEF Values
  <1> HIDE DEF Knows
  <1>13. ASSUME NEW r \in Filled PROVE KnowsRow(r)
    BY <1>1, <1>5, <1>6, <1>9, <1>10, <1>11, <1>12, SMT DEF Filled, KnowsRow
  <1>14. ASSUME NEW r \in HelpValued PROVE KnowsRow(r)
    BY <1>1, <1>2, <1>3, <1>4, <1>5, <1>6, <1>7, <1>8, <1>9, <1>10, <1>11, <1>12, SMTT(30)
    DEF HelpValued, KnowsRow
  <1> QED BY <1>13, <1>14

\* Every button is a verb without a value, or one of three whose values the post knows.
LEMMA ButtonsKnown == Buttons \subseteq Vocabulary
  <1>1. ASSUME NEW verbs, verbs \subseteq BareVerbs PROVE Known(verbs, Bare) \subseteq Vocabulary
    BY <1>1, BareKnown DEF Known, Bare, Knows
  <1>2. /\ Known({"setid"}, Within(1..4)) \subseteq Vocabulary
        /\ Known({"corner_test"}, Within(1..4)) \subseteq Vocabulary
        /\ Known({"gain"}, Within({128, 64, 32})) \subseteq Vocabulary
    BY DEF Vocabulary, SystemCommands, CornerCommands, DiagCommands
  <1>3. SystemButtons \subseteq Vocabulary
    <2>1. {"status", "save", "help", "devid", "update", "reboot"} \subseteq BareVerbs
      BY DEF BareVerbs
    <2> QED BY <1>1, <1>2, <2>1 DEF SystemButtons
  <1>4. MeasureButtons \subseteq Vocabulary
    <2>1. {"start", "stop", "tare", "autozero_on", "autozero_off"} \subseteq BareVerbs
      BY DEF BareVerbs
    <2> QED BY <1>1, <2>1 DEF MeasureButtons
  <1>5. CalibButtons \subseteq Vocabulary
    <2>1. {"cal_tare", "factor", "save"} \subseteq BareVerbs
      BY DEF BareVerbs
    <2> QED BY <1>1, <2>1 DEF CalibButtons
  <1>6. CornerButtons \subseteq Vocabulary
    <2>1. {"corner_report", "corner_clear"} \subseteq BareVerbs
      BY DEF BareVerbs
    <2> QED BY <1>1, <1>2, <2>1 DEF CornerButtons
  <1>7. DiagButtons \subseteq Vocabulary
    <2>1. {"diag", "wiring"} \subseteq BareVerbs
      BY DEF BareVerbs
    <2> QED BY <1>1, <1>2, <2>1 DEF DiagButtons
  <1>8. RfidButtons \subseteq Vocabulary
    <2>1. {"rfid_scan", "rfid_monitor", "rfid_diag", "rfid_status", "rfid_start",
           "rfid_stop", "rfid_power"} \subseteq BareVerbs
      BY DEF BareVerbs
    <2> QED BY <1>1, <2>1 DEF RfidButtons
  <1>9. BeamButtons \subseteq Vocabulary
    <2>1. {"beam", "beam_monitor", "session", "session_reset", "flow"} \subseteq BareVerbs
      BY DEF BareVerbs
    <2> QED BY <1>1, <2>1 DEF BeamButtons
  <1>10. ValveButtons \subseteq Vocabulary
    <2>1. {"valve_status", "valve_open", "valve_close"} \subseteq BareVerbs
      BY DEF BareVerbs
    <2> QED BY <1>1, <2>1 DEF ValveButtons
  <1>11. NetworkButtons \subseteq Vocabulary
    <2>1. {"wifi", "espnow_status", "espnow_test", "cloud_test", "time", "ntp_sync"} \subseteq BareVerbs
      BY DEF BareVerbs
    <2> QED BY <1>1, <2>1 DEF NetworkButtons
  <1> QED BY <1>3, <1>4, <1>5, <1>6, <1>7, <1>8, <1>9, <1>10, <1>11 DEF Buttons

\* What the window offers and the help tells to type is understood.
LEMMA OfferUnderstood ==
  ASSUME NEW p \in Presses
  PROVE  p.by \in {"blank", "omitted"} \/ Understood(p)
  <1>1. ASSUME NEW c \in UNION {Buttons, WithValue(Filled), Known(HelpBare, Bare), WithValue(HelpValued)}
        PROVE  [verb |-> c.verb, value |-> c.value] \in Vocabulary
    <2>1. CASE c \in Buttons
      <3>1. c = [verb |-> c.verb, value |-> c.value]
        BY <2>1 DEF Buttons, SystemButtons, MeasureButtons, CalibButtons, CornerButtons, DiagButtons,
           RfidButtons, BeamButtons, ValveButtons, NetworkButtons, Known
      <3> QED BY <2>1, <3>1, ButtonsKnown
    <2>2. CASE c \in WithValue(Filled) \cup WithValue(HelpValued)
      BY <2>2, ValuedKnown DEF WithValue, KnowsRow, Knows
    <2>3. CASE c \in Known(HelpBare, Bare)
      <3>1. HelpBare \subseteq BareVerbs
        BY DEF HelpBare, BareVerbs
      <3> QED BY <2>3, <3>1, BareKnown DEF Known, Bare, Knows
    <2> QED BY <1>1, <2>1, <2>2, <2>3
  <1>2. CASE p \in By("offer", UNION {Buttons, WithValue(Filled), Known(HelpBare, Bare),
                                     WithValue(HelpValued)})
    <2>1. PICK c \in UNION {Buttons, WithValue(Filled), Known(HelpBare, Bare), WithValue(HelpValued)} :
            p = [verb |-> c.verb, value |-> c.value, by |-> "offer"]
      BY <1>2 DEF By
    <2>2. p.verb = c.verb /\ p.value = c.value
      BY <2>1
    <2> QED BY <1>1, <2>2 DEF Understood
  <1>3. ASSUME NEW how \in {"blank", "omitted"}, NEW S, p \in By(how, S)
        PROVE  p.by = how
    BY <1>3 DEF By
  <1> QED BY <1>2, <1>3 DEF Presses

\* The post complains of rows left blank and of the dump that this build leaves out alone:
\* whatever else a button, a row or the help sends, it carries out (mwctl_gui.py 162-293,
\* telnet.cpp 154-680, config.h 7).
THEOREM OffersAreUnderstood == ConsoleSpec => []ButtonsUnderstood
  <1>1. ConsoleInit => ButtonsUnderstood
    BY DEF ConsoleInit, ButtonsUnderstood
  <1>2. ButtonsUnderstood /\ [ConsoleNext]_consoleVars => ButtonsUnderstood'
    <2> SUFFICES ASSUME ButtonsUnderstood, [ConsoleNext]_consoleVars PROVE ButtonsUnderstood'
      OBVIOUS
    <2>1. ASSUME UNCHANGED complaints PROVE ButtonsUnderstood'
      BY <2>1 DEF ButtonsUnderstood
    <2>2. ASSUME NEW p \in Presses, PostTakes(p) PROVE ButtonsUnderstood'
      BY <2>2, OfferUnderstood DEF PostTakes, ButtonsUnderstood
    <2>3. CASE PostRestarts \/ Press \/ PostNotices \/ CommandLost \/ CommandEnds
      BY <2>1, <2>3 DEF PostRestarts, Press, PostNotices, CommandLost, CommandEnds
    <2>4. CASE \E c \in Conn : PostAccepts(c) \/ PostRefuses(c)
      BY <2>1, <2>4 DEF PostAccepts, PostRefuses, postVars
    <2>6. CASE UNCHANGED postVars
      BY <2>1, <2>6 DEF postVars
    <2>7. CASE UNCHANGED consoleVars
      BY <2>6, <2>7 DEF consoleVars
    <2> QED BY <2>2, <2>3, <2>4, <2>6, <2>7 DEF ConsoleNext
  <1> QED BY <1>1, <1>2, PTL DEF ConsoleSpec

-----------------------------------------------------------------------------
(* The monitoring scripts *)

Answers == {"none", "created", "error"}
RequestSet == [packet : Packets, attempt : Attempts, answer : Answers]

\* The router works on a packet that was sent and that it has found valid.
RouterInv == /\ sent \in 0 .. MAX_PACKETS /\ attempt \in Attempts
             /\ router \in {"reading", "trying", "waiting", "dead"}
             /\ packet \in 0 .. sent
             /\ router \in {"trying", "waiting"} => packet # 0 /\ Valid(packet)

\* No packet is in the serial buffer twice.
UartInv == /\ uart \in Seq(1 .. sent)
           /\ \A i, j \in DOMAIN uart : uart[i] = uart[j] => i = j

\* Only valid packets are at the API, and an answer "created" has its row.
ApiInv == /\ IsFiniteSet(requests) /\ requests \subseteq RequestSet
          /\ rows \in [Packets -> Nat]
          /\ \A r \in requests : /\ r.packet <= sent /\ Valid(r.packet)
                                 /\ r.answer = "created" => rows[r.packet] > 0

\* The requests for a packet that may still insert a row, and the attempts that were made for it
\* at most: all three, if it is not the one the router works on.
Open(p) == {r \in requests : r.packet = p /\ r.answer = "none"}
Posted(p) == IF p # packet THEN 3 ELSE IF router = "trying" THEN attempt ELSE attempt + 1

Unread(p) == p > sent \/ p \in ToSet(uart)

\* Every row and every request that may still insert one is of an attempt of its own, and a packet
\* the router has not read has neither.
CountInv == \A p \in Packets :
                /\ rows[p] + Cardinality(Open(p)) <= Posted(p)
                /\ Unread(p) => rows[p] = 0 /\ p # packet /\ \A r \in requests : r.packet # p
                /\ rows[p] > 0 => Valid(p)

MonInv == RouterInv /\ UartInv /\ ApiInv /\ CountInv /\ Accounted

\* What is in the buffer after a packet was put in at its end or taken out at its front.
LEMMA UartAppend ==
    ASSUME NEW s \in Seq(Nat), NEW n \in Nat, n \notin ToSet(s),
           \A i, j \in DOMAIN s : s[i] = s[j] => i = j
    PROVE  /\ ToSet(Append(s, n)) = ToSet(s) \cup {n}
           /\ \A i, j \in DOMAIN Append(s, n) :
                Append(s, n)[i] = Append(s, n)[j] => i = j
<1> DEFINE h == Append(s, n)
<1>1. /\ Len(s) \in Nat /\ DOMAIN s = 1 .. Len(s) /\ DOMAIN h = 1 .. Len(s) + 1
      /\ \A i \in DOMAIN s : h[i] = s[i]
      /\ h[Len(s) + 1] = n
    BY AppendProperties, LenProperties
<1> HIDE DEF h
<1>2. \A i \in DOMAIN h : i \in DOMAIN s \/ i = Len(s) + 1
    BY <1>1
<1>3. \A i \in DOMAIN s : s[i] # n
    BY DEF ToSet
<1>4. ToSet(h) = ToSet(s) \cup {n}
    <2>1. DOMAIN s \subseteq DOMAIN h /\ Len(s) + 1 \in DOMAIN h
        BY <1>1
    <2> QED BY <1>1, <1>2, <2>1 DEF ToSet
<1>5. \A i, j \in DOMAIN h : h[i] = h[j] => i = j
    BY <1>1, <1>2, <1>3
<1> QED BY <1>4, <1>5 DEF h

LEMMA UartTail ==
    ASSUME NEW s \in Seq(Nat), s # <<>>, \A i, j \in DOMAIN s : s[i] = s[j] => i = j
    PROVE  /\ ToSet(s) = ToSet(Tail(s)) \cup {Head(s)} /\ Head(s) \notin ToSet(Tail(s))
           /\ \A i, j \in DOMAIN Tail(s) : Tail(s)[i] = Tail(s)[j] => i = j
<1> DEFINE h == Tail(s)
<1>1. /\ Len(s) \in Nat /\ Len(s) > 0 /\ DOMAIN s = 1 .. Len(s)
      /\ DOMAIN h = 1 .. Len(s) - 1 /\ Head(s) = s[1]
      /\ \A i \in 1 .. Len(s) - 1 : h[i] = s[i + 1]
    BY HeadTailProperties, LenProperties, EmptySeq
<1> HIDE DEF h
<1>2. \A i \in DOMAIN h : h[i] = s[i + 1] /\ i + 1 \in DOMAIN s /\ i + 1 # 1
    BY <1>1
<1>3. \A i \in DOMAIN s : i = 1 \/ (i - 1 \in DOMAIN h /\ h[i - 1] = s[i])
    BY <1>1
<1>4. 1 \in DOMAIN s
    BY <1>1
<1>5. ToSet(s) = ToSet(h) \cup {s[1]}
    <2>1. ASSUME NEW i \in DOMAIN s PROVE s[i] \in ToSet(h) \cup {s[1]}
        BY <1>3 DEF ToSet
    <2>2. ASSUME NEW i \in DOMAIN h PROVE h[i] \in ToSet(s)
        BY <1>2 DEF ToSet
    <2> QED BY <1>4, <2>1, <2>2 DEF ToSet
<1>6. s[1] \notin ToSet(h)
    BY <1>2, <1>4 DEF ToSet
<1>7. \A i, j \in DOMAIN h : h[i] = h[j] => i = j
    <2> TAKE i, j \in DOMAIN h
    <2> HAVE h[i] = h[j]
    <2>1. i + 1 = j + 1
        BY <1>2
    <2> QED BY <1>1, <2>1
<1> QED BY <1>1, <1>5, <1>6, <1>7 DEF h

LEMMA MonitoringStarts == MonitoringInit => MonInv
<1> SUFFICES ASSUME MonitoringInit PROVE MonInv
    OBVIOUS
<1>1. RouterInv
    BY MonitoringAssumption DEF MonitoringInit, RouterInv, Attempts
<1>2. UartInv
    BY DEF MonitoringInit, UartInv
<1>3. ApiInv
    BY FS_EmptySet DEF MonitoringInit, ApiInv
<1>4. ASSUME NEW p \in Packets PROVE Open(p) = {}
    BY DEF MonitoringInit, Open
<1>5. Cardinality({}) = 0 /\ ToSet(<<>>) = {}
    BY FS_EmptySet DEF ToSet
<1>6. ASSUME NEW p \in Packets
      PROVE  rows[p] = 0 /\ Cardinality(Open(p)) = 0 /\ Posted(p) >= 0 /\ p # packet
    <2>1. Cardinality(Open(p)) = 0
        BY <1>4, <1>5
    <2>2. p # packet /\ rows[p] = 0
        BY MonitoringAssumption DEF MonitoringInit, Packets
    <2> QED BY <2>1, <2>2 DEF Posted
<1>c. CountInv
    BY <1>6 DEF MonitoringInit, CountInv
<1>7. Accounted
    BY DEF MonitoringInit, Accounted
<1> QED BY <1>1, <1>2, <1>3, <1>c, <1>7 DEF MonInv

\* The buffer, step by step: only a reader puts a packet in, only the router takes one out.
LEMMA UartSteps ==
    ASSUME MonInv, [MonitoringNext]_vars
    PROVE  \/ sent' = sent /\ uart' = uart /\ dropped' = dropped
           \/ sent' = sent /\ dropped' = dropped /\ Reads /\ uart' = Tail(uart)
           \/ SendPacket
<1>1. CASE RouterStep
    BY <1>1 DEF RouterStep, Rejects, Dies, Accepts, Posts, Refused, Delivered, HttpError, TimesOut
<1>2. CASE ApiStep
    BY <1>2 DEF ApiStep, AddSensorData, Fails, Startup, Stops
<1>3. CASE UNCHANGED vars
    BY <1>3 DEF vars
<1> QED BY <1>1, <1>2, <1>3 DEF MonitoringNext

LEMMA UartFacts ==
    ASSUME MonInv
    PROVE  /\ sent \in Nat /\ uart \in Seq(Nat) /\ \A n \in ToSet(uart) : n \in 1 .. sent
           /\ uart # <<>> => /\ Head(uart) \in 1 .. sent
                             /\ ToSet(uart) = ToSet(Tail(uart)) \cup {Head(uart)}
                             /\ Head(uart) \notin ToSet(Tail(uart))
                             /\ Tail(uart) \in Seq(1 .. sent)
<1>1. sent \in Nat /\ uart \in Seq(1 .. sent) /\ 1 .. sent \subseteq Nat
    BY MonitoringAssumption DEF MonInv, RouterInv, UartInv
<1>2. uart \in Seq(Nat) /\ \A n \in ToSet(uart) : n \in 1 .. sent
    BY <1>1, ElementOfSeq DEF ToSet
<1>3. uart # <<>> => /\ ToSet(uart) = ToSet(Tail(uart)) \cup {Head(uart)}
                     /\ Head(uart) \notin ToSet(Tail(uart))
    BY <1>2, UartTail DEF MonInv, UartInv
<1>4. uart # <<>> => Tail(uart) \in Seq(1 .. sent)
    BY <1>1, HeadTailProperties
<1> QED BY <1>1, <1>2, <1>3, <1>4

LEMMA UartStep ==
    ASSUME MonInv, [MonitoringNext]_vars
    PROVE  UartInv'
<1>1. CASE sent' = sent /\ uart' = uart
    BY <1>1 DEF MonInv, UartInv
<1>2. CASE sent' = sent /\ Reads /\ uart' = Tail(uart)
    <2>1. uart # <<>> /\ uart \in Seq(Nat) /\ Tail(uart) \in Seq(1 .. sent)
        BY <1>2, UartFacts DEF Reads
    <2> QED BY <1>2, <2>1, UartTail DEF MonInv, UartInv
<1>3. CASE SendPacket
    <2>1. sent \in Nat /\ sent + 1 \notin ToSet(uart) /\ uart \in Seq(Nat)
        BY UartFacts
    <2>2. 1 .. sent \subseteq 1 .. sent + 1 /\ sent + 1 \in 1 .. sent + 1
        BY <2>1
    <2>3. uart \in Seq(1 .. sent + 1)
        BY <2>2, SeqMonotonic DEF MonInv, UartInv
    <2>4. Append(uart, sent + 1) \in Seq(1 .. sent + 1)
        BY <2>2, <2>3, AppendProperties
    <2>5. CASE uart' = uart
        BY <1>3, <2>3, <2>5 DEF SendPacket, MonInv, UartInv
    <2>6. CASE uart' = Append(uart, sent + 1)
        BY <1>3, <2>1, <2>4, <2>6, UartAppend DEF SendPacket, MonInv, UartInv
    <2> QED BY <1>3, <2>5, <2>6 DEF SendPacket
<1> QED BY <1>1, <1>2, <1>3, UartSteps

LEMMA RouterKept ==
    ASSUME MonInv, [MonitoringNext]_vars
    PROVE  RouterInv'
<1> USE DEF MonInv, RouterInv
<1>1. CASE SendPacket
    BY <1>1, MonitoringAssumption DEF SendPacket
<1>2. CASE Accepts
    BY <1>2, UartFacts DEF Accepts, Reads, Attempts
<1>3. CASE Rejects \/ Dies \/ Posts \/ Delivered
    BY <1>3 DEF Rejects, Dies, Posts, Delivered
<1>4. CASE Refused \/ HttpError \/ TimesOut
    BY <1>4 DEF Refused, HttpError, TimesOut, AttemptFails, Attempts
<1>5. CASE ApiStep
    BY <1>5 DEF ApiStep, AddSensorData, Fails, Startup, Stops
<1>6. CASE UNCHANGED vars
    BY <1>6 DEF vars
<1> QED BY <1>1, <1>2, <1>3, <1>4, <1>5, <1>6 DEF MonitoringNext, RouterStep

\* The API is done with request r: it is gone, or kept with its answer for the router.
LEMMA Answering ==
    ASSUME MonInv, NEW r \in requests, NEW a \in {"created", "error"},
           r.answer = "none", Answered(r, a)
    PROVE  /\ IsFiniteSet(requests')
           /\ \A q \in requests' : \/ q \in requests /\ q # r
                                   \/ q \in RequestSet /\ q.packet = r.packet /\ q.answer = a
           /\ \A p : Open(p)' = Open(p) \ {r}
<1> DEFINE z == [r EXCEPT !.answer = a]
<1>1. r \in RequestSet /\ IsFiniteSet(requests)
    BY DEF MonInv, ApiInv
<1>2. z \in RequestSet /\ z.packet = r.packet /\ z.answer = a
    BY <1>1 DEF RequestSet, Answers
<1> HIDE DEF z
<1>3. requests' = requests \ {r} \/ requests' = (requests \ {r}) \cup {z}
    BY DEF Answered, z
<1>4. IsFiniteSet(requests')
    <2>1. IsFiniteSet(requests \ {r})
        BY <1>1, FS_RemoveElement
    <2>2. IsFiniteSet((requests \ {r}) \cup {z})
        BY <2>1, FS_AddElement
    <2> QED BY <1>3, <2>1, <2>2
<1>5. \A q \in requests' : (q \in requests /\ q # r) \/ q = z
    BY <1>3
<1>6. ASSUME NEW p PROVE Open(p)' = Open(p) \ {r}
    BY <1>2, <1>3 DEF Open
<1> QED BY <1>2, <1>4, <1>5, <1>6

\* What each step does to the requests.
LEMMA RequestSteps ==
    ASSUME MonInv, [MonitoringNext]_vars
    PROVE  \/ requests' \subseteq requests /\ rows' = rows
           \/ Posts
           \/ \E r \in requests : AddSensorData(r) \/ Fails(r)
<1>1. CASE RouterStep
    BY <1>1 DEF RouterStep, Rejects, Dies, Accepts, Posts, Refused, Delivered, HttpError, TimesOut
<1>2. CASE SendPacket \/ (pool # "ready" /\ Startup) \/ Stops \/ UNCHANGED vars
    BY <1>2 DEF SendPacket, Startup, Stops, vars
<1> QED BY <1>1, <1>2 DEF MonitoringNext, ApiStep

LEMMA SentGrows == ASSUME MonInv, [MonitoringNext]_vars PROVE sent \in Nat /\ sent' \in Nat /\ sent <= sent'
    BY UartSteps, UartFacts DEF SendPacket

LEMMA Requested ==
    ASSUME MonInv, router = "trying"
    PROVE  Request \in RequestSet /\ Request.packet = packet /\ Request.attempt = attempt
               /\ Request.answer = "none" /\ packet <= sent /\ packet \in Packets /\ Valid(packet)
<1>1. sent \in 0 .. MAX_PACKETS /\ packet \in 1 .. sent /\ Valid(packet) /\ attempt \in Attempts
    BY DEF MonInv, RouterInv
<1>2. packet \in Packets /\ packet <= sent
    BY <1>1, MonitoringAssumption DEF Packets
<1> QED BY <1>1, <1>2 DEF Request, RequestSet, Answers

LEMMA ApiKept ==
    ASSUME MonInv, [MonitoringNext]_vars
    PROVE  ApiInv'
<1>0. /\ sent \in Nat /\ sent' \in Nat /\ sent <= sent'
      /\ IsFiniteSet(requests) /\ requests \subseteq RequestSet /\ rows \in [Packets -> Nat]
      /\ \A r \in requests : /\ r.packet <= sent /\ Valid(r.packet)
                             /\ r.answer = "created" => rows[r.packet] > 0
      /\ \A r \in requests : r.packet \in Packets /\ r.packet \in Nat
    BY SentGrows, MonitoringAssumption DEF MonInv, ApiInv, RequestSet, Packets
<1>1. CASE requests' \subseteq requests /\ rows' = rows
    <2>1. IsFiniteSet(requests')
        BY <1>0, <1>1, FS_Subset
    <2>2. \A r \in requests' : r.packet <= sent'
        BY <1>0, <1>1
    <2> QED BY <1>0, <1>1, <2>1, <2>2 DEF ApiInv
<1>2. CASE Posts
    <2>1. requests' = requests \cup {Request} /\ rows' = rows /\ sent' = sent
        BY <1>2 DEF Posts
    <2>2. IsFiniteSet(requests')
        BY <1>0, <2>1, FS_AddElement
    <2>3. /\ Request \in RequestSet /\ Request.packet <= sent /\ Valid(Request.packet)
          /\ Request.answer # "created"
        BY <1>2, Requested DEF Posts
    <2> QED BY <1>0, <2>1, <2>2, <2>3 DEF ApiInv
<1>3. ASSUME NEW r \in requests, NEW a \in {"created", "error"}, r.answer = "none", Answered(r, a),
             rows' \in [Packets -> Nat], \A p \in Packets : rows[p] > 0 => rows'[p] > 0,
             a = "created" => rows'[r.packet] > 0, sent' = sent
      PROVE  ApiInv'
    <2>1. /\ IsFiniteSet(requests')
          /\ \A q \in requests' : \/ q \in requests
                                  \/ q \in RequestSet /\ q.packet = r.packet /\ q.answer = a
        BY <1>3, Answering
    <2>2. ASSUME NEW q \in requests'
          PROVE  /\ q \in RequestSet /\ q.packet <= sent /\ Valid(q.packet)
                 /\ q.answer = "created" => rows'[q.packet] > 0
        BY <1>0, <1>3, <2>1
    <2> QED BY <1>3, <2>1, <2>2 DEF ApiInv
<1>4. CASE \E r \in requests : AddSensorData(r)
    <2>1. PICK r \in requests : AddSensorData(r)
        BY <1>4
    <2>2. rows' = [rows EXCEPT ![r.packet] = @ + 1]
        BY <2>1 DEF AddSensorData
    <2>3. /\ rows' \in [Packets -> Nat] /\ rows'[r.packet] > 0
          /\ \A p \in Packets : rows[p] > 0 => rows'[p] > 0
        BY <1>0, <2>2
    <2> QED BY <1>3, <2>1, <2>3 DEF AddSensorData
<1>5. CASE \E r \in requests : Fails(r)
    BY <1>0, <1>3, <1>5 DEF Fails
<1> QED BY <1>1, <1>2, <1>4, <1>5, RequestSteps

LEMMA OpenFinite ==
    ASSUME MonInv, NEW p
    PROVE  IsFiniteSet(Open(p)) /\ Cardinality(Open(p)) \in Nat
<1>1. IsFiniteSet(Open(p))
    BY FS_Subset DEF MonInv, ApiInv, Open
<1> QED BY <1>1, FS_CardinalityType

\* The attempts that may have been made for a packet never become fewer, but when the router goes
\* on to another packet, of which nothing is known yet.
LEMMA PostedGrows ==
    ASSUME MonInv, [MonitoringNext]_vars, ~Accepts, NEW p
    PROVE  /\ Posted(p) \in Nat /\ Posted(p)' \in Nat /\ Posted(p) <= Posted(p)' /\ packet' = packet
           /\ Posts /\ p = packet => Posted(p) + 1 <= Posted(p)'
<1> USE DEF Posted
<1>1. attempt \in Attempts /\ attempt' \in Attempts
    BY RouterKept DEF MonInv, RouterInv
<1>2. attempt \in 0 .. 2 /\ attempt' \in 0 .. 2
    BY <1>1 DEF Attempts
<1>3. CASE UNCHANGED <<router, packet, attempt>> /\ ~Posts
    BY <1>2, <1>3
<1>4. CASE Posts
    BY <1>2, <1>4 DEF Posts
<1>5. CASE Delivered \/ Rejects \/ Dies
    <2>1. router # "trying" /\ router' # "trying" /\ packet' = packet /\ attempt' = attempt
        BY <1>5 DEF Delivered, Rejects, Dies, Reads
    <2> QED BY <1>2, <2>1 DEF Posts
<1>6. CASE Refused \/ HttpError \/ TimesOut
    <2>1. AttemptFails /\ packet' = packet /\ router' # "waiting"
        BY <1>6 DEF Refused, HttpError, TimesOut, AttemptFails
    <2>2. ~Posts
        BY <2>1 DEF Posts
    <2>3. \/ router' = "trying" /\ attempt' = attempt + 1
          \/ router' = "reading" /\ attempt' = attempt
        BY <2>1 DEF AttemptFails
    <2>4. Posted(p)' = IF p # packet THEN 3 ELSE attempt + 1
        BY <2>1, <2>3
    <2>5. Posted(p) \in Nat /\ Posted(p) <= IF p # packet THEN 3 ELSE attempt + 1
        BY <1>2
    <2> HIDE DEF Posted
    <2>6. CASE p # packet
        BY <2>1, <2>2, <2>4, <2>5, <2>6
    <2>7. CASE p = packet
        BY <1>2, <2>1, <2>2, <2>4, <2>5, <2>7
    <2> QED BY <2>6, <2>7
<1>7. CASE SendPacket \/ ApiStep \/ UNCHANGED vars
    <2>1. UNCHANGED <<router, packet, attempt>>
        BY <1>7 DEF SendPacket, ApiStep, AddSensorData, Fails, Startup, Stops, vars
    <2>2. ~Posts
        BY <2>1 DEF Posts
    <2> QED BY <1>3, <2>1, <2>2
<1> QED BY <1>4, <1>5, <1>6, <1>7 DEF MonitoringNext, RouterStep

\* A packet that is not read yet was not read before.
LEMMA UnreadShrinks ==
    ASSUME MonInv, [MonitoringNext]_vars, NEW p \in Packets, Unread(p)'
    PROVE  Unread(p) /\ (Reads /\ uart' = Tail(uart) => p # Head(uart))
<1>0. p \in Nat /\ sent \in Nat
    BY UartFacts, MonitoringAssumption DEF Packets
<1>1. CASE sent' = sent /\ uart' = uart
    <2>1. ~(Reads /\ uart' = Tail(uart))
        BY <1>1, UartFacts DEF Reads
    <2> QED BY <1>1, <2>1 DEF Unread
<1>2. CASE sent' = sent /\ Reads /\ uart' = Tail(uart)
    <2>1. Unread(p) /\ p # Head(uart)
        BY <1>0, <1>2, UartFacts DEF Unread, Reads
    <2> QED BY <2>1
<1>3. CASE SendPacket
    <2>1. uart' = uart \/ uart' = Append(uart, sent + 1)
        BY <1>3 DEF SendPacket
    <2>2. uart \in Seq(Nat) /\ sent + 1 \in Nat /\ sent + 1 \notin ToSet(uart)
        BY UartFacts
    <2>3. ToSet(Append(uart, sent + 1)) = ToSet(uart) \cup {sent + 1}
        BY <2>2, UartAppend DEF MonInv, UartInv
    <2>x. p > sent' \/ p \in ToSet(uart')
        BY DEF Unread
    <2>y. ToSet(uart') \subseteq ToSet(uart) \cup {sent + 1} /\ sent' = sent + 1
        BY <1>3, <2>1, <2>3 DEF SendPacket
    <2>4. Unread(p)
        BY <1>0, <2>x, <2>y DEF Unread
    <2>5. ~(uart # <<>> /\ uart' = Tail(uart))
        <3>1. Len(uart) \in Nat /\ Len(Append(uart, sent + 1)) = Len(uart) + 1
            BY <2>2, AppendProperties, LenProperties
        <3>2. uart # <<>> => Len(Tail(uart)) = Len(uart) - 1
            BY <2>2, HeadTailProperties
        <3> QED BY <2>1, <3>1, <3>2
    <2> QED BY <2>4, <2>5 DEF Reads
<1> QED BY <1>1, <1>2, <1>3, UartSteps

LEMMA CountKept ==
    ASSUME MonInv, [MonitoringNext]_vars, NEW p \in Packets
    PROVE  /\ rows'[p] + Cardinality(Open(p)') <= Posted(p)'
           /\ Unread(p)' => rows'[p] = 0 /\ p # packet' /\ \A r \in requests' : r.packet # p
           /\ rows'[p] > 0 => Valid(p)
<1> DEFINE Good == /\ rows'[p] + Cardinality(Open(p)') <= Posted(p)'
                   /\ Unread(p)' => rows'[p] = 0 /\ \A r \in requests' : r.packet # p
                   /\ rows'[p] > 0 => Valid(p)
<1>1. /\ rows[p] + Cardinality(Open(p)) <= Posted(p) /\ rows \in [Packets -> Nat]
      /\ Unread(p) => rows[p] = 0 /\ p # packet /\ \A r \in requests : r.packet # p
      /\ rows[p] > 0 => Valid(p)
      /\ IsFiniteSet(Open(p)) /\ Cardinality(Open(p)) \in Nat
      /\ \A r \in requests : Valid(r.packet)
    BY OpenFinite DEF MonInv, CountInv, ApiInv
<1>2. Unread(p)' => p # packet'
    <2>1. CASE Accepts
        BY <2>1, UnreadShrinks DEF Accepts
    <2>2. CASE ~Accepts
        BY <1>1, <2>2, UnreadShrinks, PostedGrows
    <2> QED BY <2>1, <2>2
<1>3. CASE Accepts
    <2>1. requests' = requests /\ rows' = rows /\ packet' = Head(uart) /\ Reads
        BY <1>3 DEF Accepts
    <2>2. Open(p)' = Open(p)
        BY <2>1 DEF Open
    <2>3. CASE p = packet'
        <3>1. rows[p] = 0 /\ \A r \in requests : r.packet # p
            BY <1>1, <2>1, <2>3, UartFacts DEF Unread, Reads
        <3>2. Open(p) = {} /\ Cardinality({}) = 0
            BY <3>1, FS_EmptySet DEF Open
        <3>3. Posted(p)' = 0
            BY <1>3, <2>3 DEF Posted, Accepts
        <3> QED BY <1>1, <1>2, <2>1, <2>2, <2>3, <3>1, <3>2, <3>3
    <2>4. CASE p # packet'
        <3>1. Posted(p)' = 3 /\ Posted(p) \in Nat /\ Posted(p) <= 3
            BY <2>4 DEF Posted, MonInv, RouterInv, Attempts
        <3> QED BY <1>1, <2>1, <2>2, <2>4, <3>1, UnreadShrinks
    <2> QED BY <2>3, <2>4
<1>4. ASSUME ~Accepts, requests' \subseteq requests, rows' = rows PROVE Good
    <2>1. Open(p)' \subseteq Open(p)
        BY <1>4 DEF Open
    <2>2. Cardinality(Open(p)') \in Nat /\ Cardinality(Open(p)') <= Cardinality(Open(p))
        BY <1>1, <2>1, FS_Subset, FS_CardinalityType
    <2> QED BY <1>1, <1>4, <2>2, PostedGrows, UnreadShrinks
<1>5. ASSUME ~Accepts, Posts PROVE Good
    <2>1. /\ requests' = requests \cup {Request} /\ rows' = rows /\ router = "trying"
          /\ Request.packet = packet /\ packet \in Packets /\ Valid(packet)
        BY <1>5, Requested DEF Posts
    <2>2. CASE p = packet
        <3>1. Open(p)' = Open(p) \cup {Request}
            BY <2>1, <2>2, Requested DEF Open
        <3>x. /\ IsFiniteSet(Open(p)')
              /\ \/ Cardinality(Open(p)') = Cardinality(Open(p))
                 \/ Cardinality(Open(p)') = Cardinality(Open(p)) + 1
            BY <1>1, <3>1, FS_AddElement
        <3>2. /\ Cardinality(Open(p)') \in Nat
              /\ Cardinality(Open(p)') <= Cardinality(Open(p)) + 1
            BY <1>1, <3>x
        <3> QED BY <1>1, <1>2, <1>5, <2>1, <2>2, <3>2, PostedGrows
    <2>3. CASE p # packet
        <3>1. Open(p)' = Open(p)
            BY <2>1, <2>3 DEF Open
        <3> QED BY <1>1, <1>5, <2>1, <2>3, <3>1, PostedGrows, UnreadShrinks
    <2> QED BY <2>2, <2>3
<1>6. ASSUME ~Accepts, NEW r \in requests, AddSensorData(r) \/ Fails(r) PROVE Good
    <2>1. /\ r.answer = "none" /\ r.packet \in Packets
          /\ \E a \in {"created", "error"} : Answered(r, a)
          /\ \/ rows' = [rows EXCEPT ![r.packet] = @ + 1]
             \/ rows' = rows
        BY <1>6 DEF AddSensorData, Fails, MonInv, ApiInv, RequestSet
    <2>2. /\ \A q \in requests' : q \in requests \/ q.packet = r.packet
          /\ Open(p)' = Open(p) \ {r}
        BY <2>1, Answering
    <2>3. CASE p = r.packet
        <3>1. r \in Open(p)
            BY <2>1, <2>3 DEF Open
        <3>2. Cardinality(Open(p)') = Cardinality(Open(p)) - 1
            BY <1>1, <2>2, <3>1, FS_RemoveElement
        <3>3. rows'[p] \in Nat /\ rows'[p] <= rows[p] + 1
            BY <1>1, <2>1
        <3>4. ~Unread(p)'
            BY <1>1, <2>3, UnreadShrinks
        <3> QED BY <1>1, <1>6, <2>3, <3>2, <3>3, <3>4, PostedGrows
    <2>4. CASE p # r.packet
        <3>1. Open(p)' = Open(p) /\ rows'[p] = rows[p]
            BY <1>1, <2>1, <2>2, <2>4 DEF Open
        <3>2. rows'[p] + Cardinality(Open(p)') <= Posted(p)'
            BY <1>1, <1>6, <3>1, PostedGrows
        <3>3. Unread(p)' => rows'[p] = 0 /\ \A q \in requests' : q.packet # p
            BY <1>1, <2>2, <2>4, <3>1, UnreadShrinks
        <3> QED BY <1>1, <3>1, <3>2, <3>3
    <2> QED BY <2>3, <2>4
<1> QED BY <1>2, <1>3, <1>4, <1>5, <1>6, RequestSteps

\* No step of the router forgets a packet: it goes on to the next one only after a row or a report.
LEMMA AccountedKept ==
    ASSUME MonInv, [MonitoringNext]_vars
    PROVE  Accounted'
<1> SUFFICES ASSUME router' # "dead", NEW p \in (1 .. sent \ dropped)'
             PROVE  UnderWay(p)' \/ rows'[p] > 0 \/ p \in reported'
    BY DEF Accounted
<1> DEFINE Kept == UnderWay(p)' \/ rows'[p] > 0 \/ p \in reported'
<1>0. sent \in Nat /\ rows \in [Packets -> Nat] /\ sent \in 0 .. MAX_PACKETS
    BY UartFacts DEF MonInv, ApiInv, RouterInv
<1>1. CASE SendPacket
    <2>1. uart \in Seq(Nat) /\ sent + 1 \notin ToSet(uart)
        BY UartFacts
    <2>2. ToSet(Append(uart, sent + 1)) = ToSet(uart) \cup {sent + 1}
        BY <1>0, <2>1, UartAppend DEF MonInv, UartInv
    <2>3. CASE p = sent + 1
        <3>1. uart' = Append(uart, sent + 1)
            BY <1>1, <2>3 DEF SendPacket
        <3> QED BY <2>2, <2>3, <3>1 DEF UnderWay
    <2>4. CASE p # sent + 1
        <3>1. p \in 1 .. sent \ dropped
            BY <1>0, <1>1, <2>4 DEF SendPacket
        <3>2. ToSet(uart) \subseteq ToSet(uart')
            BY <1>1, <2>2 DEF SendPacket
        <3> QED BY <1>1, <3>1, <3>2 DEF SendPacket, MonInv, Accounted, UnderWay
    <2> QED BY <2>3, <2>4
<1>2. CASE ~SendPacket
    <2>0. sent' = sent /\ dropped' = dropped
        BY <1>2, UartSteps
    <2>1. router # "dead"
        BY <1>2 DEF MonitoringNext, RouterStep, Rejects, Dies, Accepts, Posts, Refused, Delivered,
              HttpError, TimesOut, Reads, ApiStep, AddSensorData, Fails, Startup, Stops, vars
    <2>2. UnderWay(p) \/ rows[p] > 0 \/ p \in reported
        BY <2>0, <2>1 DEF MonInv, Accounted
    <2>3. p \in Packets
        BY <1>0, <2>0, MonitoringAssumption DEF Packets
    <2>4. CASE Rejects \/ Accepts
        <3>1. ToSet(uart) = ToSet(uart') \cup {Head(uart)}
            BY <2>4, UartFacts DEF Rejects, Accepts, Reads
        <3>2. CASE Rejects
            BY <2>2, <3>1, <3>2 DEF Rejects, UnderWay, Reads
        <3>3. CASE Accepts
            BY <2>2, <3>1, <3>3 DEF Accepts, UnderWay, Reads
        <3> QED BY <2>4, <3>2, <3>3
    <2>5. CASE Posts
        BY <2>2, <2>5 DEF Posts, UnderWay
    <2>6. CASE Refused \/ HttpError \/ TimesOut
        BY <2>2, <2>6 DEF Refused, HttpError, TimesOut, AttemptFails, UnderWay
    <2>7. CASE Delivered
        <3>1. rows[packet] > 0
            BY <2>7 DEF Delivered, Mine, MonInv, ApiInv
        <3> QED BY <2>2, <2>7, <3>1 DEF Delivered, UnderWay
    <2>8. CASE \E r \in requests : AddSensorData(r)
        <3>1. PICK r \in requests : AddSensorData(r)
            BY <2>8
        <3>2. rows' = [rows EXCEPT ![r.packet] = @ + 1] /\ UNCHANGED <<uart, router, packet, reported>>
            BY <3>1 DEF AddSensorData
        <3>3. rows[p] > 0 => rows'[p] > 0
            BY <1>0, <2>3, <3>2
        <3> QED BY <2>2, <3>2, <3>3 DEF UnderWay
    <2>9. CASE (\E r \in requests : Fails(r)) \/ Startup \/ Stops \/ UNCHANGED vars
        BY <2>2, <2>9 DEF Fails, Startup, Stops, vars, UnderWay
    <2>10. ~Dies
        BY DEF Dies
    <2> QED BY <1>2, <2>4, <2>5, <2>6, <2>7, <2>8, <2>9, <2>10 DEF MonitoringNext, RouterStep, ApiStep
<1> QED BY <1>1, <1>2

LEMMA MonitoringStep == MonInv /\ [MonitoringNext]_vars => MonInv'
<1> SUFFICES ASSUME MonInv, [MonitoringNext]_vars PROVE MonInv'
    OBVIOUS
<1>1. CountInv'
    BY CountKept DEF CountInv
<1> QED BY <1>1, RouterKept, UartStep, ApiKept, AccountedKept DEF MonInv

\* However often the router repeats a request and whatever the API does with the ones it has given
\* up, no packet gets more rows than it had attempts, and none that was refused gets any
\* (raspberry_data_router.py 62-77, server_api.py 57-80).
THEOREM RowsPerAttempt == MonitoringSpec => []RowsOfAttempts
<1>1. ASSUME MonInv PROVE RowsOfAttempts
    <2>1. ASSUME NEW p \in Packets PROVE (rows[p] > 0 => p <= sent /\ Valid(p)) /\ rows[p] <= 3
        <3>1. /\ rows[p] + Cardinality(Open(p)) <= Posted(p) /\ rows[p] \in Nat
              /\ Cardinality(Open(p)) \in Nat
              /\ rows[p] > 0 => Valid(p) /\ ~(p > sent)
            BY <1>1, OpenFinite DEF MonInv, CountInv, ApiInv, Unread
        <3>2. Posted(p) \in 0 .. 3
            BY <1>1 DEF Posted, MonInv, RouterInv, Attempts
        <3>3. p \in Nat /\ sent \in Nat
            BY <1>1, UartFacts, MonitoringAssumption DEF Packets
        <3> QED BY <3>1, <3>2, <3>3
    <2> QED BY <2>1 DEF RowsOfAttempts
<1> QED BY <1>1, MonitoringStarts, MonitoringStep, PTL DEF MonitoringSpec

\* As long as the router runs, every packet that reached it is under way, in the table or
\* reported: an attempt that was given up is never taken for a delivered one
\* (raspberry_data_router.py 70-91).
THEOREM NothingForgotten == MonitoringSpec => []Accounted
<1>1. MonInv => Accounted
    BY DEF MonInv
<1> QED BY <1>1, MonitoringStarts, MonitoringStep, PTL DEF MonitoringSpec
=============================================================================
