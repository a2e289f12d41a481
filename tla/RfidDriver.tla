----------------------------- MODULE RfidDriver -----------------------------
(***************************************************************************)
(* The UART driver of the CF-MU910 reader (devices/cfmu910/cfmu910.cpp,    *)
(* lines 16-312) against the reader module at the other end of the wire:   *)
(* one scan, the diagnosis, the power setting and the start-up, as the     *)
(* background task or a console command calls them, one at a time.         *)
(*                                                                         *)
(* A frame travels as two units, its header with the status and its        *)
(* payload with the check sum: a flush or a deadline may fall between      *)
(* them, and a payload may contain the header byte 0xCF, which then claims *)
(* a size of its own.  The wire disturbs bytes and loses them, also those  *)
(* of the length and of the answers to commands.                           *)
(***************************************************************************)
EXTENDS Integers, Sequences, FiniteSets

CONSTANTS
    Tags,           \* the EPCs in the field
    TagsWithCF,     \* those with a byte 0xCF
    LongTags,       \* those of more than twelve bytes
    FirstBytes,     \* the first twelve bytes of these
    Garbage,        \* an EPC no tag has
    Rssi,           \* signal strengths
    FALSE_SIZE,     \* units a header byte inside a payload claims
    WrongSizes,     \* bound: units a damaged length claims; 0 when 0xCF itself is damaged
    STREAM_UNITS,   \* units that fit into the buffer of a scan (1023 bytes)
    DIAG_UNITS,     \* units that fit into the buffer of the diagnosis (512 bytes)
    RESP_UNITS,     \* units that fit into the buffer of a response (16 bytes)
    UART_UNITS,     \* units that the serial driver keeps unread (256 bytes)
    Powers,         \* bound: the powers an operator types, in dBm
    POWER_MIN, POWER_MAX, DEFAULT_POWER,    \* 10, 33, 26
    Absent,         \* no power stored
    StopsInTime     \* the module has stopped 50 ms after command 0x0002

ASSUME DriverAssumption ==
    /\ Garbage \notin Tags /\ TagsWithCF \subseteq Tags /\ LongTags \subseteq Tags
    /\ Rssi \subseteq Int /\ FALSE_SIZE \in Nat \ {0} /\ WrongSizes \subseteq Nat
    /\ {STREAM_UNITS, DIAG_UNITS, RESP_UNITS, UART_UNITS} \subseteq Nat
    /\ DEFAULT_POWER \in POWER_MIN .. POWER_MAX /\ StopsInTime \in BOOLEAN

VARIABLES
    pc,             \* where the driver is: "idle", "scan", "stop", "diag", "power"
    uart,           \* units received and not read yet
    stream,         \* units the running call has read
    want,           \* the power of the running cfmu910SetPower
    booting,        \* that call is initCFMU910's
    s_power, nvsPower,
    running,        \* module: inventory is running
    sending,        \* module: units of the current frame not sent yet
    modPower,       \* module: its power, Absent when it has not been set
    heard,          \* history: frames wholly read by this scan, in their order
    aligned,        \* history: this scan began between two frames, and no length
                    \* was damaged and no unit lost since
    sound           \* history: how many of the frames heard came while it was

wire       == <<uart, running, sending>>
power      == <<want, booting, s_power, nvsPower, modPower>>
history    == <<heard, aligned, sound>>
driverVars == <<pc, uart, stream, want, booting, s_power, nvsPower, running, sending,
                modPower, heard, aligned, sound>>

\* Frames.  "done" ends an inventory with status 0x12; "ack" and "nak" answer a
\* command with and without status 0; crc says whether the check sum is right,
\* size how many units the length claims.
TagFrames == [kind : {"tag"}, epc : Tags, rssi : Rssi, crc : {TRUE}, size : {2}]
\* A tag frame with damaged bytes.
Disturbed(n) == [kind |-> "tag", epc |-> Garbage, rssi |-> 0, crc |-> FALSE, size |-> n]
Short(kind)  == [kind |-> kind, epc |-> Garbage, rssi |-> 0, crc |-> TRUE, size |-> 2]

Units(frame) == <<[frame |-> frame, part |-> 1], [frame |-> frame, part |-> 2]>>

\* What arrives of a frame that loses a unit, and of an answer to a command.
Torn(frame) == {<<u>> : u \in {[frame |-> frame, part |-> 1], [frame |-> frame, part |-> 2]}}
Answers(kind) == {Units(Short(kind))} \cup Torn(Short(kind))

-----------------------------------------------------------------------------
(* Reading a stream *)

\* stream[i] = 0xCF: a header, or a payload that contains the byte.
IsHeader(u) == \/ u.part = 1 /\ u.frame.size # 0
               \/ u.part = 2 /\ u.frame.epc \in TagsWithCF

\* The units the packet at a header claims to have.
Size(u) == IF u.part = 1 THEN u.frame.size ELSE FALSE_SIZE

\* Mutant: the check sum is not compared.
ParsesAnyCrc(s, i) == s[i].frame.kind = "tag"

\* parseTagPacket: long enough, status 0, and the check sum fits, which it does
\* only for the two units of one undisturbed frame.
ParseTagPacket(s, i) ==
    /\ s[i].part = 1 /\ s[i].frame.kind = "tag" /\ s[i].frame.crc
    /\ i < Len(s) /\ s[i + 1] = [s[i] EXCEPT !.part = 2]

\* The EPC and RSSI parsed at i; bytes that are no frame give garbage.
Parsed(s, i) == IF s[i].part = 1 THEN [epc |-> s[i].frame.epc, rssi |-> s[i].frame.rssi]
                ELSE [epc |-> Garbage, rssi |-> s[i].frame.rssi]

\* The packets the walk over a stream parses, in their order: what is not a
\* header is skipped, a packet that does not fit ends the walk, one that does
\* not parse is skipped by the size it claims.
Walk(s) ==
    LET left[n \in 0 .. Len(s)] ==      \* those in the last n units
            IF n = 0 THEN <<>>
            ELSE LET i == Len(s) - n + 1
                 IN  IF ~IsHeader(s[i]) THEN left[n - 1]
                     ELSE IF Size(s[i]) > n THEN <<>>
                     ELSE (IF ParseTagPacket(s, i) THEN <<Parsed(s, i)>> ELSE <<>>)
                            \o left[n - Size(s[i])]
    IN  left[Len(s)]

\* Mutant: the last of the strongest is taken.
BetterOrEqual(best, p) == best = <<>> \/ p.rssi >= best[1].rssi

\* !found || rssi > bestRssi
Better(best, p) == best = <<>> \/ p.rssi > best[1].rssi

\* The packet cfmu910Scan returns: <<>> when there is none.
BestOf(packets) ==
    LET best[n \in 0 .. Len(packets)] ==
            IF n = 0 THEN <<>>
            ELSE IF Better(best[n - 1], packets[n]) THEN <<packets[n]>> ELSE best[n - 1]
    IN  best[Len(packets)]

-----------------------------------------------------------------------------
(* The module and the wire *)

\* What is sent while the driver reads goes to its buffer, while that has room.
Reads == \/ pc = "scan" /\ Len(stream) < STREAM_UNITS
         \/ pc = "diag" /\ Len(stream) < DIAG_UNITS
         \/ pc = "power" /\ Len(stream) < RESP_UNITS

\* The inventory finds a tag.  Its frame may be disturbed ...
ModuleReports ==
    /\ running /\ sending = <<>>
    /\ \E f \in TagFrames \cup {Disturbed(2)} : sending' = Units(f)
    /\ UNCHANGED <<pc, uart, stream, running, power, history>>

\* ... so that the walk may go astray in it: in its length, or by a lost unit.
ReportSlips ==
    /\ running /\ sending = <<>>
    /\ \/ \E n \in WrongSizes : sending' = Units(Disturbed(n))
       \/ \E f \in TagFrames : sending' \in Torn(f)
    /\ aligned' = FALSE
    /\ UNCHANGED <<pc, uart, stream, running, power, heard, sound>>

\* The next unit arrives.  Beyond its buffer the serial driver drops it.
ModuleSends ==
    /\ sending # <<>> /\ sending' = Tail(sending)
    /\ IF Reads THEN stream' = Append(stream, Head(sending)) /\ uart' = uart
       ELSE /\ stream' = stream
            /\ uart' = IF Len(uart) < UART_UNITS THEN Append(uart, Head(sending)) ELSE uart
    /\ heard' = IF /\ pc = "scan" /\ Reads /\ Len(sending) = 1
                   /\ stream # <<>> /\ stream[Len(stream)].frame = Head(sending).frame
                   /\ stream[Len(stream)].part = 1
                THEN Append(heard, Head(sending).frame) ELSE heard
    /\ sound' = IF aligned THEN Len(heard') ELSE sound
    /\ UNCHANGED <<pc, running, power, aligned>>

\* The module obeys 0x0002 between two frames.
ModuleStops ==
    /\ pc = "stop" /\ running /\ sending = <<>>
    /\ running' = FALSE /\ sending' \in Answers("done")
    /\ UNCHANGED <<pc, uart, stream, power, history>>

-----------------------------------------------------------------------------
(* cfmu910Scan and stopInventory *)

\* Flush, then start the inventory.  A frame the module is in the middle of
\* will arrive without its header.
ScanBegins ==
    /\ pc = "idle" /\ pc' = "scan"
    /\ uart' = <<>> /\ stream' = <<>> /\ running' = TRUE
    /\ heard' = <<>> /\ aligned' = (sending = <<>>) /\ sound' = 0
    /\ UNCHANGED <<sending, power>>

\* The three seconds are over, or the buffer is full; 0x0002 is sent.
ScanCloses ==
    /\ pc = "scan" /\ pc' = "stop"
    /\ UNCHANGED <<wire, stream, power, history>>

\* The callers' buffers have room for twelve bytes of an EPC.
Shown(packet) == [epc  |-> IF packet.epc \in LongTags THEN FirstBytes ELSE packet.epc,
                  rssi |-> packet.rssi]

\* What the scan returns to its caller, <<>> for no tag.
Result == LET best == BestOf(Walk(stream)) IN [n \in DOMAIN best |-> Shown(best[n])]

\* 50 ms later: flush, and read what was collected.
ScanEnds ==
    /\ pc = "stop" /\ pc' = "idle"
    /\ StopsInTime => ~running /\ sending = <<>>
    /\ uart' = <<>> /\ stream' = <<>> /\ heard' = <<>> /\ aligned' = FALSE /\ sound' = 0
    /\ UNCHANGED <<running, sending, power>>

-----------------------------------------------------------------------------
(* cfmu910Diag: no flush, and nothing stops the inventory it starts *)

DiagBegins ==
    /\ pc = "idle" /\ pc' = "diag"
    /\ stream' = uart /\ uart' = <<>> /\ running' = TRUE
    /\ UNCHANGED <<sending, power, history>>

DiagEnds ==
    /\ pc = "diag" /\ pc' = "idle" /\ stream' = <<>>
    /\ UNCHANGED <<wire, power, history>>

-----------------------------------------------------------------------------
(* cfmu910SetPower and initCFMU910 *)

InRange(d) == d \in POWER_MIN .. POWER_MAX

\* 0x0053 is sent; readRaw then also reads what was left unread before it.
SetPowerBegins(d) ==
    /\ pc' = "power" /\ want' = d /\ stream' = uart /\ uart' = <<>>

\* The console refuses a power out of range before it calls.
PowerCommand == \E d \in Powers :
    /\ pc = "idle" /\ InRange(d) /\ SetPowerBegins(d) /\ booting' = FALSE
    /\ UNCHANGED <<running, sending, s_power, nvsPower, modPower, history>>

\* The module takes the power or refuses, and answers.  The answer arrives with
\* either status, or torn.  A command that it does not hear is the absence of
\* this action.
ModuleAnswers ==
    /\ pc = "power" /\ sending = <<>> /\ modPower # want
    /\ modPower' \in {want, modPower}
    /\ \E kind \in {"ack", "nak"} : sending' \in Answers(kind)
    /\ UNCHANGED <<pc, uart, stream, running, want, booting, s_power, nvsPower, history>>

\* rn >= 6 && resp[5] == 0: the status of the first frame read, whatever it is;
\* bytes of a payload can be taken for one.
Acknowledged == /\ stream # <<>>
                /\ \/ stream[1].part = 1 /\ stream[1].frame.kind \in {"ack", "tag"}
                   \/ stream[1].part = 2 /\ stream[1].frame.epc \in TagsWithCF

SetPowerEnds ==
    /\ pc = "power" /\ pc' = "idle" /\ stream' = <<>>
    /\ IF Acknowledged THEN s_power' = want /\ nvsPower' = want
       ELSE UNCHANGED <<s_power, nvsPower>>
    /\ want' = Absent /\ booting' = FALSE
    /\ uart' = IF booting THEN <<>> ELSE uart
    /\ UNCHANGED <<running, sending, modPower, history>>

\* loadPower: an unset or impossible value becomes the default.
LoadPower == IF nvsPower # Absent /\ InRange(nvsPower) THEN nvsPower ELSE DEFAULT_POWER

\* The post restarts: EN resets the module, which may be late with its banner
\* or with the answer to MODULE_INIT, and SetPower is called with that unread.
Restart ==
    /\ s_power' = LoadPower /\ pc' = "power" /\ want' = s_power' /\ booting' = TRUE
    /\ \E late \in {<<>>, Units(Short("ack"))} : stream' = late
    /\ uart' = <<>> /\ running' = FALSE /\ sending' = <<>> /\ modPower' = Absent
    /\ heard' = <<>> /\ aligned' = FALSE /\ sound' = 0
    /\ UNCHANGED nvsPower

DriverInit ==
    /\ nvsPower \in {Absent, DEFAULT_POWER} /\ s_power = DEFAULT_POWER
    /\ pc = "power" /\ want = DEFAULT_POWER /\ booting = TRUE
    /\ uart = <<>> /\ stream = <<>> /\ running = FALSE /\ sending = <<>>
    /\ modPower = Absent /\ heard = <<>> /\ aligned = FALSE /\ sound = 0

DriverNext ==
    \/ ModuleReports \/ ReportSlips \/ ModuleSends \/ ModuleStops \/ ModuleAnswers
    \/ ScanBegins \/ ScanCloses \/ ScanEnds \/ DiagBegins \/ DiagEnds
    \/ PowerCommand \/ SetPowerEnds \/ Restart

DriverSpec == DriverInit /\ [][DriverNext]_driverVars

\* Bound of the check: units on their way or unread, beside a full buffer.
OneUnitMore == Len(stream) + Len(uart) + Len(sending) <= STREAM_UNITS + 1

-----------------------------------------------------------------------------
(* What a scan must be *)

\* The places of the readable frames among those heard.
Readable == {i \in DOMAIN heard : heard[i].kind = "tag" /\ heard[i].crc}

\* Those that came before the stream slipped.
Sure == {i \in Readable : i <= sound}

\* A scan reports no tag but one whose frame came whole and undisturbed while
\* it was reading, cut to twelve bytes: not the rest of a frame that a flush or
\* the wire has torn, not the bytes of a payload, not the answer to another
\* command.
TagWasSent ==
    [][ScanEnds => \A n \in DOMAIN Result :
          \E i \in Readable : Result[n] = Shown(heard[i])]_driverVars

\* A scan reports no weaker tag than any readable frame that came before its
\* stream slipped, and among equals of these the first, however many it heard
\* and wherever the last was cut.  A damaged length, a lost byte or a scan that
\* begins in the middle of a frame costs what comes after it, never what came
\* before.
StrongestWins ==
    [][ScanEnds =>
         /\ \A i \in Sure : Result # <<>> /\ heard[i].rssi <= Result[1].rssi
         /\ \A n \in DOMAIN Result : \E i \in Readable :
               /\ Result[n] = Shown(heard[i])
               /\ \A j \in Sure : j < i => heard[j].rssi < heard[i].rssi]_driverVars
=============================================================================
