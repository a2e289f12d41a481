------------------------------- MODULE Console -------------------------------
(***************************************************************************)
(* The Telnet console of the post as the desktop console meets it: which   *)
(* commands handleCommand knows and with which values (telnet.cpp), and    *)
(* the loop that serves one client and one command at a time.  What the    *)
(* commands do to the scale, the session and the reader is in Scale,       *)
(* SessionTask, RfidReader and RfidDriver.                                 *)
(***************************************************************************)
EXTENDS Mwctl, FiniteSets

CONSTANT MAX_BOOTS   \* bound: restarts of the post

VARIABLES served,     \* the client telnet.loop() serves, or NoConn
          pending,    \* the connection a command is on its way on, or NoConn
          doing,      \* whether handleCommand runs, and whether it restarts the post
          complaints, \* how the commands it refused or did not know were given
          boots       \* restarts of the post so far

postVars == <<served, pending, doing, complaints, boots>>
consoleVars == <<mwctlVars, postVars>>

(***************************************************************************)
(* The commands.  A command is a verb and the value that follows it, if    *)
(* any; a verb of two words is written with an underscore, and the corners *)
(* FL FR BL BR are 1..4.  A command that is in none of these sets is       *)
(* answered with a complaint and changes nothing.                          *)
(***************************************************************************)
Values == {0, 1, 2, 3, 4, 5, 10, 15, 20, 30, 32, 33, 34, 64, 65, 128,
           2000, 5000, 8000, 10000, 180000, 240000}

Bare == {<<>>}
Within(S) == {<<n>> : n \in S}
AnyValue == Within(Values)
Positive == Within(Values \ {0})
Known(verbs, values) == [verb : verbs, value : values]

MeasureCommands == Known({"start", "stop", "tare"}, Bare)
                       \cup Known({"samples"}, Within(1..64))

CalibrationCommands ==
    Known({"cal_tare", "factor"}, Bare) \cup Known({"cal_weight"}, Positive)
        \cup Known({"calib", "point1", "point2"}, AnyValue)

CornerCommands == Known({"corner_test"}, Within(1..4))
                      \cup Known({"corner_report", "corner_clear"}, Bare)

AutoZeroCommands == Known({"autozero_on", "autozero_off"}, Bare)
                        \cup Known({"az_thr", "az_time"}, AnyValue)

DiagCommands == Known({"diag", "wiring"}, Bare) \cup Known({"gain"}, Within({128, 64, 32}))
                    \cup Known({"raw", "noise"}, Bare \cup AnyValue)

\* Mutant: the range check of setid stops one short.
SystemCommandsShort == Known({"devid", "save", "status", "update", "reboot"}, Bare)
                           \cup Known({"setid"}, Within(1..3))

SystemCommands == Known({"devid", "save", "status", "update", "reboot"}, Bare)
                      \cup Known({"setid"}, Within(1..4))

RfidCommands == Known({"rfid_stop", "rfid_start", "rfid_scan", "rfid_diag", "rfid_power",
                       "rfid_monitor", "rfid_status"}, Bare)
                    \cup Known({"rfid_power"}, Within(10..33))

BeamCommands == Known({"beam", "beam_monitor"}, Bare)
                    \cup Known({"beam_confirm", "beam_arrive"}, AnyValue)

SessionCommands == Known({"session", "session_reset"}, Bare)

FlowCommands == Known({"flow"}, Bare)

ValveCommands == Known({"valve_open", "valve_close", "valve_status"}, Bare)
                     \cup Known({"valve_delay", "valve_cooldown"}, AnyValue)
                     \cup Known({"valve_duration"}, Positive)

NetworkCommands == Known({"wifi", "espnow_status", "espnow_test", "cloud_test",
                          "time", "ntp_sync"}, Bare)

\* "bootlog" is answered "Disabled": BOOTLOG_ENABLED is 0 in this build.
LogCommands == Known({"help"}, Bare)

Vocabulary == UNION {MeasureCommands, CalibrationCommands, CornerCommands, AutoZeroCommands,
                     DiagCommands, SystemCommands, RfidCommands, BeamCommands,
                     SessionCommands, FlowCommands, ValveCommands, NetworkCommands,
                     LogCommands}

\* printHelp: the verbs it lists without a value, and those it lists with one.
HelpBare == {"start", "stop", "tare", "cal_tare", "factor", "corner_report", "corner_clear",
             "autozero_on", "autozero_off", "diag", "raw", "noise", "wiring",
             "rfid_start", "rfid_stop", "rfid_scan", "rfid_monitor", "rfid_status",
             "rfid_diag", "rfid_power", "beam", "beam_monitor", "session", "session_reset",
             "flow", "valve_open", "valve_close", "valve_status", "wifi", "espnow_status",
             "espnow_test", "time", "ntp_sync", "cloud_test", "save", "status", "update",
             "reboot", "help", "devid"}

\* The help lists it whatever the build; this one leaves it out.
HelpLeftOut == {"bootlog"}

\* "samples <n>": the verb with a value the help allows, at its limit where it has one.
HelpValued == {<<"samples", 64>>, <<"cal_weight", 5000>>, <<"calib", 15>>,
               <<"corner_test", 4>>, <<"az_thr", 0>>, <<"az_time", 0>>, <<"raw", 0>>,
               <<"noise", 65>>, <<"gain", 32>>, <<"rfid_power", 33>>, <<"beam_confirm", 0>>,
               <<"beam_arrive", 0>>, <<"valve_delay", 0>>, <<"valve_duration", 1>>,
               <<"valve_cooldown", 0>>, <<"setid", 4>>}

(***************************************************************************)
(* What the desktop console offers: buttons, and rows with a value.        *)
(***************************************************************************)
SystemButtons == Known({"status", "save", "help", "devid", "update", "reboot"}, Bare)
                     \cup Known({"setid"}, Within(1..4))
MeasureButtons == Known({"start", "stop", "tare", "autozero_on", "autozero_off"}, Bare)
CalibButtons == Known({"cal_tare", "factor", "save"}, Bare)
CornerButtons == Known({"corner_test"}, Within(1..4))
                     \cup Known({"corner_report", "corner_clear"}, Bare)
DiagButtons == Known({"diag", "wiring"}, Bare) \cup Known({"gain"}, Within({128, 64, 32}))
RfidButtons == Known({"rfid_scan", "rfid_monitor", "rfid_diag", "rfid_status", "rfid_start",
                      "rfid_stop", "rfid_power"}, Bare)
BeamButtons == Known({"beam", "beam_monitor", "session", "session_reset", "flow"}, Bare)
ValveButtons == Known({"valve_status", "valve_open", "valve_close"}, Bare)
NetworkButtons == Known({"wifi", "espnow_status", "espnow_test", "cloud_test", "time",
                         "ntp_sync"}, Bare)

Buttons == UNION {SystemButtons, MeasureButtons, CalibButtons, CornerButtons, DiagButtons,
                  RfidButtons, BeamButtons, ValveButtons, NetworkButtons}

\* A row sends its verb alone when the operator leaves the value blank.
Filled == {<<"samples", 15>>, <<"az_thr", 10>>, <<"az_time", 8000>>, <<"raw", 5>>,
           <<"noise", 30>>, <<"beam_confirm", 5000>>, <<"beam_arrive", 2000>>,
           <<"valve_delay", 180000>>, <<"valve_duration", 10000>>,
           <<"valve_cooldown", 240000>>}
Rows == {f[1] : f \in Filled} \cup {"cal_weight", "calib", "rfid_power"}

By(how, commands) == {[verb |-> c.verb, value |-> c.value, by |-> how] : c \in commands}
WithValue(pairs) == {[verb |-> p[1], value |-> <<p[2]>>] : p \in pairs}

\* What the window offers as it stands, what the help tells to type, and rows left blank.
Presses == By("offer", UNION {Buttons, WithValue(Filled),
                              Known(HelpBare, Bare), WithValue(HelpValued)})
               \cup By("blank", Known(Rows, Bare))
               \cup By("omitted", Known(HelpLeftOut, Bare))

ConsoleInit == /\ MwctlInit
               /\ served = NoConn /\ pending = NoConn /\ doing = "nothing"
               /\ complaints = {} /\ boots = 0

(***************************************************************************)
(* A command leaves the window.  A post that restarted without closing     *)
(* answers with a reset, and the command is gone.  Which command it is     *)
(* makes no difference until the post reads it, and is chosen there.       *)
(***************************************************************************)
Idle == doing = "nothing"

Press == /\ Sends /\ pending = NoConn /\ Idle
         /\ \/ wire[sock] = "open" /\ pending' = sock /\ UNCHANGED wire
            \/ wire[sock] = "lost" /\ wire' = [wire EXCEPT ![sock] = "shut"] /\ UNCHANGED pending
         /\ UNCHANGED <<label, connected, sock, dial, reader, msgQueue, window,
                        served, doing, complaints, boots>>

Understood(p) == [verb |-> p.verb, value |-> p.value] \in Vocabulary

(***************************************************************************)
(* telnet.loop(): one client, and nothing of it while a command runs.  A   *)
(* second client waits or is turned away.                                  *)
(***************************************************************************)
Up(c) == wire[c] \in {"open", "held"}

PostAccepts(c) == /\ Idle /\ served = NoConn /\ Up(c)
                  /\ served' = c
                  /\ UNCHANGED <<mwctlVars, pending, doing, complaints, boots>>

PostNotices == /\ Idle /\ served # NoConn /\ wire[served] = "shut"
               /\ served' = NoConn
               /\ UNCHANGED <<mwctlVars, pending, doing, complaints, boots>>

PostRefuses(c) == /\ Idle /\ served \notin {NoConn, c} /\ Up(c)
                  /\ wire' = [wire EXCEPT ![c] = "shut"]
                  /\ UNCHANGED <<label, connected, sock, dial, reader, msgQueue, window, postVars>>

\* A command whose connection closed before the post read it.
CommandLost == /\ pending # NoConn /\ wire[pending] = "shut"
               /\ pending' = NoConn
               /\ UNCHANGED <<mwctlVars, served, doing, complaints, boots>>

PostTakes(p) == /\ Idle /\ pending # NoConn /\ served = pending
                /\ p.verb = "reboot" => boots < MAX_BOOTS
                /\ complaints' = IF Understood(p) THEN complaints ELSE complaints \cup {p.by}
                /\ doing' = IF p.verb = "reboot" THEN "reboot" ELSE "command"
                /\ pending' = NoConn
                /\ UNCHANGED <<mwctlVars, served, boots>>

CommandEnds == /\ doing = "command" /\ doing' = "nothing"
               /\ UNCHANGED <<mwctlVars, served, pending, complaints, boots>>

\* A reboot, an update or a power cut: the client is not told.
PostRestarts == /\ boots < MAX_BOOTS /\ boots' = boots + 1
                /\ served' = NoConn /\ pending' = NoConn /\ doing' = "nothing"
                /\ wire' = [c \in Conn |-> IF Up(c) THEN "lost" ELSE wire[c]]
                /\ UNCHANGED <<label, connected, sock, dial, reader, msgQueue, window,
                               complaints>>

ConsoleNext == \/ MwctlNext /\ UNCHANGED postVars
               \/ Press
               \/ \E c \in Conn : PostAccepts(c)
               \/ \E c \in Conn : PostRefuses(c)
               \/ PostNotices
               \/ CommandLost
               \/ \E p \in Presses : PostTakes(p)
               \/ CommandEnds
               \/ PostRestarts

ConsoleSpec == ConsoleInit /\ [][ConsoleNext]_consoleVars /\ MwctlFairness

(***************************************************************************)
(* Properties                                                              *)
(***************************************************************************)
\* Two programs, two tables, no test between them: whatever a button, a row as filled in or
\* a line of the help sends, the post carries out; it complains of rows left blank and of the
\* one line of the help that this build leaves out alone (mwctl_gui.py 162-293, telnet.cpp
\* 154-680, config.h 7).
ButtonsUnderstood == complaints \subseteq {"blank", "omitted"}
=============================================================================
