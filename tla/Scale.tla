-------------------------------- MODULE Scale --------------------------------
(***************************************************************************)
(* The scale of a post and its settings: the loop() of the firmware        *)
(* (main.cpp), where the Telnet console, auto-zero and the measurement     *)
(* display take turns, the HX711 averages they block in                    *)
(* (devices/loadcell/loadcell.cpp), auto-zero (modules/heartbeat) and the  *)
(* settings in NVS and config.ini (modules/storage), under loads that      *)
(* change and power that fails at any moment.                              *)
(*                                                                         *)
(* The amplifier is linear: load l gives the raw value Raw(l).  The        *)
(* calibration factor is kept as raw counts per reference weight REF, a    *)
(* weight is compared without dividing (Near), and the ring buffer is the  *)
(* one raw value its filter shows (WeightFilter has the filter itself).    *)
(* Auto-zero may check in any turn of loop(), not every AUTOZERO_CHECK_MS  *)
(* only, and one command at a time is handled to its end.                  *)
(***************************************************************************)
EXTENDS WeightFilter, SequencesExt

CONSTANTS
    Loads,          \* bound: loads that are ever put on the platform, in units of REF
    Typed,          \* bound: numbers an operator ever types
    Settable,       \* bound: settings the operator changes by value
    Commands,       \* bound: the other commands the operator uses
    IniKeys,        \* the keys /config.ini has a line for
    INI_AZ_EN,      \* what its line "enabled" says
    INI_SAMPLES, INI_AZ_THRESHOLD, INI_AZ_HOLD,     \* the numbers of the others, any number
    RAW_ZERO,       \* the raw value of the empty platform
    Absent,         \* no value stored; no value in the ring
    DEFAULT_FACTOR, DEFAULT_SAMPLES, DEFAULT_AZ_THRESHOLD, DEFAULT_AZ_HOLD,
    DEFAULT_VALVE_TIME,     \* stands for the three valve times
    DEFAULT_BEAM_TIME,      \* stands for the two beam confirmations
    MAX_SAMPLES,    \* the most samples "samples <n>" accepts (64)
    AGE_CAP,        \* bound: ages are counted up to it
    MAX_COMMANDS    \* bound: commands an operator types

ASSUME ScaleAssumption ==
    /\ Loads \subseteq Nat /\ 0 \in Loads
    /\ AGE_CAP \in Nat /\ Typed \subseteq Nat
    /\ DEFAULT_AZ_HOLD \in 0 .. AGE_CAP /\ INI_AZ_EN \in BOOLEAN
    /\ {INI_SAMPLES, INI_AZ_THRESHOLD, INI_AZ_HOLD} \subseteq Int /\ RAW_ZERO \in Nat
    /\ {DEFAULT_FACTOR, DEFAULT_SAMPLES, DEFAULT_AZ_THRESHOLD, DEFAULT_VALVE_TIME,
        DEFAULT_BEAM_TIME} \subseteq Nat
    /\ DEFAULT_SAMPLES \in 1 .. MAX_SAMPLES /\ DEFAULT_VALVE_TIME > 0
    /\ MAX_SAMPLES \in Nat /\ MAX_COMMANDS \in Nat
    /\ Absent \notin Int \cup BOOLEAN

VARIABLES
    load,           \* environment: what lies on the platform
    ring,           \* the value the filter shows, Absent while the ring is empty
    loop,           \* where loop() is; the name of the command or "boot" or
                    \* "autotare" while it blocks in an average
    sample,         \* the raw value when that average began
    live,           \* the settings in RAM
    scaleOffset,    \* scale.get_offset(), which getFilteredWeight subtracts
    raw1,           \* handleCommand's raw_1, the first calibration point
    measuring,      \* isMeasuring
    wasNear,        \* wasNearZero
    nearAge,        \* now - nearZeroSince
    nvs,            \* the settings in flash
    kept,           \* history: the settings of the last completed save, or those
                    \* the last start-up found
    farAge,         \* history: since the last moment auto-zero had a reading
                    \* that was not near zero, or no reading at all
    strayed,        \* history: a reading left the band while a measurement was
                    \* displayed, since auto-zero last began or gave up holding
    typed           \* bound: commands typed so far

scaleVars == <<load, ring, loop, sample, live, scaleOffset, raw1, measuring, wasNear,
               nearAge, nvs, kept, farAge, strayed, typed>>
calVars   == <<scaleOffset, raw1>>
azVars    == <<wasNear, nearAge, farAge, strayed>>
flashVars == <<nvs, kept>>

\* The order in which saveSettings writes the keys of namespace "scale".
SaveOrder == <<"factor", "offset", "samples", "az_en", "az_thr", "az_time",
               "v_delay", "v_dur", "v_cool", "b_confirm", "b_arrive">>
Keys == ToSet(SaveOrder)
Position == [k \in Keys |-> CHOOSE i \in DOMAIN SaveOrder : SaveOrder[i] = k]

Default(k) == CASE k = "factor"  -> DEFAULT_FACTOR
                [] k = "offset"  -> 0
                [] k = "samples" -> DEFAULT_SAMPLES
                [] k = "az_en"   -> FALSE
                [] k = "az_thr"  -> DEFAULT_AZ_THRESHOLD
                [] k = "az_time" -> DEFAULT_AZ_HOLD
                [] k \in {"v_delay", "v_dur", "v_cool"} -> DEFAULT_VALVE_TIME
                [] OTHER         -> DEFAULT_BEAM_TIME

\* The raw value of a load.
Raw(l) == RAW_ZERO + l
Raws   == {Raw(l) : l \in Loads}

\* An average of raw samples taken while the load changed from one to another.
Between(r, s) == IF r <= s THEN r .. s ELSE s .. r

Abs(x) == IF x < 0 THEN -x ELSE x

\* fabsf(weight) < threshold, with an empty ring read as 0 g; a factor of zero
\* makes the weight infinite or NaN, which is never near.
NearAt(r) == IF r = Absent THEN live["az_thr"] > 0
             ELSE live["factor"] # 0
                  /\ Abs(r - scaleOffset) < live["az_thr"] * Abs(live["factor"])

Near == NearAt(ring)

Older(age) == IF age < AGE_CAP THEN age + 1 ELSE AGE_CAP

\* A number that is typed is signed; a negative hold time becomes a
\* uint32_t that no age reaches.
Inputs == Typed \cup {-v : v \in Typed}
NEVER  == AGE_CAP + 1

\* What is kept of a number given for a setting.
Stored(k, v) == IF k = "az_time" /\ v \notin 0 .. AGE_CAP THEN NEVER ELSE v

AverageCommands == {"tare", "cal_tare", "cal_weight", "point1", "point2", "raw"}
Averages == AverageCommands \cup {"boot", "autotare"}

ScaleTypeOK ==
    /\ load \in Loads /\ ring \in Raws \cup {Absent}
    /\ loop \in {"idle", "save", "autosave"} \cup Averages
    /\ sample \in Raws \cup {Absent} /\ (sample = Absent <=> loop \notin Averages)
    /\ DOMAIN live = Keys /\ DOMAIN nvs = Keys
    /\ live["samples"] \in (1 .. MAX_SAMPLES) \cup {INI_SAMPLES} /\ live["az_en"] \in BOOLEAN
    /\ live["v_dur"] > 0 /\ \A k \in {"v_delay", "v_cool", "b_confirm", "b_arrive"} : live[k] >= 0
    /\ scaleOffset \in Nat /\ raw1 \in Nat
    /\ measuring \in BOOLEAN /\ wasNear \in BOOLEAN /\ strayed \in BOOLEAN
    /\ nearAge \in 0 .. AGE_CAP /\ farAge \in 0 .. AGE_CAP /\ typed \in 0 .. MAX_COMMANDS

-----------------------------------------------------------------------------
(* Start-up: loadSettings, loadConfigFile, initLoadCell *)

LoadSettings(flash) ==
    [k \in Keys |-> IF flash[k] = Absent THEN Default(k) ELSE flash[k]]

\* The keys loadConfigFile knows: the factor is not one of them.
Overridable == {"samples", "az_en", "az_thr", "az_time"}

\* Whatever the line says is taken, unlike on the console.
IniValue(k) == CASE k = "az_en"   -> INI_AZ_EN
                 [] k = "samples" -> INI_SAMPLES
                 [] k = "az_thr"  -> INI_AZ_THRESHOLD
                 [] k = "az_time" -> Stored(k, INI_AZ_HOLD)

LoadConfigFile(settings) ==
    [k \in Keys |-> IF k \in IniKeys \cap Overridable THEN IniValue(k) ELSE settings[k]]

\* initLoadCell keeps a stored offset; without one it tares, under whatever
\* load is on the platform.
InitLoadCell(settings, l) ==
    IF settings["offset"] # 0
    THEN [loop |-> "idle", offset |-> settings["offset"], sample |-> Absent]
    ELSE [loop |-> "boot", offset |-> 0, sample |-> Raw(l)]

ScaleInit ==
    /\ load \in Loads /\ ring = Absent
    /\ nvs = [k \in Keys |-> Absent] /\ live = LoadConfigFile(LoadSettings(nvs))
    /\ LET hx == InitLoadCell(live, load)
       IN  loop = hx.loop /\ scaleOffset = hx.offset /\ sample = hx.sample
    /\ raw1 = 0 /\ measuring = FALSE
    /\ wasNear = FALSE /\ nearAge = 0
    /\ kept = LoadSettings(nvs) /\ farAge = 0 /\ strayed = FALSE /\ typed = 0

\* Mutant: the keys added for the valve and the beam are forgotten.
WrittenFirstSix(n) ==
    [k \in Keys |-> IF Position[k] <= n /\ Position[k] <= 6 THEN live[k] ELSE nvs[k]]

\* The flash when saveSettings has written the first n keys.
Written(n) == [k \in Keys |-> IF Position[k] <= n THEN live[k] ELSE nvs[k]]

Saves == loop \in {"save", "autosave"}

\* The power fails and comes back, "reboot", or the restart of an update,
\* wherever loop() is: in a save, between any two keys.
Reset ==
    /\ IF Saves THEN \E n \in DOMAIN SaveOrder : nvs' = Written(n - 1) ELSE nvs' = nvs
    /\ live' = LoadConfigFile(LoadSettings(nvs'))
    /\ LET hx == InitLoadCell(live', load)
       IN  loop' = hx.loop /\ scaleOffset' = hx.offset /\ sample' = hx.sample
    /\ ring' = Absent /\ raw1' = 0 /\ measuring' = FALSE
    /\ wasNear' = FALSE /\ nearAge' = 0 /\ farAge' = 0 /\ strayed' = FALSE
    /\ kept' = LoadSettings(nvs')
    /\ UNCHANGED <<load, typed>>

-----------------------------------------------------------------------------
(* The environment and the HX711 task *)

ChangeLoad == \E l \in Loads \ {load} :
    /\ load' = l
    /\ UNCHANGED <<ring, loop, sample, live, calVars, measuring, azVars, flashVars,
                   typed>>

\* Time passes, whatever loop() is blocked in.
Tick ==
    /\ nearAge' = Older(nearAge) /\ farAge' = Older(farAge)
    /\ UNCHANGED <<load, ring, loop, sample, live, calVars, measuring, wasNear, strayed,
                   flashVars, typed>>

\* hx711Task fills the ring until the filter shows the load; an average
\* suspends it, and setup() starts it only after the tare.
Fill ==
    /\ loop \notin Averages /\ ring' = Raw(load)
    /\ strayed' = (strayed \/ (measuring /\ ~NearAt(Raw(load))))
    /\ UNCHANGED <<load, loop, sample, live, calVars, measuring, wasNear, nearAge, farAge,
                   flashVars, typed>>

-----------------------------------------------------------------------------
(* telnet.loop(): at most one command per turn, handled to its end *)

\* A command is typed; loop() goes on to where.
Types(where) == /\ loop = "idle" /\ loop' = where
                /\ typed < MAX_COMMANDS /\ typed' = typed + 1
                /\ UNCHANGED <<load, ring, nvs>>

\* Mutant: the hold time runs on while auto-zero is off.
ResetAutoZeroNothing == UNCHANGED <<wasNear, nearAge>>

\* resetAutoZeroState; nearZeroSince is set again before it is used.
ResetAutoZero == wasNear' = FALSE /\ nearAge' = 0

\* Commands that block loop() in an average of raw samples: tare, cal_tare,
\* cal_weight, point1, point2; "raw" stands for raw, noise and diag, which
\* only print it.
CmdAverage == \E c \in Commands \cap AverageCommands :
    /\ Types(c) /\ sample' = Raw(load)
    /\ UNCHANGED <<live, calVars, measuring, azVars, kept>>

\* The numbers the console accepts for a setting.
AcceptsCalib(k, v)   == k = "factor"
AcceptsSamples(k, v) == k = "samples" /\ v \in 1 .. MAX_SAMPLES
AcceptsAutoZero(k, v) == k \in {"az_thr", "az_time"}
AcceptsBeam(k, v)    == k \in {"b_confirm", "b_arrive"} /\ v >= 0

\* Mutant: a duration of zero or less is accepted.
AcceptsValveAny(k, v) == k \in {"v_delay", "v_cool", "v_dur"}

AcceptsValve(k, v)   == \/ k \in {"v_delay", "v_cool"} /\ v >= 0
                        \/ k = "v_dur" /\ v > 0

CmdSet == \E k \in Settable, v \in Inputs :
    /\ \/ AcceptsCalib(k, v) \/ AcceptsSamples(k, v) \/ AcceptsAutoZero(k, v)
       \/ AcceptsBeam(k, v) \/ AcceptsValve(k, v)
    /\ Types("idle")
    /\ live' = [live EXCEPT ![k] = Stored(k, v)]
    /\ UNCHANGED <<sample, calVars, measuring, azVars, kept>>

CmdMeasure == \E c \in Commands \cap {"start", "stop"} :
    /\ Types("idle") /\ measuring' = (c = "start")
    /\ UNCHANGED <<sample, live, calVars, azVars, kept>>

CmdAutoZeroOn ==
    /\ "autozero" \in Commands /\ Types("idle")
    /\ live' = [live EXCEPT !["az_en"] = TRUE]
    /\ farAge' = IF live["az_en"] THEN farAge ELSE 0
    /\ UNCHANGED <<sample, calVars, measuring, wasNear, nearAge, strayed, kept>>

CmdAutoZeroOff ==
    /\ "autozero" \in Commands /\ Types("idle")
    /\ live' = [live EXCEPT !["az_en"] = FALSE]
    /\ ResetAutoZero
    /\ UNCHANGED <<sample, calVars, measuring, farAge, strayed, kept>>

CmdSave ==
    /\ "save" \in Commands /\ Types("save")
    /\ live' = [live EXCEPT !["offset"] = scaleOffset]
    /\ UNCHANGED <<sample, calVars, measuring, azVars, kept>>

SaveDone ==
    /\ Saves /\ loop' = "idle"
    /\ nvs' = Written(Len(SaveOrder)) /\ kept' = live
    /\ UNCHANGED <<load, ring, sample, live, calVars, measuring, azVars, typed>>

-----------------------------------------------------------------------------
(* The end of an average: safeTare and safeReadAvg return *)

Averaged(jobs) == IF loop \in jobs THEN Between(sample, Raw(load)) ELSE {}

AverageEnds == /\ sample' = Absent
               /\ UNCHANGED <<load, ring, measuring, azVars, nvs, typed>>

\* Mutant: the offset of the settings is left behind.
ZeroScaleOnly(v) == scaleOffset' = v /\ UNCHANGED live

\* The zero of the readings and the one that is saved.
Zero(v) == scaleOffset' = v /\ live' = [live EXCEPT !["offset"] = v]

TareDone == \E v \in Averaged({"tare", "boot"}) :
    /\ Zero(v) /\ loop' = "idle" /\ UNCHANGED <<raw1, kept>> /\ AverageEnds

\* updateAutoZero goes on to save.
AutoTareDone == \E v \in Averaged({"autotare"}) :
    /\ Zero(v) /\ loop' = "autosave"
    /\ UNCHANGED <<raw1, kept>> /\ AverageEnds

CalTareDone(v) == loop = "cal_tare" /\ raw1' = v /\ Zero(v)

\* The reference weight is REF.
CalWeightDone(v) == /\ loop = "cal_weight" /\ live' = [live EXCEPT !["factor"] = v - raw1]
                    /\ UNCHANGED calVars

Point1Done(v) == loop = "point1" /\ raw1' = v /\ UNCHANGED <<live, scaleOffset>>

\* The two weights typed are REF apart.  The offset is point 1, whatever
\* weight was named for it.
Point2Done(v) == /\ loop = "point2" /\ scaleOffset' = raw1 /\ UNCHANGED raw1
                 /\ live' = [live EXCEPT !["factor"] = v - raw1, !["offset"] = raw1]

RawDone(v) == loop = "raw" /\ UNCHANGED <<live, calVars>>

CalibrationDone == \E v \in Averaged(AverageCommands \ {"tare"}) :
    /\ \/ CalTareDone(v) \/ CalWeightDone(v) \/ Point1Done(v) \/ Point2Done(v) \/ RawDone(v)
    /\ loop' = "idle" /\ UNCHANGED kept /\ AverageEnds

-----------------------------------------------------------------------------
(* updateAutoZero *)

\* A check, when auto-zero is on and no measurement is displayed.
Checks == /\ loop = "idle" /\ live["az_en"] /\ ~measuring
          /\ UNCHANGED <<load, ring, live, calVars, measuring, flashVars, typed>>

\* Mutant: every near reading is taken for the first one.
HoldBeginsAgain == wasNear' = FALSE /\ nearAge' = 0 /\ strayed' = FALSE

HoldBegins == wasNear' = TRUE /\ nearAge' = 0 /\ strayed' = FALSE

NearBegins ==
    /\ Checks /\ Near /\ ~wasNear
    /\ HoldBegins /\ loop' = "idle" /\ UNCHANGED <<farAge, sample>>

NearEnds ==
    /\ Checks /\ ~Near
    /\ wasNear' = FALSE /\ farAge' = 0 /\ strayed' = FALSE /\ loop' = "idle"
    /\ UNCHANGED <<nearAge, sample>>

StaysNear ==
    /\ Checks /\ Near /\ wasNear /\ nearAge < live["az_time"]
    /\ loop' = "idle" /\ UNCHANGED <<azVars, sample>>

\* nearZeroSince becomes the time of this check, not of the end of the tare.
AutoTare ==
    /\ Checks /\ Near /\ wasNear /\ nearAge >= live["az_time"]
    /\ nearAge' = 0 /\ loop' = "autotare" /\ sample' = Raw(load)
    /\ UNCHANGED <<wasNear, farAge, strayed>>

-----------------------------------------------------------------------------
Command ==
    \/ CmdAverage \/ CmdSet \/ CmdMeasure \/ CmdAutoZeroOn \/ CmdAutoZeroOff \/ CmdSave

AverageDone == TareDone \/ AutoTareDone \/ CalibrationDone

AutoZero == NearBegins \/ NearEnds \/ StaysNear \/ AutoTare

\* What loop() does when no command is typed.
LoopStep == SaveDone \/ AverageDone \/ AutoZero

ScaleNext == Reset \/ ChangeLoad \/ Tick \/ Fill \/ Command \/ LoopStep

ScaleSpec == ScaleInit /\ [][ScaleNext]_scaleVars

\* The HX711 and the tasks run, time passes.  The loads, the operator and the
\* power owe nothing.
FairScaleSpec ==
    /\ ScaleSpec
    /\ WF_scaleVars(Tick) /\ WF_scaleVars(Fill) /\ WF_scaleVars(LoopStep)

-----------------------------------------------------------------------------
(* What the scale must keep *)

\* The zero the readings subtract is the one "save" and auto-zero persist:
\* seven places set one or both of scale's offset and calibration_offset.
SavedIsUsed ==
    loop \notin Averages => live["offset"] = scaleOffset

\* Auto-zero tares only when every reading it has taken for the hold time was
\* near zero, and it was taking them (config.ini:19 "Automatically tare when
\* the reading stays near zero for hold_ms").
HoldRespected == [][AutoTare => farAge >= live["az_time"]]_scaleVars

\* The same of the readings that auto-zero does not look at because a
\* measurement is displayed: the weight may go and come back meanwhile.
StayedNear == [][AutoTare => ~strayed]_scaleVars

\* A reset restores each setting that config.ini does not override to the
\* value of the last completed save; one in the middle of a save may find the
\* value that was being saved, each key for itself.
RebootRestores ==
    [][Reset => \A k \in Keys \ (IniKeys \cap Overridable) :
                   live'[k] = kept[k] \/ (Saves /\ live'[k] = live[k])]_scaleVars

\* Slow drift is removed: when auto-zero stays on, the platform keeps a load
\* within the threshold and the power holds, the zero comes
\* back to that load again and again.
Drifted(l) ==
    /\ load = l /\ live["az_en"] /\ ~measuring
    /\ live["az_time"] <= AGE_CAP /\ live["factor"] # 0
    /\ Abs(Raw(l) - scaleOffset) < live["az_thr"] * Abs(live["factor"])

PowerHolds == <>[][~Reset]_scaleVars

DriftRemoved ==
    \A l \in Loads : <>[]Drifted(l) /\ PowerHolds => []<>(scaleOffset = Raw(l))

-----------------------------------------------------------------------------
(* The promises of WeightFilter's operators do not depend on the state; TLC *)
(* evaluates them before the first command.                                *)

Unused == /\ load = 0 /\ ring = Absent /\ typed = 0 /\ loop = "boot" /\ sample = Raw(0)
          /\ nearAge = 0 /\ farAge = 0 /\ \A k \in Keys : nvs[k] = Absent

FilterPromise == Unused => FilterWindow /\ FilterRobust
CornerPromise == Unused => CornerVerdict
=============================================================================
