------------------------------ MODULE ScaleProofs ------------------------------
(***************************************************************************)
(* Theorems about the scale of a post: what is saved is what is used, what *)
(* a reset restores, and that auto-zero waits its hold time, for every     *)
(* load, threshold, operator and sequence of power failures.               *)
(*                                                                         *)
(* The invariant says that the offset of the readings never differs from   *)
(* the one in the settings (Offsets), that what a start-up would find is   *)
(* what was last kept (Flash), and that a hold is not older than the time  *)
(* for which auto-zero has been looking (Hold).                            *)
(*                                                                         *)
(* Of the operators of WeightFilter: what the corner report tells, for any *)
(* readings, and that the ring keeps the newest samples, sample by sample. *)
(***************************************************************************)
EXTENDS Scale, FiniteSetTheorems, SequenceTheorems, Recursion

\* What a setting may be: a number or a flag.
Values == Int \cup BOOLEAN

Settings == live \in [Keys -> Values] /\ nvs \in [Keys -> Values \cup {Absent}]

\* One zero for the readings and the settings, also while an average is under way.
Offsets == live["offset"] = scaleOffset

\* What was last kept is what the flash holds, with the defaults for the rest.
Flash == kept = LoadSettings(nvs)

HoldTime == live["az_time"] \in Int /\ nvs["az_time"] \in Int \cup {Absent}

\* Auto-zero holds only while it is on, and has been looking since the hold began.
Hold == /\ nearAge \in 0 .. AGE_CAP /\ farAge \in 0 .. AGE_CAP
        /\ wasNear => live["az_en"] = TRUE /\ nearAge <= farAge

\* What an average makes of the samples is a number.
Readings == load \in Loads /\ raw1 \in Int /\ (loop \in Averages => sample \in Int)

ScaleInv == Settings /\ Offsets /\ Flash /\ HoldTime /\ Hold /\ Readings
-----------------------------------------------------------------------------
(* Lemmas *)

LEMMA KeySet ==
    /\ Keys = {"factor", "offset", "samples", "az_en", "az_thr", "az_time",
               "v_delay", "v_dur", "v_cool", "b_confirm", "b_arrive"}
    /\ DOMAIN SaveOrder = 1 .. 11 /\ Len(SaveOrder) = 11
  <1>1. DOMAIN SaveOrder = 1 .. 11 /\ Len(SaveOrder) = 11
    BY DEF SaveOrder
  <1>2. Keys = {SaveOrder[i] : i \in 1 .. 11}
    BY <1>1 DEF Keys, ToSet
  <1>3. /\ SaveOrder[1] = "factor" /\ SaveOrder[2] = "offset" /\ SaveOrder[3] = "samples"
        /\ SaveOrder[4] = "az_en" /\ SaveOrder[5] = "az_thr" /\ SaveOrder[6] = "az_time"
        /\ SaveOrder[7] = "v_delay" /\ SaveOrder[8] = "v_dur" /\ SaveOrder[9] = "v_cool"
        /\ SaveOrder[10] = "b_confirm" /\ SaveOrder[11] = "b_arrive"
    BY DEF SaveOrder
  <1>4. 1 .. 11 = {1, 2, 3, 4, 5, 6, 7, 8, 9, 10, 11}
    OBVIOUS
  <1>q. QED
    BY <1>1, <1>2, <1>3, <1>4

LEMMA PositionRange ==
    ASSUME NEW k \in Keys
    PROVE  Position[k] \in 1 .. 11
  <1>1. \E i \in DOMAIN SaveOrder : SaveOrder[i] = k
    BY DEF Keys, ToSet
  <1>2. Position[k] = CHOOSE i \in DOMAIN SaveOrder : SaveOrder[i] = k
    BY DEF Position
  <1>q. QED
    BY <1>1, <1>2, KeySet

\* Absent stands for no value.
LEMMA AbsentIsNoValue == Absent \notin Values /\ Int \subseteq Values /\ BOOLEAN \subseteq Values
  BY ScaleAssumption DEF Values

LEMMA DefaultIsValue ==
    ASSUME NEW k \in Keys
    PROVE  Default(k) \in Values
  <1> USE DEF Default
  <1>0. /\ DEFAULT_FACTOR \in Values /\ DEFAULT_SAMPLES \in Values
        /\ DEFAULT_AZ_THRESHOLD \in Values /\ DEFAULT_AZ_HOLD \in Values
        /\ DEFAULT_VALVE_TIME \in Values /\ DEFAULT_BEAM_TIME \in Values
        /\ 0 \in Values /\ FALSE \in Values
    <2>1. /\ DEFAULT_FACTOR \in Int /\ DEFAULT_SAMPLES \in Int /\ DEFAULT_AZ_THRESHOLD \in Int
          /\ DEFAULT_VALVE_TIME \in Int /\ DEFAULT_BEAM_TIME \in Int
      BY ScaleAssumption
    <2>2. DEFAULT_AZ_HOLD \in Int /\ 0 \in Int
      BY ScaleAssumption
    <2>3. FALSE \in Values
      BY AbsentIsNoValue
    <2>q. QED
      BY <2>1, <2>2, <2>3, AbsentIsNoValue
  <1>1. CASE k \in {"factor", "offset", "samples"}
    <2>1. CASE k = "factor"
      BY <1>0, <2>1
    <2>2. CASE k = "offset"
      BY <1>0, <2>2
    <2>3. CASE k = "samples"
      BY <1>0, <2>3
    <2>q. QED
      BY <1>1, <2>1, <2>2, <2>3
  <1>2. CASE k \in {"az_en", "az_thr", "az_time"}
    BY <1>0, <1>2
  <1>3. CASE k \in {"v_delay", "v_dur", "v_cool"}
    BY <1>0, <1>3
  <1>4. CASE k \in {"b_confirm", "b_arrive"}
    BY <1>0, <1>4
  <1>q. QED
    BY <1>1, <1>2, <1>3, <1>4, KeySet

LEMMA IniIsValue ==
    ASSUME NEW k \in Overridable
    PROVE  IniValue(k) \in Values /\ (k = "az_time" => IniValue(k) \in Int)
  <1>1. /\ INI_SAMPLES \in Int /\ INI_AZ_THRESHOLD \in Int /\ INI_AZ_HOLD \in Int
        /\ INI_AZ_EN \in BOOLEAN /\ AGE_CAP \in Int
    BY ScaleAssumption
  <1>2. CASE k = "az_en"
    BY <1>1, <1>2, AbsentIsNoValue DEF IniValue
  <1>3. CASE k = "samples"
    BY <1>1, <1>3, AbsentIsNoValue DEF IniValue
  <1>4. CASE k = "az_thr"
    BY <1>1, <1>4, AbsentIsNoValue DEF IniValue
  <1>5. CASE k = "az_time"
    <2>1. IniValue(k) \in Int
      BY <1>1, <1>5 DEF IniValue, Stored, NEVER
    <2>q. QED
      BY <2>1, AbsentIsNoValue
  <1>q. QED
    BY <1>2, <1>3, <1>4, <1>5 DEF Overridable

\* loadSettings and loadConfigFile (nvs_manager.cpp): the file overrides neither offset nor
\* anything else it does not know.
LEMMA Loaded ==
    ASSUME NEW flash \in [Keys -> Values \cup {Absent}]
    PROVE  /\ LoadSettings(flash) \in [Keys -> Values]
           /\ LoadConfigFile(LoadSettings(flash)) \in [Keys -> Values]
           /\ \A k \in Keys \ (IniKeys \cap Overridable) :
                LoadConfigFile(LoadSettings(flash))[k] = LoadSettings(flash)[k]
           /\ LoadConfigFile(LoadSettings(flash))["offset"] = LoadSettings(flash)["offset"]
  <1>1. LoadSettings(flash) \in [Keys -> Values]
    BY DefaultIsValue DEF LoadSettings
  <1>3. LoadConfigFile(LoadSettings(flash)) \in [Keys -> Values]
    BY <1>1, IniIsValue DEF LoadConfigFile
  <1>4. \A k \in Keys \ (IniKeys \cap Overridable) :
            LoadConfigFile(LoadSettings(flash))[k] = LoadSettings(flash)[k]
    BY DEF LoadConfigFile
  <1>5. "offset" \in Keys \ (IniKeys \cap Overridable)
    BY KeySet DEF Overridable
  <1>q. QED
    BY <1>1, <1>3, <1>4, <1>5

LEMMA HoldTimeLoaded ==
    ASSUME NEW flash \in [Keys -> Values \cup {Absent}], flash["az_time"] \in Int \cup {Absent}
    PROVE  LoadConfigFile(LoadSettings(flash))["az_time"] \in Int
  <1>1. "az_time" \in Keys /\ Default("az_time") \in Int
    BY KeySet, ScaleAssumption DEF Default
  <1>2. LoadSettings(flash)["az_time"] \in Int
    BY <1>1 DEF LoadSettings
  <1>q. QED
    BY <1>1, <1>2, IniIsValue DEF LoadConfigFile

\* initLoadCell: a stored offset is used, without one the readings start at zero.
LEMMA OffsetAtStart ==
    ASSUME NEW settings, NEW l
    PROVE  InitLoadCell(settings, l).offset = settings["offset"]
  BY DEF InitLoadCell

\* saveSettings, whenever it is interrupted, leaves values only (nvs_manager.cpp 33-50).
LEMMA WrittenKeys ==
    ASSUME Settings, NEW n
    PROVE  /\ Written(n) \in [Keys -> Values \cup {Absent}]
           /\ \A k \in Keys : Written(n)[k] \in {live[k], nvs[k]}
  BY DEF Written, Settings

LEMMA WrittenAll ==
    ASSUME Settings
    PROVE  Written(Len(SaveOrder)) = live /\ LoadSettings(live) = live
  <1>1. \A k \in Keys : Position[k] <= Len(SaveOrder)
    BY PositionRange, KeySet
  <1>2. Written(Len(SaveOrder)) = live
    BY <1>1 DEF Written, Settings
  <1>3. \A k \in Keys : live[k] # Absent
    BY AbsentIsNoValue DEF Settings
  <1>4. LoadSettings(live) = live
    BY <1>3 DEF LoadSettings, Settings
  <1>q. QED
    BY <1>2, <1>4

LEMMA OlderRange ==
    ASSUME NEW a \in 0 .. AGE_CAP, NEW b \in 0 .. AGE_CAP
    PROVE  /\ Older(a) \in 0 .. AGE_CAP /\ Older(b) \in 0 .. AGE_CAP
           /\ a <= b => Older(a) <= Older(b)
  BY ScaleAssumption DEF Older

LEMMA ZeroAge == 0 \in 0 .. AGE_CAP
  BY ScaleAssumption

\* What the console stores is a number (telnet.cpp 185-269, 440-543).
LEMMA StoredIsInt ==
    ASSUME NEW k \in Settable, NEW v \in Inputs
    PROVE  Stored(k, v) \in Int /\ Stored(k, v) \in Values
  <1>1. v \in Int
    BY ScaleAssumption DEF Inputs
  <1>2. NEVER \in Int
    BY ScaleAssumption DEF NEVER
  <1>q. QED
    BY <1>1, <1>2, AbsentIsNoValue DEF Stored

\* An average of raw values is a number.
LEMMA RawIsInt ==
    ASSUME NEW l \in Loads
    PROVE  Raw(l) \in Int
  BY ScaleAssumption DEF Raw

LEMMA AverageIsInt ==
    ASSUME Readings, NEW jobs, jobs \subseteq Averages, NEW v \in Averaged(jobs)
    PROVE  v \in Int /\ loop \in jobs
  <1>1. loop \in jobs /\ v \in Between(sample, Raw(load))
    BY DEF Averaged
  <1>2. sample \in Int /\ Raw(load) \in Int
    BY <1>1, RawIsInt DEF Readings
  <1>q. QED
    BY <1>1, <1>2 DEF Between

LEMMA InitInv == ScaleInit => ScaleInv
  <1> SUFFICES ASSUME ScaleInit PROVE ScaleInv
    OBVIOUS
  <1>1. nvs \in [Keys -> Values \cup {Absent}] /\ nvs["az_time"] = Absent
    BY KeySet DEF ScaleInit
  <1>2. live = LoadConfigFile(LoadSettings(nvs))
    BY DEF ScaleInit
  <1>3. Settings
    BY <1>1, <1>2, Loaded DEF Settings
  <1>4. Flash
    BY DEF ScaleInit, Flash
  <1>5. HoldTime
    BY <1>1, <1>2, HoldTimeLoaded DEF HoldTime
  <1>6. Offsets
    BY OffsetAtStart DEF ScaleInit, Offsets
  <1>7. Hold
    BY ZeroAge DEF ScaleInit, Hold
  <1>8. Readings
    <2>1. sample = Raw(load) \/ loop = "idle"
      BY DEF ScaleInit, InitLoadCell
    <2>q. QED
      BY <2>1, RawIsInt DEF ScaleInit, Readings, Averages, AverageCommands
  <1>q. QED
    BY <1>3, <1>4, <1>5, <1>6, <1>7, <1>8 DEF ScaleInv

\* A power failure, also in the middle of a save (nvs_manager.cpp 33-50).
LEMMA ResetInv ==
    ASSUME ScaleInv, Reset
    PROVE  ScaleInv'
  <1>1. /\ nvs' \in [Keys -> Values \cup {Absent}]
        /\ \A k \in Keys : nvs'[k] \in {live[k], nvs[k]}
    <2>1. CASE Saves
      <3>1. PICK n \in DOMAIN SaveOrder : nvs' = Written(n - 1)
        BY <2>1 DEF Reset
      <3>q. QED
        BY <3>1, WrittenKeys DEF ScaleInv
    <2>2. CASE ~Saves
      BY <2>2 DEF Reset, ScaleInv, Settings
    <2>q. QED
      BY <2>1, <2>2
  <1>2. live' = LoadConfigFile(LoadSettings(nvs')) /\ kept' = LoadSettings(nvs')
    BY DEF Reset
  <1>3. Settings'
    BY <1>1, <1>2, Loaded DEF Settings
  <1>4. Flash'
    BY <1>2 DEF Flash, LoadSettings
  <1>5. HoldTime'
    <2>1. nvs'["az_time"] \in Int \cup {Absent}
      BY <1>1, KeySet DEF ScaleInv, HoldTime
    <2>q. QED
      BY <1>1, <1>2, <2>1, HoldTimeLoaded DEF HoldTime
  <1>6. Offsets'
    BY OffsetAtStart DEF Reset, Offsets
  <1>7. Hold'
    BY ZeroAge DEF Reset, Hold
  <1>8. Readings'
    <2>1. (sample' = Raw(load) \/ loop' = "idle") /\ load' = load /\ raw1' = 0
      BY DEF Reset, InitLoadCell
    <2>q. QED
      BY <2>1, RawIsInt DEF ScaleInv, Readings, Averages, AverageCommands
  <1>q. QED
    BY <1>3, <1>4, <1>5, <1>6, <1>7, <1>8 DEF ScaleInv

-----------------------------------------------------------------------------
(* The steps *)

\* Steps that neither write a setting nor look at the zero.
LEMMA SameSettings ==
    ASSUME ScaleInv, UNCHANGED <<live, scaleOffset, nvs, kept>>
    PROVE  Settings' /\ Offsets' /\ Flash' /\ HoldTime'
  BY DEF ScaleInv, Settings, Offsets, Flash, LoadSettings, HoldTime

\* Steps that leave auto-zero alone.
LEMMA SameHold ==
    ASSUME ScaleInv, UNCHANGED <<live, wasNear, nearAge, farAge>>
    PROVE  Hold'
  BY DEF ScaleInv, Hold

\* Steps of loop() that block in no average.
LEMMA SameReadings ==
    ASSUME ScaleInv, load' = load, raw1' = raw1, loop' \in Averages => sample' \in Int
    PROVE  Readings'
  BY DEF ScaleInv, Readings

LEMMA NoAverage == "idle" \notin Averages /\ "save" \notin Averages /\ "autosave" \notin Averages
  BY DEF Averages, AverageCommands

\* One setting of a command, which is neither the offset nor the switch of auto-zero.
LEMMA SetInv ==
    ASSUME ScaleInv, CmdSet
    PROVE  ScaleInv'
  <1>1. PICK k \in Settable, v \in Inputs :
           /\ \/ AcceptsCalib(k, v) \/ AcceptsSamples(k, v) \/ AcceptsAutoZero(k, v)
              \/ AcceptsBeam(k, v) \/ AcceptsValve(k, v)
           /\ live' = [live EXCEPT ![k] = Stored(k, v)]
    BY DEF CmdSet
  <1>2. k \notin {"offset", "az_en"}
    BY <1>1 DEF AcceptsCalib, AcceptsSamples, AcceptsAutoZero, AcceptsBeam, AcceptsValve
  <1>3. Stored(k, v) \in Int /\ Stored(k, v) \in Values
    BY StoredIsInt
  <1>4. UNCHANGED <<load, ring, nvs, kept, scaleOffset, raw1, wasNear, nearAge, farAge>>
        /\ loop' = "idle"
    BY DEF CmdSet, Types, calVars, azVars
  <1>5. Settings'
    BY <1>1, <1>3, <1>4 DEF ScaleInv, Settings
  <1>6. live'["offset"] = live["offset"] /\ live'["az_en"] = live["az_en"]
    BY <1>1, <1>2, KeySet DEF ScaleInv, Settings
  <1>7. Offsets' /\ Hold'
    BY <1>4, <1>6 DEF ScaleInv, Offsets, Hold
  <1>8. Flash'
    BY <1>4 DEF ScaleInv, Flash, LoadSettings
  <1>9. HoldTime'
    BY <1>1, <1>3, <1>4, KeySet DEF ScaleInv, Settings, HoldTime
  <1>10. Readings'
    BY <1>4, NoAverage, SameReadings
  <1>q. QED
    BY <1>5, <1>7, <1>8, <1>9, <1>10 DEF ScaleInv

\* The commands "autozero on" and "autozero off" (telnet.cpp 253-258).
LEMMA SwitchInv ==
    ASSUME ScaleInv, CmdAutoZeroOn \/ CmdAutoZeroOff
    PROVE  ScaleInv'
  <1>1. PICK on \in BOOLEAN : live' = [live EXCEPT !["az_en"] = on]
    BY DEF CmdAutoZeroOn, CmdAutoZeroOff
  <1>2. UNCHANGED <<load, nvs, kept, scaleOffset, raw1>> /\ loop' = "idle"
    BY DEF CmdAutoZeroOn, CmdAutoZeroOff, Types, calVars
  <1>3. Settings'
    BY <1>1, <1>2, AbsentIsNoValue DEF ScaleInv, Settings
  <1>4. live'["offset"] = live["offset"] /\ live'["az_time"] = live["az_time"]
    BY <1>1, KeySet DEF ScaleInv, Settings
  <1>5. Offsets' /\ HoldTime'
    BY <1>2, <1>4 DEF ScaleInv, Offsets, HoldTime
  <1>6. Flash'
    BY <1>2 DEF ScaleInv, Flash, LoadSettings
  <1>7. Hold'
    <2>1. CASE CmdAutoZeroOn
      <3>1. live'["az_en"] = TRUE
        BY <2>1, KeySet DEF CmdAutoZeroOn, ScaleInv, Settings
      <3>2. wasNear' = wasNear /\ nearAge' = nearAge
        BY <2>1 DEF CmdAutoZeroOn
      <3>3. CASE live["az_en"] = TRUE
        <4>1. farAge' = farAge
          BY <2>1, <3>3 DEF CmdAutoZeroOn
        <4>q. QED
          BY <3>1, <3>2, <4>1 DEF ScaleInv, Hold
      <3>4. CASE live["az_en"] # TRUE
        <4>1. ~wasNear
          BY <3>4 DEF ScaleInv, Hold
        <4>2. farAge' = farAge \/ farAge' = 0
          BY <2>1 DEF CmdAutoZeroOn
        <4>q. QED
          BY <3>1, <3>2, <4>1, <4>2, ZeroAge DEF ScaleInv, Hold
      <3>q. QED
        BY <3>3, <3>4
    <2>2. CASE CmdAutoZeroOff
      BY <2>2, ZeroAge DEF CmdAutoZeroOff, ResetAutoZero, ScaleInv, Hold
    <2>q. QED
      BY <2>1, <2>2
  <1>8. Readings'
    BY <1>2, NoAverage, SameReadings
  <1>q. QED
    BY <1>3, <1>5, <1>6, <1>7, <1>8 DEF ScaleInv

\* "save" copies the offset of the readings, which is the one it has already.
LEMMA SaveInv ==
    ASSUME ScaleInv, CmdSave
    PROVE  ScaleInv'
  <1>1. live' = live
    BY KeySet DEF CmdSave, ScaleInv, Settings, Offsets
  <1>2. /\ UNCHANGED <<load, nvs, kept, scaleOffset, raw1, wasNear, nearAge, farAge>>
        /\ loop' = "save"
    BY DEF CmdSave, Types, calVars, azVars
  <1>q. QED
    BY <1>1, <1>2, SameSettings, SameHold, SameReadings, NoAverage DEF ScaleInv

LEMMA SaveDoneInv ==
    ASSUME ScaleInv, SaveDone
    PROVE  ScaleInv'
  <1>1. /\ UNCHANGED <<load, live, scaleOffset, raw1, wasNear, nearAge, farAge>>
        /\ loop' = "idle" /\ nvs' = Written(Len(SaveOrder)) /\ kept' = live
    BY DEF SaveDone, calVars, azVars
  <1>2. nvs' = live /\ LoadSettings(live) = live
    BY <1>1, WrittenAll DEF ScaleInv
  <1>3. Settings' /\ Offsets' /\ HoldTime'
    BY <1>1, <1>2 DEF ScaleInv, Settings, Offsets, HoldTime
  <1>4. Flash'
    BY <1>1, <1>2 DEF Flash, LoadSettings
  <1>q. QED
    BY <1>1, <1>3, <1>4, SameHold, SameReadings, NoAverage DEF ScaleInv

\* safeTare and safeReadAvg return: each caller leaves the offset of the readings and that of
\* the settings equal (loadcell.cpp 53-58, telnet.cpp 185-227).
LEMMA AverageInv ==
    ASSUME ScaleInv, AverageDone
    PROVE  ScaleInv'
  <1>1. PICK v \in Int : /\ \/ Zero(v) /\ (raw1' = raw1 \/ raw1' = v)
                            \/ CalWeightDone(v) \/ Point1Done(v) \/ Point2Done(v) \/ RawDone(v)
    <2>1. CASE TareDone
      <3>1. PICK v \in Averaged({"tare", "boot"}) : Zero(v) /\ raw1' = raw1
        BY <2>1 DEF TareDone
      <3>q. QED
        BY <3>1, AverageIsInt DEF ScaleInv, Averages, AverageCommands
    <2>2. CASE AutoTareDone
      <3>1. PICK v \in Averaged({"autotare"}) : Zero(v) /\ raw1' = raw1
        BY <2>2 DEF AutoTareDone
      <3>q. QED
        BY <3>1, AverageIsInt DEF ScaleInv, Averages
    <2>3. CASE CalibrationDone
      <3>1. PICK v \in Averaged(AverageCommands \ {"tare"}) :
              CalTareDone(v) \/ CalWeightDone(v) \/ Point1Done(v) \/ Point2Done(v) \/ RawDone(v)
        BY <2>3 DEF CalibrationDone
      <3>2. v \in Int
        BY <3>1, AverageIsInt DEF ScaleInv, Averages
      <3>q. QED
        BY <3>1, <3>2 DEF CalTareDone
    <2>q. QED
      BY <2>1, <2>2, <2>3 DEF AverageDone
  <1>2. UNCHANGED <<load, nvs, kept, wasNear, nearAge, farAge>> /\ loop' \notin Averages
    BY NoAverage DEF AverageDone, TareDone, AutoTareDone, CalibrationDone, AverageEnds, azVars
  <1>3. raw1 \in Int /\ (v - raw1) \in Int
    BY DEF ScaleInv, Readings
  <1>4. /\ \/ live' = [live EXCEPT !["offset"] = v] /\ scaleOffset' = v
           \/ live' = [live EXCEPT !["factor"] = v - raw1] /\ scaleOffset' = scaleOffset
           \/ live' = live /\ scaleOffset' = scaleOffset
           \/ /\ live' = [live EXCEPT !["factor"] = v - raw1, !["offset"] = raw1]
              /\ scaleOffset' = raw1
        /\ raw1' \in {raw1, v}
    BY <1>1 DEF Zero, CalWeightDone, Point1Done, Point2Done, RawDone, calVars
  <1>5. Settings'
    BY <1>2, <1>3, <1>4, AbsentIsNoValue DEF ScaleInv, Settings
  <1>6. Offsets'
    BY <1>4, KeySet DEF ScaleInv, Settings, Offsets
  <1>7. live'["az_time"] = live["az_time"] /\ live'["az_en"] = live["az_en"]
    BY <1>4, KeySet DEF ScaleInv, Settings
  <1>8. HoldTime' /\ Hold'
    BY <1>2, <1>7 DEF ScaleInv, HoldTime, Hold
  <1>9. Flash'
    BY <1>2 DEF ScaleInv, Flash, LoadSettings
  <1>10. Readings'
    BY <1>2, <1>3, <1>4 DEF ScaleInv, Readings
  <1>q. QED
    BY <1>5, <1>6, <1>8, <1>9, <1>10 DEF ScaleInv

\* updateAutoZero (heartbeat.cpp 23-55) writes no setting before its tare is over.
LEMMA AutoZeroInv ==
    ASSUME ScaleInv, AutoZero
    PROVE  ScaleInv'
  <1>1. UNCHANGED <<load, live, scaleOffset, raw1, nvs, kept>> /\ live["az_en"]
    BY DEF AutoZero, NearBegins, NearEnds, StaysNear, AutoTare, Checks, calVars, flashVars
  <1>2. live["az_en"] = TRUE
    <2>1. live["az_en"] \in Values
      BY KeySet DEF ScaleInv, Settings
    <2>q. QED
      BY <1>1, <2>1
  <1>3. Readings'
    <2>1. loop' = "idle" \/ sample' = Raw(load)
      BY DEF AutoZero, NearBegins, NearEnds, StaysNear, AutoTare
    <2>q. QED
      BY <1>1, <2>1, RawIsInt, NoAverage DEF ScaleInv, Readings
  <1>4. Hold'
    <2>1. CASE NearBegins
      <3>1. nearAge' = 0 /\ farAge' = farAge /\ live' = live
        BY <1>1, <2>1 DEF NearBegins, HoldBegins
      <3>q. QED
        BY <1>2, <3>1, ZeroAge DEF ScaleInv, Hold
    <2>2. CASE NearEnds
      BY <1>1, <2>2, ZeroAge DEF NearEnds, ScaleInv, Hold
    <2>3. CASE StaysNear
      BY <1>1, <2>3, SameHold DEF StaysNear, azVars
    <2>4. CASE AutoTare
      <3>1. nearAge' = 0 /\ farAge' = farAge /\ live' = live /\ wasNear' = wasNear
        BY <1>1, <2>4 DEF AutoTare
      <3>q. QED
        BY <1>2, <3>1, ZeroAge DEF ScaleInv, Hold
    <2>q. QED
      BY <2>1, <2>2, <2>3, <2>4 DEF AutoZero
  <1>q. QED
    BY <1>1, <1>3, <1>4, SameSettings DEF ScaleInv

LEMMA StepInv ==
    ASSUME ScaleInv, [ScaleNext]_scaleVars
    PROVE  ScaleInv'
  <1>1. CASE Reset
    BY <1>1, ResetInv
  <1>2. CASE ChangeLoad \/ Fill
    <2>1. UNCHANGED <<loop, sample, live, scaleOffset, raw1, wasNear, nearAge, farAge, nvs, kept>>
      BY <1>2 DEF ChangeLoad, Fill, calVars, azVars, flashVars
    <2>2. load' \in Loads
      BY <1>2 DEF ChangeLoad, Fill, ScaleInv, Readings
    <2>3. Readings'
      BY <2>1, <2>2 DEF ScaleInv, Readings
    <2>q. QED
      BY <2>1, <2>3, SameSettings, SameHold DEF ScaleInv
  <1>3. CASE Tick
    <2>1. UNCHANGED <<load, loop, sample, live, scaleOffset, raw1, wasNear, nvs, kept>>
      BY <1>3 DEF Tick, calVars, flashVars
    <2>2. Hold'
      BY <1>3, <2>1, OlderRange DEF Tick, ScaleInv, Hold
    <2>3. Readings'
      BY <2>1 DEF ScaleInv, Readings
    <2>q. QED
      BY <2>1, <2>2, <2>3, SameSettings DEF ScaleInv
  <1>4. CASE CmdAverage
    <2>1. /\ UNCHANGED <<load, live, scaleOffset, raw1, wasNear, nearAge, farAge, nvs, kept>>
          /\ sample' = Raw(load)
      BY <1>4 DEF CmdAverage, Types, calVars, azVars
    <2>2. Readings'
      BY <2>1, RawIsInt DEF ScaleInv, Readings
    <2>q. QED
      BY <2>1, <2>2, SameSettings, SameHold DEF ScaleInv
  <1>5. CASE CmdMeasure
    <2>1. /\ UNCHANGED <<load, live, scaleOffset, raw1, wasNear, nearAge, farAge, nvs, kept>>
          /\ loop' = "idle"
      BY <1>5 DEF CmdMeasure, Types, calVars, azVars
    <2>q. QED
      BY <2>1, SameSettings, SameHold, SameReadings, NoAverage DEF ScaleInv
  <1>6. CASE CmdSet \/ CmdAutoZeroOn \/ CmdAutoZeroOff \/ CmdSave
    BY <1>6, SetInv, SwitchInv, SaveInv
  <1>7. CASE LoopStep
    BY <1>7, SaveDoneInv, AverageInv, AutoZeroInv DEF LoopStep
  <1>8. CASE UNCHANGED scaleVars
    <2>1. UNCHANGED <<load, loop, sample, live, scaleOffset, raw1, wasNear, nearAge, farAge,
                      nvs, kept>>
      BY <1>8 DEF scaleVars
    <2>2. Readings'
      BY <2>1 DEF ScaleInv, Readings
    <2>q. QED
      BY <2>1, <2>2, SameSettings, SameHold DEF ScaleInv
  <1>q. QED
    BY <1>1, <1>2, <1>3, <1>4, <1>5, <1>6, <1>7, <1>8 DEF ScaleNext, Command
-----------------------------------------------------------------------------
(* Types and bounds of the settings *)

\* What each setting may be in RAM, whatever is typed, loaded or interrupted.
Allowed(k) ==
    CASE k = "samples" -> (1 .. MAX_SAMPLES) \cup {INI_SAMPLES}
      [] k = "v_dur"   -> Nat \ {0}
      [] k \in {"offset", "v_delay", "v_cool", "b_confirm", "b_arrive"} -> Nat
      [] k = "az_en"   -> BOOLEAN
      [] OTHER         -> Values

Bounded(settings) == \A k \in Keys : settings[k] \in Allowed(k)

BoundedSettings == Bounded(live) /\ \A k \in Keys : nvs[k] \in Allowed(k) \cup {Absent}

\* The rest of the types.
Points == /\ loop \in {"idle", "save", "autosave"} \cup Averages
          /\ sample \in Raws \cup {Absent} /\ (sample = Absent <=> loop \notin Averages)
Flags == measuring \in BOOLEAN /\ wasNear \in BOOLEAN /\ strayed \in BOOLEAN
Numbers == /\ load \in Loads /\ ring \in Raws \cup {Absent}
           /\ scaleOffset \in Nat /\ raw1 \in Nat /\ typed \in 0 .. MAX_COMMANDS

TypeInv == BoundedSettings /\ Points /\ Flags /\ Numbers

LEMMA RawRange ==
    ASSUME NEW l \in Loads
    PROVE  Raw(l) \in Raws /\ Raw(l) \in Nat /\ Raw(l) # Absent
  BY ScaleAssumption DEF Raw, Raws

LEMMA DefaultAllowed ==
    ASSUME NEW k \in Keys
    PROVE  Default(k) \in Allowed(k)
  <1>0. /\ DEFAULT_FACTOR \in Values /\ DEFAULT_AZ_THRESHOLD \in Values
        /\ DEFAULT_AZ_HOLD \in Values
    BY ScaleAssumption, AbsentIsNoValue
  <1>1. /\ DEFAULT_SAMPLES \in 1 .. MAX_SAMPLES /\ DEFAULT_VALVE_TIME \in Nat \ {0}
        /\ DEFAULT_BEAM_TIME \in Nat /\ 0 \in Nat /\ FALSE \in BOOLEAN
    BY ScaleAssumption
  <1> USE DEF Default, Allowed
  <1>2. CASE k = "factor"
    BY <1>0, <1>2
  <1>3. CASE k = "offset"
    BY <1>1, <1>3
  <1>4. CASE k = "samples"
    BY <1>1, <1>4
  <1>5. CASE k = "az_en"
    BY <1>1, <1>5
  <1>6. CASE k \in {"az_thr", "az_time"}
    BY <1>0, <1>6
  <1>7. CASE k = "v_dur"
    BY <1>1, <1>7
  <1>8. CASE k \in {"v_delay", "v_cool"}
    BY <1>1, <1>8
  <1>9. CASE k \in {"b_confirm", "b_arrive"}
    BY <1>1, <1>9
  <1>q. QED
    BY <1>2, <1>3, <1>4, <1>5, <1>6, <1>7, <1>8, <1>9, KeySet

\* A flash with allowed values loads as allowed values.
LEMMA LoadedAllowed ==
    ASSUME NEW flash, \A k \in Keys : flash[k] \in Allowed(k) \cup {Absent}
    PROVE  Bounded(LoadConfigFile(LoadSettings(flash)))
  <1>1. \A k \in Keys : LoadSettings(flash)[k] \in Allowed(k)
    BY DefaultAllowed DEF LoadSettings
  <1>2. \A k \in Overridable : IniValue(k) \in Allowed(k)
    <2>1. ASSUME NEW k \in {"az_thr", "az_time"} PROVE IniValue(k) \in Allowed(k)
      BY IniIsValue DEF Overridable, Allowed
    <2>2. ASSUME NEW k \in {"az_en", "samples"} PROVE IniValue(k) \in Allowed(k)
      BY ScaleAssumption DEF IniValue, Allowed
    <2>q. QED
      BY <2>1, <2>2 DEF Overridable
  <1>3. \A k \in Keys : LoadConfigFile(LoadSettings(flash))[k] \in Allowed(k)
    BY <1>1, <1>2 DEF LoadConfigFile
  <1>q. QED
    BY <1>3 DEF Bounded

\* The console refuses what a setting may not be (telnet.cpp 178-182, 455-476, 511-543).
LEMMA StoredAllowed ==
    ASSUME NEW k \in Settable, NEW v \in Inputs,
           \/ AcceptsCalib(k, v) \/ AcceptsSamples(k, v) \/ AcceptsAutoZero(k, v)
           \/ AcceptsBeam(k, v) \/ AcceptsValve(k, v)
    PROVE  Stored(k, v) \in Allowed(k)
  <1>0. v \in Int
    BY ScaleAssumption DEF Inputs
  <1>1. CASE AcceptsCalib(k, v) \/ AcceptsAutoZero(k, v)
    BY <1>1, StoredIsInt DEF AcceptsCalib, AcceptsAutoZero, Allowed
  <1>2. CASE AcceptsSamples(k, v)
    BY <1>2 DEF AcceptsSamples, Stored, Allowed
  <1>3. CASE AcceptsBeam(k, v) \/ AcceptsValve(k, v)
    BY <1>0, <1>3 DEF AcceptsBeam, AcceptsValve, Stored, Allowed
  <1>q. QED
    BY <1>1, <1>2, <1>3

LEMMA AverageIsNat ==
    ASSUME TypeInv, NEW jobs, jobs \subseteq Averages, NEW v \in Averaged(jobs)
    PROVE  v \in Nat
  <1>1. loop \in jobs /\ v \in Between(sample, Raw(load))
    BY DEF Averaged
  <1>2. sample \in Raws
    BY <1>1 DEF TypeInv, Points
  <1>3. sample \in Nat /\ Raw(load) \in Nat
    BY <1>2, ScaleAssumption DEF TypeInv, Numbers, Raws, Raw
  <1>q. QED
    BY <1>1, <1>3 DEF Between

LEMMA InitTypes == ScaleInit => TypeInv
  <1> SUFFICES ASSUME ScaleInit PROVE TypeInv
    OBVIOUS
  <1>1. \A k \in Keys : nvs[k] \in Allowed(k) \cup {Absent}
    BY DEF ScaleInit
  <1>2. BoundedSettings
    BY <1>1, LoadedAllowed DEF ScaleInit, BoundedSettings
  <1>3. Points
    <2>1. \/ sample = Absent /\ loop = "idle"
          \/ sample = Raw(load) /\ loop = "boot"
      BY DEF ScaleInit, InitLoadCell
    <2>q. QED
      BY <2>1, RawRange, NoAverage DEF ScaleInit, Points, Averages
  <1>4. Flags
    BY DEF ScaleInit, Flags
  <1>5. Numbers
    <2>1. scaleOffset = live["offset"] /\ live["offset"] \in Allowed("offset")
      BY <1>2, KeySet, OffsetAtStart DEF ScaleInit, BoundedSettings, Bounded
    <2>2. scaleOffset \in Nat
      BY <2>1 DEF Allowed
    <2>q. QED
      BY <2>2, ScaleAssumption DEF ScaleInit, Numbers
  <1>q. QED
    BY <1>2, <1>3, <1>4, <1>5 DEF TypeInv

LEMMA ResetTypes ==
    ASSUME ScaleInv, TypeInv, Reset
    PROVE  TypeInv'
  <1>1. \A k \in Keys : nvs'[k] \in Allowed(k) \cup {Absent}
    <2>1. CASE Saves
      <3>1. PICK n \in DOMAIN SaveOrder : nvs' = Written(n - 1)
        BY <2>1 DEF Reset
      <3>q. QED
        BY <3>1, WrittenKeys DEF ScaleInv, TypeInv, BoundedSettings, Bounded
    <2>2. CASE ~Saves
      BY <2>2 DEF Reset, TypeInv, BoundedSettings
    <2>q. QED
      BY <2>1, <2>2
  <1>2. Bounded(live')
    BY <1>1, LoadedAllowed DEF Reset
  <1>3. BoundedSettings'
    BY <1>1, <1>2 DEF BoundedSettings, Bounded
  <1>4. Points'
    <2>1. \/ sample' = Absent /\ loop' = "idle"
          \/ sample' = Raw(load) /\ loop' = "boot"
      BY DEF Reset, InitLoadCell
    <2>q. QED
      BY <2>1, RawRange, NoAverage DEF TypeInv, Numbers, Points, Averages
  <1>5. Flags'
    BY DEF Reset, Flags
  <1>6. Numbers'
    <2>1. scaleOffset' = live'["offset"] /\ live'["offset"] \in Allowed("offset")
      BY <1>2, KeySet, OffsetAtStart DEF Reset, Bounded
    <2>2. scaleOffset' \in Nat
      BY <2>1 DEF Allowed
    <2>q. QED
      BY <2>2 DEF Reset, TypeInv, Numbers
  <1>q. QED
    BY <1>3, <1>4, <1>5, <1>6 DEF TypeInv

\* The commands the console carries out at once.
LEMMA CommandTypes ==
    ASSUME ScaleInv, TypeInv, Command
    PROVE  TypeInv'
  <1>1. /\ UNCHANGED <<load, ring, nvs, scaleOffset, raw1>>
        /\ loop = "idle" /\ typed < MAX_COMMANDS /\ typed' = typed + 1
    BY DEF Command, CmdAverage, CmdSet, CmdMeasure, CmdAutoZeroOn, CmdAutoZeroOff, CmdSave,
       Types, calVars
  <1>2. Numbers'
    BY <1>1, ScaleAssumption DEF TypeInv, Numbers
  <1>3. Bounded(live')
    <2>1. CASE CmdSet
      <3>1. PICK k \in Settable, v \in Inputs :
               /\ \/ AcceptsCalib(k, v) \/ AcceptsSamples(k, v) \/ AcceptsAutoZero(k, v)
                  \/ AcceptsBeam(k, v) \/ AcceptsValve(k, v)
               /\ live' = [live EXCEPT ![k] = Stored(k, v)]
        BY <2>1 DEF CmdSet
      <3>q. QED
        BY <3>1, StoredAllowed DEF TypeInv, BoundedSettings, Bounded, ScaleInv, Settings
    <2>2. CASE CmdAutoZeroOn \/ CmdAutoZeroOff
      <3>1. PICK on \in BOOLEAN : live' = [live EXCEPT !["az_en"] = on]
        BY <2>2 DEF CmdAutoZeroOn, CmdAutoZeroOff
      <3>2. on \in Allowed("az_en")
        BY DEF Allowed
      <3>q. QED
        BY <3>1, <3>2 DEF TypeInv, BoundedSettings, Bounded, ScaleInv, Settings
    <2>3. CASE CmdSave
      <3>1. live' = live
        BY <2>3, KeySet DEF CmdSave, ScaleInv, Settings, Offsets
      <3>q. QED
        BY <3>1 DEF TypeInv, BoundedSettings
    <2>4. CASE CmdAverage \/ CmdMeasure
      BY <2>4 DEF CmdAverage, CmdMeasure, TypeInv, BoundedSettings
    <2>q. QED
      BY <2>1, <2>2, <2>3, <2>4 DEF Command
  <1>4. BoundedSettings'
    BY <1>1, <1>3 DEF TypeInv, BoundedSettings, Bounded
  <1>5. Points'
    <2>1. sample = Absent
      BY <1>1, NoAverage DEF TypeInv, Points
    <2>2. \/ loop' \in AverageCommands /\ sample' = Raw(load)
          \/ loop' \in {"idle", "save"} /\ sample' = sample
      BY DEF Command, CmdAverage, CmdSet, CmdMeasure, CmdAutoZeroOn, CmdAutoZeroOff, CmdSave, Types
    <2>q. QED
      BY <2>1, <2>2, RawRange, NoAverage DEF TypeInv, Numbers, Points, Averages
  <1>6. Flags'
    <2>1. strayed' = strayed /\ wasNear' \in {wasNear, FALSE}
      BY DEF Command, CmdAverage, CmdSet, CmdMeasure, CmdAutoZeroOn, CmdAutoZeroOff, CmdSave,
         azVars, ResetAutoZero
    <2>2. measuring' \in BOOLEAN
      BY DEF Command, CmdAverage, CmdSet, CmdMeasure, CmdAutoZeroOn, CmdAutoZeroOff, CmdSave,
         TypeInv, Flags
    <2>q. QED
      BY <2>1, <2>2 DEF TypeInv, Flags
  <1>q. QED
    BY <1>2, <1>4, <1>5, <1>6 DEF TypeInv

LEMMA AverageTypes ==
    ASSUME ScaleInv, TypeInv, AverageDone
    PROVE  TypeInv'
  <1>1. PICK v \in Nat : \/ Zero(v) /\ (raw1' = raw1 \/ raw1' = v)
                         \/ CalWeightDone(v) \/ Point1Done(v) \/ Point2Done(v) \/ RawDone(v)
    <2>1. CASE TareDone
      <3>1. PICK v \in Averaged({"tare", "boot"}) : Zero(v) /\ raw1' = raw1
        BY <2>1 DEF TareDone
      <3>q. QED
        BY <3>1, AverageIsNat DEF Averages, AverageCommands
    <2>2. CASE AutoTareDone
      <3>1. PICK v \in Averaged({"autotare"}) : Zero(v) /\ raw1' = raw1
        BY <2>2 DEF AutoTareDone
      <3>q. QED
        BY <3>1, AverageIsNat DEF Averages
    <2>3. CASE CalibrationDone
      <3>1. PICK v \in Averaged(AverageCommands \ {"tare"}) :
              CalTareDone(v) \/ CalWeightDone(v) \/ Point1Done(v) \/ Point2Done(v) \/ RawDone(v)
        BY <2>3 DEF CalibrationDone
      <3>2. v \in Nat
        BY <3>1, AverageIsNat DEF Averages
      <3>q. QED
        BY <3>1, <3>2 DEF CalTareDone
    <2>q. QED
      BY <2>1, <2>2, <2>3 DEF AverageDone
  <1>2. /\ UNCHANGED <<load, ring, nvs, typed, measuring, wasNear, strayed>>
        /\ loop' \in {"idle", "autosave"} /\ sample' = Absent
    BY DEF AverageDone, TareDone, AutoTareDone, CalibrationDone, AverageEnds, azVars
  <1>3. raw1 \in Nat /\ (v - raw1) \in Int
    BY DEF TypeInv, Numbers
  <1>4. /\ \/ live' = [live EXCEPT !["offset"] = v] /\ scaleOffset' = v
           \/ live' = [live EXCEPT !["factor"] = v - raw1] /\ scaleOffset' = scaleOffset
           \/ live' = live /\ scaleOffset' = scaleOffset
           \/ /\ live' = [live EXCEPT !["factor"] = v - raw1, !["offset"] = raw1]
              /\ scaleOffset' = raw1
        /\ raw1' \in {raw1, v}
    BY <1>1 DEF Zero, CalWeightDone, Point1Done, Point2Done, RawDone, calVars
  <1>5. v \in Allowed("offset") /\ raw1 \in Allowed("offset") /\ (v - raw1) \in Allowed("factor")
    BY <1>3, AbsentIsNoValue DEF Allowed
  <1>6. BoundedSettings'
    BY <1>2, <1>4, <1>5 DEF TypeInv, BoundedSettings, Bounded, ScaleInv, Settings
  <1>7. Points'
    BY <1>2, NoAverage DEF Points
  <1>8. Flags' /\ Numbers'
    BY <1>2, <1>3, <1>4 DEF TypeInv, Flags, Numbers
  <1>q. QED
    BY <1>6, <1>7, <1>8 DEF TypeInv

LEMMA StepTypes ==
    ASSUME ScaleInv, TypeInv, [ScaleNext]_scaleVars
    PROVE  TypeInv'
  <1>1. CASE Reset
    BY <1>1, ResetTypes
  <1>2. CASE Command
    BY <1>2, CommandTypes
  <1>3. CASE AverageDone
    BY <1>3, AverageTypes
  <1>4. CASE SaveDone
    <2>1. /\ UNCHANGED <<load, ring, live, sample, scaleOffset, raw1, measuring, wasNear, strayed,
                         typed>>
          /\ nvs' = live /\ loop \notin Averages /\ loop' = "idle"
      BY <1>4, WrittenAll, NoAverage DEF SaveDone, Saves, calVars, azVars, ScaleInv
    <2>2. BoundedSettings'
      BY <2>1 DEF TypeInv, BoundedSettings, Bounded
    <2>3. Points'
      BY <2>1, NoAverage DEF TypeInv, Points
    <2>q. QED
      BY <2>1, <2>2, <2>3 DEF TypeInv, Flags, Numbers
  <1>5. CASE AutoZero
    <2>1. /\ UNCHANGED <<load, ring, live, nvs, scaleOffset, raw1, measuring, typed>>
          /\ loop = "idle" /\ wasNear' \in {wasNear, TRUE, FALSE} /\ strayed' \in {strayed, FALSE}
          /\ \/ loop' = "idle" /\ sample' = sample
             \/ loop' = "autotare" /\ sample' = Raw(load)
      BY <1>5 DEF AutoZero, NearBegins, NearEnds, StaysNear, AutoTare, Checks, HoldBegins, azVars,
         calVars, flashVars
    <2>2. BoundedSettings'
      BY <2>1 DEF TypeInv, BoundedSettings, Bounded
    <2>3. Points'
      BY <2>1, RawRange, NoAverage DEF TypeInv, Numbers, Points, Averages
    <2>q. QED
      BY <2>1, <2>2, <2>3 DEF TypeInv, Flags, Numbers
  <1>6. CASE ChangeLoad \/ Fill \/ Tick
    <2>1. /\ UNCHANGED <<loop, sample, live, nvs, scaleOffset, raw1, measuring, wasNear, typed>>
          /\ load' \in Loads /\ ring' \in {ring, Raw(load)} /\ strayed' \in BOOLEAN
      BY <1>6 DEF ChangeLoad, Fill, Tick, azVars, calVars, flashVars, TypeInv, Numbers, Flags
    <2>2. BoundedSettings' /\ Points'
      BY <2>1 DEF TypeInv, BoundedSettings, Bounded, Points
    <2>q. QED
      BY <2>1, <2>2, RawRange DEF TypeInv, Flags, Numbers
  <1>7. CASE UNCHANGED scaleVars
    BY <1>7 DEF scaleVars, TypeInv, BoundedSettings, Bounded, Points, Flags, Numbers
  <1>q. QED
    BY <1>1, <1>2, <1>3, <1>4, <1>5, <1>6, <1>7 DEF ScaleNext, LoopStep

LEMMA TypesSuffice == ScaleInv /\ TypeInv => ScaleTypeOK
  <1> SUFFICES ASSUME ScaleInv, TypeInv PROVE ScaleTypeOK
    OBVIOUS
  <1>1. /\ live["samples"] \in (1 .. MAX_SAMPLES) \cup {INI_SAMPLES} /\ live["v_dur"] \in Nat \ {0}
        /\ live["v_delay"] \in Nat /\ live["v_cool"] \in Nat
        /\ live["b_confirm"] \in Nat /\ live["b_arrive"] \in Nat
    BY KeySet DEF TypeInv, BoundedSettings, Bounded, Allowed
  <1>2. live["az_en"] \in BOOLEAN
    BY KeySet DEF TypeInv, BoundedSettings, Bounded, Allowed
  <1>3. DOMAIN live = Keys /\ DOMAIN nvs = Keys
    BY DEF ScaleInv, Settings
  <1>4. \A k \in {"v_delay", "v_cool", "b_confirm", "b_arrive"} : live[k] >= 0
    BY <1>1
  <1>5. live["v_dur"] > 0
    BY <1>1
  <1>6. nearAge \in 0 .. AGE_CAP /\ farAge \in 0 .. AGE_CAP
    BY DEF ScaleInv, Hold
  <1>q. QED
    BY <1>1, <1>2, <1>3, <1>4, <1>5, <1>6 DEF ScaleTypeOK, TypeInv, Points, Flags, Numbers
-----------------------------------------------------------------------------
(* Theorems *)

\* Whatever is typed, tared, saved and cut short by a power failure, every setting stays one
\* that the console accepts, and an average has a sample exactly while it runs
\* (telnet.cpp 178-543, nvs_manager.cpp 9-130).
THEOREM ScaleTypeCorrect == ScaleSpec => []ScaleTypeOK
  <1>1. ScaleInit => ScaleInv /\ TypeInv
    BY InitInv, InitTypes
  <1>2. ScaleInv /\ TypeInv /\ [ScaleNext]_scaleVars => ScaleInv' /\ TypeInv'
    BY StepInv, StepTypes
  <1>q. QED
    BY <1>1, <1>2, TypesSuffice, PTL DEF ScaleSpec


\* Whatever commands, tares and resets came before, the offset that is saved is the one the
\* readings subtract (telnet.cpp 176, 191, 212; heartbeat.cpp 45; loadcell.cpp 29).
THEOREM OffsetsAgree == ScaleSpec => []SavedIsUsed
  <1>1. ScaleInv => SavedIsUsed
    BY DEF ScaleInv, Offsets, SavedIsUsed
  <1>q. QED
    BY <1>1, InitInv, StepInv, PTL DEF ScaleSpec

\* Auto-zero has been looking for the hold time when it tares (heartbeat.cpp 31-43).
THEOREM HoldIsRespected == ScaleSpec => HoldRespected
  <1>1. ASSUME ScaleInv, AutoTare
        PROVE  farAge >= live["az_time"]
    <2>1. wasNear /\ nearAge >= live["az_time"]
      BY <1>1 DEF AutoTare
    <2>2. nearAge <= farAge /\ nearAge \in Int /\ farAge \in Int /\ live["az_time"] \in Int
      BY <1>1, <2>1, ScaleAssumption DEF ScaleInv, Hold, HoldTime
    <2>q. QED
      BY <2>1, <2>2
  <1>2. ScaleInv /\ [ScaleNext]_scaleVars => [AutoTare => farAge >= live["az_time"]]_scaleVars
    BY <1>1
  <1>q. QED
    BY <1>2, InitInv, StepInv, PTL DEF ScaleSpec, HoldRespected

\* A reset finds what was last kept, or, for each key, what was being saved
\* (nvs_manager.cpp 9-50, 63-130).
THEOREM RebootIsClean == ScaleSpec => RebootRestores
  <1> DEFINE Restores == \A k \in Keys \ (IniKeys \cap Overridable) :
                            live'[k] = kept[k] \/ (Saves /\ live'[k] = live[k])
  <1>1. ASSUME ScaleInv, Reset, NEW k \in Keys \ (IniKeys \cap Overridable)
        PROVE  live'[k] = kept[k] \/ (Saves /\ live'[k] = live[k])
    <2>1. live' = LoadConfigFile(LoadSettings(nvs'))
      BY <1>1 DEF Reset
    <2>2. nvs' \in [Keys -> Values \cup {Absent}]
      BY <1>1, ResetInv DEF ScaleInv, Settings
    <2>3. live'[k] = LoadSettings(nvs')[k]
      BY <2>1, <2>2, Loaded
    <2>4. CASE Saves
      <3>1. PICK n \in DOMAIN SaveOrder : nvs' = Written(n - 1)
        BY <1>1, <2>4 DEF Reset
      <3>2. nvs'[k] \in {live[k], nvs[k]}
        BY <1>1, <3>1, WrittenKeys DEF ScaleInv
      <3>3. CASE nvs'[k] = live[k]
        <4>1. live[k] # Absent
          BY <1>1, AbsentIsNoValue DEF ScaleInv, Settings
        <4>2. LoadSettings(nvs')[k] = live[k]
          BY <3>3, <4>1 DEF LoadSettings
        <4>q. QED
          BY <2>3, <2>4, <4>2
      <3>4. CASE nvs'[k] = nvs[k]
        <4>1. LoadSettings(nvs')[k] = LoadSettings(nvs)[k]
          BY <3>4 DEF LoadSettings
        <4>q. QED
          BY <1>1, <2>3, <4>1 DEF ScaleInv, Flash
      <3>q. QED
        BY <3>2, <3>3, <3>4
    <2>5. CASE ~Saves
      <3>1. nvs' = nvs
        BY <1>1, <2>5 DEF Reset
      <3>2. LoadSettings(nvs') = LoadSettings(nvs)
        BY <3>1 DEF LoadSettings
      <3>q. QED
        BY <1>1, <2>3, <3>2 DEF ScaleInv, Flash
    <2>q. QED
      BY <2>4, <2>5
  <1>2. ScaleInv /\ [ScaleNext]_scaleVars => [Reset => Restores]_scaleVars
    BY <1>1
  <1>q. QED
    BY <1>2, InitInv, StepInv, PTL DEF ScaleSpec, RebootRestores
-----------------------------------------------------------------------------
(* The ring of raw samples *)

Rings == [buf : [0 .. RAW_BUF_SIZE - 1 -> Nat], head : 0 .. RAW_BUF_SIZE - 1,
          count : 0 .. RAW_BUF_SIZE]

\* The samples 1, 2, .. k went in: as many as the ring holds of them are there, by their age.
Holds(rb, k) ==
    /\ rb.count = IF k < RAW_BUF_SIZE THEN k ELSE RAW_BUF_SIZE
    /\ \A i \in 0 .. rb.count - 1 : rb.buf[AgeIndex(rb, i)] = k - i

\* A number below twice the modulus is taken once off it at most.
LEMMA OneTurn ==
    ASSUME NEW n \in Nat \ {0}, NEW a \in 0 .. 2 * n - 1
    PROVE  a % n = IF a < n THEN a ELSE a - n
    OBVIOUS

\* Where a sample is, by its age.
LEMMA AgeIndexIs ==
    ASSUME NEW rb \in Rings, NEW i \in 0 .. RAW_BUF_SIZE - 1
    PROVE  /\ AgeIndex(rb, i) = IF i < rb.head THEN rb.head - 1 - i ELSE rb.head - 1 - i + RAW_BUF_SIZE
           /\ AgeIndex(rb, i) \in 0 .. RAW_BUF_SIZE - 1
<1>1. RAW_BUF_SIZE \in Nat \ {0} /\ rb.head \in 0 .. RAW_BUF_SIZE - 1
    BY FilterAssumption DEF Rings
<1> DEFINE a == rb.head - 1 - i + RAW_BUF_SIZE
<1>2. a \in 0 .. 2 * RAW_BUF_SIZE - 1
    BY <1>1
<1>3. a % RAW_BUF_SIZE = IF a < RAW_BUF_SIZE THEN a ELSE a - RAW_BUF_SIZE
    <2> HIDE DEF a
    <2> QED BY <1>1, <1>2, OneTurn
<1>4. AgeIndex(rb, i) = IF a < RAW_BUF_SIZE THEN a ELSE a - RAW_BUF_SIZE
    BY <1>3 DEF AgeIndex
<1> QED BY <1>1, <1>4

\* What hx711Task leaves of the ring.
LEMMA PushIs ==
    ASSUME NEW rb \in Rings, NEW v \in Nat
    PROVE  /\ Push(rb, v) \in Rings
           /\ Push(rb, v).head = IF rb.head + 1 < RAW_BUF_SIZE THEN rb.head + 1 ELSE 0
           /\ Push(rb, v).buf = [rb.buf EXCEPT ![rb.head] = v]
           /\ Push(rb, v).count = IF rb.count < RAW_BUF_SIZE THEN rb.count + 1 ELSE rb.count
<1>1. RAW_BUF_SIZE \in Nat \ {0} /\ rb.head \in 0 .. RAW_BUF_SIZE - 1 /\ rb.count \in 0 .. RAW_BUF_SIZE
    BY FilterAssumption DEF Rings
<1>2. (rb.head + 1) % RAW_BUF_SIZE = IF rb.head + 1 < RAW_BUF_SIZE THEN rb.head + 1 ELSE 0
    <2> DEFINE a == rb.head + 1
    <2>1. a \in 0 .. 2 * RAW_BUF_SIZE - 1 /\ a <= RAW_BUF_SIZE
        BY <1>1
    <2> HIDE DEF a
    <2>2. a % RAW_BUF_SIZE = IF a < RAW_BUF_SIZE THEN a ELSE a - RAW_BUF_SIZE
        BY <1>1, <2>1, OneTurn
    <2> QED BY <1>1, <2>1, <2>2 DEF a
<1>3. [rb.buf EXCEPT ![rb.head] = v] \in [0 .. RAW_BUF_SIZE - 1 -> Nat]
    BY DEF Rings
<1>4. /\ (IF rb.head + 1 < RAW_BUF_SIZE THEN rb.head + 1 ELSE 0) \in 0 .. RAW_BUF_SIZE - 1
      /\ (IF rb.count < RAW_BUF_SIZE THEN rb.count + 1 ELSE rb.count) \in 0 .. RAW_BUF_SIZE
    BY <1>1
<1> QED BY <1>2, <1>3, <1>4 DEF Push, Rings

\* After a sample of its own the ring holds it and those before, as many as it has room for.
LEMMA PushHolds ==
    ASSUME NEW rb \in Rings, NEW k \in Nat, Holds(rb, k)
    PROVE  Holds(Push(rb, k + 1), k + 1)
<1> DEFINE r == Push(rb, k + 1)
<1>1. RAW_BUF_SIZE \in Nat \ {0} /\ rb.head \in 0 .. RAW_BUF_SIZE - 1 /\ rb.count \in 0 .. RAW_BUF_SIZE
    BY FilterAssumption DEF Rings
<1>2. /\ r \in Rings
      /\ r.head = IF rb.head + 1 < RAW_BUF_SIZE THEN rb.head + 1 ELSE 0
      /\ r.buf = [rb.buf EXCEPT ![rb.head] = k + 1]
      /\ r.count = IF rb.count < RAW_BUF_SIZE THEN rb.count + 1 ELSE rb.count
    BY PushIs
<1> HIDE DEF r
<1>t. /\ r.count \in 0 .. RAW_BUF_SIZE /\ r.head \in 0 .. RAW_BUF_SIZE - 1
      /\ rb.buf \in [0 .. RAW_BUF_SIZE - 1 -> Nat]
    BY <1>1, <1>2 DEF Rings
<1>3. r.count = IF k + 1 < RAW_BUF_SIZE THEN k + 1 ELSE RAW_BUF_SIZE
    BY <1>1, <1>2 DEF Holds
<1>4. ASSUME NEW i \in 0 .. r.count - 1 PROVE r.buf[AgeIndex(r, i)] = k + 1 - i
    <2>0. i \in 0 .. RAW_BUF_SIZE - 1 /\ r.head \in 0 .. RAW_BUF_SIZE - 1 /\ rb.buf \in [0 .. RAW_BUF_SIZE - 1 -> Nat]
        <3>1. r.count \in Int /\ r.count <= RAW_BUF_SIZE /\ RAW_BUF_SIZE \in Int
            BY <1>1, <1>t
        <3>2. i \in 0 .. RAW_BUF_SIZE - 1
            BY <3>1
        <3> QED BY <1>t, <3>2
    <2>1. AgeIndex(r, i) = IF i < r.head THEN r.head - 1 - i ELSE r.head - 1 - i + RAW_BUF_SIZE
        BY <1>2, <2>0, AgeIndexIs
    <2>2. CASE i = 0
        <3>1. AgeIndex(r, i) = rb.head
            BY <1>1, <1>2, <2>0, <2>1, <2>2
        <3> QED BY <1>1, <1>2, <2>0, <2>2, <3>1
    <2>3. CASE i > 0
        <3>1. i - 1 \in 0 .. RAW_BUF_SIZE - 1 /\ i - 1 \in 0 .. rb.count - 1
            <4>1. i \in Int /\ i <= r.count - 1 /\ r.count <= rb.count + 1 /\ r.count <= RAW_BUF_SIZE
                BY <1>1, <1>2, <1>4, <1>t
            <4>2. r.count \in Int /\ rb.count \in Int /\ RAW_BUF_SIZE \in Int
                BY <1>1, <1>t
            <4> QED BY <2>3, <4>1, <4>2
        <3>2. /\ AgeIndex(rb, i - 1) = IF i - 1 < rb.head THEN rb.head - i ELSE rb.head - i + RAW_BUF_SIZE
              /\ AgeIndex(rb, i - 1) \in 0 .. RAW_BUF_SIZE - 1
            <4> DEFINE j == i - 1
            <4>1. j \in 0 .. RAW_BUF_SIZE - 1
                BY <3>1
            <4> HIDE DEF j
            <4>2. /\ AgeIndex(rb, j) = IF j < rb.head THEN rb.head - 1 - j ELSE rb.head - 1 - j + RAW_BUF_SIZE
                  /\ AgeIndex(rb, j) \in 0 .. RAW_BUF_SIZE - 1
                BY <4>1, AgeIndexIs
            <4>3. i \in Int /\ rb.head - 1 - j = rb.head - i
                <5>1. i \in Int /\ rb.head \in Int
                    BY <1>1, <2>0
                <5> QED BY <5>1 DEF j
            <4> QED BY <4>2, <4>3 DEF j
        <3>3. AgeIndex(r, i) = AgeIndex(rb, i - 1) /\ AgeIndex(r, i) # rb.head
            <4>1. /\ rb.head \in Int /\ RAW_BUF_SIZE \in Int /\ i \in Int
                  /\ 0 <= rb.head /\ rb.head < RAW_BUF_SIZE /\ 0 < i /\ i < RAW_BUF_SIZE
                BY <1>1, <2>0, <2>3
            <4>2. CASE rb.head + 1 < RAW_BUF_SIZE
                <5>1. r.head = rb.head + 1
                    BY <1>2, <4>2
                <5> QED BY <2>1, <3>2, <4>1, <5>1
            <4>3. CASE ~(rb.head + 1 < RAW_BUF_SIZE)
                <5>1. r.head = 0 /\ rb.head = RAW_BUF_SIZE - 1
                    BY <1>2, <4>1, <4>3
                <5> QED BY <2>1, <3>2, <4>1, <5>1
            <4> QED BY <4>2, <4>3
        <3>4. rb.buf[AgeIndex(rb, i - 1)] = k - (i - 1)
            BY <3>1 DEF Holds
        <3> QED BY <1>2, <2>0, <2>3, <3>2, <3>3, <3>4
    <2> QED BY <2>0, <2>2, <2>3
<1> QED BY <1>3, <1>4 DEF Holds, r

\* Sample by sample, for every size of the ring: the empty ring holds none, a ring that holds the
\* newest of k samples holds the newest of k + 1 after hx711Task stored one, wherever the head is,
\* and a reading takes the newest n of them, newest first (loadcell.cpp 61-100).
LEMMA WindowSlides ==
    /\ EmptyRing \in Rings /\ Holds(EmptyRing, 0)
    /\ \A rb \in Rings, k \in Nat : Holds(rb, k) =>
          /\ Push(rb, k + 1) \in Rings /\ Holds(Push(rb, k + 1), k + 1)
          /\ \A n \in Nat :
                Newest(rb, n) = [i \in 1 .. (IF k < Clamp(n) THEN k ELSE Clamp(n)) |-> k + 1 - i]
<1>0. RAW_BUF_SIZE \in Nat \ {0} /\ MIN_SAMPLES \in Nat \ {0} /\ MIN_SAMPLES <= RAW_BUF_SIZE
    BY FilterAssumption
<1>1. EmptyRing \in Rings /\ Holds(EmptyRing, 0)
    BY <1>0 DEF EmptyRing, Rings, Holds
<1>2. ASSUME NEW rb \in Rings, NEW k \in Nat, Holds(rb, k)
      PROVE  Push(rb, k + 1) \in Rings /\ Holds(Push(rb, k + 1), k + 1)
    <2>1. k + 1 \in Nat
        OBVIOUS
    <2> QED BY <1>2, <2>1, PushIs, PushHolds
<1>3. ASSUME NEW rb \in Rings, NEW k \in Nat, Holds(rb, k), NEW n \in Nat
      PROVE  Newest(rb, n) = [i \in 1 .. (IF k < Clamp(n) THEN k ELSE Clamp(n)) |-> k + 1 - i]
    <2>1. Clamp(n) \in 1 .. RAW_BUF_SIZE
        BY <1>0 DEF Clamp
    <2>2. Available(rb, Clamp(n)) = IF k < Clamp(n) THEN k ELSE Clamp(n)
        BY <1>0, <1>3, <2>1 DEF Available, Holds
    <2> DEFINE size == IF k < Clamp(n) THEN k ELSE Clamp(n)
    <2>3. size \in Nat /\ size <= rb.count
        BY <1>0, <1>3, <2>1 DEF Holds
    <2> HIDE DEF size
    <2>4. ASSUME NEW i \in 1 .. size PROVE rb.buf[AgeIndex(rb, i - 1)] = k + 1 - i
        <3>1. i - 1 \in 0 .. rb.count - 1 /\ k - (i - 1) = k + 1 - i
            BY <2>3 DEF Rings
        <3> QED BY <1>3, <3>1 DEF Holds
    <2>5. Newest(rb, n) = [i \in 1 .. size |-> rb.buf[AgeIndex(rb, i - 1)]]
        BY <2>2 DEF Newest, size
    <2> QED BY <2>4, <2>5 DEF size
<1> QED BY <1>1, <1>2, <1>3

\* Whatever the head's position, the ring holds what went in.
LEMMA RingHolds ==
    ASSUME NEW k \in Nat
    PROVE  RingOf(k) \in Rings /\ Holds(RingOf(k), k)
<1> DEFINE step == [n \in 0 .. k |-> [f \in [0 .. k -> Rings] |->
                       IF n = 0 THEN EmptyRing ELSE Push(f[n - 1], n)]]
           IsFilled(g) == g = [n \in 0 .. k |-> IF n = 0 THEN EmptyRing ELSE Push(g[n - 1], n)]
           L == CHOOSE g : IsFilled(g)
<1>1. EmptyRing \in Rings
    BY WindowSlides
<1>2. ASSUME NEW f \in [0 .. k -> Rings], NEW n \in 0 .. k
      PROVE  (IF n = 0 THEN EmptyRing ELSE Push(f[n - 1], n)) \in Rings
    <2>1. CASE n # 0
        <3>1. n - 1 \in 0 .. k /\ n \in Nat
            BY <2>1
        <3> QED BY <2>1, <3>1, PushIs
    <2> QED BY <1>1, <2>1
<1>3. step \in [0 .. k -> [[0 .. k -> Rings] -> Rings]]
    BY <1>2
<1>4. IsRecursion(k, Rings, step)
    BY <1>3 DEF IsRecursion
<1>5. PICK f : Computes(k, Rings, step, f)
    <2> HIDE DEF step
    <2> QED BY <1>1, <1>4, RecursionExists
<1>6. IsFilled(L)
    <2>1. IsFilled(f)
        BY <1>5 DEF Computes
    <2> HIDE DEF IsFilled
    <2> QED BY <2>1
<1>7. RingOf(k) = L[k]
    BY DEF RingOf
<1> HIDE DEF L
<1>8. /\ L[0] = EmptyRing
      /\ \A n \in 0 .. k : n # 0 => L[n] = Push(L[n - 1], n)
    BY <1>6
<1> DEFINE Bad == {n \in 0 .. k : ~(L[n] \in Rings /\ Holds(L[n], n))}
<1>9. ASSUME NEW n \in Bad PROVE \E m \in Bad : m < n
    <2>1. n # 0
        BY <1>8, <1>9, WindowSlides
    <2> DEFINE m == n - 1
    <2>2. m \in 0 .. k /\ m \in Nat /\ m < n /\ m + 1 = n /\ L[n] = Push(L[m], m + 1)
        BY <1>8, <2>1
    <2> HIDE DEF m
    <2>3. ASSUME L[m] \in Rings, Holds(L[m], m) PROVE FALSE
        <3>1. Push(L[m], m + 1) \in Rings /\ Holds(Push(L[m], m + 1), m + 1)
            BY <2>2, <2>3, WindowSlides
        <3> QED BY <2>2, <3>1
    <2> QED BY <2>2, <2>3
<1>10. Bad = {}
    <2>1. Bad \subseteq Nat
        OBVIOUS
    <2> HIDE DEF Bad
    <2> QED BY <1>9, <2>1, NoDescent
<1>11. k \notin Bad
    BY <1>10
<1> QED BY <1>7, <1>11

LEMMA FilterWindowHolds == FilterWindow
<1> SUFFICES ASSUME NEW k \in Nat, NEW n \in Nat
             PROVE  Newest(RingOf(k), n)
                      = [i \in 1 .. (IF k < Clamp(n) THEN k ELSE Clamp(n)) |-> k + 1 - i]
    BY FilterAssumption DEF FilterWindow
<1>1. RingOf(k) \in Rings /\ Holds(RingOf(k), k)
    BY RingHolds
<1> QED BY <1>1, WindowSlides

-----------------------------------------------------------------------------
(* The trimmed mean *)

Ordered(s) == \A i, j \in 1 .. Len(s) : i < j => s[i] <= s[j]

\* The first n elements of s are those of snap, each taken once.
Rearranged(s, snap, n) ==
    \E p \in [1 .. n -> 1 .. n] :
        /\ \A i, j \in 1 .. n : i # j => p[i] # p[j]
        /\ \A i \in 1 .. n : s[i] = snap[p[i]]

Outside(snap, n, lo, hi) == {i \in 1 .. n : snap[i] \notin lo .. hi}

\* There is a place for every key.
LEMMA PlaceIs ==
    ASSUME NEW s \in Seq(Int), NEW key \in Int
    PROVE  /\ Place(s, key) \in 0 .. Len(s)
           /\ Place(s, key) > 0 => s[Place(s, key)] <= key
           /\ \A j \in Place(s, key) + 1 .. Len(s) : s[j] > key
<1> DEFINE Behind == {k \in 0 .. Len(s) : \A j \in k + 1 .. Len(s) : s[j] > key}
<1>0. Len(s) \in Nat /\ \A i \in 1 .. Len(s) : s[i] \in Int
    BY LenProperties, ElementOfSeq
<1>1. PICK k \in Behind : \A m \in Behind : k <= m
    <2>1. Len(s) \in Behind /\ Behind \subseteq Nat
        BY <1>0
    <2> HIDE DEF Behind
    <2> QED BY <2>1, LeastExists
<1>2. ASSUME k > 0, ~(s[k] <= key) PROVE FALSE
    <2>1. k - 1 \in 0 .. Len(s) /\ s[k] > key
        BY <1>0, <1>2
    <2>2. \A j \in (k - 1) + 1 .. Len(s) : j = k \/ j \in k + 1 .. Len(s)
        BY <1>0
    <2>3. k - 1 \in Behind /\ k \in 0 .. Len(s)
        BY <1>1, <2>1, <2>2
    <2>4. k <= k - 1
        <3> HIDE DEF Behind
        <3> QED BY <1>1, <2>3
    <2> QED BY <1>0, <2>3, <2>4
<1>3. /\ k \in 0 .. Len(s) /\ (k > 0 => s[k] <= key)
      /\ \A j \in k + 1 .. Len(s) : s[j] > key
    BY <1>2
<1> QED BY <1>3 DEF Place

LEMMA InsertedIs ==
    ASSUME NEW s \in Seq(Int), NEW key \in Int
    PROVE  LET k == Place(s, key)
               r == Inserted(s, key)
           IN  /\ r \in Seq(Int) /\ Len(r) = Len(s) + 1
               /\ \A i \in 1 .. k : i \in 1 .. Len(s) /\ r[i] = s[i]
               /\ r[k + 1] = key
               /\ \A i \in k + 2 .. Len(s) + 1 : i - 1 \in k + 1 .. Len(s) /\ r[i] = s[i - 1]
<1> DEFINE k == Place(s, key)
           r == Inserted(s, key)
<1>0. Len(s) \in Nat /\ \A i \in 1 .. Len(s) : s[i] \in Int
    BY LenProperties, ElementOfSeq
<1>1. k \in 0 .. Len(s)
    BY PlaceIs
<1>2. r = [i \in 1 .. Len(s) + 1 |-> IF i <= k THEN s[i] ELSE IF i = k + 1 THEN key ELSE s[i - 1]]
    BY DEF Inserted
<1> HIDE DEF k, r
<1>3. \A i \in 1 .. Len(s) + 1 : r[i] \in Int
    <2> SUFFICES ASSUME NEW i \in 1 .. Len(s) + 1 PROVE r[i] \in Int
        OBVIOUS
    <2>1. CASE i <= k
        BY <1>0, <1>1, <1>2, <2>1
    <2>2. CASE i = k + 1
        BY <1>0, <1>1, <1>2, <2>2
    <2>3. CASE i > k + 1
        <3>1. i - 1 \in 1 .. Len(s) /\ r[i] = s[i - 1]
            BY <1>0, <1>1, <1>2, <2>3
        <3> QED BY <1>0, <3>1
    <2> QED BY <1>0, <1>1, <2>1, <2>2, <2>3
<1>4. r \in [1 .. Len(s) + 1 -> Int]
    BY <1>2, <1>3
<1>5. r \in Seq(Int) /\ Len(r) = Len(s) + 1
    BY <1>0, <1>4, LenProperties
<1>6. \A i \in 1 .. k : i \in 1 .. Len(s) /\ r[i] = s[i]
    BY <1>0, <1>1, <1>2
<1>7. r[k + 1] = key
    BY <1>0, <1>1, <1>2
<1>8. \A i \in k + 2 .. Len(s) + 1 : i - 1 \in k + 1 .. Len(s) /\ r[i] = s[i - 1]
    BY <1>0, <1>1, <1>2
<1> QED BY <1>5, <1>6, <1>7, <1>8 DEF k, r

LEMMA InsertedOrdered ==
    ASSUME NEW s \in Seq(Int), NEW key \in Int, Ordered(s)
    PROVE  Ordered(Inserted(s, key))
<1> DEFINE k == Place(s, key)
           r == Inserted(s, key)
           n == Len(s)
<1>0. n \in Nat /\ \A i \in 1 .. n : s[i] \in Int
    BY LenProperties, ElementOfSeq
<1>1. /\ k \in 0 .. n /\ (k > 0 => s[k] <= key)
      /\ \A j \in k + 1 .. n : s[j] > key
    BY PlaceIs
<1>2. /\ r \in Seq(Int) /\ Len(r) = n + 1
      /\ \A i \in 1 .. k : i \in 1 .. n /\ r[i] = s[i]
      /\ r[k + 1] = key
      /\ \A i \in k + 2 .. n + 1 : i - 1 \in k + 1 .. n /\ r[i] = s[i - 1]
    BY InsertedIs
<1>3. \A i, j \in 1 .. n : i < j => s[i] <= s[j]
    BY DEF Ordered
<1> HIDE DEF k, r, n
<1>4. ASSUME NEW i \in 1 .. n + 1, NEW j \in 1 .. n + 1, i < j PROVE r[i] <= r[j]
    <2>1. CASE j <= k
        BY <1>0, <1>1, <1>2, <1>3, <1>4, <2>1
    <2>2. CASE j = k + 1
        <3>1. i \in 1 .. k /\ r[i] = s[i] /\ k \in 1 .. n
            BY <1>0, <1>1, <1>2, <1>4, <2>2
        <3>2. s[i] <= s[k]
            BY <1>0, <1>3, <3>1
        <3>3. s[k] <= key /\ r[j] = key
            BY <1>1, <1>2, <2>2, <3>1
        <3>4. s[i] \in Int /\ s[k] \in Int
            BY <1>0, <3>1, <1>2
        <3> QED BY <3>1, <3>2, <3>3, <3>4
    <2>3. CASE j > k + 1
        <3>1. j - 1 \in k + 1 .. n /\ r[j] = s[j - 1] /\ j - 1 \in 1 .. n
            BY <1>0, <1>1, <1>2, <2>3
        <3>2. CASE i <= k
            <4>1. i \in 1 .. k /\ i < j - 1
                BY <1>0, <1>1, <2>3, <3>2
            <4>2. i \in 1 .. n /\ r[i] = s[i]
                BY <1>2, <4>1
            <4> QED BY <1>3, <3>1, <4>1, <4>2
        <3>3. CASE i = k + 1
            <4>1. s[j - 1] > key /\ r[i] = key
                BY <1>1, <1>2, <3>1, <3>3
            <4> QED BY <1>0, <3>1, <4>1
        <3>4. CASE i > k + 1
            <4>1. i \in k + 2 .. n + 1 /\ i - 1 \in 1 .. n /\ i - 1 < j - 1
                BY <1>0, <1>1, <1>4, <3>4
            <4>2. r[i] = s[i - 1]
                BY <1>2, <4>1
            <4> QED BY <1>3, <3>1, <4>1, <4>2
        <3> QED BY <1>0, <1>1, <3>2, <3>3, <3>4
    <2> QED BY <1>0, <1>1, <2>1, <2>2, <2>3
<1> QED BY <1>2, <1>4 DEF Ordered, r

LEMMA InsertedRearranged ==
    ASSUME NEW s \in Seq(Int), NEW snap, NEW n \in Nat, Len(s) = n, snap[n + 1] \in Int,
           Rearranged(s, snap, n)
    PROVE  Rearranged(Inserted(s, snap[n + 1]), snap, n + 1)
<1> DEFINE key == snap[n + 1]
           k == Place(s, key)
           r == Inserted(s, key)
<1>1. k \in 0 .. n
    BY PlaceIs
<1>2. /\ \A i \in 1 .. k : i \in 1 .. n /\ r[i] = s[i]
      /\ r[k + 1] = key
      /\ \A i \in k + 2 .. n + 1 : i - 1 \in k + 1 .. n /\ r[i] = s[i - 1]
    <2> HIDE DEF key
    <2>1. key \in Int
        BY DEF key
    <2> QED BY <2>1, InsertedIs
<1>3. PICK p \in [1 .. n -> 1 .. n] :
         /\ \A i, j \in 1 .. n : i # j => p[i] # p[j]
         /\ \A i \in 1 .. n : s[i] = snap[p[i]]
    BY DEF Rearranged
<1> HIDE DEF k, r
<1> DEFINE q == [i \in 1 .. n + 1 |-> IF i <= k THEN p[i] ELSE IF i = k + 1 THEN n + 1 ELSE p[i - 1]]
<1>4. /\ \A i \in 1 .. k : i \in 1 .. n /\ q[i] = p[i]
      /\ q[k + 1] = n + 1
      /\ \A i \in k + 2 .. n + 1 : i - 1 \in 1 .. n /\ i - 1 > k /\ q[i] = p[i - 1]
    BY <1>1
<1> HIDE DEF q
<1>5. \A i \in 1 .. n + 1 : i \in 1 .. k \/ i = k + 1 \/ i \in k + 2 .. n + 1
    BY <1>1
<1>6. q \in [1 .. n + 1 -> 1 .. n + 1]
    <2>1. \A i \in 1 .. n : p[i] \in 1 .. n + 1
        OBVIOUS
    <2>2. ASSUME NEW i \in 1 .. n + 1 PROVE q[i] \in 1 .. n + 1
        <3>1. CASE i \in 1 .. k
            BY <1>4, <2>1, <3>1
        <3>2. CASE i = k + 1
            BY <1>4, <3>2
        <3>3. CASE i \in k + 2 .. n + 1
            BY <1>4, <2>1, <3>3
        <3> QED BY <1>5, <3>1, <3>2, <3>3
    <2> QED BY <2>2 DEF q
<1>7. ASSUME NEW i \in 1 .. n + 1, NEW j \in 1 .. n + 1, i < j PROVE q[i] # q[j]
    <2>0. \A m \in 1 .. n : p[m] # n + 1
        OBVIOUS
    <2>1. CASE i \in 1 .. k /\ j \in 1 .. k
        BY <1>3, <1>4, <1>7, <2>1
    <2>2. CASE i \in 1 .. k /\ j = k + 1
        BY <1>4, <2>0, <2>2
    <2>3. CASE i \in 1 .. k /\ j \in k + 2 .. n + 1
        BY <1>1, <1>3, <1>4, <2>3
    <2>4. CASE i = k + 1 /\ j \in k + 2 .. n + 1
        BY <1>4, <2>0, <2>4
    <2>5. CASE i \in k + 2 .. n + 1 /\ j \in k + 2 .. n + 1
        <3>1. i - 1 \in 1 .. n /\ j - 1 \in 1 .. n /\ i - 1 # j - 1
            BY <1>4, <1>7, <2>5
        <3> QED BY <1>3, <1>4, <2>5, <3>1
    <2> QED BY <1>1, <1>5, <1>7, <2>1, <2>2, <2>3, <2>4, <2>5
<1>8. \A i, j \in 1 .. n + 1 : i # j => q[i] # q[j]
    BY <1>7
<1>9. ASSUME NEW i \in 1 .. n + 1 PROVE r[i] = snap[q[i]]
    <2>1. CASE i \in 1 .. k
        <3>1. i \in 1 .. n /\ r[i] = s[i] /\ q[i] = p[i]
            BY <1>2, <1>4, <2>1
        <3> QED BY <1>3, <3>1
    <2>2. CASE i = k + 1
        BY <1>2, <1>4, <2>2
    <2>3. CASE i \in k + 2 .. n + 1
        <3>1. i - 1 \in 1 .. n /\ r[i] = s[i - 1] /\ q[i] = p[i - 1]
            BY <1>2, <1>4, <2>3
        <3> QED BY <1>3, <3>1
    <2> QED BY <1>5, <2>1, <2>2, <2>3
<1>10. Rearranged(r, snap, n + 1)
    BY <1>6, <1>8, <1>9 DEF Rearranged
<1> QED BY <1>10 DEF r

\* insertionSort orders a snapshot and neither loses nor doubles a sample.
LEMMA SortSorts ==
    ASSUME NEW snap \in Seq(Int)
    PROVE  LET r == InsertionSort(snap)
           IN  r \in Seq(Int) /\ Len(r) = Len(snap) /\ Ordered(r) /\ Rearranged(r, snap, Len(snap))
<1> DEFINE N == Len(snap)
           V == Seq(Int)
           step == [n \in 0 .. N |-> [f \in [0 .. N -> V] |->
                       IF n = 0 THEN <<>> ELSE Inserted(f[n - 1], snap[n])]]
           IsSort(g) == g = [n \in 0 .. N |-> IF n = 0 THEN <<>> ELSE Inserted(g[n - 1], snap[n])]
           L == CHOOSE g : IsSort(g)
           Sorted(s, n) == s \in V /\ Len(s) = n /\ Ordered(s) /\ Rearranged(s, snap, n)
<1>0. N \in Nat /\ \A i \in 1 .. N : snap[i] \in Int
    BY LenProperties, ElementOfSeq
<1>1. <<>> \in V
    OBVIOUS
<1>2. ASSUME NEW f \in [0 .. N -> V], NEW n \in 0 .. N
      PROVE  (IF n = 0 THEN <<>> ELSE Inserted(f[n - 1], snap[n])) \in V
    <2>1. CASE n # 0
        <3>1. n - 1 \in 0 .. N /\ n \in 1 .. N
            BY <1>0, <2>1
        <3>2. f[n - 1] \in V /\ snap[n] \in Int
            BY <1>0, <3>1
        <3> QED BY <2>1, <3>2, InsertedIs
    <2> QED BY <1>1, <2>1
<1>3. step \in [0 .. N -> [[0 .. N -> V] -> V]]
    BY <1>2
<1>4. IsRecursion(N, V, step)
    <2> HIDE DEF V, N
    <2> QED BY <1>0, <1>3 DEF IsRecursion
<1>5. PICK f : Computes(N, V, step, f)
    <2> HIDE DEF step, N, V
    <2> QED BY <1>0, <1>1, <1>4, RecursionExists
<1>6. IsSort(L)
    <2>1. IsSort(f)
        BY <1>5 DEF Computes
    <2> HIDE DEF IsSort
    <2> QED BY <2>1
<1>7. InsertionSort(snap) = L[N]
    BY DEF InsertionSort
<1> HIDE DEF L
<1>8. L[0] = <<>> /\ \A n \in 1 .. N : L[n] = Inserted(L[n - 1], snap[n])
    <2>1. 0 \in 0 .. N /\ \A n \in 1 .. N : n \in 0 .. N /\ n # 0
        BY <1>0
    <2> HIDE DEF N
    <2> QED BY <1>6, <2>1
<1> DEFINE Bad == {n \in 0 .. N : ~Sorted(L[n], n)}
<1>9. Sorted(<<>>, 0)
    <2>1. Ordered(<<>>) /\ Len(<<>>) = 0
        BY DEF Ordered
    <2>2. 1 .. 0 = {}
        OBVIOUS
    <2>3. Rearranged(<<>>, snap, 0)
        <3>1. [i \in {} |-> i] \in [{} -> {}]
            OBVIOUS
        <3> QED BY <2>2, <3>1 DEF Rearranged
    <2> QED BY <1>1, <2>1, <2>3
<1>10. ASSUME NEW n \in Bad PROVE \E m \in Bad : m < n
    <2>1. n \in 1 .. N
        <3>1. n \in 0 .. N /\ ~Sorted(L[n], n)
            BY <1>10
        <3>2. n # 0
            <4> HIDE DEF Sorted
            <4> QED BY <1>8, <1>9, <3>1
        <3> QED BY <1>0, <3>1, <3>2
    <2> DEFINE m == n - 1
    <2>2. m \in 0 .. N /\ m \in Nat /\ m < n /\ m + 1 = n /\ L[n] = Inserted(L[m], snap[m + 1])
        BY <1>0, <1>8, <2>1
    <2>3. snap[m + 1] \in Int
        BY <1>0, <2>1
    <2> HIDE DEF m
    <2>4. ASSUME Sorted(L[m], m) PROVE FALSE
        <3>1. Ordered(L[n]) /\ Rearranged(L[n], snap, n)
            BY <2>2, <2>3, <2>4, InsertedOrdered, InsertedRearranged
        <3>2. L[m] \in Seq(Int) /\ Len(L[m]) = m
            BY <2>4
        <3>3. L[n] \in Seq(Int) /\ Len(L[n]) = Len(L[m]) + 1
            <4> HIDE DEF Bad
            <4>1. /\ Inserted(L[m], snap[m + 1]) \in Seq(Int)
                  /\ Len(Inserted(L[m], snap[m + 1])) = Len(L[m]) + 1
                BY <2>3, <3>2, InsertedIs
            <4> QED BY <2>2, <4>1
        <3> QED BY <1>10, <2>2, <3>1, <3>2, <3>3
    <2> QED BY <2>2, <2>4
<1>11. Bad = {}
    <2>1. Bad \subseteq Nat
        BY <1>0
    <2> HIDE DEF Bad
    <2> QED BY <1>10, <2>1, NoDescent
<1>12. N \notin Bad
    BY <1>11
<1> QED BY <1>0, <1>7, <1>12

\* As many places of the sorted snapshot as show a sample outside a range, so
\* many samples lie outside it.
LEMMA OutsideAtLeast ==
    ASSUME NEW r, NEW snap, NEW n \in Nat, Rearranged(r, snap, n), NEW lo \in Int, NEW hi \in Int,
           NEW a \in 1 .. n, NEW b \in a .. n, \A i \in a .. b : r[i] \notin lo .. hi
    PROVE  b - a + 1 <= Cardinality(Outside(snap, n, lo, hi))
<1> DEFINE Out == Outside(snap, n, lo, hi)
<1>1. PICK p \in [1 .. n -> 1 .. n] :
         /\ \A i, j \in 1 .. n : i # j => p[i] # p[j]
         /\ \A i \in 1 .. n : r[i] = snap[p[i]]
    BY DEF Rearranged
<1> DEFINE f == [i \in a .. b |-> p[i]]
<1>2. f \in Injection(a .. b, Out)
    <2>1. \A i \in a .. b : i \in 1 .. n
        OBVIOUS
    <2>2. \A i \in a .. b : f[i] \in Out
        BY <1>1, <2>1 DEF Outside
    <2>3. \A i, j \in a .. b : i # j => f[i] # f[j]
        BY <1>1, <2>1
    <2> HIDE DEF Out, f
    <2>4. f \in [a .. b -> Out]
        BY <2>2 DEF f
    <2> QED BY <2>3, <2>4 DEF Injection, IsInjective
<1>3. IsFiniteSet(Out)
    <2>1. IsFiniteSet(1 .. n) /\ Out \in SUBSET (1 .. n)
        BY FS_Interval DEF Outside
    <2> HIDE DEF Out
    <2> QED BY <2>1, FS_Subset
<1>4. Cardinality(a .. b) <= Cardinality(Out)
    <2> HIDE DEF Out, f
    <2> QED BY <1>2, <1>3, FS_Injection
<1>5. a \in Int /\ b \in Int /\ Cardinality(a .. b) = b - a + 1
    BY FS_Interval
<1> QED BY <1>4, <1>5

\* With no more outliers than are cut off at either end, all that is left lies
\* inside the range.
LEMMA TrimmedInside ==
    ASSUME NEW r \in Seq(Int), NEW snap, Len(r) > 0, Ordered(r), Rearranged(r, snap, Len(r)),
           NEW lo \in Int, NEW hi \in Int,
           Cardinality(Outside(snap, Len(r), lo, hi)) <= Len(r) \div 4
    PROVE  /\ Trimmed(r) \in Seq(Int) /\ Len(Trimmed(r)) \in Nat \ {0}
           /\ \A i \in 1 .. Len(Trimmed(r)) : Trimmed(r)[i] \in lo .. hi
<1> DEFINE n == Len(r)
           q == n \div 4
           C == Cardinality(Outside(snap, n, lo, hi))
<1>0. n \in Nat \ {0} /\ \A i \in 1 .. n : r[i] \in Int
    BY LenProperties, ElementOfSeq
<1>1. q \in Nat /\ 4 * q <= n
    BY <1>0
<1>2. \A i, j \in 1 .. n : i < j => r[i] <= r[j]
    BY DEF Ordered
<1>3. C <= q
    OBVIOUS
<1>4. C \in Nat
    <2>1. IsFiniteSet(1 .. n)
        BY <1>0, FS_Interval
    <2>2. IsFiniteSet(Outside(snap, n, lo, hi))
        BY <2>1, FS_Subset DEF Outside
    <2> QED BY <2>2, FS_CardinalityType
<1>r. Rearranged(r, snap, n)
    OBVIOUS
<1>5. ASSUME NEW a \in 1 .. n, NEW b \in a .. n, \A i \in a .. b : r[i] \notin lo .. hi
      PROVE  b - a + 1 <= C
    <2> HIDE DEF n, q
    <2>1. /\ n \in Nat /\ a \in 1 .. n /\ b \in a .. n
          /\ \A i \in a .. b : r[i] \notin lo .. hi
        BY <1>0, <1>5
    <2>2. b - a + 1 <= Cardinality(Outside(snap, n, lo, hi))
        BY <1>r, <2>1, OutsideAtLeast
    <2> QED BY <2>2
<1>6. Trimmed(r) = SubSeq(r, q + 1, n - q)
    BY DEF Trimmed
<1> HIDE DEF C, q, n
<1>7. ASSUME NEW i \in q + 1 .. n - q PROVE r[i] \in lo .. hi
    <2>0. i \in 1 .. n /\ r[i] \in Int
        BY <1>0, <1>1
    <2>1. ASSUME r[i] < lo PROVE FALSE
        <3>1. \A j \in 1 .. q + 1 : r[j] \notin lo .. hi
            <4> SUFFICES ASSUME NEW j \in 1 .. q + 1 PROVE r[j] \notin lo .. hi
                OBVIOUS
            <4>1. j \in 1 .. n /\ r[j] \in Int /\ (j = i \/ j < i)
                BY <1>0, <1>1
            <4>2. r[j] <= r[i]
                BY <1>2, <2>0, <4>1
            <4> QED BY <2>0, <2>1, <4>1, <4>2
        <3>2. 1 \in 1 .. n /\ q + 1 \in 1 .. n
            BY <1>0, <1>1
        <3>3. (q + 1) - 1 + 1 <= C
            BY <1>5, <3>1, <3>2
        <3> QED BY <1>1, <1>3, <1>4, <3>3
    <2>2. ASSUME r[i] > hi PROVE FALSE
        <3>1. \A j \in n - q .. n : r[j] \notin lo .. hi
            <4> SUFFICES ASSUME NEW j \in n - q .. n PROVE r[j] \notin lo .. hi
                OBVIOUS
            <4>1. j \in 1 .. n /\ r[j] \in Int /\ (j = i \/ i < j)
                BY <1>0, <1>1
            <4>2. r[i] <= r[j]
                BY <1>2, <2>0, <4>1
            <4> QED BY <2>0, <2>2, <4>1, <4>2
        <3>2. n - q \in 1 .. n /\ n \in n - q .. n
            BY <1>0, <1>1
        <3>3. n - (n - q) + 1 <= C
            BY <1>5, <3>1, <3>2
        <3> QED BY <1>0, <1>1, <1>3, <1>4, <3>3
    <2> QED BY <2>0, <2>1, <2>2
<1>8. q + 1 \in 1 .. n - q /\ n - q \in 1 .. n
    BY <1>0, <1>1
<1>9. /\ Trimmed(r) \in Seq(Int) /\ Len(Trimmed(r)) = n - q - q
      /\ \A i \in 1 .. n - q - q : i + q \in q + 1 .. n - q /\ Trimmed(r)[i] = r[i + q]
    <2>1. \A i \in q + 1 .. n - q : r[i] \in Int
        BY <1>0, <1>1
    <2>2. SubSeq(r, q + 1, n - q) = [i \in 1 .. n - q - q |-> r[i + q]]
        BY <1>0, <1>1, <1>8
    <2>3. \A i \in 1 .. n - q - q : i + q \in q + 1 .. n - q
        BY <1>0, <1>1
    <2>4. n - q - q \in Nat
        BY <1>0, <1>1
    <2>5. [i \in 1 .. n - q - q |-> r[i + q]] \in [1 .. n - q - q -> Int]
        BY <2>1, <2>3
    <2> DEFINE t == [i \in 1 .. n - q - q |-> r[i + q]]
    <2>6. t \in Seq(Int) /\ Len(t) = n - q - q
        <3> DEFINE m == n - q - q
        <3>1. m \in Nat /\ t \in [1 .. m -> Int]
            BY <2>4, <2>5
        <3> HIDE DEF t, m
        <3>2. t \in Seq(Int) /\ Len(t) = m
            BY <3>1, LenProperties
        <3> QED BY <3>2 DEF m
    <2> QED BY <1>6, <2>2, <2>3, <2>6
<1>10. n - q - q \in Nat \ {0}
    BY <1>0, <1>1
<1> QED BY <1>7, <1>9, <1>10

\* A sum lies between as many times the least and as many times the greatest term.
LEMMA TotalBetween ==
    ASSUME NEW s \in Seq(Int), NEW lo \in Int, NEW hi \in Int,
           \A i \in 1 .. Len(s) : lo <= s[i] /\ s[i] <= hi
    PROVE  Total(s) \in Int /\ Len(s) * lo <= Total(s) /\ Total(s) <= Len(s) * hi
<1> DEFINE N == Len(s)
           step == [n \in 0 .. N |-> [f \in [0 .. N -> Int] |-> IF n = 0 THEN 0 ELSE f[n - 1] + s[n]]]
           IsSum(g) == g = [i \in 0 .. N |-> IF i = 0 THEN 0 ELSE g[i - 1] + s[i]]
           L == CHOOSE g : IsSum(g)
           InBounds(n, v) == v \in Int /\ n * lo <= v /\ v <= n * hi
<1>0. N \in Nat /\ \A i \in 1 .. N : s[i] \in Int /\ lo <= s[i] /\ s[i] <= hi
    BY LenProperties, ElementOfSeq
<1> HIDE DEF N
<1>1. ASSUME NEW f \in [0 .. N -> Int], NEW n \in 0 .. N
      PROVE  (IF n = 0 THEN 0 ELSE f[n - 1] + s[n]) \in Int
    <2>1. CASE n # 0
        <3>1. n - 1 \in 0 .. N /\ n \in 1 .. N
            BY <1>0, <2>1
        <3>2. f[n - 1] \in Int /\ s[n] \in Int
            BY <1>0, <3>1
        <3> QED BY <2>1, <3>2
    <2> QED BY <2>1
<1>2. step \in [0 .. N -> [[0 .. N -> Int] -> Int]]
    BY <1>1
<1>3. IsRecursion(N, Int, step)
    <2>1. \A n \in 0 .. N : n # 0 => n - 1 \in 0 .. n - 1
        BY <1>0
    <2>2. ASSUME NEW f \in [0 .. N -> Int], NEW g \in [0 .. N -> Int], NEW n \in 0 .. N,
                 \A m \in 0 .. n - 1 : f[m] = g[m]
          PROVE  step[n][f] = step[n][g]
        <3>1. n # 0 => f[n - 1] = g[n - 1]
            BY <2>1, <2>2
        <3> QED BY <3>1
    <2> HIDE DEF step
    <2> QED BY <1>2, <2>2 DEF IsRecursion
<1>4. PICK f : Computes(N, Int, step, f)
    <2> HIDE DEF step
    <2> QED BY <1>0, <1>3, RecursionExists
<1>5. IsSum(L)
    <2>1. IsSum(f)
        BY <1>4 DEF Computes
    <2> HIDE DEF IsSum
    <2> QED BY <2>1
<1>6. Total(s) = L[N]
    BY DEF Total, N
<1> HIDE DEF L
<1>7. L[0] = 0 /\ \A n \in 1 .. N : L[n] = L[n - 1] + s[n]
    BY <1>0, <1>5
<1> DEFINE Bad == {n \in 0 .. N : ~InBounds(n, L[n])}
<1>8. ASSUME NEW n \in Bad PROVE \E m \in Bad : m < n
    <2>0. n \in 0 .. N /\ ~InBounds(n, L[n])
        OBVIOUS
    <2>1. n \in 1 .. N
        BY <1>0, <1>7, <2>0
    <2> DEFINE m == n - 1
    <2>2. m \in 0 .. N /\ m < n /\ n = m + 1 /\ L[n] = L[m] + s[n]
        BY <1>0, <1>7, <2>1
    <2> HIDE DEF m, Bad, InBounds
    <2>3. ASSUME InBounds(m, L[m]) PROVE FALSE
        <3> DEFINE a == m * lo
                   b == m * hi
        <3>1. n * lo = a + lo /\ n * hi = b + hi /\ a \in Int /\ b \in Int
            BY <2>2
        <3>2. L[m] \in Int /\ a <= L[m] /\ L[m] <= b
            BY <2>3 DEF InBounds
        <3>3. s[n] \in Int /\ lo <= s[n] /\ s[n] <= hi
            BY <1>0, <2>1
        <3> HIDE DEF a, b
        <3>4. L[n] \in Int /\ a + lo <= L[n] /\ L[n] <= b + hi
            <4>1. L[n] = L[m] + s[n] /\ a \in Int /\ b \in Int
                BY <2>2, <3>1
            <4> QED BY <3>2, <3>3, <4>1
        <3> QED BY <2>0, <3>1, <3>4 DEF InBounds
    <2> QED BY <2>2, <2>3 DEF Bad
<1>9. Bad = {}
    <2>1. Bad \subseteq Nat
        BY <1>0
    <2> HIDE DEF Bad
    <2> QED BY <1>8, <2>1, NoDescent
<1>10. N \notin Bad
    BY <1>9
<1>11. InBounds(N, L[N])
    BY <1>0, <1>10
<1> QED BY <1>6, <1>11 DEF N

\* Multiplication keeps the order of its factors.
LEMMA TimesKeeps ==
    ASSUME NEW n \in Nat, NEW a \in Int, NEW b \in Int, a <= b
    PROVE  n * a <= n * b
<1>1. n * (b - a) >= 0 /\ n * (b - a) = n * b - n * a
    OBVIOUS
<1> QED BY <1>1

\* A quotient lies between the bounds of what is divided, rounded towards zero or not.
LEMMA QuotientBetween ==
    ASSUME NEW n \in Nat \ {0}, NEW v \in Int, NEW lo \in Int, NEW hi \in Int,
           n * lo <= v, v <= n * hi
    PROVE  Quotient(v, n) \in lo .. hi
<1>1. ASSUME NEW x \in Nat, NEW l \in Int, NEW h \in Int, n * l <= x, x <= n * h
      PROVE  x \div n \in l .. h
    <2> DEFINE d == x \div n
    <2>1. d \in Int /\ n * d <= x /\ x < n * d + n
        OBVIOUS
    <2> HIDE DEF d
    <2>2. ASSUME d < l PROVE FALSE
        <3>1. n * (d + 1) <= n * l
            BY <2>1, <2>2, TimesKeeps
        <3> QED BY <1>1, <2>1, <3>1
    <2>3. ASSUME h < d PROVE FALSE
        <3>1. n * (h + 1) <= n * d
            BY <2>1, <2>3, TimesKeeps
        <3> QED BY <1>1, <2>1, <3>1
    <2> QED BY <2>1, <2>2, <2>3 DEF d
<1>2. CASE v >= 0
    BY <1>1, <1>2 DEF Quotient
<1>3. CASE v < 0
    <2>1. -v \in Nat /\ -lo \in Int /\ -hi \in Int
        BY <1>3
    <2>2. n * (-hi) <= -v /\ -v <= n * (-lo)
        OBVIOUS
    <2>3. (-v) \div n \in -hi .. -lo
        BY <1>1, <2>1, <2>2
    <2>4. Quotient(v, n) = -((-v) \div n)
        BY <1>3 DEF Quotient
    <2> QED BY <2>3, <2>4
<1> QED BY <1>2, <1>3

\* For every snapshot and range, not only the bounded ones of FilterRobust.
LEMMA MeanInside ==
    ASSUME NEW snap \in Seq(Int), Len(snap) > 0, NEW lo \in Int, NEW hi \in Int,
           Cardinality(Outside(snap, Len(snap), lo, hi)) <= Len(snap) \div 4
    PROVE  TrimmedMean(snap) \in lo .. hi
<1> DEFINE r == InsertionSort(snap)
           rest == Trimmed(r)
<1>1. r \in Seq(Int) /\ Len(r) = Len(snap) /\ Ordered(r) /\ Rearranged(r, snap, Len(r))
    BY SortSorts
<1> HIDE DEF r
<1>2. /\ rest \in Seq(Int) /\ Len(rest) \in Nat \ {0}
      /\ \A i \in 1 .. Len(rest) : rest[i] \in lo .. hi
    BY <1>1, TrimmedInside
<1> HIDE DEF rest
<1>3. Total(rest) \in Int /\ Len(rest) * lo <= Total(rest) /\ Total(rest) <= Len(rest) * hi
    <2>1. \A i \in 1 .. Len(rest) : lo <= rest[i] /\ rest[i] <= hi
        BY <1>2
    <2> QED BY <1>2, <2>1, TotalBetween
<1>4. Quotient(Total(rest), Len(rest)) \in lo .. hi
    BY <1>2, <1>3, QuotientBetween
<1> QED BY <1>4 DEF TrimmedMean, rest, r

LEMMA FilterRobustHolds == FilterRobust
<1> SUFFICES ASSUME NEW len \in 1 .. MIN_SAMPLES + 1,
                    NEW snap \in [1 .. len -> -RAW_SPAN .. RAW_SPAN],
                    NEW lo \in -RAW_SPAN .. RAW_SPAN, NEW hi \in -RAW_SPAN .. RAW_SPAN,
                    Cardinality({i \in 1 .. len : snap[i] \notin lo .. hi}) <= len \div 4
             PROVE  TrimmedMean(snap) \in lo .. hi
    BY DEF FilterRobust
<1>1. len \in Nat /\ len > 0 /\ lo \in Int /\ hi \in Int
    BY FilterAssumption
<1>2. snap \in [1 .. len -> Int]
    BY FilterAssumption
<1>3. snap \in Seq(Int) /\ Len(snap) = len
    BY <1>1, <1>2, LenProperties
<1>4. Cardinality(Outside(snap, len, lo, hi)) <= len \div 4
    BY DEF Outside
<1> QED BY <1>1, <1>3, <1>4, MeanInside

\* Whatever the size of the ring and the number of samples, a reading looks at the newest ones,
\* and whatever they are, as many outliers as are cut off at either end do not move it out of the
\* range of the others (loadcell.cpp 74-111).
THEOREM FilterKeepsItsPromise == ScaleSpec => []FilterPromise
<1>1. FilterPromise
    BY FilterWindowHolds, FilterRobustHolds DEF FilterPromise
<1> QED BY <1>1, PTL

-----------------------------------------------------------------------------
(* The corner report *)

\* What the corner report starts from is the highest of the readings and zero.
Highest(val, D, v) == v \in {val[c] : c \in D} \cup {0} /\ v >= 0 /\ \A c \in D : v >= val[c]

\* One more corner has a highest reading again.
LEMMA HighestOfMore ==
    ASSUME NEW set, NEW val \in [set -> Int], NEW D \in SUBSET set, NEW c \in set,
           \E v : Highest(val, D, v)
    PROVE  \E v : Highest(val, D \cup {c}, v)
<1>1. PICK v : Highest(val, D, v)
    OBVIOUS
<1>2. v \in Int /\ val[c] \in Int /\ \A d \in D : val[d] \in Int
    BY <1>1 DEF Highest
<1>3. CASE v >= val[c]
    <2>1. Highest(val, D \cup {c}, v)
        BY <1>1, <1>2, <1>3 DEF Highest
    <2> QED BY <2>1
<1>4. CASE ~(v >= val[c])
    <2>1. Highest(val, D \cup {c}, val[c])
        BY <1>1, <1>2, <1>4 DEF Highest
    <2> QED BY <2>1
<1> QED BY <1>3, <1>4

\* There is a reference for every set of corners.
LEMMA HighestExists ==
    ASSUME NEW set \in SUBSET Corners, NEW val \in [set -> Int]
    PROVE  \E v : Highest(val, set, v)
<1>0. Highest(val, {}, 0)
    BY DEF Highest
<1>1. ASSUME NEW D \in SUBSET set, NEW c \in Corners, \E v : Highest(val, D, v)
      PROVE  \E v : Highest(val, D \cup (set \cap {c}), v)
    <2>1. CASE c \in set
        <3>1. D \cup (set \cap {c}) = D \cup {c}
            BY <2>1
        <3> QED BY <1>1, <2>1, <3>1, HighestOfMore
    <2>2. CASE c \notin set
        <3>1. D \cup (set \cap {c}) = D
            BY <2>2
        <3> QED BY <1>1, <3>1
    <2> QED BY <2>1, <2>2
<1> DEFINE D1 == {} \cup (set \cap {"FL"})  D2 == D1 \cup (set \cap {"FR"})
           D3 == D2 \cup (set \cap {"BL"})  D4 == D3 \cup (set \cap {"BR"})
<1>2. \E v : Highest(val, D1, v)
    BY <1>0, <1>1 DEF Corners
<1>3. D1 \in SUBSET set /\ D2 \in SUBSET set /\ D3 \in SUBSET set /\ D4 = set
    BY DEF Corners
<1>4. {"FL", "FR", "BL", "BR"} \subseteq Corners
    BY DEF Corners
<1> HIDE DEF D1
<1>5. \E v : Highest(val, D2, v)
    BY <1>1, <1>2, <1>3, <1>4
<1> HIDE DEF D2
<1>6. \E v : Highest(val, D3, v)
    BY <1>1, <1>3, <1>4, <1>5
<1> HIDE DEF D3
<1>7. \E v : Highest(val, D4, v)
    BY <1>1, <1>3, <1>4, <1>6
<1> QED BY <1>3, <1>7

\* For readings of any size and either sign.
LEMMA CornerVerdictHolds == CornerVerdict
<1> SUFFICES ASSUME NEW set \in SUBSET Corners,
                    NEW val \in [set -> CornerWeights \cup {-w : w \in CornerWeights}],
                    NEW c \in DOMAIN CornerReport(val)
             PROVE  CornerReport(val)[c] = "LOW" <=>
                        \E d \in set : val[d] > CORNER_MIN /\ val[c] * 1000 <= val[d] * 997
    BY DEF CornerVerdict
<1> DEFINE ref == CornerRef(val)
<1>1. val \in [set -> Int] /\ DOMAIN val = set
    <2>1. CornerWeights \cup {-w : w \in CornerWeights} \subseteq Int
        <3>1. \A w \in CornerWeights : w \in Int /\ -w \in Int
            BY FilterAssumption
        <3> QED BY <3>1, Zenon
    <2> DEFINE W == CornerWeights \cup {-w : w \in CornerWeights}
    <2>2. val \in [set -> W] /\ W \subseteq Int
        BY <2>1
    <2> HIDE DEF W
    <2> QED BY <2>2
<1>2. Highest(val, set, ref)
    <2>1. \E v : Highest(val, set, v)
        BY <1>1, HighestExists
    <2>2. ref = CHOOSE v \in {val[d] : d \in set} \cup {0} : v >= 0 /\ \A d \in set : v >= val[d]
        BY <1>1 DEF CornerRef
    <2> QED BY <2>1, <2>2 DEF Highest
<1>3. /\ c \in set
      /\ CornerReport(val)[c] = IF ~CornerOff(val, c) THEN "OK"
                                ELSE IF val[c] < ref THEN "LOW" ELSE "HIGH"
    BY <1>1 DEF CornerReport
<1>4. CornerOff(val, c) <=> ref > CORNER_MIN /\ (IF val[c] - ref < 0 THEN -(val[c] - ref) ELSE val[c] - ref) * 1000 >= 3 * ref
    BY DEF CornerOff
<1> HIDE DEF ref
<1>0. CORNER_MIN = 1
    BY DEF CORNER_MIN
<1>5. ref \in Int /\ val[c] \in Int /\ ref >= val[c] /\ \A d \in set : val[d] \in Int /\ ref >= val[d]
    BY <1>1, <1>2, <1>3 DEF Highest
<1>6. CornerOff(val, c) <=> ref > CORNER_MIN /\ val[c] * 1000 <= ref * 997
    BY <1>0, <1>4, <1>5
<1>7. CornerOff(val, c) => val[c] < ref
    BY <1>0, <1>5, <1>6
<1>8. CornerReport(val)[c] = IF CornerOff(val, c) THEN "LOW" ELSE "OK"
    BY <1>3, <1>7
<1>9. CornerOff(val, c) <=> \E d \in set : val[d] > CORNER_MIN /\ val[c] * 1000 <= val[d] * 997
    <2>1. ASSUME CornerOff(val, c) PROVE \E d \in set : val[d] > CORNER_MIN /\ val[c] * 1000 <= val[d] * 997
        BY <1>0, <1>2, <1>6, <2>1 DEF Highest
    <2>2. ASSUME NEW d \in set, val[d] > CORNER_MIN, val[c] * 1000 <= val[d] * 997 PROVE CornerOff(val, c)
        BY <1>0, <1>5, <1>6, <2>2
    <2> QED BY <2>1, <2>2
<1> QED BY <1>8, <1>9

\* Whatever the readings, the report says "increase adjuster" of exactly the corners above which
\* another one reads more than 0.1 g and at least 0.3 % higher (telnet.cpp 32-56).
THEOREM CornersJudgedTruly == ScaleSpec => []CornerPromise
<1>1. CornerPromise
    BY CornerVerdictHolds DEF CornerPromise
<1> QED BY <1>1, PTL
=============================================================================
