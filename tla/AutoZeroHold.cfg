\* An operator who only watches the weight.
CONSTANTS
    RAW_BUF_SIZE = 6
    MIN_SAMPLES = 5
    RAW_SPAN = 2
    CornerWeights = {0, 1, 2, 997, 998, 1000}
    Loads = {0, 1}
    Typed = {2}
    Settable = {}
    Commands = {"start", "stop", "autozero"}
    IniKeys = {"samples", "az_en"}
    INI_AZ_EN = TRUE
    INI_SAMPLES = 0
    INI_AZ_THRESHOLD = 1
    INI_AZ_HOLD = 1
    RAW_ZERO = 1
    Absent = Absent
    DEFAULT_FACTOR = 1
    DEFAULT_SAMPLES = 1
    DEFAULT_AZ_THRESHOLD = 1
    DEFAULT_AZ_HOLD = 1
    DEFAULT_VALVE_TIME = 1
    DEFAULT_BEAM_TIME = 1
    MAX_SAMPLES = 2
    AGE_CAP = 1
    MAX_COMMANDS = 2
SPECIFICATION ScaleSpec
PROPERTIES
    StayedNear
