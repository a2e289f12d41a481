\* The console resets the session and closes the valve; the RFID commands are
\* left to SessionCli.cfg.  A weight of 5 g does not fit the log's integer, and
\* a pause or a POST may last longer than a confirmation time.
CONSTANTS
    Tags = {t1}
    NoTag = NoTag
    RFID_SCAN_COUNT = 2
    RFID_FREQ_SLOTS = 1
    UINT8 = 3
    PauseMayTimeOut = FALSE
    Weights = {0, 5}
    UINT16 = 4
    WEIGHT_DROP_G = 1
    WEIGHT_DROP_WINDOW = 1
    WEIGHT_LOG_INTERVAL = 1
    WEIGHT_LOG_DEDUP_G = 1
    WEIGHT_LOG_MAX_SAMPLES = 2
    RFID_START_DELAY = 2
    COW_GONE_CONFIRM = 1
    COW_ARRIVE_CONFIRM = 1
    VALVE_OPEN_DELAY = 1
    VALVE_OPEN_DURATION = 1
    VALVE_COOLDOWN = 2
    PAUSE_MAX = 2
    FINAL_MAX = 1
    POST_MAX = 2
    Commands = {"session reset", "valve close"}
SPECIFICATION FairSessionSpec
INVARIANTS
    SessionTypeOK
    LogOfThisBucket
    OwnTag
    TagOnlyWhileMilking
    InitOncePerBucket
    PinOnlyInVisit
    SprayBounded
PROPERTIES
    PostImplemented
    ResetHonoured
    SprayEnds
    VisitProceeds
