CONSTANTS
    Tags = {t1}
    NoTag = NoTag
    RFID_SCAN_COUNT = 1
    RFID_FREQ_SLOTS = 1
    UINT8 = 2
    PauseMayTimeOut = FALSE
    Weights = {0}
    UINT16 = 65536
    WEIGHT_DROP_G = 1
    WEIGHT_DROP_WINDOW = 1
    WEIGHT_LOG_INTERVAL = 1
    WEIGHT_LOG_DEDUP_G = 1
    WEIGHT_LOG_MAX_SAMPLES = 2
    RFID_START_DELAY = 1
    COW_GONE_CONFIRM = 1
    COW_ARRIVE_CONFIRM = 1
    VALVE_OPEN_DELAY = 1
    VALVE_OPEN_DURATION = 2
    VALVE_COOLDOWN = 2
    PAUSE_MAX = 2
    FINAL_MAX = 1
    POST_MAX = 2
    Commands = {"rfid scan"}
SPECIFICATION SessionSpec
INVARIANTS
    UartExclusive
