\* More tags than slots, and two scans more than slots: 10 and 8 in the code.
CONSTANTS
    Tags = {t1, t2, t3}
    NoTag = NoTag
    RFID_SCAN_COUNT = 4
    RFID_FREQ_SLOTS = 2
    UINT8 = 6
    PauseMayTimeOut = FALSE
SPECIFICATION BatchSpec
PROPERTIES
    MostFrequentWins
