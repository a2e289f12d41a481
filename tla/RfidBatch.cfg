\* Fewer slots than tags.  No symmetry: BatchEnds is a liveness property.
CONSTANTS
    Tags = {t1, t2, t3}
    NoTag = NoTag
    RFID_SCAN_COUNT = 3
    RFID_FREQ_SLOTS = 2
    UINT8 = 5
    PauseMayTimeOut = FALSE
SPECIFICATION FairBatchSpec
INVARIANTS
    PauseQuiesces
PROPERTIES
    ResultIsFinal
    BatchEnds
