\* ReportMax < PulseMax: the clamp of the reply happens.
\* BODY_SIZE: a record of one sample fits into the body, one of two is cut.
SPECIFICATION PostLinksSpec
CONSTANTS
    ReportMax = 1
    PulseMax = 2
    SLAVE_COUNT = 2
    UINT8 = 4
    Asked = {5, 3}
    RxRoom = 1
    States = {0, 2}
    MAX_FRAMES = 2
    MAX_BOOTS = 1
    BODY_SIZE = 6
    BASE_MAX = 1
    MID_LEN = 1
    TAIL_LEN = 1
    VALUE_MAX = 1
    WEIGHT_LOG_MAX_SAMPLES = 2
    TEST_SAMPLES = 1
CONSTRAINT
    OneWayAtATime
INVARIANTS
    OwnPulses
    CountIsWhole
    AnsweredByThisRequest
    LastIsTrue
    DisplayAgrees
    BodyEnds
    CallIsOwn
