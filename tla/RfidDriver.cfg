CONSTANTS
    Tags = {t1, t2}
    TagsWithCF = {t2}
    LongTags = {t2}
    FirstBytes = t2start
    Garbage = Garbage
    Rssi = {1, 2}
    FALSE_SIZE = 3
    WrongSizes = {0, 3}
    STREAM_UNITS = 4
    DIAG_UNITS = 1
    RESP_UNITS = 2
    UART_UNITS = 1
    Powers = {9, 26}
    POWER_MIN = 10
    POWER_MAX = 33
    DEFAULT_POWER = 26
    Absent = Absent
    StopsInTime = FALSE
SPECIFICATION DriverSpec
CONSTRAINT OneUnitMore
PROPERTIES
    TagWasSent
    StrongestWins
