SPECIFICATION MonitoringSpec
CONSTANTS
    MAX_PACKETS = 4
    UartRoom = 2
    FromScale = {2}
    MAX_RESTARTS = 1
INVARIANTS RowsOfAttempts Accounted
PROPERTY RouterMovesOn
CHECK_DEADLOCK FALSE
