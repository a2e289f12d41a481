SPECIFICATION ConsoleSpec
CONSTANTS
    Conn = {c1, c2}
    NoConn = NoConn
    CAREFUL = TRUE
    MAX_BOOTS = 1
INVARIANTS ButtonsUnderstood
PROPERTY LabelSettles
CHECK_DEADLOCK FALSE
