SPECIFICATION LiveSpec
PROPERTIES
    ReadingEnds
    SendingEnds
CHECK_DEADLOCK FALSE
