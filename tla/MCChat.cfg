SPECIFICATION Spec
CONSTANTS
    TimesOut = FALSE
    MaxAsks = 2
    MaxSignals = 0
    MaxDown = 2
PROPERTIES
    ShownCanBeAnswered
CHECK_DEADLOCK FALSE
