CONSTANTS
    MaxFires = 5
    MaxCalls = 6
    CallerMisuse = FALSE
    MethodMayRaise = TRUE
SPECIFICATION Spec
PROPERTY KeepsTicking
