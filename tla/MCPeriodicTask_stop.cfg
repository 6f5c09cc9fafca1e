CONSTANTS
    MaxFires = 5
    MaxCalls = 6
    CallerMisuse = TRUE
    MethodMayRaise = FALSE
SPECIFICATION Spec
PROPERTY TickerSafety
