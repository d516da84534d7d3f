\* Two handlers, one identifier: the documented bound is exceeded.
SPECIFICATION RateSpec
CONSTANTS
    Worker = {w1, w2}
    Identifier = {i1}
    Limit = 2
    Window = 2
    MaxClock = 4
INVARIANT
    AtMostLimitPerWindow
