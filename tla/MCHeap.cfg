SPECIFICATION Spec
SYMMETRY Symmetry
CONSTANTS
    t1 = t1
    t2 = t2
    Tasks = {t1, t2}
    Regions = 2
    Start <- MCStart
    End <- MCEnd
    Caps <- MCCaps
    Needs <- MCNeeds
    Sizes = {1, 3}
    Tracing = TRUE
INVARIANT RecordsRight
PROPERTIES GivesSeparatePieces RefusesOnlyWithoutGap
