SPECIFICATION Spec
SYMMETRY Symmetry
CONSTANTS
    Pages = {p1, p2, p3}
    ENTRY_COUNT = 4
    WORD_ENTRIES = 2
    Keys = {count, ssid, pass}
    Vals = {v1, v2}
    count = count
    ssid = ssid
    pass = pass
    Whole <- MCWhole
    Rest <- MCRest
    Hash <- Distinct
    Absent = Absent
    NoPage = NoPage
    NoCall = NoCall
    Off = Off
    Blank = Blank
    Half = Half
    Erased = Erased
INVARIANT MountSucceeds
PROPERTIES
    CallsAreAtomic
    RefusedOnlyWhenFull
