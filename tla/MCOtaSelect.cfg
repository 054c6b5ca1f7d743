SPECIFICATION Spec
CONSTANTS
    Tables <- MCTables
    Versions = {v1, v2}
    Shipped = v1
    Erased = erased
    Bad = bad
INVARIANTS
    ReportsBoot
    NeverBricked
PROPERTY
    BootsPromised
