SPECIFICATION Spec
CONSTANTS
    Typed <- MCTyped
    WhenFinds <- MCWhenFinds
    Products <- MCProducts
    Remarks <- MCRemarks
    Calendar <- MCCalendar
    FirstDays <- MCFirstDays
    Patience = 1
    Alphabet = {"a", "b"}
INVARIANTS
    DistanceExact
PROPERTIES
    
    CleanedForward
CHECK_DEADLOCK FALSE
