SPECIFICATION Spec
CONSTANTS
    MaxGroups = 6
    GroupSize <- MCGroupSize
    MaxRestarts = 2
INVARIANTS
    InOrderAtMostOnce
    HandlersWhole
PROPERTIES
    ImplementsJournal
\* the bounds let every behaviour end
CHECK_DEADLOCK FALSE
