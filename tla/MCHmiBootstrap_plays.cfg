SPECIFICATION FairSpec
CONSTANTS
    v1 = v1
    v2 = v2
    renamed = renamed
    Projects <- MCProjects
    Recognised <- MCRecognised
    Demo = Demo
    MaxEdits = 2
    MaxFaults = 3
INVARIANTS
    ProjectIsServed
    ValuesAreShown
PROPERTIES
    HmiComesBack
