\* Two versions, one of them available here, and two installations, the second
\* perhaps while the first, cancelled, still runs.
\* The user may quit: then the process stops.
SPECIFICATION FairSpec
CONSTANTS
    Versions = {1, 2}
    Available = {2}
    MaxThreads = 2
INVARIANTS
    ScreenIsReal
PROPERTIES
    ProgressEnds
    LoadingEnds
CHECK_DEADLOCK FALSE
