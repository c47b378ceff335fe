\* Two processes, one download attempt each.
SPECIFICATION Spec
CONSTANTS
    Versions = {1, 2}
    NumBinaries = 1
    NoVersion = NoVersion
    Junk = Junk
    Procs = {p1, p2}
    Commands = {"install", "uninstall", "default"}
    ArchiveOf <- CompleteArchives
    MAX_RETRIES = 1
    MaxCrashes = 0
VIEW ConcurrentView
SYMMETRY ProcSymmetry
INVARIANTS
    LinksFollowDefaults
    DefaultsWereInstalled
