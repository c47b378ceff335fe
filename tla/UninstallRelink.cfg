\* One user, commands one after the other, every archive complete, no crash.
SPECIFICATION Spec
CONSTANTS
    Versions = {1, 2}
    NumBinaries = 2
    NoVersion = NoVersion
    Junk = Junk
    Procs = {p1}
    Commands = {"install", "uninstall", "default"}
    ArchiveOf <- CompleteArchives
    MAX_RETRIES = 1
    MaxCrashes = 0
INVARIANT
    QuietLinksWork
