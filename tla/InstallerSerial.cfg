\* One command at a time; the archive of version 2 is incomplete.
SPECIFICATION FairSpec
CONSTANTS
    Versions = {1, 2}
    NumBinaries = 2
    NoVersion = NoVersion
    Junk = Junk
    Procs = {p1}
    Commands = {"install", "tui_install", "uninstall", "default", "tui_default"}
    ArchiveOf <- IncompleteArchive
    MAX_RETRIES = 3
    MaxCrashes = 1
INVARIANTS
    
    
    ToolchainIsUsable
PROPERTY
    CommandsReturn
