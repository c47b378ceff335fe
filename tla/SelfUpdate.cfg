\* One updater and one other reader of the manifest; release 1 is a prerelease.
SPECIFICATION FairSpec
CONSTANTS
    Procs = {updater, reader}
    Updaters = {updater}
    Platforms = {"unix", "windows"}
    MaxReleases = 2
    Stable = {2}
    MaxTime = 1
    TTL = 1
    MaxCrashes = 1
INVARIANTS
    AnswersArePublished
    
PROPERTIES
    FetchReturns
    NeverDowngrades
