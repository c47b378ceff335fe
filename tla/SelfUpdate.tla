----------------------------- MODULE SelfUpdate -----------------------------
(***************************************************************************)
(* `infs self update` (apps/infs/src/commands/self_cmd.rs) on top of the   *)
(* manifest cache: compare versions, download, verify, extract into        *)
(* downloads/infs-<version>-temp and replace the running binary.  The      *)
(* download with its checksum is one step that delivers the archive or     *)
(* fails; module Installer has its parts.                                  *)
(***************************************************************************)
EXTENDS ManifestCache

CONSTANTS Updaters,   \* the processes that run self update
          Platforms   \* subset of {"unix", "windows"}

ASSUME UpdateAssumption ==
    /\ Updaters \subseteq Procs
    /\ Platforms \subseteq {"unix", "windows"}

VARIABLES platform,
          exe,     \* the installed binary: its release, Missing or Partial
          old,     \* Windows: infs.old.exe
          staged,  \* the binary in the temp directory of each release
          me       \* CARGO_PKG_VERSION of a process that runs self update

updateVars == <<platform, exe, old, staged, me>>
vars == <<cacheVars, updateVars>>

Missing == 0
Partial == MaxReleases + 1
Binary == 0..(MaxReleases + 1)

UpdateSteps == {"compare", "download", "stage", "extract", "replace", "rmOld",
                "moveOut", "moveIn", "moveBack", "cleanup"}

TypeOK ==
    /\ CacheTypeOK
    /\ pc \in [Procs -> FetchSteps \cup UpdateSteps]
    /\ platform \in {"unix", "windows"}
    /\ exe \in Binary
    /\ old \in Binary
    /\ staged \in [1..MaxReleases -> Binary]
    /\ me \in [Procs -> 0..MaxReleases]

Init ==
    /\ CacheInit
    /\ platform \in Platforms
    /\ exe = 1
    /\ old = Missing
    /\ staged = [r \in 1..MaxReleases |-> Missing]
    /\ me = [p \in Procs |-> 0]

-----------------------------------------------------------------------------
Return(p) ==
    /\ Goto(p, "idle")
    /\ held' = [held EXCEPT ![p] = 0]
    /\ age' = [age EXCEPT ![p] = 0]
    /\ me' = [me EXCEPT ![p] = 0]

\* versions, install, or the TUI: asks for the manifest and uses it.
Read(p) ==
    /\ p \notin Updaters
    /\ BeginFetch(p)
    /\ UNCHANGED updateVars

\* A process that starts as infs runs the binary that is installed now.
BeginUpdate(p) ==
    /\ p \in Updaters
    /\ exe \in 1..MaxReleases
    /\ BeginFetch(p)
    /\ me' = [me EXCEPT ![p] = exe]
    /\ UNCHANGED <<platform, exe, old, staged>>

Fetch(p) == FetchStep(p) /\ UNCHANGED updateVars

UseManifest(p) ==
    /\ pc[p] = "use"
    /\ \/ p \notin Updaters /\ Return(p)
       \/ p \in Updaters /\ Goto(p, "compare") /\ UNCHANGED <<held, age, me>>
    /\ UNCHANGED <<server, cache, now, file, crashes, platform, exe, old, staged>>

target(p) == latest_release(held[p])

\* Mutant: any release other than the running one is an update.
MutCompareVersions(p) ==
    /\ pc[p] = "compare"
    /\ \/ me[p] = target(p) /\ Return(p)
       \/ me[p] # target(p) /\ Goto(p, "download") /\ UNCHANGED <<held, age, me>>
    /\ UNCHANGED <<server, cache, now, file, crashes, platform, exe, old, staged>>

\* Up to date, or no infs artifact for the platform; otherwise go on.
CompareVersions(p) ==
    /\ pc[p] = "compare"
    /\ \/ Return(p)
       \/ me[p] < target(p) /\ Goto(p, "download") /\ UNCHANGED <<held, age, me>>
    /\ UNCHANGED <<server, cache, now, file, crashes, platform, exe, old, staged>>

\* download_file and verify_checksum: the verified archive, or an error.
Download(p) ==
    /\ pc[p] = "download"
    /\ \/ Return(p)
       \/ Goto(p, "stage") /\ UNCHANGED <<held, age, me>>
    /\ UNCHANGED <<server, cache, now, file, crashes, platform, exe, old, staged>>

FirstReplaceStep == IF platform = "windows" THEN "rmOld" ELSE "replace"

\* Mutant: a temp directory left by an earlier update is taken as it is.
MutBeginExtract(p) ==
    /\ pc[p] = "stage"
    /\ IF staged[target(p)] = Missing
       THEN /\ staged' = [staged EXCEPT ![target(p)] = Partial]
            /\ Goto(p, "extract")
       ELSE /\ UNCHANGED staged
            /\ Goto(p, FirstReplaceStep)
    /\ UNCHANGED <<server, cache, now, held, age, file, crashes, platform, exe, old, me>>

\* extract_archive overwrites what an earlier update left in the directory.
BeginExtract(p) ==
    /\ pc[p] = "stage"
    /\ staged' = [staged EXCEPT ![target(p)] = Partial]
    /\ Goto(p, "extract")
    /\ UNCHANGED <<server, cache, now, held, age, file, crashes, platform, exe, old, me>>

EndExtract(p) ==
    /\ pc[p] = "extract"
    /\ \/ /\ staged' = [staged EXCEPT ![target(p)] = target(p)]
          /\ Goto(p, FirstReplaceStep)
          /\ UNCHANGED <<held, age, me>>
       \/ Return(p) /\ UNCHANGED staged
    /\ UNCHANGED <<server, cache, now, file, crashes, platform, exe, old>>

\* Unix: rename(2) replaces the running binary in one step, or fails.
Replace(p) ==
    /\ pc[p] = "replace"
    /\ \/ /\ exe' = staged[target(p)]
          /\ staged' = [staged EXCEPT ![target(p)] = Missing]
          /\ Goto(p, "cleanup")
          /\ UNCHANGED <<held, age, me>>
       \/ Return(p) /\ UNCHANGED <<exe, staged>>
    /\ UNCHANGED <<server, cache, now, file, crashes, platform, old>>

\* Windows: the running binary cannot be replaced, only renamed.
RemoveOld(p) ==
    /\ pc[p] = "rmOld"
    /\ old' \in {old, Missing}          \* remove_file(...).ok()
    /\ Goto(p, "moveOut")
    /\ UNCHANGED <<server, cache, now, held, age, file, crashes, platform, exe, staged, me>>

MoveOut(p) ==
    /\ pc[p] = "moveOut"
    /\ \/ /\ old' = exe
          /\ exe' = Missing
          /\ Goto(p, "moveIn")
          /\ UNCHANGED <<held, age, me>>
       \/ Return(p) /\ UNCHANGED <<exe, old>>
    /\ UNCHANGED <<server, cache, now, file, crashes, platform, staged>>

MoveIn(p) ==
    /\ pc[p] = "moveIn"
    /\ \/ /\ exe' = staged[target(p)]
          /\ staged' = [staged EXCEPT ![target(p)] = Missing]
          /\ Goto(p, "cleanup")
       \/ /\ Goto(p, "moveBack")
          /\ UNCHANGED <<exe, staged>>
    /\ UNCHANGED <<server, cache, now, held, age, file, crashes, platform, old, me>>

\* rename(...).ok(), then the error of the second rename is returned.
MoveBack(p) ==
    /\ pc[p] = "moveBack"
    /\ \/ exe' = old /\ old' = Missing
       \/ UNCHANGED <<exe, old>>
    /\ Return(p)
    /\ UNCHANGED <<server, cache, now, file, crashes, platform, staged>>

\* remove_dir_all(...).ok()
Cleanup(p) ==
    /\ pc[p] = "cleanup"
    /\ staged' = [staged EXCEPT ![target(p)] = Missing]
    /\ Return(p)
    /\ UNCHANGED <<server, cache, now, file, crashes, platform, exe, old>>

\* The process is killed; the files stay.
Crash(p) ==
    /\ pc[p] # "idle"
    /\ crashes < MaxCrashes
    /\ crashes' = crashes + 1
    /\ Return(p)
    /\ UNCHANGED <<server, cache, now, file, platform, exe, old, staged>>

Step(p) ==
    \/ Fetch(p) \/ UseManifest(p) \/ CompareVersions(p) \/ Download(p)
    \/ BeginExtract(p) \/ EndExtract(p) \/ Replace(p) \/ RemoveOld(p)
    \/ MoveOut(p) \/ MoveIn(p) \/ MoveBack(p) \/ Cleanup(p)

Environment == (Tick \/ Publish) /\ UNCHANGED updateVars

Next ==
    \/ Environment
    \/ \E p \in Procs : Read(p) \/ BeginUpdate(p) \/ Step(p) \/ Crash(p)

Spec == Init /\ [][Next]_vars

\* Processes run, and requests time out after REQUEST_TIMEOUT_SECS.
FairSpec == Spec /\ \A p \in Procs : WF_vars(Step(p))

-----------------------------------------------------------------------------
\* Every fetch and every update returns: a torn cache file is deleted before
\* the manifest is fetched, never read again and again.
FetchReturns == \A p \in Procs : pc[p] # "idle" ~> pc[p] = "idle"

\* At every instant, killed or failing at any step, a complete binary is in
\* place, or on Windows at least kept as infs.old.exe (replace_binary).
BinarySurvives ==
    \/ exe \in 1..MaxReleases
    \/ platform = "windows" /\ exe = Missing /\ old \in 1..MaxReleases

\* The binary in place or, while there is none, the one kept aside.
Installed == IF exe = Missing THEN old ELSE exe

\* The installed binary never goes back to an earlier release, however old the
\* cached manifest is and whichever step fails (the comparison in
\* execute_update, the renames of replace_binary).
NeverDowngrades == [][Installed' >= Installed]_vars
=============================================================================
